-------------------------------- MODULE Sums --------------------------------
(***************************************************************************)
(* Facts about sums over finite sets.  MapThenSumSet is a recursive        *)
(* function on subsets; Total is the same sum with the summands given by a *)
(* function.  The induction is over subsets: among finite sets there is    *)
(* always a smallest counterexample.                                       *)
(***************************************************************************)
EXTENDS Integers, FiniteSetsExt, FiniteSetTheorems, TLAPS

\* A nonempty set of finite sets has a member of which no proper part is one.
LEMMA SmallestSubset ==
  ASSUME NEW S, IsFiniteSet(S), NEW B, B \subseteq SUBSET S, B # {}
  PROVE  \E T \in B : \A U \in SUBSET T : U # T => U \notin B
<1>1. IsWellFoundedOn(StrictSubsetOrdering(S), SUBSET S)
  BY FS_StrictSubsetOrderingWellFounded, FS_FiniteSubsetsOfFinite
<1>2. PICK T \in B : \A U \in B : ~(<<U, T>> \in StrictSubsetOrdering(S))
  BY <1>1, WFMin
<1>3. \A U \in SUBSET T : U # T => U \notin B
  <2> SUFFICES ASSUME NEW U \in SUBSET T, U # T, U \in B PROVE FALSE
    OBVIOUS
  <2>1. <<U, T>> \in StrictSubsetOrdering(S)
    BY <1>2 DEF StrictSubsetOrdering
  <2> QED BY <2>1, <1>2
<1> QED BY <1>2, <1>3

Member(s) == CHOOSE x \in s : TRUE
Without(s) == s \ {Member(s)}

LEMMA MemberIn == \A s : s # {} => Member(s) \in s /\ Without(s) \subseteq s /\ Without(s) # s
BY DEF Member, Without

\* F is the recursive function that adds up w over the subsets of S
Adds(F, w, S) ==
  F = [s \in SUBSET S |-> IF s = {} THEN 0 ELSE w[Member(s)] + F[Without(s)]]

Total(w, S) == (CHOOSE F : Adds(F, w, S))[S]

LEMMA AddsAt ==
  ASSUME NEW F, NEW w, NEW S, Adds(F, w, S), NEW s \in SUBSET S
  PROVE  F[s] = IF s = {} THEN 0 ELSE w[Member(s)] + F[Without(s)]
<1> DEFINE f == [t \in SUBSET S |-> IF t = {} THEN 0 ELSE w[Member(t)] + F[Without(t)]]
<1>1. F = f
  BY DEF Adds
<1>2. f[s] = IF s = {} THEN 0 ELSE w[Member(s)] + F[Without(s)]
  OBVIOUS
<1> QED BY <1>1, <1>2

\* Where two such functions are defined, they agree.
LEMMA AddsSame ==
  ASSUME NEW S, IsFiniteSet(S), NEW T \in SUBSET S, NEW F, NEW G, NEW v, NEW w,
         Adds(F, v, S), Adds(G, w, T), \A x \in T : v[x] = w[x]
  PROVE  \A U \in SUBSET T : F[U] = G[U]
<1> DEFINE B == {U \in SUBSET T : F[U] # G[U]}
<1> SUFFICES ASSUME B # {} PROVE FALSE
  OBVIOUS
<1>1. B \subseteq SUBSET S
  OBVIOUS
<1>2. PICK U \in B : \A V \in SUBSET U : V # U => V \notin B
  <2> HIDE DEF B
  <2> QED BY <1>1, SmallestSubset
<1>3. CASE U = {}
  BY <1>2, <1>3, AddsAt
<1>4. CASE U # {}
  <2>1. Member(U) \in U /\ Without(U) \in SUBSET U /\ Without(U) # U
    BY <1>4, MemberIn
  <2>2. F[Without(U)] = G[Without(U)]
    BY <1>2, <2>1
  <2>3. F[U] = v[Member(U)] + F[Without(U)]
    BY <1>4, <1>2, AddsAt
  <2>4. G[U] = w[Member(U)] + G[Without(U)]
    BY <1>4, <1>2, AddsAt
  <2>5. v[Member(U)] = w[Member(U)]
    BY <2>1, <1>2
  <2> QED BY <2>2, <2>3, <2>4, <2>5, <1>2
<1> QED BY <1>3, <1>4

LEMMA AddsExists ==
  ASSUME NEW S, IsFiniteSet(S), NEW w
  PROVE  \E F : Adds(F, w, S)
<1> DEFINE B == {T \in SUBSET S : ~ \E F : Adds(F, w, T)}
<1> SUFFICES ASSUME B # {} PROVE FALSE
  OBVIOUS
<1>1. B \subseteq SUBSET S
  OBVIOUS
<1>2. PICK T \in B : \A U \in SUBSET T : U # T => U \notin B
  <2> HIDE DEF B
  <2> QED BY <1>1, SmallestSubset
<1>3. \A U \in SUBSET T : IsFiniteSet(U)
  BY FS_Subset, <1>1
<1>4. \A U \in SUBSET T : U # T => Adds(CHOOSE F : Adds(F, w, U), w, U)
  BY <1>2
<1> DEFINE G == [s \in SUBSET T |->
                   IF s = {} THEN 0 ELSE w[Member(s)] + Total(w, Without(s))]
<1>5. ASSUME NEW s \in SUBSET T, s # T PROVE G[s] = Total(w, s)
  <2> DEFINE F == CHOOSE f : Adds(f, w, s)
  <2>1. Adds(F, w, s)
    BY <1>4, <1>5
  <2>2. F[s] = Total(w, s)
    BY DEF Total
  <2>3. s \in SUBSET s
    OBVIOUS
  <2> HIDE DEF F
  <2>4. CASE s = {}
    BY <2>1, <2>2, <2>3, <2>4, AddsAt
  <2>5. CASE s # {}
    <3>1. Without(s) \in SUBSET s /\ Without(s) # T /\ Without(s) \in SUBSET T
      BY <2>5, MemberIn, <1>5
    <3> DEFINE H == CHOOSE f : Adds(f, w, Without(s))
    <3>2. Adds(H, w, Without(s))
      BY <1>4, <3>1
    <3>3. H[Without(s)] = Total(w, Without(s))
      BY DEF Total
    <3> HIDE DEF H
    <3>4. F[Without(s)] = H[Without(s)]
      <4>1. Without(s) \in SUBSET Without(s)
        OBVIOUS
      <4>2. \A U \in SUBSET Without(s) : F[U] = H[U]
        <5>1. IsFiniteSet(s) /\ \A x \in Without(s) : w[x] = w[x]
          BY <1>3
        <5>2. Without(s) \in SUBSET s
          BY <3>1
        <5> QED BY ONLY <2>1, <3>2, <5>1, <5>2, AddsSame
      <4> QED BY <4>1, <4>2
    <3>5. F[s] = w[Member(s)] + F[Without(s)]
      BY <2>1, <2>3, <2>5, AddsAt
    <3>6. G[s] = w[Member(s)] + Total(w, Without(s))
      BY <2>5
    <3> QED BY <3>3, <3>4, <3>5, <3>6, <2>2
  <2> QED BY <2>4, <2>5
<1>6. Adds(G, w, T)
  <2>1. \A s \in SUBSET T : s # {} => Without(s) \in SUBSET T /\ Without(s) # T
    BY MemberIn
  <2>2. \A s \in SUBSET T : s # {} => Total(w, Without(s)) = G[Without(s)]
    BY <1>5, <2>1
  <2>3. G = [s \in SUBSET T |-> IF s = {} THEN 0 ELSE w[Member(s)] + G[Without(s)]]
    BY <2>2
  <2> HIDE DEF G
  <2> QED BY <2>3 DEF Adds
<1> QED BY <1>6, <1>2

\* The recursive equation of the sum.
LEMMA TotalAt ==
  ASSUME NEW S, IsFiniteSet(S), NEW w, NEW T \in SUBSET S, NEW F, Adds(F, w, S)
  PROVE  F[T] = Total(w, T)
<1>1. IsFiniteSet(T) /\ T \in SUBSET T
  BY FS_Subset
<1>2. PICK H : Adds(H, w, T) /\ H[T] = Total(w, T)
  BY <1>1, AddsExists DEF Total
<1>3. \A x \in T : w[x] = w[x]
  OBVIOUS
<1>4. \A U \in SUBSET T : F[U] = H[U]
  BY <1>2, <1>3, AddsSame
<1> QED BY <1>1, <1>2, <1>4

LEMMA TotalRecursive ==
  ASSUME NEW S, IsFiniteSet(S), NEW w
  PROVE  Total(w, S) = IF S = {} THEN 0 ELSE w[Member(S)] + Total(w, Without(S))
<1>1. PICK F : Adds(F, w, S)
  BY AddsExists
<1>2. S \in SUBSET S /\ (S # {} => Without(S) \in SUBSET S)
  BY MemberIn
<1>3. F[S] = Total(w, S) /\ (S # {} => F[Without(S)] = Total(w, Without(S)))
  BY <1>1, <1>2, TotalAt
<1>4. F[S] = IF S = {} THEN 0 ELSE w[Member(S)] + F[Without(S)]
  BY <1>1, <1>2, AddsAt
<1> QED BY <1>3, <1>4

LEMMA TotalEmpty == \A w : Total(w, {}) = 0
BY TotalRecursive, FS_EmptySet

LEMMA TotalType ==
  ASSUME NEW S, IsFiniteSet(S), NEW w, \A x \in S : w[x] \in Nat
  PROVE  Total(w, S) \in Nat
<1> DEFINE B == {T \in SUBSET S : Total(w, T) \notin Nat}
<1> SUFFICES ASSUME B # {} PROVE FALSE
  OBVIOUS
<1>1. B \subseteq SUBSET S
  OBVIOUS
<1>2. PICK T \in B : \A U \in SUBSET T : U # T => U \notin B
  <2> HIDE DEF B
  <2> QED BY <1>1, SmallestSubset
<1>3. IsFiniteSet(T)
  BY <1>2, FS_Subset
<1>4. T # {}
  <2>1. Total(w, {}) = 0
    BY TotalEmpty
  <2>2. Total(w, T) \notin Nat
    BY <1>2
  <2> QED BY <2>1, <2>2
<1>5. Member(T) \in T /\ Without(T) \in SUBSET T /\ Without(T) # T
  BY <1>4, MemberIn
<1>6. Total(w, Without(T)) \in Nat /\ w[Member(T)] \in Nat
  BY <1>5, <1>2
<1>7. Total(w, T) = w[Member(T)] + Total(w, Without(T))
  BY <1>3, <1>4, TotalRecursive
<1> QED BY <1>2, <1>6, <1>7

LEMMA TotalSame ==
  ASSUME NEW S, IsFiniteSet(S), NEW v, NEW w, \A x \in S : v[x] = w[x]
  PROVE  Total(v, S) = Total(w, S)
<1>1. PICK F : Adds(F, v, S)
  BY AddsExists
<1>2. PICK G : Adds(G, w, S)
  BY AddsExists
<1>3. S \in SUBSET S
  OBVIOUS
<1>4. \A U \in SUBSET S : F[U] = G[U]
  <2>1. IsFiniteSet(S) /\ \A x \in S : v[x] = w[x]
    OBVIOUS
  <2> QED BY ONLY <1>1, <1>2, <1>3, <2>1, AddsSame
<1> QED BY <1>1, <1>2, <1>3, <1>4, TotalAt

\* Any element may be taken out first.
LEMMA TotalRemove ==
  ASSUME NEW S, IsFiniteSet(S), NEW w, \A x \in S : w[x] \in Nat, NEW e \in S
  PROVE  Total(w, S) = w[e] + Total(w, S \ {e})
<1> DEFINE Wrong(T) == \E x \in T : Total(w, T) # w[x] + Total(w, T \ {x})
           B == {T \in SUBSET S : Wrong(T)}
<1> SUFFICES ASSUME B # {} PROVE FALSE
  <2>1. S \in SUBSET S
    OBVIOUS
  <2> QED BY <2>1
<1>1. B \subseteq SUBSET S
  OBVIOUS
<1>2. PICK T \in B : \A U \in SUBSET T : U # T => U \notin B
  <2> HIDE DEF B
  <2> QED BY <1>1, SmallestSubset
<1>3. PICK x \in T : Total(w, T) # w[x] + Total(w, T \ {x})
  BY <1>2
<1>4. T \in SUBSET S /\ T # {} /\ IsFiniteSet(T)
  BY <1>2, <1>3, FS_Subset
<1> DEFINE a == Member(T)
<1>5. a \in T /\ Without(T) = T \ {a}
  BY <1>4, MemberIn DEF Without
<1> HIDE DEF a
<1>6. Total(w, T) = w[a] + Total(w, T \ {a})
  BY <1>4, <1>5, TotalRecursive DEF a
<1>7. a # x
  BY <1>3, <1>6
<1> DEFINE C == (T \ {a}) \ {x}
<1>8. /\ Total(w, T \ {a}) = w[x] + Total(w, C)
      /\ Total(w, T \ {x}) = w[a] + Total(w, C)
  <2>1. T \ {a} \in SUBSET T /\ T \ {a} # T /\ x \in T \ {a}
    BY <1>5, <1>7, <1>3
  <2>2. T \ {x} \in SUBSET T /\ T \ {x} # T /\ a \in T \ {x}
    BY <1>5, <1>7, <1>3
  <2>3. T \ {a} \notin B /\ T \ {x} \notin B
    BY <1>2, <2>1, <2>2
  <2>4. T \ {a} \in SUBSET S /\ T \ {x} \in SUBSET S
    BY <1>4
  <2>5. (T \ {x}) \ {a} = C
    OBVIOUS
  <2>6. Total(w, T \ {a}) = w[x] + Total(w, (T \ {a}) \ {x})
    BY <2>1, <2>3, <2>4
  <2>7. Total(w, T \ {x}) = w[a] + Total(w, (T \ {x}) \ {a})
    BY <2>2, <2>3, <2>4
  <2> QED BY <2>5, <2>6, <2>7
<1>9. Total(w, C) \in Nat /\ w[a] \in Nat /\ w[x] \in Nat
  <2>1. IsFiniteSet(C) /\ \A y \in C : w[y] \in Nat
    BY <1>4, FS_Subset
  <2> HIDE DEF C
  <2> QED BY <2>1, <1>3, <1>4, <1>5, TotalType
<1> HIDE DEF C
<1> QED BY <1>3, <1>6, <1>8, <1>9

LEMMA TotalAdd ==
  ASSUME NEW S, IsFiniteSet(S), NEW w, NEW e, e \notin S,
         \A x \in S \cup {e} : w[x] \in Nat
  PROVE  Total(w, S \cup {e}) = Total(w, S) + w[e]
<1>1. IsFiniteSet(S \cup {e}) /\ (S \cup {e}) \ {e} = S /\ e \in S \cup {e}
  BY FS_AddElement
<1>2. Total(w, S \cup {e}) = w[e] + Total(w, S)
  BY <1>1, TotalRemove
<1>3. Total(w, S) \in Nat /\ w[e] \in Nat
  BY TotalType
<1> QED BY <1>2, <1>3

LEMMA TotalUnion ==
  ASSUME NEW S, IsFiniteSet(S), NEW R, IsFiniteSet(R), S \cap R = {},
         NEW w, \A x \in S \cup R : w[x] \in Nat
  PROVE  Total(w, S \cup R) = Total(w, S) + Total(w, R)
<1> DEFINE B == {T \in SUBSET R : Total(w, S \cup T) # Total(w, S) + Total(w, T)}
<1>0. Total(w, S) \in Nat
  BY TotalType
<1> SUFFICES ASSUME B # {} PROVE FALSE
  <2>1. R \in SUBSET R
    OBVIOUS
  <2> QED BY <2>1
<1>1. B \subseteq SUBSET R
  OBVIOUS
<1>2. PICK T \in B : \A U \in SUBSET T : U # T => U \notin B
  <2> HIDE DEF B
  <2> QED BY <1>1, SmallestSubset
<1>3. T \in SUBSET R /\ Total(w, S \cup T) # Total(w, S) + Total(w, T)
  BY <1>2
<1>4. T # {}
  <2>1. S \cup {} = S
    OBVIOUS
  <2> QED BY <1>0, <1>3, <2>1, TotalEmpty
<1>5. PICK x \in T : TRUE
  BY <1>4
<1> DEFINE U == T \ {x}
<1>6. U \in SUBSET R /\ U \notin B /\ T = U \cup {x} /\ x \notin U /\ x \notin S
  BY <1>2, <1>3, <1>5
<1>7. IsFiniteSet(U) /\ IsFiniteSet(S \cup U)
  BY <1>6, FS_Subset, FS_Union
<1>8. Total(w, S \cup U) = Total(w, S) + Total(w, U)
  BY <1>6
<1>9. \A y \in S \cup T : w[y] \in Nat
  BY <1>3
<1> HIDE DEF U, B
<1>10. Total(w, T) = Total(w, U) + w[x]
  <2>1. \A y \in U \cup {x} : w[y] \in Nat
    BY <1>6, <1>9
  <2> QED BY <1>6, <1>7, <2>1, TotalAdd
<1>11. Total(w, S \cup T) = Total(w, S \cup U) + w[x]
  <2>1. x \notin S \cup U /\ S \cup T = (S \cup U) \cup {x}
    BY <1>6
  <2>2. \A y \in (S \cup U) \cup {x} : w[y] \in Nat
    BY <1>6, <1>9
  <2>3. Total(w, (S \cup U) \cup {x}) = Total(w, S \cup U) + w[x]
    BY <1>7, <2>1, <2>2, TotalAdd
  <2> QED BY <2>1, <2>3
<1>12. Total(w, U) \in Nat /\ w[x] \in Nat
  BY <1>6, <1>7, <1>9, TotalType
<1> QED BY <1>0, <1>3, <1>8, <1>10, <1>11, <1>12

\* A sum over the images of an injective function.
LEMMA TotalImage ==
  ASSUME NEW S, IsFiniteSet(S), NEW h, NEW v, NEW w,
         \A x, y \in S : h[x] = h[y] => x = y,
         \A x \in S : v[x] \in Nat /\ w[h[x]] = v[x]
  PROVE  /\ IsFiniteSet({h[x] : x \in S})
         /\ Total(w, {h[x] : x \in S}) = Total(v, S)
<1> DEFINE I(T) == {h[x] : x \in T}
           B == {T \in SUBSET S : ~ (IsFiniteSet(I(T)) /\ Total(w, I(T)) = Total(v, T))}
<1> SUFFICES ASSUME B # {} PROVE FALSE
  <2>1. S \in SUBSET S
    OBVIOUS
  <2> QED BY <2>1
<1>1. B \subseteq SUBSET S
  OBVIOUS
<1>2. PICK T \in B : \A U \in SUBSET T : U # T => U \notin B
  <2> HIDE DEF B
  <2> QED BY <1>1, SmallestSubset
<1>3. T \in SUBSET S /\ ~ (IsFiniteSet(I(T)) /\ Total(w, I(T)) = Total(v, T))
  BY <1>2
<1>4. T # {}
  <2>1. I({}) = {}
    OBVIOUS
  <2> HIDE DEF I
  <2> QED BY <1>3, <2>1, TotalEmpty, FS_EmptySet
<1>5. PICK x \in T : TRUE
  BY <1>4
<1> DEFINE U == T \ {x}
<1>6. U \in SUBSET S /\ U \notin B /\ T = U \cup {x} /\ x \notin U /\ x \in S
  BY <1>2, <1>3, <1>5
<1>7. IsFiniteSet(I(U)) /\ Total(w, I(U)) = Total(v, U)
  BY <1>6
<1>8. I(T) = I(U) \cup {h[x]} /\ h[x] \notin I(U)
  BY <1>6
<1>9. \A y \in I(U) \cup {h[x]} : w[y] \in Nat
  BY <1>6
<1>10. IsFiniteSet(U) /\ \A y \in U \cup {x} : v[y] \in Nat
  BY <1>6, FS_Subset
<1> HIDE DEF I, U, B
<1>11. IsFiniteSet(I(T))
  BY <1>7, <1>8, FS_AddElement
<1>12. Total(w, I(T)) = Total(w, I(U)) + w[h[x]]
  <2>1. Total(w, I(U) \cup {h[x]}) = Total(w, I(U)) + w[h[x]]
    BY ONLY <1>7, <1>8, <1>9, TotalAdd
  <2> QED BY <1>8, <2>1
<1>13. Total(v, T) = Total(v, U) + v[x]
  <2>1. Total(v, U \cup {x}) = Total(v, U) + v[x]
    BY ONLY <1>6, <1>10, TotalAdd
  <2> QED BY <1>6, <2>1
<1> QED BY <1>3, <1>6, <1>7, <1>11, <1>12, <1>13

\* One summand grows.
LEMMA TotalMore ==
  ASSUME NEW S, IsFiniteSet(S), NEW v, NEW w, NEW e \in S, NEW a \in Nat,
         \A x \in S : v[x] \in Nat,
         w[e] = v[e] + a, \A x \in S : x # e => w[x] = v[x]
  PROVE  Total(w, S) = Total(v, S) + a
<1>1. \A x \in S : w[x] \in Nat
  <2> SUFFICES ASSUME NEW x \in S PROVE w[x] \in Nat
    OBVIOUS
  <2>1. v[x] \in Nat /\ v[e] \in Nat
    OBVIOUS
  <2>2. CASE x = e
    BY <2>1, <2>2
  <2>3. CASE x # e
    BY <2>1, <2>3
  <2> QED BY <2>2, <2>3
<1>2. Total(v, S) = v[e] + Total(v, S \ {e})
  BY TotalRemove
<1>3. Total(w, S) = w[e] + Total(w, S \ {e})
  BY <1>1, TotalRemove
<1>4. IsFiniteSet(S \ {e})
  BY FS_RemoveElement
<1>5. Total(v, S \ {e}) = Total(w, S \ {e})
  <2>1. \A x \in S \ {e} : v[x] = w[x]
    OBVIOUS
  <2> QED BY <1>4, <2>1, TotalSame
<1>6. Total(v, S \ {e}) \in Nat /\ v[e] \in Nat
  <2>1. \A x \in S \ {e} : v[x] \in Nat
    OBVIOUS
  <2>2. Total(v, S \ {e}) \in Nat
    BY <1>4, <2>1, TotalType
  <2> QED BY <2>2
<1> QED BY ONLY <1>2, <1>3, <1>5, <1>6, w[e] = v[e] + a, a \in Nat

\* A sum is at least each of its summands.
LEMMA TotalAtLeast ==
  ASSUME NEW S, IsFiniteSet(S), NEW w, \A x \in S : w[x] \in Nat, NEW e \in S
  PROVE  w[e] <= Total(w, S)
<1>1. Total(w, S) = w[e] + Total(w, S \ {e})
  BY TotalRemove
<1>2. IsFiniteSet(S \ {e}) /\ \A x \in S \ {e} : w[x] \in Nat
  BY FS_RemoveElement
<1>3. Total(w, S \ {e}) \in Nat /\ w[e] \in Nat
  BY <1>2, TotalType
<1> QED BY ONLY <1>1, <1>3

\* A sum of zeros.
LEMMA TotalZero ==
  ASSUME NEW S, IsFiniteSet(S), NEW w, \A x \in S : w[x] = 0
  PROVE  Total(w, S) = 0
<1> DEFINE B == {T \in SUBSET S : Total(w, T) # 0}
<1> SUFFICES ASSUME B # {} PROVE FALSE
  <2>1. S \in SUBSET S
    OBVIOUS
  <2> QED BY <2>1
<1>1. B \subseteq SUBSET S
  OBVIOUS
<1>2. PICK T \in B : \A U \in SUBSET T : U # T => U \notin B
  <2> HIDE DEF B
  <2> QED BY <1>1, SmallestSubset
<1>3. T \in SUBSET S /\ Total(w, T) # 0 /\ IsFiniteSet(T)
  BY <1>2, FS_Subset
<1>4. T # {}
  BY <1>3, TotalEmpty
<1>5. Member(T) \in T /\ Without(T) \in SUBSET T /\ Without(T) # T
  BY <1>4, MemberIn
<1>6. Total(w, Without(T)) = 0 /\ w[Member(T)] = 0
  BY <1>2, <1>3, <1>5
<1>7. Total(w, T) = w[Member(T)] + Total(w, Without(T))
  BY <1>3, <1>4, TotalRecursive
<1> QED BY ONLY <1>3, <1>6, <1>7

=============================================================================
