-------------------------- MODULE AllocatorProofs ---------------------------
(***************************************************************************)
(* Proofs about NpuAllocator, for devices, streams and requests of every   *)
(* size.  How blocks lie in memory is stated of any four sets of segments  *)
(* and blocks, so that each way in which the methods move blocks between   *)
(* the sets is a lemma about intervals.                                    *)
(***************************************************************************)
EXTENDS NpuAllocator, Sums

Spans(S) == \A b \in S : b.ptr \in Nat /\ b.size \in Nat \ {0}

\* Disjoint, of the segments D and the active, pending and cached blocks A, P and C.
Layout(D, A, P, C) ==
  /\ AllApart(D) /\ AllApart(A) /\ AllApart(P) /\ AllApart(C)
  /\ \A a \in A, b \in P \cup C : Apart(a, b)
  /\ \A a \in P, b \in C : Apart(a, b)
  /\ \A b \in A \cup P \cup C : \E g \in D : Within(b, g)

\* every segment is there for some block
Used(D, A, P, C) == \A g \in D : \E b \in A \cup P \cup C : Within(b, g)

\* Blocks taken from the pending ones are apart in the cache too.
LEMMA Moves ==
  ASSUME NEW D, NEW A, NEW P, NEW C, NEW R, R \subseteq P,
         Layout(D, A, P, C), Used(D, A, P, C)
  PROVE  LET C2 == C \cup {Cached(b) : b \in R}
         IN  Layout(D, A, P \ R, C2) /\ Used(D, A, P \ R, C2)
<1> DEFINE C2 == C \cup {Cached(b) : b \in R}
<1>1. \A c \in C2 : c \in C \/ \E b \in R : c = Cached(b)
  OBVIOUS
<1>2. \A b \in R : Cached(b).ptr = b.ptr /\ Cached(b).size = b.size
  BY DEF Cached
<1>3. AllApart(C2)
  <2> SUFFICES ASSUME NEW x \in C2, NEW y \in C2, x # y PROVE Apart(x, y)
    BY DEF AllApart
  <2>1. CASE x \in C /\ y \in C
    BY <2>1 DEF Layout, AllApart
  <2>2. CASE x \in C /\ y \notin C
    BY <2>2, <1>1, <1>2 DEF Layout, Apart
  <2>3. CASE x \notin C /\ y \in C
    BY <2>3, <1>1, <1>2 DEF Layout, Apart
  <2>4. CASE x \notin C /\ y \notin C
    <3>1. PICK b \in R : x = Cached(b)
      BY <2>4, <1>1
    <3>2. PICK c \in R : y = Cached(c)
      BY <2>4, <1>1
    <3>3. Apart(b, c)
      BY <3>1, <3>2 DEF Layout, AllApart
    <3> QED
      BY <3>1, <3>2, <3>3, <1>2 DEF Apart
  <2> QED
    BY <2>1, <2>2, <2>3, <2>4
<1>4. \A a \in A, b \in (P \ R) \cup C2 : Apart(a, b)
  BY <1>1, <1>2 DEF Layout, Apart
<1>5. \A a \in P \ R, b \in C2 : Apart(a, b)
  BY <1>1, <1>2 DEF Layout, AllApart, Apart
<1>6. \A b \in A \cup (P \ R) \cup C2 : \E g \in D : Within(b, g)
  BY <1>1, <1>2 DEF Layout, Within
<1>7. Used(D, A, P \ R, C2)
  <2> SUFFICES ASSUME NEW g \in D PROVE \E b \in A \cup (P \ R) \cup C2 : Within(b, g)
    BY DEF Used
  <2>1. PICK b \in A \cup P \cup C : Within(b, g)
    BY DEF Used
  <2>2. CASE b \in R
    <3>1. Cached(b) \in C2 /\ Within(Cached(b), g)
      BY <2>1, <2>2, <1>2 DEF Within
    <3> QED
      BY <3>1
  <2>3. CASE b \notin R
    BY <2>1, <2>3
  <2> QED
    BY <2>2, <2>3
<1>8. AllApart(P \ R)
  BY DEF Layout, AllApart
<1> QED
  BY <1>3, <1>4, <1>5, <1>6, <1>7, <1>8 DEF Layout

\* The blocks of S as they are parked, block b with the event of stream t[b].
AllFreed(S, t) == {Freed(b, t[b]) : b \in S}

\* Active blocks that are freed become pending ones.
LEMMA Frees ==
  ASSUME NEW D, NEW A, NEW P, NEW C, NEW G, NEW t, G \subseteq A,
         Layout(D, A, P, C), Used(D, A, P, C)
  PROVE  LET P2 == P \cup AllFreed(G, t)
         IN  Layout(D, A \ G, P2, C) /\ Used(D, A \ G, P2, C)
<1> DEFINE P2 == P \cup AllFreed(G, t)
<1>1. \A p \in P2 : p \in P \/ \E b \in G : p = Freed(b, t[b])
  BY DEF AllFreed
<1>2. \A b \in G : Freed(b, t[b]).ptr = b.ptr /\ Freed(b, t[b]).size = b.size
  BY DEF Freed
<1>3. AllApart(P2)
  <2> SUFFICES ASSUME NEW x \in P2, NEW y \in P2, x # y PROVE Apart(x, y)
    BY DEF AllApart
  <2>1. CASE x \in P /\ y \in P
    BY <2>1 DEF Layout, AllApart
  <2>2. CASE x \in P /\ y \notin P
    BY <2>2, <1>1, <1>2 DEF Layout, Apart
  <2>3. CASE x \notin P /\ y \in P
    BY <2>3, <1>1, <1>2 DEF Layout, Apart
  <2>4. CASE x \notin P /\ y \notin P
    <3>1. PICK b \in G : x = Freed(b, t[b])
      BY <2>4, <1>1
    <3>2. PICK c \in G : y = Freed(c, t[c])
      BY <2>4, <1>1
    <3>3. Apart(b, c)
      BY <3>1, <3>2 DEF Layout, AllApart
    <3> QED
      BY <3>1, <3>2, <3>3, <1>2 DEF Apart
  <2> QED
    BY <2>1, <2>2, <2>3, <2>4
<1>4. \A a \in A \ G, b \in P2 \cup C : Apart(a, b)
  BY <1>1, <1>2 DEF Layout, AllApart, Apart
<1>5. \A a \in P2, b \in C : Apart(a, b)
  BY <1>1, <1>2 DEF Layout, Apart
<1>6. \A b \in (A \ G) \cup P2 \cup C : \E g \in D : Within(b, g)
  BY <1>1, <1>2 DEF Layout, Within
<1>7. Used(D, A \ G, P2, C)
  <2> SUFFICES ASSUME NEW g \in D PROVE \E b \in (A \ G) \cup P2 \cup C : Within(b, g)
    BY DEF Used
  <2>1. PICK b \in A \cup P \cup C : Within(b, g)
    BY DEF Used
  <2>2. CASE b \in G
    <3>1. Freed(b, t[b]) \in P2 /\ Within(Freed(b, t[b]), g)
      BY <2>1, <2>2, <1>2 DEF Within, AllFreed
    <3> QED
      BY <3>1
  <2>3. CASE b \notin G
    BY <2>1, <2>3
  <2> QED
    BY <2>2, <2>3
<1>8. AllApart(A \ G)
  BY DEF Layout, AllApart
<1> QED
  BY <1>3, <1>4, <1>5, <1>6, <1>7, <1>8 DEF Layout

\* Blocks that are whole segments go back to the device, and no other block was in them.
LEMMA GivesBack ==
  ASSUME NEW D, NEW A, NEW P, NEW C, NEW W, W \subseteq P \cup C,
         Spans(D), Spans(A), Spans(P), Spans(C),
         \A b \in W : Segment(b) \in D,
         Layout(D, A, P, C), Used(D, A, P, C)
  PROVE  LET D2 == D \ {Segment(b) : b \in W}
         IN  Layout(D2, A, P \ W, C \ W) /\ Used(D2, A, P \ W, C \ W)
<1> DEFINE D2 == D \ {Segment(b) : b \in W}
<1>1. \A b \in W : Segment(b).ptr = b.ptr /\ Segment(b).size = b.size
  BY DEF Segment
<1>2. \A b \in A \cup (P \ W) \cup (C \ W) : \E g \in D2 : Within(b, g)
  <2> SUFFICES ASSUME NEW b \in A \cup (P \ W) \cup (C \ W) PROVE \E g \in D2 : Within(b, g)
    OBVIOUS
  <2>1. PICK g \in D : Within(b, g)
    BY DEF Layout
  <2>2. ASSUME NEW w \in W, g = Segment(w) PROVE FALSE
    <3>1. Within(b, w)
      BY <2>1, <2>2, <1>1 DEF Within
    <3>2. Apart(b, w) \/ Apart(w, b)
      BY DEF Layout, AllApart
    <3>3. b.ptr \in Nat /\ b.size \in Nat \ {0} /\ w.ptr \in Nat /\ w.size \in Nat \ {0}
      BY DEF Spans
    <3> QED
      BY <3>1, <3>2, <3>3 DEF Within, Apart
  <2> QED
    BY <2>1, <2>2
<1>3. Used(D2, A, P \ W, C \ W)
  <2> SUFFICES ASSUME NEW g \in D2
               PROVE  \E b \in A \cup (P \ W) \cup (C \ W) : Within(b, g)
    BY DEF Used
  <2>1. PICK b \in A \cup P \cup C : Within(b, g)
    BY DEF Used
  <2>2. ASSUME b \in W PROVE FALSE
    <3>1. Segment(b) \in D /\ g \in D /\ Segment(b) # g
      BY <2>2
    <3>2. Apart(Segment(b), g)
      BY <3>1 DEF Layout, AllApart
    <3>3. Apart(b, g)
      BY <3>2, <2>2, <1>1 DEF Apart
    <3>4. b.ptr \in Nat /\ b.size \in Nat \ {0} /\ g.ptr \in Nat /\ g.size \in Nat \ {0}
      BY DEF Spans
    <3> QED
      BY <2>1, <3>3, <3>4 DEF Within, Apart
  <2> QED
    BY <2>1, <2>2
<1>4. AllApart(D2) /\ AllApart(P \ W) /\ AllApart(C \ W)
  BY DEF Layout, AllApart
<1> QED
  BY <1>2, <1>3, <1>4 DEF Layout

\* R is empty or holds what is left of block c when n is taken from it.
RestOf(R, c, n) ==
  /\ \A r \in R : /\ r.ptr = n.ptr + n.size /\ r.size = c.size - n.size
                 /\ r.size \in Nat \ {0}
  /\ \A r, q \in R : r = q

\* A2 is A with n in the place of the block that was at its address.
Becomes(A, n, A2) == \A a : a \in A2 <=> (a \in A /\ a.ptr # n.ptr) \/ a = n

\* A cached block c becomes the active block n, or n and the cached rest.
LEMMA TakesBlock ==
  ASSUME NEW D, NEW A, NEW P, NEW C, NEW c \in C, NEW n, NEW R,
         Spans(D), Spans(A), Spans(P), Spans(C),
         Layout(D, A, P, C), Used(D, A, P, C),
         n.ptr = c.ptr, n.size \in Nat \ {0}, n.size <= c.size, RestOf(R, c, n),
         NEW A2, Becomes(A, n, A2), NEW C2, C2 = (C \ {c}) \cup R
  PROVE  Layout(D, A2, P, C2) /\ Used(D, A2, P, C2) /\ A \subseteq A2
<1>0. c.ptr \in Nat /\ c.size \in Nat \ {0}
  BY DEF Spans
<1>1. Within(n, c) /\ \A r \in R : Within(r, c) /\ Apart(n, r)
  BY <1>0 DEF Within, Apart, RestOf
<1>2. \A b \in A \cup P : Apart(b, c)
  BY DEF Layout
<1>3. \A b \in C \ {c} : Apart(b, c) /\ Apart(c, b)
  BY DEF Layout, AllApart
<1>4. ASSUME NEW b, b.ptr \in Nat, b.size \in Nat \ {0}, Apart(b, c) \/ Apart(c, b)
      PROVE  /\ Apart(b, n) /\ Apart(n, b) /\ b.ptr # n.ptr
             /\ \A r \in R : Apart(b, r) /\ Apart(r, b)
  BY <1>4, <1>0 DEF Apart, RestOf
<1>5. \A b \in A : b.ptr \in Nat /\ b.size \in Nat \ {0}
  BY DEF Spans
<1>6. \A b \in P : b.ptr \in Nat /\ b.size \in Nat \ {0}
  BY DEF Spans
<1>7. \A b \in C : b.ptr \in Nat /\ b.size \in Nat \ {0}
  BY DEF Spans
<1>8. \A b \in A : b.ptr # n.ptr /\ Apart(b, n) /\ Apart(n, b)
  BY <1>2, <1>4, <1>5
<1>9. A2 = A \cup {n}
  BY <1>8 DEF Becomes
<1>10. AllApart(A2)
  BY <1>8, <1>9 DEF Layout, AllApart
<1>11. AllApart(C2)
  <2>1. \A b \in C \ {c}, r \in R : Apart(b, r) /\ Apart(r, b)
    BY <1>3, <1>4, <1>7
  <2> QED
    BY <2>1 DEF Layout, AllApart, RestOf
<1>12. \A a \in A2, b \in P \cup C2 : Apart(a, b)
  <2>1. \A b \in P : Apart(n, b)
    BY <1>2, <1>4, <1>6
  <2>2. \A b \in C \ {c} : Apart(n, b)
    BY <1>3, <1>4, <1>7
  <2>3. \A a \in A, r \in R : Apart(a, r)
    BY <1>2, <1>4, <1>5
  <2> QED
    BY <2>1, <2>2, <2>3, <1>1, <1>9 DEF Layout
<1>13. \A a \in P, b \in C2 : Apart(a, b)
  <2>1. \A a \in P, r \in R : Apart(a, r)
    BY <1>2, <1>4, <1>6
  <2> QED
    BY <2>1 DEF Layout
<1>14. ASSUME NEW g \in D, Within(c, g)
       PROVE  Within(n, g) /\ \A r \in R : Within(r, g)
  <2>1. g.ptr \in Nat /\ g.size \in Nat \ {0}
    BY DEF Spans
  <2> QED
    BY <1>14, <1>0, <2>1 DEF Within, RestOf
<1>15. \A b \in A2 \cup P \cup C2 : \E g \in D : Within(b, g)
  BY <1>9, <1>14 DEF Layout
<1>16. Used(D, A2, P, C2)
  <2> SUFFICES ASSUME NEW g \in D PROVE \E b \in A2 \cup P \cup C2 : Within(b, g)
    BY DEF Used
  <2>1. PICK b \in A \cup P \cup C : Within(b, g)
    BY DEF Used
  <2>2. CASE b = c
    <3>1. Within(n, g)
      BY <2>1, <2>2, <1>14
    <3>2. n \in A2
      BY <1>9
    <3> QED
      BY <3>1, <3>2
  <2>3. CASE b # c
    BY <2>1, <2>3, <1>9
  <2> QED
    BY <2>2, <2>3
<1> QED
  BY <1>9, <1>10, <1>11, <1>12, <1>13, <1>15, <1>16 DEF Layout

\* A new segment becomes the active block n.
LEMMA TakesSegment ==
  ASSUME NEW D, NEW A, NEW P, NEW C, NEW g, NEW n,
         Spans(D), Spans(A), Spans(P), Spans(C),
         Layout(D, A, P, C), Used(D, A, P, C),
         g.ptr \in Nat, g.size \in Nat \ {0}, n.ptr = g.ptr, n.size = g.size,
         \A d \in D : Apart(g, d),
         NEW A2, Becomes(A, n, A2), NEW D2, D2 = D \cup {g}
  PROVE  Layout(D2, A2, P, C) /\ Used(D2, A2, P, C) /\ A \subseteq A2
<1>1. \A d \in D : d.ptr \in Nat /\ d.size \in Nat \ {0} /\ Apart(g, d) /\ Apart(d, g)
  BY DEF Spans, Apart
<1>2. \A b \in A \cup P \cup C : b.ptr \in Nat /\ b.size \in Nat \ {0}
  BY DEF Spans
<1>3. \A b \in A \cup P \cup C : Apart(b, n) /\ Apart(n, b) /\ b.ptr # n.ptr
  <2> SUFFICES ASSUME NEW b \in A \cup P \cup C
               PROVE  Apart(b, n) /\ Apart(n, b) /\ b.ptr # n.ptr
    OBVIOUS
  <2>1. PICK d \in D : Within(b, d)
    BY DEF Layout
  <2> QED
    BY <2>1, <1>1, <1>2 DEF Within, Apart
<1>4. A2 = A \cup {n}
  BY <1>3 DEF Becomes
<1>5. AllApart(A2)
  BY <1>3, <1>4 DEF Layout, AllApart
<1>6. AllApart(D2)
  BY <1>1 DEF Layout, AllApart
<1>7. \A a \in A2, b \in P \cup C : Apart(a, b)
  BY <1>3, <1>4 DEF Layout
<1>8. Within(n, g)
  BY DEF Within
<1>9. \A b \in A2 \cup P \cup C : \E d \in D2 : Within(b, d)
  BY <1>4, <1>8 DEF Layout
<1>10. Used(D2, A2, P, C)
  BY <1>4, <1>8 DEF Used
<1> QED
  BY <1>4, <1>5, <1>6, <1>7, <1>9, <1>10 DEF Layout

-----------------------------------------------------------------------------
(* Bytes                                                                   *)

\* The recursive function under Bytes is one that Adds.
LEMMA BytesTotal ==
  ASSUME NEW S, IsFiniteSet(S), NEW w, \A b \in S : w[b] = b.size
  PROVE  Bytes(S) = Total(w, S)
<1> DEFINE Is(f) == f = [s \in SUBSET S |-> IF s = {} THEN 0
                          ELSE (CHOOSE x \in s : TRUE).size + f[s \ {CHOOSE x \in s : TRUE}]]
<1>1. Bytes(S) = (CHOOSE f : Is(f))[S]
  BY DEF Bytes, MapThenSumSet, MapThenFoldSet
<1>2. ASSUME NEW f PROVE Is(f) <=> Adds(f, w, S)
  <2>1. \A s \in SUBSET S : s # {} => (CHOOSE x \in s : TRUE).size = w[Member(s)]
    BY MemberIn DEF Member
  <2>2. [s \in SUBSET S |-> IF s = {} THEN 0
            ELSE (CHOOSE x \in s : TRUE).size + f[s \ {CHOOSE x \in s : TRUE}]]
        = [s \in SUBSET S |-> IF s = {} THEN 0 ELSE w[Member(s)] + f[Without(s)]]
    BY <2>1 DEF Member, Without
  <2> QED BY <2>2 DEF Adds
<1> HIDE DEF Is
<1>3. Adds(CHOOSE f : Is(f), w, S)
  BY <1>2, AddsExists
<1>4. S \in SUBSET S
  OBVIOUS
<1> QED BY <1>1, <1>3, <1>4, TotalAt

Heap(S) == IsFiniteSet(S) /\ Spans(S)

LEMMA BytesEmpty == Heap({}) /\ Bytes({}) = 0
<1>1. \A b \in {} : [c \in {} |-> 0][b] = b.size
  OBVIOUS
<1> QED BY <1>1, BytesTotal, TotalEmpty, FS_EmptySet DEF Heap, Spans

LEMMA BytesType ==
  ASSUME NEW S, Heap(S)
  PROVE  Bytes(S) \in Nat
<1> DEFINE w == [b \in S |-> b.size]
<1>1. \A b \in S : w[b] = b.size /\ w[b] \in Nat
  BY DEF Heap, Spans
<1> HIDE DEF w
<1> QED BY <1>1, BytesTotal, TotalType DEF Heap

\* Two sets without a common block.
LEMMA BytesUnion ==
  ASSUME NEW S, NEW R, Heap(S), Heap(R), S \cap R = {}
  PROVE  Heap(S \cup R) /\ Bytes(S \cup R) = Bytes(S) + Bytes(R)
<1> DEFINE w == [b \in S \cup R |-> b.size]
<1>1. Heap(S \cup R)
  BY FS_Union DEF Heap, Spans
<1>2. \A b \in S \cup R : w[b] = b.size /\ w[b] \in Nat
  BY DEF Heap, Spans
<1> HIDE DEF w
<1>3. Bytes(S \cup R) = Total(w, S \cup R) /\ Bytes(S) = Total(w, S) /\ Bytes(R) = Total(w, R)
  BY <1>1, <1>2, BytesTotal DEF Heap
<1>4. Total(w, S \cup R) = Total(w, S) + Total(w, R)
  BY <1>2, TotalUnion DEF Heap
<1> QED BY <1>1, <1>3, <1>4

\* A part of a set, and what is left.
LEMMA BytesPart ==
  ASSUME NEW S, Heap(S), NEW R, R \subseteq S
  PROVE  /\ Heap(R) /\ Heap(S \ R)
         /\ Bytes(R) \in Nat /\ Bytes(S \ R) \in Nat
         /\ Bytes(S) = Bytes(S \ R) + Bytes(R)
<1>1. Heap(R) /\ Heap(S \ R)
  BY FS_Subset DEF Heap, Spans
<1>2. (S \ R) \cap R = {} /\ (S \ R) \cup R = S
  OBVIOUS
<1> QED BY <1>1, <1>2, BytesUnion, BytesType

LEMMA BytesOne ==
  ASSUME NEW b, b.ptr \in Nat, b.size \in Nat \ {0}
  PROVE  Heap({b}) /\ Bytes({b}) = b.size
<1> DEFINE w == [c \in {b} |-> c.size]
<1>1. Heap({b})
  BY FS_Singleton DEF Heap, Spans
<1>2. \A c \in {b} : w[c] = c.size /\ w[c] \in Nat
  OBVIOUS
<1>3. b \in {b} /\ {b} \ {b} = {} /\ w[b] = b.size
  OBVIOUS
<1> HIDE DEF w
<1>4. Bytes({b}) = Total(w, {b})
  BY <1>1, <1>2, BytesTotal DEF Heap
<1>5. Total(w, {b}) = w[b] + Total(w, {b} \ {b})
  BY <1>1, <1>2, <1>3, TotalRemove DEF Heap
<1> QED BY <1>1, <1>3, <1>4, <1>5, TotalEmpty

Named(h, S) == {h[b] : b \in S}

\* The same places under other names weigh the same.
LEMMA BytesImage ==
  ASSUME NEW S, Heap(S), AllApart(S), NEW h,
         \A b \in S : h[b].ptr = b.ptr /\ h[b].size = b.size
  PROVE  Heap(Named(h, S)) /\ Bytes(Named(h, S)) = Bytes(S)
<1> DEFINE I == {h[b] : b \in S}
           v == [b \in S |-> b.size]
           w == [c \in I |-> c.size]
<1>1. ASSUME NEW b \in S, NEW c \in S, h[b] = h[c] PROVE b = c
  <2>1. ~Apart(b, c)
    BY <1>1 DEF Heap, Spans, Apart
  <2> QED BY <2>1 DEF AllApart
<1>2. \A b \in S : v[b] = b.size /\ v[b] \in Nat /\ w[h[b]] = v[b]
  BY DEF Heap, Spans
<1>3. \A c \in I : w[c] = c.size
  OBVIOUS
<1>4. Spans(I)
  BY DEF Heap, Spans
<1> HIDE DEF v, w
<1>5. IsFiniteSet(I) /\ Total(w, I) = Total(v, S)
  BY <1>1, <1>2, TotalImage DEF Heap
<1> HIDE DEF I
<1> QED
  <2>1. Heap(I)
    BY <1>4, <1>5 DEF Heap
  <2>2. Bytes(I) = Total(w, I) /\ Bytes(S) = Total(v, S)
    BY <1>2, <1>3, <1>5, BytesTotal DEF Heap
  <2>3. Heap(I) /\ Bytes(I) = Bytes(S)
    BY <1>5, <2>1, <2>2
  <2> QED BY <2>3 DEF I, Named

\* No block of S overlaps one of T.
Beside(S, T) == \A a \in S, b \in T : Apart(a, b)

\* The blocks R may move from S to T; and they did, as the blocks I.
Movable(S, R, T) ==
  Heap(S) /\ Heap(T) /\ R \subseteq S /\ AllApart(S) /\ Beside(S, T)
Moved(S, R, T, I) ==
  /\ Heap(S \ R) /\ Heap(T \cup I)
  /\ Bytes(R) \in Nat /\ Bytes(S \ R) = Bytes(S) - Bytes(R)
  /\ Bytes(T \cup I) = Bytes(T) + Bytes(R)

\* The blocks of S as they are cached.
AllCached(S) == {Cached(b) : b \in S}

\* The blocks R of S move to T as cached blocks, their stream given up, and no
\* byte is counted twice: the images keep their places, where T has no block.
LEMMA BytesCached ==
  ASSUME NEW S, NEW R, NEW T, Movable(S, R, T)
  PROVE  Moved(S, R, T, AllCached(R))
<1> USE DEF Movable
<1> DEFINE h == [b \in R |-> Cached(b)]
           I == Named(h, R)
<1>1. \A b \in R : h[b].ptr = b.ptr /\ h[b].size = b.size
  BY DEF Cached
<1>2. I = AllCached(R)
  BY DEF Named, AllCached
<1>3. /\ Heap(R) /\ Heap(S \ R) /\ Bytes(R) \in Nat /\ Bytes(S \ R) \in Nat
      /\ Bytes(S) = Bytes(S \ R) + Bytes(R)
  BY BytesPart
<1>4. AllApart(R)
  BY DEF AllApart
<1>5. Heap(I) /\ Bytes(I) = Bytes(R)
  <2> HIDE DEF h
  <2> QED BY <1>1, <1>3, <1>4, BytesImage
<1>6. T \cap I = {}
  <2> HIDE DEF h
  <2>1. ASSUME NEW b \in R, h[b] \in T PROVE FALSE
    <3>1. Apart(b, h[b])
      BY <2>1 DEF Beside
    <3>2. h[b].ptr = b.ptr /\ h[b].size = b.size /\ b.ptr \in Nat /\ b.size \in Nat \ {0}
      BY <1>1, <1>3 DEF Heap, Spans
    <3> QED BY <3>1, <3>2 DEF Apart
  <2> QED BY <2>1 DEF Named
<1> HIDE DEF h, I
<1>7. Heap(T \cup I) /\ Bytes(T \cup I) = Bytes(T) + Bytes(I)
  BY <1>5, <1>6, BytesUnion
<1> QED BY <1>2, <1>3, <1>5, <1>7 DEF Moved

\* The same for blocks that a free puts among the pending ones.
LEMMA BytesFreed ==
  ASSUME NEW S, NEW R, NEW T, NEW t, Movable(S, R, T)
  PROVE  Moved(S, R, T, AllFreed(R, t))
<1> USE DEF Movable
<1> DEFINE h == [b \in R |-> Freed(b, t[b])]
           I == Named(h, R)
<1>1. \A b \in R : h[b].ptr = b.ptr /\ h[b].size = b.size
  BY DEF Freed
<1>2. I = AllFreed(R, t)
  BY DEF Named, AllFreed
<1>3. /\ Heap(R) /\ Heap(S \ R) /\ Bytes(R) \in Nat /\ Bytes(S \ R) \in Nat
      /\ Bytes(S) = Bytes(S \ R) + Bytes(R)
  BY BytesPart
<1>4. AllApart(R)
  BY DEF AllApart
<1>5. Heap(I) /\ Bytes(I) = Bytes(R)
  <2> HIDE DEF h
  <2> QED BY <1>1, <1>3, <1>4, BytesImage
<1>6. T \cap I = {}
  <2> HIDE DEF h
  <2>1. ASSUME NEW b \in R, h[b] \in T PROVE FALSE
    <3>1. Apart(b, h[b])
      BY <2>1 DEF Beside
    <3>2. h[b].ptr = b.ptr /\ h[b].size = b.size /\ b.ptr \in Nat /\ b.size \in Nat \ {0}
      BY <1>1, <1>3 DEF Heap, Spans
    <3> QED BY <3>1, <3>2 DEF Apart
  <2> QED BY <2>1 DEF Named
<1> HIDE DEF h, I
<1>7. Heap(T \cup I) /\ Bytes(T \cup I) = Bytes(T) + Bytes(I)
  BY <1>5, <1>6, BytesUnion
<1> QED BY <1>2, <1>3, <1>5, <1>7 DEF Moved

\* The segments of the blocks W leave the device.
LEMMA BytesGivesBack ==
  ASSUME NEW D, NEW W, Heap(D), Heap(W), AllApart(W), \A b \in W : Segment(b) \in D
  PROVE  /\ Heap(D \ {Segment(b) : b \in W})
         /\ Bytes(D \ {Segment(b) : b \in W}) = Bytes(D) - Bytes(W)
<1> DEFINE h == [b \in W |-> Segment(b)]
           I == Named(h, W)
<1>1. \A b \in W : h[b].ptr = b.ptr /\ h[b].size = b.size
  BY DEF Segment
<1>2. I = {Segment(b) : b \in W} /\ I \subseteq D
  BY DEF Named
<1>3. Bytes(I) = Bytes(W)
  <2> HIDE DEF h
  <2> QED BY <1>1, BytesImage
<1> HIDE DEF I
<1>4. Heap(D \ I) /\ Bytes(D) = Bytes(D \ I) + Bytes(I) /\ Bytes(I) \in Nat /\ Bytes(D \ I) \in Nat
  BY <1>2, BytesPart
<1> QED BY <1>2, <1>3, <1>4

\* A block that lies apart from all of S is one more.
LEMMA BytesMore ==
  ASSUME NEW S, Heap(S), NEW n, n.ptr \in Nat, n.size \in Nat \ {0},
         n \notin S
  PROVE  Heap(S \cup {n}) /\ Bytes(S \cup {n}) = Bytes(S) + n.size
<1>1. Heap({n}) /\ Bytes({n}) = n.size
  BY BytesOne
<1>2. S \cap {n} = {}
  OBVIOUS
<1> QED BY <1>1, <1>2, BytesUnion

-----------------------------------------------------------------------------
(* The inductive invariant                                                 *)

BlockTypes ==
  /\ device \subseteq Segments /\ active \subseteq ActiveBlocks
  /\ pending \subseteq PendingBlocks /\ cached \subseteq CachedBlocks
  /\ want \subseteq [size : Requests, stream : Streams]
  /\ kernels \subseteq Kernels /\ exposed \subseteq kernels
  /\ launched \in [Streams -> Nat] /\ done \in [Streams -> Nat]

Laid == Layout(device, active, pending, cached) /\ Used(device, active, pending, cached)

\* The memory of kernel k belongs to an active block or to one whose event was recorded
\* after k on k's stream.
Held(k) == \/ \E a \in active : Within(k, a)
           \/ \E b \in pending : Within(k, b) /\ b.event.stream = k.stream
                                 /\ k.n <= b.event.n
KernelsHeld ==
  \A k \in kernels :
    /\ done[k.stream] < k.n /\ k.n <= launched[k.stream]
    /\ k \notin exposed => Held(k)

Counts == \A s \in Streams : done[s] <= launched[s]
OneCall == \A v, w \in want : v = w

AllocInv == BlockTypes /\ Laid /\ KernelsHeld /\ Counts /\ OneCall

LEMMA AllSpan == BlockTypes => Spans(device) /\ Spans(active) /\ Spans(pending) /\ Spans(cached)
BY AllocAssumption DEF BlockTypes, Spans, Segments, ActiveBlocks, PendingBlocks, CachedBlocks, Sizes

LEMMA PendingNotCached == BlockTypes /\ Laid => pending \cap cached = {}
<1> SUFFICES ASSUME BlockTypes, Laid, NEW b \in pending, b \in cached PROVE FALSE
  OBVIOUS
<1>1. Apart(b, b)
  BY DEF Laid, Layout
<1> QED
  BY <1>1, AllSpan DEF Spans, Apart

\* The size taken from a cached block, and what is left of it.
LEMMA Split ==
  ASSUME NEW c \in CachedBlocks, NEW size \in Nat \ {0}, c.size >= size
  PROVE  /\ Taken(c, size) \in Sizes /\ Taken(c, size) <= c.size
         /\ \A r \in Remainder(c, size) :
              /\ r \in CachedBlocks
              /\ r.ptr = c.ptr + Taken(c, size) /\ r.size = c.size - Taken(c, size)
              /\ r.size \in Nat \ {0}
         /\ \A r, q \in Remainder(c, size) : r = q
<1>0. c.ptr \in Nat /\ c.size \in Sizes /\ c.pool \in Pools
  BY DEF CachedBlocks
<1>1. CASE Splits(c, size)
  <2> DEFINE r0 == [ptr |-> c.ptr + size, size |-> c.size - size, pool |-> c.pool]
  <2>1. Taken(c, size) = size /\ Remainder(c, size) = {r0}
    BY <1>1 DEF Taken, Remainder
  <2>2. size \in Sizes /\ c.size - size \in Sizes /\ c.ptr + size \in Nat
    BY <1>0, <1>1, AllocAssumption DEF Splits, Sizes
  <2>3. r0 \in CachedBlocks
    BY <2>2, <1>0 DEF CachedBlocks
  <2> QED
    BY <2>1, <2>2, <2>3, <1>0 DEF Sizes
<1>2. CASE ~Splits(c, size)
  BY <1>0, <1>2, AllocAssumption DEF Taken, Remainder, Sizes
<1> QED
  BY <1>1, <1>2

LEMMA PlaceIs ==
  ASSUME BlockTypes, NEW w \in want, NEW p \in 0 .. DeviceSize
  PROVE  /\ Place(w, p).ptr \in Nat /\ Place(w, p).size \in Nat \ {0}
         /\ New(w, p).ptr = Place(w, p).ptr /\ New(w, p).size = Place(w, p).size
<1>1. w.size \in Nat \ {0}
  BY AllocAssumption DEF BlockTypes
<1>2. p \in Nat
  BY AllocAssumption
<1> QED
  BY <1>1, <1>2 DEF Place, New

-----------------------------------------------------------------------------
(* How the blocks lie                                                      *)

LEMMA DrainLays ==
  ASSUME Laid, NEW R, R \subseteq pending,
         cached' = cached \cup {Cached(b) : b \in R}, pending' = pending \ R,
         UNCHANGED <<device, active>>
  PROVE  Laid'
<1>1. /\ Layout(device, active, pending \ R, cached \cup {Cached(b) : b \in R})
      /\ Used(device, active, pending \ R, cached \cup {Cached(b) : b \in R})
  BY Moves DEF Laid
<1> QED
  BY <1>1 DEF Laid

LEMMA FreeLays ==
  ASSUME Laid, NEW G, NEW t, G \subseteq active,
         pending' = pending \cup AllFreed(G, t), active' = active \ G,
         UNCHANGED <<device, cached>>
  PROVE  Laid'
<1>1. /\ Layout(device, active \ G, pending \cup AllFreed(G, t), cached)
      /\ Used(device, active \ G, pending \cup AllFreed(G, t), cached)
  BY Frees DEF Laid
<1> QED
  BY <1>1 DEF Laid

LEMMA SynchronizeLays ==
  ASSUME Laid, Synchronize
  PROVE  Laid'
<1> DEFINE gone == {b \in active : b.ptr \in deferred}
           t == [b \in gone |-> b.stream]
           none == {}
           C2 == cached \cup {Cached(b) : b \in pending}
<1>1. Layout(device, active, none, C2) /\ Used(device, active, none, C2)
  <2>1. pending \ pending = {}
    OBVIOUS
  <2> QED
    BY <2>1, Moves DEF Laid
<1>2. /\ active' = active \ gone /\ cached' = C2 /\ device' = device
      /\ pending' = none \cup AllFreed(gone, t)
  BY DEF Synchronize, Released, AllFreed
<1>3. gone \subseteq active
  OBVIOUS
<1> HIDE DEF gone, t, none, C2
<1>4. /\ Layout(device, active \ gone, none \cup AllFreed(gone, t), C2)
      /\ Used(device, active \ gone, none \cup AllFreed(gone, t), C2)
  BY <1>1, <1>3, Frees
<1> QED
  BY <1>2, <1>4 DEF Laid

LEMMA ReturnsLays ==
  ASSUME BlockTypes, Laid, NEW W, W \subseteq pending \cup cached, Whole(W),
         cached \subseteq W
  PROVE  LET D == device \ {Segment(b) : b \in W}
         IN  Layout(D, active, pending \ W, {}) /\ Used(D, active, pending \ W, {})
<1>1. cached \ W = {}
  OBVIOUS
<1> QED
  BY <1>1, AllSpan, GivesBack DEF Laid, Whole

LEMMA ReuseLays ==
  ASSUME BlockTypes, Laid, NEW w \in want, NEW c \in cached, Reuse(w, c)
  PROVE  Laid' /\ active \subseteq active'
<1> DEFINE n == [ptr |-> c.ptr, size |-> Taken(c, w.size), pool |-> c.pool,
                 stream |-> w.stream]
           R == Remainder(c, w.size)
<1>1. w.size \in Nat \ {0} /\ c \in CachedBlocks /\ c.size >= w.size
  BY AllocAssumption DEF BlockTypes, Reuse, Fits
<1>2. /\ n.ptr = c.ptr /\ n.size \in Nat \ {0} /\ n.size <= c.size
      /\ RestOf(R, c, n)
  BY <1>1, Split DEF Sizes, RestOf
<1>3. /\ Becomes(active, n, active')
      /\ cached' = (cached \ {c}) \cup R /\ pending' = pending /\ device' = device
  BY DEF Reuse, Returns, Becomes
<1> HIDE DEF n, R
<1>4. /\ Layout(device, active', pending, cached') /\ Used(device, active', pending, cached')
      /\ active \subseteq active'
  <2>1. Spans(device) /\ Spans(active) /\ Spans(pending) /\ Spans(cached)
    BY AllSpan
  <2>2. Layout(device, active, pending, cached) /\ Used(device, active, pending, cached)
    BY DEF Laid
  <2> QED
    BY <1>2, <1>3, <2>1, <2>2, TakesBlock
<1> QED
  BY <1>3, <1>4 DEF Laid

LEMMA FreshLays ==
  ASSUME BlockTypes, Laid, NEW w \in want, NEW p \in 0 .. DeviceSize, Fresh(w, p)
  PROVE  Laid' /\ active \subseteq active'
<1> DEFINE n == New(w, p)
           g == Place(w, p)
<1>1. /\ g.ptr \in Nat /\ g.size \in Nat \ {0} /\ n.ptr = g.ptr /\ n.size = g.size
      /\ \A d \in device : Apart(g, d)
  BY PlaceIs DEF Fresh, Room
<1>2. /\ Becomes(active, n, active')
      /\ device' = device \cup {g} /\ pending' = pending /\ cached' = cached
  BY DEF Fresh, Returns, Becomes
<1> HIDE DEF n, g
<1>3. /\ Layout(device', active', pending, cached) /\ Used(device', active', pending, cached)
      /\ active \subseteq active'
  <2>1. Spans(device) /\ Spans(active) /\ Spans(pending) /\ Spans(cached)
    BY AllSpan
  <2>2. Layout(device, active, pending, cached) /\ Used(device, active, pending, cached)
    BY DEF Laid
  <2> QED
    BY <1>1, <1>2, <2>1, <2>2, TakesSegment
<1> QED
  BY <1>2, <1>3 DEF Laid

\* A block that changes streams stays where it is.
LEMMA RecordLays ==
  ASSUME Laid, NEW b \in active, NEW n, n.ptr = b.ptr, n.size = b.size,
         active' = (active \ {b}) \cup {n}, UNCHANGED <<device, pending, cached>>
  PROVE  Laid'
<1>1. \A x : Apart(n, x) <=> Apart(b, x)
  BY DEF Apart
<1>2. \A x : Apart(x, n) <=> Apart(x, b)
  BY DEF Apart
<1>3. \A x : Within(n, x) <=> Within(b, x)
  BY DEF Within
<1>4. AllApart(active')
  BY <1>1, <1>2 DEF Laid, Layout, AllApart
<1>5. \A a \in active', c \in pending \cup cached : Apart(a, c)
  BY <1>1 DEF Laid, Layout
<1>6. \A c \in active' \cup pending \cup cached : \E g \in device : Within(c, g)
  BY <1>3 DEF Laid, Layout
<1>7. \A g \in device : \E c \in active' \cup pending \cup cached : Within(c, g)
  <2> SUFFICES ASSUME NEW g \in device
               PROVE  \E c \in active' \cup pending \cup cached : Within(c, g)
    OBVIOUS
  <2>1. PICK c \in active \cup pending \cup cached : Within(c, g)
    BY DEF Laid, Used
  <2>2. CASE c = b
    BY <2>1, <2>2, <1>3
  <2>3. CASE c # b
    BY <2>1, <2>3
  <2> QED
    BY <2>2, <2>3
<1> QED
  BY <1>4, <1>5, <1>6, <1>7 DEF Laid, Layout, Used

LEMMA RetryLays ==
  ASSUME BlockTypes, Laid, NEW w \in want, Retry(w)
  PROVE  Laid' /\ active \subseteq active'
<1>1. Layout(Kept, active, {}, {}) /\ Used(Kept, active, {}, {})
  <2>1. pending \ (cached \cup pending) = {}
    OBVIOUS
  <2> QED
    BY <2>1, ReturnsLays DEF Kept, Flush, Retry
<1>2. pending' = {} /\ cached' = {}
  BY DEF Retry, Flush
<1>3. CASE device' = Kept /\ UNCHANGED active
  BY <1>1, <1>2, <1>3 DEF Laid
<1>4. ASSUME NEW p \in 0 .. DeviceSize, Room(Place(w, p), Kept),
             device' = Kept \cup {Place(w, p)}, Returns(New(w, p))
      PROVE  Laid' /\ active \subseteq active'
  <2> DEFINE n == New(w, p)
             g == Place(w, p)
  <2>1. /\ g.ptr \in Nat /\ g.size \in Nat \ {0} /\ n.ptr = g.ptr /\ n.size = g.size
        /\ \A d \in Kept : Apart(g, d)
    BY <1>4, PlaceIs DEF Room
  <2>2. /\ Becomes(active, n, active')
        /\ device' = Kept \cup {g}
    BY <1>4 DEF Returns, Becomes
  <2>3. Spans(Kept) /\ Spans(active) /\ Spans({})
    BY AllSpan DEF Spans, Kept
  <2> HIDE DEF n, g
  <2>4. /\ Layout(device', active', {}, {}) /\ Used(device', active', {}, {})
        /\ active \subseteq active'
    BY <1>1, <2>1, <2>2, <2>3, TakesSegment
  <2> QED
    BY <1>2, <2>2, <2>4 DEF Laid
<1> QED
  BY <1>3, <1>4 DEF Retry, Raises

-----------------------------------------------------------------------------
(* Types                                                                   *)

LEMMA CachedIs == \A b \in PendingBlocks : Cached(b) \in CachedBlocks
BY DEF Cached, PendingBlocks, CachedBlocks

LEMMA FreedIs ==
  BlockTypes => \A b \in active, s \in Streams : Freed(b, s) \in PendingBlocks
<1> SUFFICES ASSUME BlockTypes, NEW b \in active, NEW s \in Streams
             PROVE  Freed(b, s) \in PendingBlocks
  OBVIOUS
<1>1. b.ptr \in Nat /\ b.size \in Sizes /\ b.pool \in Pools
  BY DEF BlockTypes, ActiveBlocks
<1>2. Event(s) \in Marks
  BY DEF BlockTypes, Event, Marks
<1> QED
  BY <1>1, <1>2 DEF Freed, PendingBlocks

LEMMA NewIs ==
  ASSUME BlockTypes, NEW w \in want, NEW p \in 0 .. DeviceSize, NEW given,
         Room(Place(w, p), given)
  PROVE  Place(w, p) \in Segments /\ New(w, p) \in ActiveBlocks
<1>1. w.size \in Nat \ {0} /\ w.stream \in Streams
  BY AllocAssumption DEF BlockTypes
<1>2. p \in Nat /\ p + w.size <= DeviceSize
  BY AllocAssumption DEF Room, Place
<1>3. w.size \in Sizes
  BY <1>1, <1>2, AllocAssumption DEF Sizes
<1>4. PoolForSize(w.size) \in Pools
  BY DEF PoolForSize, Pools
<1> QED
  BY <1>1, <1>2, <1>3, <1>4 DEF Place, New, Segments, ActiveBlocks

LEMMA ReuseTypes ==
  ASSUME BlockTypes, NEW w \in want, NEW c \in cached, Reuse(w, c)
  PROVE  BlockTypes'
<1> DEFINE n == [ptr |-> c.ptr, size |-> Taken(c, w.size), pool |-> c.pool,
                 stream |-> w.stream]
           R == Remainder(c, w.size)
<1>1. /\ w.size \in Nat \ {0} /\ w.stream \in Streams /\ c \in CachedBlocks
      /\ c.size >= w.size
  BY AllocAssumption DEF BlockTypes, Reuse, Fits
<1>2. Taken(c, w.size) \in Sizes /\ \A r \in R : r \in CachedBlocks
  BY <1>1, Split
<1>3. n \in ActiveBlocks
  BY <1>1, <1>2 DEF ActiveBlocks, CachedBlocks
<1>4. active' \subseteq active \cup {n}
  BY DEF Reuse, Returns
<1>5. cached' = (cached \ {c}) \cup R /\ want' = {}
  BY DEF Reuse, Returns
<1>6. UNCHANGED <<device, pending, kernels, launched, done, exposed>>
  BY DEF Reuse, deviceVars
<1> HIDE DEF n, R
<1> QED
  BY <1>2, <1>3, <1>4, <1>5, <1>6 DEF BlockTypes

LEMMA FreshTypes ==
  ASSUME BlockTypes, NEW w \in want, NEW p \in 0 .. DeviceSize, Fresh(w, p)
  PROVE  BlockTypes'
<1>1. Place(w, p) \in Segments /\ New(w, p) \in ActiveBlocks
  BY NewIs DEF Fresh
<1>2. active' \subseteq active \cup {New(w, p)} /\ device' = device \cup {Place(w, p)} /\ want' = {}
  BY DEF Fresh, Returns
<1>3. UNCHANGED <<pending, cached, kernels, launched, done, exposed>>
  BY DEF Fresh, deviceVars
<1> QED
  BY <1>1, <1>2, <1>3 DEF BlockTypes

LEMMA RetryTypes ==
  ASSUME BlockTypes, NEW w \in want, Retry(w)
  PROVE  BlockTypes'
<1>1. kernels' = {} /\ exposed' = {} /\ UNCHANGED launched /\ done' = launched
  BY DEF Retry, Idles
<1>2. cached' = {} /\ pending' = {}
  BY DEF Retry, Flush
<1>3. Kept \subseteq Segments
  BY DEF Kept, BlockTypes
<1>4. device' \subseteq Segments /\ active' \subseteq ActiveBlocks /\ want' = {}
  <2>1. ASSUME NEW p \in 0 .. DeviceSize, Room(Place(w, p), Kept),
               device' = Kept \cup {Place(w, p)}, Returns(New(w, p))
        PROVE  device' \subseteq Segments /\ active' \subseteq ActiveBlocks /\ want' = {}
    <3>1. Place(w, p) \in Segments /\ New(w, p) \in ActiveBlocks
      BY <2>1, NewIs
    <3>2. active' \subseteq active \cup {New(w, p)} /\ want' = {}
      BY <2>1 DEF Returns
    <3> QED
      BY <2>1, <1>3, <3>1, <3>2 DEF BlockTypes
  <2>2. CASE device' = Kept /\ Raises
    BY <2>2, <1>3 DEF Raises, BlockTypes
  <2> QED
    BY <2>1, <2>2 DEF Retry
<1> QED
  BY <1>1, <1>2, <1>4 DEF BlockTypes

LEMMA IdlesTypes ==
  ASSUME BlockTypes, Idles
  PROVE  /\ kernels' \subseteq Kernels /\ exposed' \subseteq kernels'
         /\ launched' \in [Streams -> Nat] /\ done' \in [Streams -> Nat]
BY DEF BlockTypes, Idles

LEMMA SynchronizeTypes ==
  ASSUME BlockTypes, Synchronize
  PROVE  BlockTypes'
<1>1. cached' \subseteq CachedBlocks
  BY CachedIs DEF Synchronize, BlockTypes
<1>2. pending' \subseteq PendingBlocks
  BY FreedIs DEF Synchronize, BlockTypes, ActiveBlocks
<1>3. active' \subseteq active
  BY DEF Synchronize, Released
<1>4. UNCHANGED <<device, want>> /\ Idles
  BY DEF Synchronize, callVars
<1> QED
  BY <1>1, <1>2, <1>3, <1>4, IdlesTypes DEF BlockTypes

LEMMA FreeTypes ==
  ASSUME BlockTypes, NEW b \in active, NEW s \in Streams, Free(b, s)
  PROVE  BlockTypes'
<1>1. pending' = pending \cup {Freed(b, s)} /\ active' \subseteq active
  BY DEF Free, Released
<1>2. Freed(b, s) \in PendingBlocks
  BY FreedIs
<1>3. UNCHANGED <<device, cached, want>>
  BY DEF Free, callVars
<1>4. \/ exposed' \subseteq exposed \cup kernels /\ UNCHANGED <<kernels, launched, done>>
      \/ Idles
  BY DEF Free, Exposes
<1> QED
  BY <1>1, <1>2, <1>3, <1>4, IdlesTypes DEF BlockTypes

LEMMA LaunchTypes ==
  ASSUME BlockTypes, NEW b \in active, NEW s \in Streams, Launch(b, s)
  PROVE  BlockTypes'
<1> DEFINE k == [ptr |-> b.ptr, size |-> b.size, stream |-> s, n |-> launched[s] + 1]
<1>1. k \in Kernels
  BY DEF BlockTypes, ActiveBlocks, Kernels
<1>2. kernels' = kernels \cup {k} /\ launched' = [launched EXCEPT ![s] = @ + 1]
  BY DEF Launch
<1>3. UNCHANGED <<device, active, pending, cached, want, done, exposed>>
  BY DEF Launch, hostVars, callVars
<1> HIDE DEF k
<1> QED
  BY <1>1, <1>2, <1>3 DEF BlockTypes

-----------------------------------------------------------------------------
(* Kernels                                                                 *)

\* A step that keeps the active blocks, and drops from the pending ones only those whose
\* event has completed, leaves every kernel its memory.
LEMMA StillHeld ==
  ASSUME BlockTypes, KernelsHeld, UNCHANGED deviceVars,
         \A a \in active : a \in active',
         \A b \in pending : b \in pending' \/ Complete(b.event)
  PROVE  KernelsHeld'
<1> SUFFICES ASSUME NEW k \in kernels, k \notin exposed PROVE Held(k)'
  BY DEF KernelsHeld, deviceVars
<1>1. CASE \E a \in active : Within(k, a)
  BY <1>1 DEF Held
<1>2. ASSUME NEW b \in pending, Within(k, b), b.event.stream = k.stream, k.n <= b.event.n
      PROVE  Held(k)'
  <2>1. k.n \in Nat /\ b.event.n \in Nat /\ k.stream \in Streams
    BY DEF BlockTypes, Kernels, PendingBlocks, Marks
  <2>2. done[k.stream] \in Nat /\ done[k.stream] < k.n
    BY <2>1 DEF BlockTypes, KernelsHeld
  <2>3. ~Complete(b.event)
    BY <1>2, <2>1, <2>2 DEF Complete
  <2> QED
    BY <1>2, <2>3 DEF Held
<1> QED
  BY <1>1, <1>2 DEF KernelsHeld, Held

LEMMA FinishHolds ==
  ASSUME BlockTypes, KernelsHeld, Counts, NEW s \in Streams, Finish(s)
  PROVE  KernelsHeld' /\ Counts'
<1>1. \A t \in Streams : done[t] \in Nat /\ launched[t] \in Nat
  BY DEF BlockTypes
<1>2. \A t \in Streams : done'[t] = IF t = s THEN done[s] + 1 ELSE done[t]
  BY DEF Finish, BlockTypes
<1>3. launched' = launched /\ active' = active /\ pending' = pending
  BY DEF Finish, hostVars
<1>4. Counts'
  BY <1>1, <1>2, <1>3 DEF Counts, Finish
<1>5. ASSUME NEW k \in kernels'
      PROVE  /\ done'[k.stream] < k.n /\ k.n <= launched'[k.stream]
             /\ k \notin exposed' => Held(k)'
  <2>1. /\ k \in kernels /\ (k.stream # s \/ k.n > done[s] + 1)
        /\ k \notin exposed' => k \notin exposed
    BY DEF Finish
  <2>2. k.stream \in Streams /\ k.n \in Nat
    BY <2>1 DEF BlockTypes, Kernels
  <2> QED
    BY <1>1, <1>2, <1>3, <2>1, <2>2 DEF KernelsHeld, Held
<1> QED
  BY <1>4, <1>5 DEF KernelsHeld

LEMMA IdlesHolds ==
  ASSUME BlockTypes, Idles
  PROVE  KernelsHeld' /\ Counts'
BY DEF Idles, KernelsHeld, Counts, BlockTypes

LEMMA FreeHolds ==
  ASSUME BlockTypes, KernelsHeld, Counts, NEW b \in active, NEW s \in Streams, Free(b, s)
  PROVE  KernelsHeld' /\ Counts'
<1>1. CASE Idles
  BY <1>1, IdlesHolds
<1>2. CASE exposed' = exposed \cup Exposes(b, s) /\ UNCHANGED <<kernels, launched, done>>
  <2>1. ASSUME NEW k \in kernels, k \notin exposed' PROVE Held(k)'
    <3>1. k.stream \in Streams /\ k.n <= launched[k.stream] /\ Held(k)
      BY <1>2, <2>1 DEF BlockTypes, Kernels, KernelsHeld
    <3>2. Freed(b, s) \in pending' /\ \A p \in pending : p \in pending'
      BY DEF Free
    <3>3. \A a \in active : a = b \/ a \in active'
      BY DEF Free, Released
    <3>4. CASE Within(k, b)
      <4>1. k.stream = s
        BY <1>2, <2>1, <3>4 DEF Exposes
      <4>2. Within(k, Freed(b, s))
        BY <3>4 DEF Freed, Within
      <4>3. Freed(b, s).event.stream = k.stream /\ k.n <= Freed(b, s).event.n
        BY <3>1, <4>1 DEF Freed, Event
      <4> QED
        BY <3>2, <4>2, <4>3 DEF Held
    <3> QED
      BY <3>1, <3>2, <3>3, <3>4 DEF Held
  <2> QED
    BY <1>2, <2>1 DEF KernelsHeld, Counts
<1> QED
  BY <1>1, <1>2 DEF Free

LEMMA RecordHolds ==
  ASSUME BlockTypes, KernelsHeld, NEW b \in active, NEW s \in Streams, RecordStream(b, s)
  PROVE  KernelsHeld'
<1> SUFFICES ASSUME NEW k \in kernels, k \notin exposed PROVE Held(k)'
  BY DEF KernelsHeld, RecordStream, deviceVars
<1>1. /\ pending' = pending /\ OnStream(b, s) \in active'
      /\ \A a \in active : a = b \/ a \in active'
  BY DEF RecordStream
<1>2. Within(k, b) => Within(k, OnStream(b, s))
  BY DEF Within, OnStream, BlockTypes, ActiveBlocks
<1> QED
  BY <1>1, <1>2 DEF KernelsHeld, Held

LEMMA LaunchHolds ==
  ASSUME BlockTypes, KernelsHeld, Counts, NEW b \in active, NEW s \in Streams, Launch(b, s)
  PROVE  KernelsHeld' /\ Counts'
<1> DEFINE k0 == [ptr |-> b.ptr, size |-> b.size, stream |-> s, n |-> launched[s] + 1]
<1>1. \A t \in Streams : done[t] \in Nat /\ launched[t] \in Nat /\ done[t] <= launched[t]
  BY DEF BlockTypes, Counts
<1>2. \A t \in Streams : launched'[t] = IF t = s THEN launched[s] + 1 ELSE launched[t]
  BY DEF Launch, BlockTypes
<1>3. /\ done' = done /\ active' = active /\ pending' = pending
      /\ kernels' = kernels \cup {k0}
      /\ exposed' = exposed
  BY DEF Launch, hostVars
<1>4. Counts'
  BY <1>1, <1>2, <1>3 DEF Counts
<1>5. ASSUME NEW k \in kernels
      PROVE  /\ done'[k.stream] < k.n /\ k.n <= launched'[k.stream]
             /\ k \notin exposed' => Held(k)'
  <2>1. k.stream \in Streams /\ k.n \in Nat
    BY DEF BlockTypes, Kernels
  <2> QED
    BY <1>1, <1>2, <1>3, <2>1 DEF KernelsHeld, Held
<1>6. ASSUME NEW k, k = k0
      PROVE  /\ done'[k.stream] < k.n /\ k.n <= launched'[k.stream]
             /\ k \notin exposed' => Held(k)'
  <2>1. b \in active'
    BY DEF Launch, hostVars
  <2>2. Within(k, b) /\ k.stream = s
    BY <1>6 DEF Within, BlockTypes, ActiveBlocks, Sizes
  <2> QED
    BY <1>1, <1>2, <1>3, <1>6, <2>1, <2>2 DEF Held
<1> QED
  BY <1>3, <1>4, <1>5, <1>6 DEF KernelsHeld

-----------------------------------------------------------------------------
(* Every step                                                              *)

LEMMA MallocKeeps ==
  ASSUME AllocInv, NEW s \in Streams, NEW size \in Requests, Malloc(size, s)
  PROVE  AllocInv'
<1>1. Ready \subseteq pending /\ \A b \in pending : b \in Ready \/ ~Complete(b.event)
  BY DEF Ready
<1>2. /\ cached' = cached \cup {Cached(b) : b \in Ready} /\ pending' = pending \ Ready
      /\ want' = {[size |-> size, stream |-> s]}
      /\ UNCHANGED <<device, active, kernels, launched, done, exposed>>
  BY DEF Malloc, Drain, deviceVars
<1>3. BlockTypes'
  <2>1. cached' \subseteq CachedBlocks /\ pending' \subseteq PendingBlocks
    BY <1>1, <1>2, CachedIs DEF AllocInv, BlockTypes
  <2>2. want' \subseteq [size : Requests, stream : Streams]
    BY <1>2
  <2> QED
    BY <1>2, <2>1, <2>2 DEF AllocInv, BlockTypes
<1>4. Laid'
  BY <1>1, <1>2, DrainLays DEF AllocInv
<1>5. KernelsHeld'
  <2>1. \A b \in pending : b \in pending' \/ Complete(b.event)
    BY <1>2 DEF Ready
  <2> QED
    BY <1>2, <2>1, StillHeld DEF AllocInv, deviceVars
<1>6. Counts' /\ OneCall'
  BY <1>2 DEF AllocInv, Counts, OneCall
<1> QED
  BY <1>3, <1>4, <1>5, <1>6 DEF AllocInv

LEMMA CollectKeeps ==
  ASSUME AllocInv, Collect
  PROVE  AllocInv'
<1> DEFINE W == cached \cup Ready
           D2 == device \ {Segment(b) : b \in W}
<1>1. /\ device' = D2 /\ pending' = pending \ Ready /\ cached' = {} /\ Whole(W)
      /\ UNCHANGED <<active, want, kernels, launched, done, exposed>>
  BY DEF Collect, deviceVars
<1>2. pending \ W = pending \ Ready
  BY PendingNotCached DEF AllocInv
<1>3. Layout(D2, active, pending \ W, {}) /\ Used(D2, active, pending \ W, {})
  <2>1. W \subseteq pending \cup cached /\ cached \subseteq W
    BY DEF Ready
  <2> HIDE DEF W
  <2> QED
    BY <1>1, <2>1, ReturnsLays DEF AllocInv
<1>4. Laid'
  BY <1>1, <1>2, <1>3 DEF Laid
<1>5. BlockTypes'
  BY <1>1 DEF AllocInv, BlockTypes
<1>6. KernelsHeld'
  <2>1. \A b \in pending : b \in pending' \/ Complete(b.event)
    BY <1>1 DEF Ready
  <2> QED
    BY <1>1, <2>1, StillHeld DEF AllocInv, deviceVars
<1>7. Counts' /\ OneCall'
  BY <1>1 DEF AllocInv, Counts, OneCall
<1> QED
  BY <1>4, <1>5, <1>6, <1>7 DEF AllocInv

LEMMA EmptyKeeps ==
  ASSUME AllocInv, EmptyCache
  PROVE  AllocInv'
<1> DEFINE D2 == device \ {Segment(b) : b \in cached}
<1>1. /\ device' = D2 /\ pending' = pending /\ cached' = {} /\ Whole(cached)
      /\ UNCHANGED <<active, want, kernels, launched, done, exposed>>
  BY DEF EmptyCache, deviceVars, callVars
<1>2. pending \ cached = pending
  BY PendingNotCached DEF AllocInv
<1>3. Layout(D2, active, pending \ cached, {}) /\ Used(D2, active, pending \ cached, {})
  BY <1>1, ReturnsLays DEF AllocInv
<1>4. Laid'
  BY <1>1, <1>2, <1>3 DEF Laid
<1>5. BlockTypes'
  BY <1>1 DEF AllocInv, BlockTypes
<1>6. KernelsHeld' /\ Counts' /\ OneCall'
  BY <1>1 DEF AllocInv, KernelsHeld, Held, Counts, OneCall
<1> QED
  BY <1>4, <1>5, <1>6 DEF AllocInv

LEMMA StepsKeep ==
  ASSUME AllocInv, NEW w \in want, Steps(w)
  PROVE  AllocInv'
<1>1. ASSUME NEW c \in cached, Reuse(w, c) PROVE AllocInv'
  <2>1. BlockTypes' /\ Laid' /\ active \subseteq active'
    BY <1>1, ReuseTypes, ReuseLays DEF AllocInv
  <2>2. UNCHANGED deviceVars /\ pending' = pending /\ want' = {}
    BY <1>1 DEF Reuse, Returns
  <2>3. KernelsHeld'
    BY <2>1, <2>2, StillHeld DEF AllocInv
  <2> QED
    BY <2>1, <2>2, <2>3 DEF AllocInv, Counts, OneCall, deviceVars
<1>2. ASSUME NEW p \in 0 .. DeviceSize, Fresh(w, p) PROVE AllocInv'
  <2>1. BlockTypes' /\ Laid' /\ active \subseteq active'
    BY <1>2, FreshTypes, FreshLays DEF AllocInv
  <2>2. UNCHANGED deviceVars /\ pending' = pending /\ want' = {}
    BY <1>2 DEF Fresh, Returns
  <2>3. KernelsHeld'
    BY <2>1, <2>2, StillHeld DEF AllocInv
  <2> QED
    BY <2>1, <2>2, <2>3 DEF AllocInv, Counts, OneCall, deviceVars
<1>3. CASE OutOfMemory(w)
  BY <1>3 DEF OutOfMemory, AllocInv, BlockTypes, Laid, KernelsHeld, Held, Counts, OneCall,
              hostVars, deviceVars
<1>4. CASE Retry(w)
  <2>1. BlockTypes' /\ Laid'
    BY <1>4, RetryTypes, RetryLays DEF AllocInv
  <2>2. KernelsHeld' /\ Counts'
    BY <1>4, IdlesHolds DEF Retry, AllocInv
  <2>3. want' = {}
    BY <1>4 DEF Retry, Returns, Raises
  <2> QED
    BY <2>1, <2>2, <2>3 DEF AllocInv, OneCall
<1> QED
  BY <1>1, <1>2, <1>3, <1>4 DEF Steps

LEMMA BlockCallsKeep ==
  ASSUME AllocInv, NEW b \in active, NEW s \in Streams,
         Free(b, s) \/ DeferFree(b) \/ RecordStream(b, s) \/ Launch(b, s)
  PROVE  AllocInv'
<1>1. CASE Free(b, s)
  <2>1. BlockTypes' /\ KernelsHeld' /\ Counts'
    BY <1>1, FreeTypes, FreeHolds DEF AllocInv
  <2>2. Laid'
    <3> DEFINE t == [x \in {b} |-> s]
    <3>1. /\ pending' = pending \cup AllFreed({b}, t) /\ active' = active \ {b}
          /\ UNCHANGED <<device, cached>>
      BY <1>1 DEF Free, Released, AllFreed
    <3>2. {b} \subseteq active /\ Laid
      BY DEF AllocInv
    <3> HIDE DEF t
    <3> QED
      BY <3>1, <3>2, FreeLays
  <2>3. want' = want
    BY <1>1 DEF Free, callVars
  <2> QED
    BY <2>1, <2>2, <2>3 DEF AllocInv, OneCall
<1>2. CASE DeferFree(b)
  BY <1>2 DEF DeferFree, AllocInv, BlockTypes, Laid, KernelsHeld, Held, Counts, OneCall,
              callVars, deviceVars
<1>3. CASE RecordStream(b, s)
  <2>1. /\ active' = (active \ {b}) \cup {OnStream(b, s)}
        /\ UNCHANGED <<device, pending, cached, want, kernels, launched, done, exposed>>
    BY <1>3 DEF RecordStream, callVars, deviceVars
  <2>2. /\ OnStream(b, s) \in ActiveBlocks
        /\ OnStream(b, s).ptr = b.ptr /\ OnStream(b, s).size = b.size
    BY DEF AllocInv, BlockTypes, ActiveBlocks, OnStream
  <2>3. BlockTypes'
    BY <2>1, <2>2 DEF AllocInv, BlockTypes
  <2>4. Laid'
    BY <2>1, <2>2, RecordLays DEF AllocInv
  <2>5. KernelsHeld'
    BY <1>3, RecordHolds DEF AllocInv
  <2> QED
    BY <2>1, <2>3, <2>4, <2>5 DEF AllocInv, Counts, OneCall
<1>4. CASE Launch(b, s)
  <2>1. BlockTypes' /\ KernelsHeld' /\ Counts'
    BY <1>4, LaunchTypes, LaunchHolds DEF AllocInv
  <2> QED
    BY <1>4, <2>1 DEF Launch, AllocInv, Laid, OneCall, hostVars, callVars
<1> QED
  BY <1>1, <1>2, <1>3, <1>4

LEMMA AllocStep == AllocInv /\ [AllocNext]_allocVars => AllocInv'
<1> SUFFICES ASSUME AllocInv, [AllocNext]_allocVars PROVE AllocInv'
  OBVIOUS
<1>1. ASSUME NEW s \in Streams, Finish(s) PROVE AllocInv'
  <2>1. KernelsHeld' /\ Counts'
    BY <1>1, FinishHolds DEF AllocInv
  <2>2. BlockTypes'
    BY <1>1 DEF Finish, AllocInv, BlockTypes, hostVars, callVars
  <2> QED
    BY <1>1, <2>1, <2>2 DEF Finish, AllocInv, Laid, OneCall, hostVars, callVars
<1>2. CASE Synchronize
  <2>1. BlockTypes' /\ Laid'
    BY <1>2, SynchronizeTypes, SynchronizeLays DEF AllocInv
  <2>2. KernelsHeld' /\ Counts'
    BY <1>2, IdlesHolds DEF Synchronize, AllocInv
  <2> QED
    BY <1>2, <2>1, <2>2 DEF Synchronize, AllocInv, OneCall, callVars
<1>3. CASE Tear \/ UNCHANGED allocVars
  BY <1>3 DEF Tear, allocVars, AllocInv, BlockTypes, Laid, KernelsHeld, Held, Counts, OneCall,
              hostVars, callVars, deviceVars
<1>4. ASSUME NEW b \in active, DeferFree(b) PROVE AllocInv'
  <2>1. PICK s \in Streams : TRUE
    BY DEF AllocInv, BlockTypes, ActiveBlocks
  <2> QED
    BY <1>4, <2>1, BlockCallsKeep
<1> QED
  BY <1>1, <1>2, <1>3, <1>4, MallocKeeps, CollectKeeps, EmptyKeeps, StepsKeep, BlockCallsKeep
     DEF AllocNext, Undefined

-----------------------------------------------------------------------------
(* The statistics                                                          *)

Accounts == Heap(device) /\ Heap(active) /\ Heap(pending) /\ Heap(cached) /\ StatsExact

LEMMA AreBytes ==
  ASSUME Accounts
  PROVE  /\ Bytes(device) \in Nat /\ Bytes(active) \in Nat
         /\ Bytes(pending) \in Nat /\ Bytes(cached) \in Nat
BY BytesType DEF Accounts

LEMMA DrainAccounts ==
  ASSUME AllocInv, Accounts, NEW R, R \subseteq pending,
         cached' = cached \cup {Cached(b) : b \in R}, pending' = pending \ R,
         inactive' = inactive + Bytes(R), UNCHANGED <<device, active, reserved, allocated>>
  PROVE  Accounts'
<1>3. AllApart(pending) /\ Beside(pending, cached)
  BY DEF AllocInv, Laid, Layout, Beside
<1>4. /\ Heap(pending') /\ Heap(cached')
      /\ Bytes(R) \in Nat /\ Bytes(pending \ R) = Bytes(pending) - Bytes(R)
      /\ Bytes(cached \cup {Cached(b) : b \in R}) = Bytes(cached) + Bytes(R)
  <2>1. Movable(pending, R, cached)
    BY <1>3 DEF Accounts, Movable
  <2>2. Moved(pending, R, cached, AllCached(R))
    BY ONLY <2>1, BytesCached
  <2> QED BY <2>2 DEF Moved, AllCached
<1>5. Heap(device)' /\ Heap(active)'
  BY DEF Accounts
<1>6. StatsExact'
  <2>1. /\ Bytes(pending') = Bytes(pending) - Bytes(R) /\ Bytes(cached') = Bytes(cached) + Bytes(R)
        /\ Bytes(device') = Bytes(device) /\ Bytes(active') = Bytes(active)
    BY <1>4
  <2> QED BY <1>4, <2>1, AreBytes DEF Accounts, StatsExact
<1> QED BY <1>4, <1>5, <1>6 DEF Accounts

\* What empty_cache, with or without the ready blocks R, gives back.
LEMMA GivenBack ==
  ASSUME AllocInv, Accounts, NEW R, R \subseteq pending, Whole(cached \cup R)
  PROVE  LET D == device \ {Segment(b) : b \in cached \cup R}
         IN  /\ Heap(D) /\ Bytes(D) = Bytes(device) - Bytes(cached) - Bytes(R)
             /\ Heap(pending \ R) /\ Bytes(pending \ R) = Bytes(pending) - Bytes(R)
             /\ Bytes(R) \in Nat
<1> DEFINE W == cached \cup R
<1>1. /\ Heap(R) /\ Heap(pending \ R) /\ Bytes(R) \in Nat /\ Bytes(pending \ R) \in Nat
      /\ Bytes(pending) = Bytes(pending \ R) + Bytes(R)
  BY BytesPart DEF Accounts
<1>2. cached \cap R = {}
  BY PendingNotCached DEF AllocInv
<1>3. Heap(W) /\ Bytes(W) = Bytes(cached) + Bytes(R)
  BY <1>1, <1>2, BytesUnion DEF Accounts
<1>4. AllApart(W)
  BY DEF AllocInv, Laid, Layout, AllApart, Apart
<1>5. \A b \in W : Segment(b) \in device
  BY DEF Whole
<1> HIDE DEF W
<1>6. /\ Heap(device \ {Segment(b) : b \in W})
      /\ Bytes(device \ {Segment(b) : b \in W}) = Bytes(device) - Bytes(W)
  BY <1>3, <1>4, <1>5, BytesGivesBack DEF Accounts
<1>7. Bytes(device) \in Nat /\ Bytes(cached) \in Nat /\ Bytes(pending) \in Nat
  BY AreBytes
<1> QED BY <1>1, <1>3, <1>6, <1>7 DEF W

LEMMA CollectAccounts == AllocInv /\ Accounts /\ Collect => Accounts'
<1> SUFFICES ASSUME AllocInv, Accounts, Collect PROVE Accounts'
  OBVIOUS
<1>1. Ready \subseteq pending /\ Whole(cached \cup Ready)
  BY DEF Ready, Collect
<1>2. /\ device' = device \ {Segment(b) : b \in cached \cup Ready}
      /\ cached' = {} /\ pending' = pending \ Ready /\ active' = active
      /\ reserved' = reserved - Bytes(cached) - Bytes(Ready)
      /\ inactive' = inactive - Bytes(cached) /\ allocated' = allocated
  BY DEF Collect
<1>3. /\ Heap(device') /\ Bytes(device') = Bytes(device) - Bytes(cached) - Bytes(Ready)
      /\ Heap(pending') /\ Bytes(pending') = Bytes(pending) - Bytes(Ready)
      /\ Bytes(Ready) \in Nat
  BY <1>1, <1>2, GivenBack
<1>4. StatsExact'
  BY <1>2, <1>3, AreBytes, BytesEmpty DEF Accounts, StatsExact
<1> QED BY <1>2, <1>3, <1>4, BytesEmpty DEF Accounts

LEMMA EmptyAccounts == AllocInv /\ Accounts /\ EmptyCache => Accounts'
<1> SUFFICES ASSUME AllocInv, Accounts, EmptyCache PROVE Accounts'
  OBVIOUS
<1>1. {} \subseteq pending /\ cached \cup {} = cached /\ pending \ {} = pending /\ Whole(cached)
  BY DEF EmptyCache
<1>2. /\ device' = device \ {Segment(b) : b \in cached}
      /\ cached' = {} /\ pending' = pending /\ active' = active
      /\ reserved' = reserved - Bytes(cached)
      /\ inactive' = inactive - Bytes(cached) /\ allocated' = allocated
  BY DEF EmptyCache
<1>3. Heap(device') /\ Bytes(device') = Bytes(device) - Bytes(cached) - Bytes({})
  BY <1>1, <1>2, GivenBack
<1>4. StatsExact'
  BY <1>2, <1>3, AreBytes, BytesEmpty DEF Accounts, StatsExact
<1> QED BY <1>2, <1>3, <1>4, BytesEmpty DEF Accounts

\* n becomes active where no active block is
LEMMA TakenIn ==
  ASSUME Heap(active), NEW n, n.ptr \in Nat, n.size \in Nat \ {0},
         Becomes(active, n, active'), active \subseteq active', n \notin active
  PROVE  Heap(active') /\ Bytes(active') = Bytes(active) + n.size
<1>1. active' = active \cup {n}
  BY DEF Becomes
<1> QED BY <1>1, BytesMore

LEMMA ReuseAccounts ==
  ASSUME AllocInv, Accounts, NEW w \in want, NEW c \in cached, Reuse(w, c)
  PROVE  Accounts'
<1> DEFINE n == [ptr |-> c.ptr, size |-> Taken(c, w.size), pool |-> c.pool,
                 stream |-> w.stream]
           R == Remainder(c, w.size)
<1>1. w.size \in Nat \ {0} /\ c \in CachedBlocks /\ c.size >= w.size
  BY AllocAssumption DEF AllocInv, BlockTypes, Reuse, Fits
<1>2. /\ n.ptr = c.ptr /\ n.ptr \in Nat /\ n.size \in Nat \ {0} /\ n.size <= c.size
      /\ RestOf(R, c, n)
  BY <1>1, Split DEF Sizes, RestOf, CachedBlocks
<1>3. c.size \in Nat \ {0} /\ c.ptr \in Nat
  BY <1>1 DEF CachedBlocks, Sizes
<1>4. /\ Becomes(active, n, active')
      /\ cached' = (cached \ {c}) \cup R /\ pending' = pending /\ device' = device
      /\ inactive' = inactive - c.size + Bytes(R) /\ allocated' = allocated + n.size
      /\ reserved' = reserved
  BY DEF Reuse, Returns, Becomes
<1>5. active \subseteq active'
  BY ReuseLays DEF AllocInv
<1>6. Heap(R) /\ Bytes(R) = c.size - n.size
  <2>1. CASE Splits(c, w.size)
    <3> DEFINE r == [ptr |-> c.ptr + w.size, size |-> c.size - w.size, pool |-> c.pool]
    <3>1. R = {r} /\ n.size = w.size
      BY <2>1 DEF Remainder, Taken
    <3>2. r.ptr \in Nat /\ r.size \in Nat \ {0}
      BY <2>1, <1>1, <1>3 DEF Splits
    <3>3. r.size = c.size - n.size
      BY <3>1
    <3> HIDE DEF n, R, r
    <3> QED BY <3>1, <3>2, <3>3, BytesOne
  <2>2. CASE ~Splits(c, w.size)
    <3>1. R = {} /\ n.size = c.size
      BY <2>2 DEF Remainder, Taken
    <3> HIDE DEF n, R
    <3> QED BY <3>1, <1>3, BytesEmpty
  <2> QED BY <2>1, <2>2
<1> HIDE DEF n, R
<1>7. n \notin active
  BY <1>2, <1>3 DEF AllocInv, Laid, Layout, Apart
<1>8. Heap(active') /\ Bytes(active') = Bytes(active) + n.size
  BY <1>2, <1>4, <1>5, <1>7, TakenIn DEF Accounts
<1>9. /\ Heap(cached \ {c})
      /\ Bytes(cached \ {c}) \in Nat /\ Bytes(cached) = Bytes(cached \ {c}) + c.size
  <2>1. {c} \subseteq cached /\ Heap({c}) /\ Bytes({c}) = c.size
    BY <1>3, BytesOne
  <2>2. Heap(cached)
    BY DEF Accounts
  <2> QED BY <2>1, <2>2, BytesPart
<1>10. (cached \ {c}) \cap R = {}
  <2> SUFFICES ASSUME NEW r \in R, r \in cached, r # c PROVE FALSE
    OBVIOUS
  <2>1. Apart(c, r)
    BY DEF AllocInv, Laid, Layout, AllApart
  <2>2. /\ r.ptr = c.ptr + n.size /\ r.size = c.size - n.size /\ r.size \in Nat \ {0}
    BY <1>2 DEF RestOf
  <2> QED BY <2>1, <2>2, <1>2, <1>3 DEF Apart
<1>11. Heap(cached') /\ Bytes(cached') = Bytes(cached \ {c}) + Bytes(R)
  BY <1>4, <1>6, <1>9, <1>10, BytesUnion
<1>12. StatsExact'
  <2>1. Bytes(device') = Bytes(device) /\ Bytes(pending') = Bytes(pending)
    BY <1>4
  <2>2. /\ reserved = Bytes(device)
        /\ reserved = Bytes(active) + Bytes(pending) + Bytes(cached)
        /\ allocated = Bytes(active) /\ inactive = Bytes(cached)
    BY DEF Accounts, StatsExact
  <2>3. n.size \in Nat /\ c.size \in Nat
    BY <1>2, <1>3
  <2>4. /\ reserved' = Bytes(device')
        /\ reserved' = Bytes(active') + Bytes(pending') + Bytes(cached')
        /\ allocated' = Bytes(active') /\ inactive' = Bytes(cached')
    BY ONLY <1>4, <1>6, <1>8, <1>9, <1>11, <2>1, <2>2, <2>3, AreBytes, Accounts
  <2> QED BY <2>4 DEF StatsExact
<1> QED BY <1>4, <1>8, <1>11, <1>12 DEF Accounts

LEMMA NewApart ==
  ASSUME BlockTypes, NEW w \in want, NEW p \in 0 .. DeviceSize, NEW A, NEW D,
         Spans(A), Spans(D), \A a \in A : \E g \in D : Within(a, g), Room(Place(w, p), D)
  PROVE  New(w, p) \notin A /\ Place(w, p) \notin D
<1>1. /\ Place(w, p).ptr \in Nat /\ Place(w, p).size \in Nat \ {0}
      /\ New(w, p).ptr = Place(w, p).ptr /\ New(w, p).size = Place(w, p).size
  BY PlaceIs
<1>2. \A g \in D : Apart(Place(w, p), g)
  BY DEF Room
<1>3. Place(w, p) \notin D
  BY <1>1, <1>2 DEF Apart
<1>4. ASSUME New(w, p) \in A PROVE FALSE
  <2>1. PICK g \in D : Within(New(w, p), g)
    BY <1>4
  <2>2. Apart(Place(w, p), g) /\ g.ptr \in Nat /\ g.size \in Nat \ {0}
    BY <1>2 DEF Spans
  <2> QED BY <1>1, <2>1, <2>2 DEF Apart, Within
<1> QED BY <1>3, <1>4

LEMMA FreshAccounts ==
  ASSUME AllocInv, Accounts, NEW w \in want, NEW p \in 0 .. DeviceSize, Fresh(w, p)
  PROVE  Accounts'
<1> DEFINE n == New(w, p)
           g == Place(w, p)
<1>1. g.ptr \in Nat /\ g.size \in Nat \ {0} /\ n.ptr = g.ptr /\ n.size = g.size /\ g.size = w.size
  BY PlaceIs DEF AllocInv, Place
<1>2. n \notin active /\ g \notin device
  BY NewApart, AllSpan DEF AllocInv, Laid, Layout, Fresh
<1>3. /\ Becomes(active, n, active') /\ device' = device \cup {g}
      /\ pending' = pending /\ cached' = cached /\ inactive' = inactive
      /\ reserved' = reserved + g.size /\ allocated' = allocated + n.size
  BY <1>1 DEF Fresh, Returns, Becomes
<1>4. active \subseteq active'
  BY FreshLays DEF AllocInv
<1> HIDE DEF n, g
<1>5. Heap(active') /\ Bytes(active') = Bytes(active) + n.size
  BY <1>1, <1>2, <1>3, <1>4, TakenIn DEF Accounts
<1>6. Heap(device') /\ Bytes(device') = Bytes(device) + g.size
  BY <1>1, <1>2, <1>3, BytesMore DEF Accounts
<1>7. StatsExact'
  BY <1>1, <1>3, <1>5, <1>6, AreBytes DEF Accounts, StatsExact
<1> QED BY <1>3, <1>5, <1>6, <1>7 DEF Accounts

LEMMA RetryAccounts ==
  ASSUME AllocInv, Accounts, NEW w \in want, Retry(w)
  PROVE  Accounts'
<1>1. /\ cached' = {} /\ pending' = {} /\ inactive' = inactive - Bytes(cached)
      /\ Whole(cached \cup pending) /\ Kept = device \ {Segment(b) : b \in cached \cup pending}
  BY DEF Retry, Flush, Kept
<1>2. /\ Heap(Kept) /\ Bytes(Kept) = Bytes(device) - Bytes(cached) - Bytes(pending)
  BY <1>1, GivenBack
<1>3. Heap(cached') /\ Heap(pending') /\ Bytes(cached') = 0 /\ Bytes(pending') = 0
  BY <1>1, BytesEmpty
<1>4. /\ reserved = Bytes(device) /\ allocated = Bytes(active) /\ inactive = Bytes(cached)
      /\ reserved = Bytes(active) + Bytes(pending) + Bytes(cached)
      /\ Heap(active)
  BY DEF Accounts, StatsExact
<1>5. CASE device' = Kept /\ reserved' = reserved - Bytes(cached) - Bytes(pending) /\ Raises
  <2>1. active' = active /\ allocated' = allocated
    BY <1>5 DEF Raises
  <2>2. StatsExact'
    BY <1>1, <1>2, <1>3, <1>4, <1>5, <2>1, AreBytes DEF StatsExact
  <2> QED BY <1>2, <1>3, <1>4, <1>5, <2>1, <2>2 DEF Accounts
<1>6. ASSUME NEW p \in 0 .. DeviceSize, Room(Place(w, p), Kept),
             device' = Kept \cup {Place(w, p)},
             reserved' = reserved - Bytes(cached) - Bytes(pending) + w.size, Returns(New(w, p))
      PROVE  Accounts'
  <2> DEFINE n == New(w, p)
             g == Place(w, p)
  <2>1. g.ptr \in Nat /\ g.size \in Nat \ {0} /\ n.ptr = g.ptr /\ n.size = g.size /\ g.size = w.size
    BY PlaceIs DEF AllocInv, Place
  <2>2. \A a \in active : \E d \in Kept : Within(a, d)
    <3>1. pending \ (cached \cup pending) = {}
      OBVIOUS
    <3>2. Layout(Kept, active, {}, {})
      BY <1>1, <3>1, ReturnsLays DEF AllocInv
    <3> QED BY <3>2 DEF Layout
  <2>3. n \notin active /\ g \notin Kept
    BY <1>2, <1>6, <2>2, NewApart, AllSpan DEF AllocInv, Heap
  <2>4. /\ Becomes(active, n, active') /\ allocated' = allocated + n.size
    BY <1>6 DEF Returns, Becomes
  <2>5. active \subseteq active'
    BY RetryLays DEF AllocInv
  <2> HIDE DEF n
  <2>6. Heap(active') /\ Bytes(active') = Bytes(active) + n.size
    BY <1>4, <2>1, <2>3, <2>4, <2>5, TakenIn
  <2> HIDE DEF g
  <2>7. Heap(device') /\ Bytes(device') = Bytes(Kept) + g.size
    BY <1>2, <1>6, <2>1, <2>3, BytesMore DEF g
  <2>8. StatsExact'
    BY <1>1, <1>2, <1>3, <1>4, <1>6, <2>1, <2>4, <2>6, <2>7, AreBytes DEF StatsExact
  <2> QED BY <1>3, <2>6, <2>7, <2>8 DEF Accounts
<1> QED BY <1>5, <1>6 DEF Retry, Flush

LEMMA FreeAccounts ==
  ASSUME AllocInv, Accounts, NEW G, NEW t, G \subseteq active,
         NEW P, NEW C, Heap(P), Heap(C), \A a \in active, b \in P : Apart(a, b),
         Bytes(P) + Bytes(C) = Bytes(pending) + Bytes(cached),
         pending' = P \cup {Freed(b, t[b]) : b \in G}, cached' = C,
         Released(G), inactive' = Bytes(C), UNCHANGED <<device, reserved>>
  PROVE  Accounts'
<1>3. AllApart(active) /\ Heap(active)
  BY DEF AllocInv, Laid, Layout, Accounts
<1>4. /\ Heap(active \ G) /\ Heap(P \cup {Freed(b, t[b]) : b \in G})
      /\ Bytes(G) \in Nat /\ Bytes(active \ G) = Bytes(active) - Bytes(G)
      /\ Bytes(P \cup {Freed(b, t[b]) : b \in G}) = Bytes(P) + Bytes(G)
  <2>1. Movable(active, G, P)
    BY <1>3 DEF Movable, Beside
  <2>2. Moved(active, G, P, AllFreed(G, t))
    BY ONLY <2>1, BytesFreed
  <2> QED BY <2>2 DEF Moved, AllFreed
<1>5. active' = active \ G /\ allocated' = allocated - Bytes(G)
  BY DEF Released
<1>6. Bytes(P) \in Nat /\ Bytes(C) \in Nat
  BY BytesType
<1>7. /\ reserved = Bytes(device) /\ allocated = Bytes(active) /\ inactive = Bytes(cached)
      /\ reserved = Bytes(active) + Bytes(pending) + Bytes(cached)
  BY DEF Accounts, StatsExact
<1>8. StatsExact'
  <2>1. Bytes(pending') = Bytes(P) + Bytes(G) /\ Bytes(active') = Bytes(active) - Bytes(G)
        /\ Bytes(cached') = Bytes(C) /\ Bytes(device') = Bytes(device)
    BY <1>4, <1>5
  <2>2. Bytes(active) \in Nat /\ Bytes(pending) \in Nat /\ Bytes(cached) \in Nat
    BY AreBytes
  <2>3. reserved' = reserved /\ inactive' = Bytes(C)
    OBVIOUS
  <2>4. Bytes(P) + Bytes(C) = Bytes(pending) + Bytes(cached)
    OBVIOUS
  <2>5. /\ reserved' = Bytes(device')
        /\ reserved' = Bytes(active') + Bytes(pending') + Bytes(cached')
        /\ allocated' = Bytes(active') /\ inactive' = Bytes(cached')
    <3>1. Bytes(G) \in Nat /\ allocated' = allocated - Bytes(G)
      BY <1>4, <1>5
    <3>2. reserved' = Bytes(device') /\ inactive' = Bytes(cached') /\ allocated' = Bytes(active')
      BY <1>7, <2>1, <2>3, <3>1
    <3>3. Bytes(active') + Bytes(pending') + Bytes(cached') = Bytes(active) + Bytes(P) + Bytes(C)
      BY ONLY <1>6, <2>1, <2>2, <3>1
    <3>4. Bytes(active) + Bytes(P) + Bytes(C) = Bytes(active) + Bytes(pending) + Bytes(cached)
      BY ONLY <1>6, <2>2, <2>4
    <3> QED BY ONLY <1>7, <2>3, <3>2, <3>3, <3>4
  <2> QED BY <2>5 DEF StatsExact
<1> QED BY <1>4, <1>5, <1>8 DEF Accounts

LEMMA SynchronizeAccounts == AllocInv /\ Accounts /\ Synchronize => Accounts'
<1> SUFFICES ASSUME AllocInv, Accounts, Synchronize PROVE Accounts'
  OBVIOUS
<1> DEFINE G == {b \in active : b.ptr \in deferred}
           t == [b \in G |-> b.stream]
           C == cached \cup {Cached(b) : b \in pending}
<1>3. AllApart(pending) /\ Beside(pending, cached)
  BY DEF AllocInv, Laid, Layout, Beside
<1>4. Heap(C) /\ Bytes(C) = Bytes(cached) + Bytes(pending)
  <2>1. Movable(pending, pending, cached)
    BY <1>3 DEF Accounts, Movable
  <2>2. Moved(pending, pending, cached, AllCached(pending))
    BY ONLY <2>1, BytesCached
  <2> QED BY <2>2 DEF Moved, C, AllCached
<1>5. /\ cached' = C /\ inactive' = inactive + Bytes(pending)
      /\ pending' = {} \cup {Freed(b, t[b]) : b \in G} /\ Released(G) /\ UNCHANGED <<device, reserved>>
  BY DEF Synchronize
<1>6. G \subseteq active
  OBVIOUS
<1> HIDE DEF G, C, t
<1>7. inactive' = Bytes(C)
  BY <1>4, <1>5 DEF Accounts, StatsExact
<1>8. Bytes({}) + Bytes(C) = Bytes(pending) + Bytes(cached)
  BY <1>4, AreBytes, BytesEmpty
<1>9. Heap({}) /\ \A a \in active, b \in {} : Apart(a, b)
  BY BytesEmpty
<1> QED BY <1>4, <1>5, <1>6, <1>7, <1>8, <1>9, FreeAccounts

LEMMA BlockCallsAccounts ==
  ASSUME AllocInv, Accounts, NEW b \in active, NEW s \in Streams,
         Free(b, s) \/ DeferFree(b) \/ RecordStream(b, s) \/ Launch(b, s)
  PROVE  Accounts'
<1>1. CASE Free(b, s)
  <2> DEFINE t == [c \in {b} |-> s]
  <2>1. /\ pending' = pending \cup {Freed(c, t[c]) : c \in {b}} /\ cached' = cached
        /\ Released({b}) /\ inactive' = inactive /\ UNCHANGED <<device, reserved>>
    BY <1>1 DEF Free
  <2> HIDE DEF t
  <2>2. Heap(pending) /\ Heap(cached) /\ inactive' = Bytes(cached)
    BY <2>1 DEF Accounts, StatsExact
  <2>3. \A a \in active, c \in pending : Apart(a, c)
    BY DEF AllocInv, Laid, Layout
  <2>4. {b} \subseteq active
    OBVIOUS
  <2> QED BY <2>1, <2>2, <2>3, <2>4, FreeAccounts
<1>2. CASE DeferFree(b) \/ Launch(b, s)
  BY <1>2 DEF DeferFree, Launch, Accounts, StatsExact, hostVars
<1>3. CASE RecordStream(b, s)
  <2> DEFINE n == OnStream(b, s)
  <2>1. /\ active' = (active \ {b}) \cup {n}
        /\ UNCHANGED <<device, pending, cached, reserved, allocated, inactive>>
    BY <1>3 DEF RecordStream
  <2>2. n.ptr = b.ptr /\ n.size = b.size /\ b.ptr \in Nat /\ b.size \in Nat \ {0}
    BY AllSpan DEF AllocInv, BlockTypes, ActiveBlocks, OnStream, Spans
  <2> HIDE DEF n
  <2>3. n \notin active \ {b}
    BY <2>2 DEF AllocInv, Laid, Layout, AllApart, Apart
  <2>4. /\ Heap(active \ {b}) /\ Bytes(active \ {b}) \in Nat
        /\ Bytes(active) = Bytes(active \ {b}) + b.size
    <3>1. {b} \subseteq active /\ Heap({b}) /\ Bytes({b}) = b.size
      BY <2>2, BytesOne
    <3>2. Heap(active)
      BY DEF Accounts
    <3> QED BY <3>1, <3>2, BytesPart
  <2>5. Heap(active') /\ Bytes(active') = Bytes(active)
    BY <2>1, <2>2, <2>3, <2>4, BytesMore
  <2> QED BY <2>1, <2>5 DEF Accounts, StatsExact
<1> QED BY <1>1, <1>2, <1>3

LEMMA AccountsStep == AllocInv /\ Accounts /\ [AllocNext]_allocVars => Accounts'
<1> SUFFICES ASSUME AllocInv, Accounts, [AllocNext]_allocVars PROVE Accounts'
  OBVIOUS
<1>1. ASSUME NEW s \in Streams, NEW size \in Requests, Malloc(size, s) PROVE Accounts'
  <2>1. Ready \subseteq pending
    BY DEF Ready
  <2>2. /\ cached' = cached \cup {Cached(b) : b \in Ready} /\ pending' = pending \ Ready
        /\ inactive' = inactive + Bytes(Ready) /\ UNCHANGED <<device, active, reserved, allocated>>
    BY <1>1 DEF Malloc, Drain
  <2> QED BY <2>1, <2>2, DrainAccounts
<1>2. ASSUME NEW w \in want, Steps(w) PROVE Accounts'
  <2>1. CASE OutOfMemory(w)
    BY <2>1 DEF OutOfMemory, Accounts, StatsExact, hostVars
  <2> QED BY <1>2, <2>1, ReuseAccounts, FreshAccounts, RetryAccounts DEF Steps
<1>3. ASSUME NEW s \in Streams, Finish(s) PROVE Accounts'
  BY <1>3 DEF Finish, Accounts, StatsExact, hostVars
<1>4. CASE Tear \/ UNCHANGED allocVars
  BY <1>4 DEF Tear, allocVars, Accounts, StatsExact, hostVars
<1>5. ASSUME NEW b \in active, DeferFree(b) PROVE Accounts'
  <2>1. PICK s \in Streams : TRUE
    BY DEF AllocInv, BlockTypes, ActiveBlocks
  <2> QED BY <1>5, <2>1, BlockCallsAccounts
<1> QED
  BY <1>1, <1>2, <1>3, <1>4, <1>5, CollectAccounts, EmptyAccounts, SynchronizeAccounts,
     BlockCallsAccounts DEF AllocNext, Undefined

-----------------------------------------------------------------------------
(* The theorems                                                            *)

LEMMA AllocInitially == AllocInit => AllocInv
BY DEF AllocInit, AllocInv, BlockTypes, Laid, Layout, Used, AllApart, KernelsHeld, Counts, OneCall

LEMMA AllocAlways == AllocSpec => []AllocInv
BY AllocInitially, AllocStep, PTL DEF AllocSpec

\* Blocks never share memory and lie in the device's segments, for every device and every
\* sequence of calls (allocator.py, malloc, free, _split_block, empty_cache, _oom_retry).
THEOREM BlocksDisjoint == AllocSpec => []Disjoint
<1>1. AllocInv => Disjoint
  BY DEF AllocInv, Laid, Layout, Disjoint
<1> QED
  BY <1>1, AllocAlways, PTL

LEMMA ApartInside ==
  ASSUME NEW k, NEW b, NEW a, Within(k, b), Apart(b, a),
         k.ptr \in Nat, k.size \in Nat, b.ptr \in Nat, b.size \in Nat, a.ptr \in Nat, a.size \in Nat
  PROVE  Apart(k, a)
BY DEF Within, Apart

\* Memory that a kernel in flight uses is not handed out by malloc nor given back to the
\* device, whatever the streams do and whenever storages die, unless the kernel's block was
\* freed with the event of another stream (free, record_stream, _drain_pending).
THEOREM KernelsKeepMemory == AllocSpec => NoEarlyReuse
<1> DEFINE Keeps(k) == /\ pc # "idle" => \A a \in active' \ active : Apart(k, a)
                       /\ \A g \in device \ device' : Apart(k, g)
<1>1. ASSUME AllocInv, AllocInv', AllocNext, NEW k \in kernels' \ exposed, k \in kernels
      PROVE  Keeps(k)
  <2>1. /\ Held(k) /\ k.ptr \in Nat /\ k.size \in Nat
        /\ Spans(device) /\ Spans(active) /\ Spans(pending) /\ Spans(active') /\ Spans(device')
        /\ Spans(pending')
    <3>1. k \notin exposed => Held(k)
      BY <1>1 DEF AllocInv, KernelsHeld
    <3>2. k.ptr \in Nat /\ k.size \in Nat
      BY <1>1, AllocAssumption DEF AllocInv, BlockTypes, Kernels, Sizes
    <3>3. /\ Spans(device) /\ Spans(active) /\ Spans(pending)
          /\ Spans(device') /\ Spans(active') /\ Spans(pending')
      BY <1>1, AllocAssumption
         DEF AllocInv, BlockTypes, Spans, Segments, ActiveBlocks, PendingBlocks, Sizes
    <3> QED
      BY <1>1, <3>1, <3>2, <3>3
  <2>2. ASSUME NEW w \in want, Retry(w) PROVE FALSE
    BY <1>1, <2>2 DEF Retry, Idles
  <2>3. ASSUME NEW w \in want,
               (\E c \in cached : Reuse(w, c)) \/ (\E p \in 0 .. DeviceSize : Fresh(w, p))
        PROVE  Keeps(k)
    <3>1. /\ active \subseteq active' /\ Layout(device', active', pending, cached')
          /\ device \subseteq device'
      BY <1>1, <2>3, ReuseLays, FreshLays DEF AllocInv, Laid, Reuse, Fresh
    <3>2. ASSUME NEW a \in active' \ active PROVE Apart(k, a)
      <4>1. PICK b \in active \cup pending : Within(k, b)
        BY <2>1 DEF Held
      <4>2. Apart(b, a)
        <5>1. CASE b \in active
          BY <3>1, <5>1 DEF Layout, AllApart
        <5>2. CASE b \in pending
          <6>1. Apart(a, b)
            BY <3>1, <5>2 DEF Layout
          <6> QED
            BY <6>1 DEF Apart
        <5> QED
          BY <5>1, <5>2
      <4> QED
        BY <2>1, <4>1, <4>2, ApartInside DEF Spans
    <3> QED
      BY <3>1, <3>2
  <2>4. CASE Collect \/ EmptyCache
    <3>1. k \notin exposed' /\ device' \subseteq device /\ active' = active
      BY <1>1, <2>4 DEF Collect, EmptyCache, deviceVars
    <3>2. Held(k)'
      BY <1>1, <3>1 DEF AllocInv, KernelsHeld
    <3>3. PICK b \in active' \cup pending' : Within(k, b)
      BY <3>2 DEF Held
    <3>4. PICK g \in device' : Within(b, g)
      BY <1>1, <3>3 DEF AllocInv, Laid, Layout
    <3>5. ASSUME NEW h \in device \ device' PROVE Apart(k, h)
      <4>1. Apart(g, h)
        BY <1>1, <3>1, <3>4 DEF AllocInv, Laid, Layout, AllApart
      <4>2. Within(k, g)
        BY <2>1, <3>3, <3>4 DEF Within, Spans
      <4> QED
        BY <2>1, <3>4, <4>1, <4>2, ApartInside DEF Spans
    <3> QED
      BY <3>1, <3>5
  <2>5. CASE \/ pc = "idle" /\ device' = device
             \/ device' = device /\ active' \subseteq active
    BY <2>5
  <2>6. \/ \E w \in want : Steps(w)
        \/ Collect \/ EmptyCache
        \/ pc = "idle" /\ device' = device
        \/ device' = device /\ active' \subseteq active
    BY <1>1 DEF AllocNext, Finish, Malloc, Synchronize, Tear, Free, DeferFree, RecordStream,
                Launch, Undefined, Released, hostVars, callVars, allocVars
  <2>7. ASSUME NEW w \in want, OutOfMemory(w) PROVE device' = device /\ active' = active
    BY <2>7 DEF OutOfMemory, hostVars
  <2> HIDE DEF Keeps
  <2> QED
    BY <2>2, <2>3, <2>4, <2>5, <2>6, <2>7 DEF Steps
<1>2. AllocInv /\ AllocInv' /\ [AllocNext]_allocVars
        => [\A k \in kernels' \ exposed : k \in kernels => Keeps(k)]_allocVars
  <2> HIDE DEF Keeps
  <2> QED
    BY <1>1
<1> QED
  BY <1>2, AllocAlways, PTL DEF AllocSpec, NoEarlyReuse

\* The statistics agree with the blocks: reserved bytes are those of the device's segments
\* and of all blocks together, so that no call loses a piece or counts one twice (_stats).
THEOREM StatisticsExact == AllocSpec => []StatsExact
<1>1. AllocInit => Accounts
  BY BytesEmpty DEF AllocInit, Accounts, StatsExact
<1>2. AllocSpec => []Accounts
  BY <1>1, AccountsStep, AllocAlways, PTL DEF AllocSpec
<1>3. Accounts => StatsExact
  BY DEF Accounts
<1> QED
  BY <1>2, <1>3, PTL

\* Types; the counters never go below zero.
THEOREM AllocTypeCorrect == AllocSpec => []AllocTypeOK
<1> DEFINE Rest == /\ deferred \subseteq Nat /\ raised \in BOOLEAN /\ torn \in BOOLEAN
                   /\ pc \in {"idle", "collect", "find", "retry"}
<1>1. AllocInit => Accounts /\ Rest
  <2>1. AllocInit => Accounts
    BY BytesEmpty DEF AllocInit, Accounts, StatsExact
  <2>2. AllocInit => Rest
    BY DEF AllocInit
  <2> QED BY <2>1, <2>2
<1>2. AllocInv /\ Rest /\ [AllocNext]_allocVars => Rest'
  <2> SUFFICES ASSUME AllocInv, Rest, [AllocNext]_allocVars PROVE Rest'
    OBVIOUS
  <2>1. ASSUME NEW s \in Streams, Finish(s) \/ \E size \in Requests : Malloc(size, s) PROVE Rest'
    BY <2>1 DEF Finish, Malloc, hostVars, callVars
  <2>2. ASSUME NEW w \in want, Steps(w) PROVE Rest'
    BY <2>2 DEF Steps, Reuse, Fresh, OutOfMemory, Retry, Returns, Raises, hostVars
  <2>3. ASSUME NEW b \in active, NEW s \in Streams,
               RecordStream(b, s) \/ Launch(b, s) \/ Free(b, s)
        PROVE  Rest'
    BY <2>3, AllSpan DEF RecordStream, Launch, Free, Released, hostVars, callVars
  <2>4. ASSUME NEW b \in active, DeferFree(b) PROVE Rest'
    BY <2>4, AllSpan DEF DeferFree, callVars, AllocInv, Spans
  <2>5. CASE Collect \/ Synchronize \/ EmptyCache \/ Tear
    BY <2>5 DEF Collect, Synchronize, EmptyCache, Tear, Released, hostVars, callVars
  <2>6. CASE UNCHANGED allocVars
    BY <2>6 DEF allocVars, hostVars, callVars
  <2> HIDE DEF Rest
  <2> QED BY <2>1, <2>2, <2>3, <2>4, <2>5, <2>6 DEF AllocNext, Undefined
<1>3. AllocInv /\ Accounts /\ Rest => AllocTypeOK
  BY AreBytes DEF AllocInv, Accounts, StatsExact, BlockTypes, AllocTypeOK
<1> QED
  BY <1>1, <1>2, <1>3, AccountsStep, AllocAlways, PTL DEF AllocSpec

\* When malloc fails, all that could be given back to the device was (_oom_retry).
THEOREM OomIsExhaustion == AllocSpec => OomOnlyWhenExhausted
<1> DEFINE Exhausted == /\ cached' = {} /\ pending' = {}
                        /\ \A g \in device' : \E a \in active' : Within(a, g)
                        /\ \A w \in want : NoRoom(w, device')
<1>1. AllocInv /\ AllocInv' /\ [AllocNext]_allocVars => [~raised /\ raised' => Exhausted]_allocVars
  <2> SUFFICES ASSUME AllocInv, AllocInv', AllocNext, ~raised, raised' PROVE Exhausted
    OBVIOUS
  <2>1. PICK w \in want : Retry(w) /\ Raises
    BY DEF AllocNext, Finish, Malloc, Steps, Reuse, Fresh, OutOfMemory, Retry, Returns, Collect,
           Synchronize, EmptyCache, Tear, Free, DeferFree, RecordStream, Launch, Undefined,
           callVars, allocVars
  <2>2. cached' = {} /\ pending' = {}
    BY <2>1 DEF Retry, Flush
  <2>3. \A g \in device' : \E a \in active' : Within(a, g)
    BY <2>2 DEF AllocInv, Laid, Used
  <2>4. NoRoom(w, device')
    BY <2>1 DEF Retry, Raises, Returns
  <2> QED
    BY <2>2, <2>3, <2>4 DEF AllocInv, OneCall
<1> QED
  BY <1>1, AllocAlways, PTL DEF AllocSpec, OomOnlyWhenExhausted

=============================================================================
