--------------------------- MODULE SchedulerProofs --------------------------
(***************************************************************************)
(* Proofs about the scheduler, for any number of requests, blocks and      *)
(* tokens and for any two block sizes.                                     *)
(*                                                                         *)
(* The argument is one inductive invariant, Inv.  The types alone are not  *)
(* inductive: free_block_ids[0] exists only because the blocks of an       *)
(* admission are Funded; a ref_count stays a natural number only because   *)
(* it counts the table entries (Accounted); may_append has a last block to *)
(* publish only because every running sequence is Rooted; deque.remove     *)
(* takes the right element out because the queues are in ArrivalOrder, and *)
(* they stay so because requests arrive in the order of their ids          *)
(* (Numbered).                                                             *)
(*                                                                         *)
(* First come the lemmas on the bookkeeping of blocks: what                *)
(* _allocate_block, the reuse of a block and one iteration of deallocate   *)
(* do to ref_count, free_block_ids, used_block_ids and the block tables,   *)
(* each of which keeps them Accounted; then facts about the queues.        *)
(***************************************************************************)
EXTENDS Scheduler, FiniteSetTheorems, SequenceTheorems, TLAPS

-----------------------------------------------------------------------------
(* Sequences                                                               *)

LEMMA RemoveAtProperties ==
  ASSUME NEW S, NEW q \in Seq(S), NEW k \in 1 .. Len(q)
  PROVE  /\ RemoveAt(q, k) \in Seq(S)
         /\ Len(RemoveAt(q, k)) = Len(q) - 1
         /\ \A j \in 1 .. Len(q) - 1 :
              RemoveAt(q, k)[j] = IF j < k THEN q[j] ELSE q[j + 1]
<1> DEFINE a == SubSeq(q, 1, k - 1)
           b == SubSeq(q, k + 1, Len(q))
<1>1. a \in Seq(S) /\ Len(a) = k - 1 /\ \A j \in 1 .. k - 1 : a[j] = q[j]
  OBVIOUS
<1>2. b \in Seq(S) /\ Len(b) = Len(q) - k /\ \A j \in 1 .. Len(q) - k : b[j] = q[k + j]
  OBVIOUS
<1>3. RemoveAt(q, k) = a \o b
  BY DEF RemoveAt
<1> HIDE DEF a, b
<1>4. /\ a \o b \in Seq(S)
      /\ Len(a \o b) = Len(a) + Len(b)
      /\ \A j \in 1 .. Len(a) + Len(b) :
           (a \o b)[j] = IF j <= Len(a) THEN a[j] ELSE b[j - Len(a)]
  BY <1>1, <1>2, ConcatProperties
<1>5. ASSUME NEW j \in 1 .. Len(q) - 1
      PROVE  (a \o b)[j] = IF j < k THEN q[j] ELSE q[j + 1]
  <2>1. CASE j < k
    BY <2>1, <1>1, <1>2, <1>4
  <2>2. CASE j >= k
    <3>1. j - (k - 1) \in 1 .. Len(q) - k
      BY <2>2
    <3>2. (a \o b)[j] = b[j - (k - 1)]
      BY <2>2, <1>1, <1>2, <1>4
    <3> QED BY <2>2, <3>1, <3>2, <1>2
  <2>3. j < k \/ j >= k
    OBVIOUS
  <2> QED BY <2>1, <2>2, <2>3
<1> QED BY <1>1, <1>2, <1>3, <1>4, <1>5

\* deque.remove of an element that occurs once.
LEMMA RemoveFirstOfOne ==
  ASSUME NEW S, NEW q \in Seq(S), NEW k \in 1 .. Len(q),
         \A j \in 1 .. Len(q) : q[j] = q[k] => j = k
  PROVE  RemoveFirst(q, q[k]) = RemoveAt(q, k)
<1> DEFINE I == {i \in 1 .. Len(q) : q[i] = q[k]}
<1>1. I = {k}
  OBVIOUS
<1>2. Min(I) = k
  BY <1>1 DEF Min
<1>3. SelectInSeq(q, LAMBDA v : v = q[k]) = k
  BY <1>1, <1>2 DEF SelectInSeq
<1> QED BY <1>3 DEF RemoveFirst

LEMMA SubSeqInSeq ==
  ASSUME NEW S, NEW q \in Seq(S), NEW m \in Nat \ {0}, NEW n \in Int, n <= Len(q)
  PROVE  SubSeq(q, m, n) \in Seq(S)
<1>1. CASE m <= n + 1
  BY <1>1, SubSeqProperties
<1>2. CASE m > n + 1
  BY <1>2, SubSeqEmpty
<1> QED BY <1>1, <1>2

LEMMA FrontProperties ==
  ASSUME NEW S, NEW q \in Seq(S), q # << >>
  PROVE  /\ Front(q) \in Seq(S)
         /\ Len(Front(q)) = Len(q) - 1
         /\ \A i \in 1 .. Len(q) - 1 : Front(q)[i] = q[i]
         /\ Last(q) \in S
         /\ Append(Front(q), Last(q)) = q
<1>1. Len(q) \in Nat \ {0}
  OBVIOUS
<1>2. /\ Front(q) \in Seq(S)
      /\ Len(Front(q)) = Len(q) - 1
      /\ \A i \in 1 .. Len(q) - 1 : Front(q)[i] = q[i]
  <2> DEFINE f == SubSeq(q, 1, Len(q) - 1)
  <2>1. f \in Seq(S) /\ Len(f) = Len(q) - 1 /\ \A i \in 1 .. Len(q) - 1 : f[i] = q[i]
    <3>1. PICK n \in 0 .. Len(q) : n = Len(q) - 1
      <4>1. Len(q) - 1 \in 0 .. Len(q)
        BY ONLY <1>1, SMT
      <4> QED BY ONLY <4>1, Zenon
    <3>2. /\ SubSeq(q, 1, n) \in Seq(S) /\ Len(SubSeq(q, 1, n)) = n
          /\ \A i \in 1 .. n : SubSeq(q, 1, n)[i] = q[i]
      OBVIOUS
    <3> QED BY <3>1, <3>2
  <2>2. Front(q) = f
    BY DEF Front
  <2> QED BY <2>1, <2>2
<1>3. Last(q) \in S
  BY <1>1 DEF Last
<1> DEFINE r == Append(Front(q), Last(q))
<1>4. r \in Seq(S) /\ Len(r) = Len(q) /\ \A i \in 1 .. Len(q) : r[i] = q[i]
  BY <1>1, <1>2, <1>3 DEF Last
<1>5. r = q
  BY <1>4, SeqEqual
<1> QED BY <1>2, <1>3, <1>5

LEMMA MinOfTwo ==
  ASSUME NEW m \in Int, NEW n \in Int
  PROVE  Min({m, n}) \in {m, n} /\ Min({m, n}) <= m /\ Min({m, n}) <= n
<1>1. \E x \in {m, n} : \A y \in {m, n} : x <= y
  OBVIOUS
<1> QED BY <1>1 DEF Min

\* No element of q occurs twice, and c occurs in q.
Distinct(q) == \A j, k \in 1 .. Len(q) : q[j] = q[k] => j = k
Occurs(c, q) == \E k \in 1 .. Len(q) : q[k] = c

LEMMA DistinctRemove ==
  ASSUME NEW S, NEW q \in Seq(S), NEW k \in 1 .. Len(q), Distinct(q), NEW r,
         r = RemoveAt(q, k)
  PROVE  /\ Distinct(r)
         /\ ~Occurs(q[k], r)
         /\ \A c : c # q[k] => (Occurs(c, r) <=> Occurs(c, q))
<1>1. /\ r \in Seq(S) /\ Len(r) = Len(q) - 1
      /\ \A j \in 1 .. Len(q) - 1 : r[j] = IF j < k THEN q[j] ELSE q[j + 1]
  BY ONLY q \in Seq(S), k \in 1 .. Len(q), r = RemoveAt(q, k), RemoveAtProperties
<1>2. \A i, j \in 1 .. Len(q) : q[i] = q[j] => i = j
  BY DEF Distinct
<1>n. PICK n \in Nat : n = Len(q)
  OBVIOUS
<1>3. ASSUME NEW j \in 1 .. Len(r)
      PROVE  \E i \in 1 .. n : /\ i = (IF j < k THEN j ELSE j + 1)
                                /\ i # k /\ r[j] = q[i]
  <2>1. CASE j < k
    BY <2>1, <1>1, <1>n
  <2>2. CASE ~(j < k)
    BY <2>2, <1>1, <1>n
  <2> QED BY <2>1, <2>2
<1>4. ASSUME NEW i \in 1 .. Len(r), NEW j \in 1 .. Len(r), r[i] = r[j]
      PROVE  i = j
  <2>1. PICK a \in 1 .. n : a = (IF i < k THEN i ELSE i + 1) /\ r[i] = q[a]
    BY <1>3
  <2>2. PICK b \in 1 .. n : b = (IF j < k THEN j ELSE j + 1) /\ r[j] = q[b]
    BY <1>3
  <2>3. a = b
    BY <2>1, <2>2, <1>4, <1>2, <1>n
  <2>4. i \in Int /\ j \in Int /\ k \in Int
    BY <1>n, <1>1
  <2> QED BY ONLY <2>1, <2>2, <2>3, <2>4
<1>5. ~Occurs(q[k], r)
  <2> SUFFICES ASSUME NEW j \in 1 .. Len(r), r[j] = q[k] PROVE FALSE
    BY DEF Occurs
  <2>1. PICK a \in 1 .. n : a # k /\ r[j] = q[a]
    BY <1>3
  <2> QED BY <2>1, <1>2, <1>n
<1>6. ASSUME NEW c, c # q[k], NEW j \in 1 .. Len(q), q[j] = c
      PROVE  \E i \in 1 .. Len(r) : r[i] = c
  <2>1. CASE j < k
    <3>1. j \in 1 .. Len(r) /\ r[j] = q[j]
      BY <2>1, <1>1
    <3> QED BY <3>1, <1>6
  <2>2. CASE j > k
    <3>1. j - 1 \in 1 .. Len(r) /\ r[j - 1] = q[j]
      BY <2>2, <1>1
    <3> QED BY <3>1, <1>6
  <2>3. j # k
    BY <1>6
  <2> QED BY <2>1, <2>2, <2>3
<1>7. ASSUME NEW c, NEW j \in 1 .. Len(r), r[j] = c
      PROVE  \E i \in 1 .. Len(q) : q[i] = c
  BY <1>3, <1>7, <1>n
<1> QED BY <1>4, <1>5, <1>6, <1>7 DEF Distinct, Occurs

LEMMA DistinctAppend ==
  ASSUME NEW S, NEW q \in Seq(S), NEW e \in S, Distinct(q), ~Occurs(e, q), NEW r,
         r = Append(q, e)
  PROVE  /\ Distinct(r)
         /\ Occurs(e, r)
         /\ \A c : c # e => (Occurs(c, r) <=> Occurs(c, q))
<1>1. PICK n \in Nat : n = Len(q)
  OBVIOUS
<1>2. Len(r) = n + 1 /\ r[n + 1] = e /\ \A j \in 1 .. n : r[j] = q[j]
  BY <1>1
<1>3. /\ \A i, j \in 1 .. n : q[i] = q[j] => i = j
      /\ \A j \in 1 .. n : q[j] # e
  BY <1>1 DEF Distinct, Occurs
<1>4. \A j \in 1 .. n + 1 : j = n + 1 \/ j \in 1 .. n
  OBVIOUS
<1>5. Distinct(r)
  <2> SUFFICES ASSUME NEW i \in 1 .. n + 1, NEW j \in 1 .. n + 1, r[i] = r[j]
               PROVE  i = j
    BY <1>2 DEF Distinct
  <2>1. CASE i = n + 1
    BY ONLY <2>1, r[i] = r[j], i \in 1 .. n + 1, j \in 1 .. n + 1, <1>2, <1>3, <1>4
  <2>2. CASE j = n + 1
    BY ONLY <2>2, r[i] = r[j], i \in 1 .. n + 1, j \in 1 .. n + 1, <1>2, <1>3, <1>4
  <2>3. CASE i \in 1 .. n /\ j \in 1 .. n
    BY ONLY <2>3, r[i] = r[j], <1>2, <1>3
  <2> QED BY <2>1, <2>2, <2>3, <1>4
<1>6. Occurs(e, r)
  BY <1>2 DEF Occurs
<1>7. ASSUME NEW c, c # e PROVE Occurs(c, r) <=> Occurs(c, q)
  <2>1. ASSUME NEW j \in 1 .. n + 1, r[j] = c PROVE \E i \in 1 .. n : q[i] = c
    BY ONLY <2>1, <1>7, <1>2, <1>4
  <2>2. ASSUME NEW j \in 1 .. n, q[j] = c PROVE \E i \in 1 .. n + 1 : r[i] = c
    BY ONLY <2>2, <1>2, n \in Nat
  <2> QED BY <2>1, <2>2, <1>1, <1>2 DEF Occurs
<1> QED BY <1>5, <1>6, <1>7

-----------------------------------------------------------------------------
(* The accounting of blocks                                                *)

\* RefCounted, and that the holders of a block can be counted
Counted ==
  \A b \in Blocks : /\ IsFiniteSet(Holders(table, b))
                    /\ ref[b] = Cardinality(Holders(table, b))

\* the types of what the accounting reads and writes, and both its invariants
Accounted ==
  /\ ref \in [Blocks -> Nat]
  /\ free \in Seq(Blocks)
  /\ used \subseteq Blocks
  /\ table \in [Seqs -> Seq(Blocks)]
  /\ Counted
  /\ Partitioned

-----------------------------------------------------------------------------
(* Blocks                                                                  *)

LEMMA PartitionView ==
  Partitioned <=> /\ Distinct(free)
                  /\ \A b \in Blocks : b \in used <=> ref[b] > 0
                  /\ \A b \in Blocks : b \in used <=> ~Occurs(b, free)
BY DEF Partitioned, Distinct, Occurs

LEMMA HoldersMember ==
  ASSUME NEW t, NEW b, NEW p
  PROVE  p \in Holders(t, b)
           <=> \E s \in Seqs : \E i \in DOMAIN t[s] : p = <<s, i>> /\ t[s][i] = b
BY DEF Holders

LEMMA HoldersGrow ==
  ASSUME table \in [Seqs -> Seq(Blocks)], NEW s \in Seqs, NEW b \in Blocks,
         table' = [table EXCEPT ![s] = Append(@, b)]
  PROVE  \E n \in Nat :
           /\ <<s, n>> \notin Holders(table, b)
           /\ Holders(table', b) = Holders(table, b) \cup {<<s, n>>}
           /\ \A c \in Blocks \ {b} : Holders(table', c) = Holders(table, c)
<1>1. PICK n \in Nat : n = Len(table[s]) + 1
  OBVIOUS
<1>2. /\ DOMAIN table[s] = 1 .. n - 1
      /\ DOMAIN table'[s] = 1 .. n /\ table'[s][n] = b
      /\ \A i \in 1 .. n - 1 : table'[s][i] = table[s][i]
      /\ \A r \in Seqs \ {s} : table'[r] = table[r]
  BY <1>1
<1>3. <<s, n>> \notin Holders(table, b)
  <2> SUFFICES ASSUME <<s, n>> \in Holders(table, b) PROVE FALSE
    OBVIOUS
  <2>1. PICK r \in Seqs : \E i \in DOMAIN table[r] : <<s, n>> = <<r, i>> /\ table[r][i] = b
    BY HoldersMember
  <2> QED BY <2>1, <1>2
<1>4. ASSUME NEW c \in Blocks, NEW p
      PROVE  p \in Holders(table', c)
               <=> p \in Holders(table, c) \/ (c = b /\ p = <<s, n>>)
  <2>1. ASSUME p \in Holders(table', c)
        PROVE  p \in Holders(table, c) \/ (c = b /\ p = <<s, n>>)
    <3>1. PICK r \in Seqs : \E i \in DOMAIN table'[r] : p = <<r, i>> /\ table'[r][i] = c
      BY ONLY <2>1, HoldersMember
    <3>2. PICK i \in DOMAIN table'[r] : p = <<r, i>> /\ table'[r][i] = c
      BY <3>1
    <3>3. CASE r = s /\ i = n
      BY <3>2, <3>3, <1>2
    <3>4. CASE ~(r = s /\ i = n)
      <4>1. i \in DOMAIN table[r] /\ table[r][i] = c
        BY <3>2, <3>4, <1>2
      <4> QED BY <4>1, <3>2, HoldersMember
    <3> QED BY <3>3, <3>4
  <2>2. ASSUME p \in Holders(table, c)
        PROVE  p \in Holders(table', c)
    <3>1. PICK r \in Seqs : \E i \in DOMAIN table[r] : p = <<r, i>> /\ table[r][i] = c
      BY ONLY <2>2, HoldersMember
    <3>2. PICK i \in DOMAIN table[r] : p = <<r, i>> /\ table[r][i] = c
      BY <3>1
    <3>3. i \in DOMAIN table'[r] /\ table'[r][i] = c
      BY <3>2, <1>2
    <3> QED BY ONLY r \in Seqs, <3>2, <3>3, HoldersMember
  <2>3. ASSUME c = b, p = <<s, n>>
        PROVE  p \in Holders(table', c)
    <3>1. n \in DOMAIN table'[s] /\ table'[s][n] = c
      BY <2>3, <1>2, <1>1
    <3> QED BY ONLY s \in Seqs, <2>3, <3>1, HoldersMember
  <2> QED BY <2>1, <2>2, <2>3
<1>5. Holders(table', b) = Holders(table, b) \cup {<<s, n>>}
  BY <1>4
<1>6. \A c \in Blocks \ {b} : Holders(table', c) = Holders(table, c)
  BY <1>4
<1> QED BY <1>3, <1>5, <1>6

LEMMA HoldersShrink ==
  ASSUME table \in [Seqs -> Seq(Blocks)], NEW s \in Seqs, table[s] # << >>,
         table' = [table EXCEPT ![s] = Front(@)]
  PROVE  \E b \in Blocks, n \in Nat :
           /\ b = Last(table[s])
           /\ <<s, n>> \in Holders(table, b)
           /\ Holders(table', b) = Holders(table, b) \ {<<s, n>>}
           /\ \A c \in Blocks \ {b} : Holders(table', c) = Holders(table, c)
<1>1. PICK n \in Nat : n = Len(table[s])
  OBVIOUS
<1>2. PICK b \in Blocks : b = Last(table[s])
  BY FrontProperties
<1>3. /\ n > 0 /\ DOMAIN table[s] = 1 .. n /\ table[s][n] = b
      /\ DOMAIN table'[s] = 1 .. n - 1
      /\ \A i \in 1 .. n - 1 : table'[s][i] = table[s][i]
      /\ \A r \in Seqs \ {s} : table'[r] = table[r]
  <2>1. table'[s] = Front(table[s]) /\ table[s] \in Seq(Blocks)
    OBVIOUS
  <2>2. /\ table'[s] \in Seq(Blocks) /\ Len(table'[s]) = n - 1
        /\ \A i \in 1 .. n - 1 : table'[s][i] = table[s][i]
    BY <2>1, <1>1, FrontProperties
  <2>3. n > 0 /\ table[s][n] = b
    BY <1>1, <1>2 DEF Last
  <2> QED BY <2>1, <2>2, <2>3, <1>1
<1>4. <<s, n>> \in Holders(table, b)
  BY <1>3, HoldersMember
<1>5. ASSUME NEW c \in Blocks, NEW p
      PROVE  p \in Holders(table', c)
               <=> p \in Holders(table, c) /\ p # <<s, n>>
  <2>1. ASSUME p \in Holders(table', c)
        PROVE  p \in Holders(table, c) /\ p # <<s, n>>
    <3>1. PICK r \in Seqs : \E i \in DOMAIN table'[r] : p = <<r, i>> /\ table'[r][i] = c
      BY ONLY <2>1, HoldersMember
    <3>2. PICK i \in DOMAIN table'[r] : p = <<r, i>> /\ table'[r][i] = c
      BY <3>1
    <3>3. i \in DOMAIN table[r] /\ table[r][i] = c /\ (r = s => i # n)
      BY <3>2, <1>3
    <3> QED BY <3>2, <3>3, HoldersMember
  <2>2. ASSUME p \in Holders(table, c), p # <<s, n>>
        PROVE  p \in Holders(table', c)
    <3>1. PICK r \in Seqs : \E i \in DOMAIN table[r] : p = <<r, i>> /\ table[r][i] = c
      BY ONLY <2>2, HoldersMember
    <3>2. PICK i \in DOMAIN table[r] : p = <<r, i>> /\ table[r][i] = c
      BY <3>1
    <3>3. i \in DOMAIN table'[r] /\ table'[r][i] = c
      BY <2>2, <3>2, <1>3
    <3> QED BY ONLY r \in Seqs, <3>2, <3>3, HoldersMember
  <2> QED BY <2>1, <2>2
<1>6. Holders(table', b) = Holders(table, b) \ {<<s, n>>}
  BY <1>5
<1>7. ASSUME NEW c \in Blocks \ {b} PROVE Holders(table', c) = Holders(table, c)
  <2>1. <<s, n>> \notin Holders(table, c)
    <3> SUFFICES ASSUME <<s, n>> \in Holders(table, c) PROVE FALSE
      OBVIOUS
    <3>1. PICK r \in Seqs : \E i \in DOMAIN table[r] : <<s, n>> = <<r, i>> /\ table[r][i] = c
      BY HoldersMember
    <3> QED BY <3>1, <1>3
  <2> QED BY <2>1, <1>5
<1> QED BY <1>2, <1>4, <1>6, <1>7

\* _allocate_block of a block that is not in use, and the table entry for it.
LEMMA TakeAccounted ==
  ASSUME Accounted, NEW s \in Seqs, NEW b \in Blocks, b \notin used,
         TakeBlock(b), table' = [table EXCEPT ![s] = Append(@, b)]
  PROVE  Accounted' /\ Len(free') = Len(free) - 1
<1>0. /\ free \in Seq(Blocks)
      /\ Distinct(free)
      /\ \A c \in Blocks : c \in used <=> ref[c] > 0
      /\ \A c \in Blocks : c \in used <=> ~Occurs(c, free)
  BY PartitionView DEF Accounted
<1>1. ref[b] = 0 /\ Occurs(b, free)
  BY <1>0 DEF Accounted
<1>2. PICK k \in 1 .. Len(free) : free[k] = b
  BY <1>1 DEF Occurs
<1>3. \A j \in 1 .. Len(free) : free[j] = free[k] => j = k
  BY <1>0 DEF Distinct
<1>4. free' = RemoveAt(free, k)
  BY <1>0, <1>2, <1>3, RemoveFirstOfOne DEF TakeBlock
<1>5. free' \in Seq(Blocks) /\ Len(free') = Len(free) - 1
  BY <1>0, <1>4, RemoveAtProperties
<1>6. /\ ref' = [ref EXCEPT ![b] = 1]
      /\ used' = used \cup {b}
  BY DEF TakeBlock
<1>7. /\ ref' \in [Blocks -> Nat]
      /\ used' \subseteq Blocks
      /\ table' \in [Seqs -> Seq(Blocks)]
  BY <1>6 DEF Accounted
<1>8. ref'[b] = 1 /\ \A c \in Blocks \ {b} : ref'[c] = ref[c]
  BY <1>6 DEF Accounted
<1>9. Counted'
  <2>1. Holders(table, b) = {}
    BY <1>1, FS_EmptySet DEF Accounted, Counted
  <2>2. PICK n \in Nat :
           /\ Holders(table', b) = Holders(table, b) \cup {<<s, n>>}
           /\ \A c \in Blocks \ {b} : Holders(table', c) = Holders(table, c)
    BY HoldersGrow DEF Accounted
  <2>3. IsFiniteSet(Holders(table', b)) /\ Cardinality(Holders(table', b)) = 1
    <3>1. Holders(table', b) = {<<s, n>>}
      BY <2>1, <2>2
    <3> QED BY ONLY <3>1, FS_Singleton
  <2> QED BY <2>2, <2>3, <1>8 DEF Accounted, Counted
<1>10. /\ Distinct(free')
       /\ ~Occurs(b, free')
       /\ \A c : c # b => (Occurs(c, free') <=> Occurs(c, free))
  BY ONLY <1>0, <1>2, <1>4, DistinctRemove
<1>11. ASSUME NEW c \in Blocks
       PROVE  (c \in used' <=> ref'[c] > 0) /\ (c \in used' <=> ~Occurs(c, free'))
  <2>1. CASE c = b
    BY ONLY <2>1, <1>6, <1>8, <1>10
  <2>2. CASE c # b
    <3>1. c \in used' <=> c \in used
      BY ONLY <2>2, <1>6
    <3>2. ref'[c] = ref[c]
      BY <2>2, <1>8
    <3> QED BY ONLY <2>2, <3>1, <3>2, <1>0, <1>10, c \in Blocks
  <2> QED BY <2>1, <2>2
<1>12. Partitioned'
  BY ONLY <1>10, <1>11 DEF Partitioned, Distinct, Occurs
<1> QED BY <1>5, <1>7, <1>9, <1>12 DEF Accounted

\* allocate's reuse of a block that is in use.
LEMMA ShareAccounted ==
  ASSUME Accounted, NEW s \in Seqs, NEW b \in used,
         ShareBlock(b), table' = [table EXCEPT ![s] = Append(@, b)]
  PROVE  Accounted' /\ free' = free
<1>1. b \in Blocks /\ ref[b] > 0
  BY DEF Accounted, Partitioned
<1>2. /\ ref' = [ref EXCEPT ![b] = @ + 1]
      /\ free' = free /\ used' = used
  BY DEF ShareBlock
<1>3. ref' \in [Blocks -> Nat] /\ table' \in [Seqs -> Seq(Blocks)]
  BY <1>1, <1>2 DEF Accounted
<1>4. PICK n \in Nat :
        /\ <<s, n>> \notin Holders(table, b)
        /\ Holders(table', b) = Holders(table, b) \cup {<<s, n>>}
        /\ \A c \in Blocks \ {b} : Holders(table', c) = Holders(table, c)
  BY <1>1, HoldersGrow DEF Accounted
<1>5. /\ IsFiniteSet(Holders(table', b))
      /\ Cardinality(Holders(table', b)) = Cardinality(Holders(table, b)) + 1
  <2>1. IsFiniteSet(Holders(table, b))
    BY <1>1 DEF Accounted, Counted
  <2> QED BY ONLY <2>1, <1>4, FS_AddElement
<1>6. ref'[b] = ref[b] + 1 /\ \A c \in Blocks \ {b} : ref'[c] = ref[c]
  BY <1>1, <1>2 DEF Accounted
<1>7. Counted'
  BY <1>1, <1>4, <1>5, <1>6 DEF Accounted, Counted
<1>8. Partitioned'
  <2>1. ASSUME NEW c \in Blocks
        PROVE  c \in used' <=> ref'[c] > 0
    <3>1. c \in used <=> ref[c] > 0
      BY DEF Accounted, Partitioned
    <3>2. ref'[c] > 0 <=> ref[c] > 0
      BY <1>1, <1>6 DEF Accounted
    <3> QED BY <3>1, <3>2, <1>2
  <2> QED BY <2>1, <1>2 DEF Accounted, Partitioned
<1> QED BY <1>2, <1>3, <1>7, <1>8 DEF Accounted

\* One iteration of deallocate: the block is in use when its reference goes,
\* and it goes back to free_block_ids exactly when that was the last one.
LEMMA DropAccounted ==
  ASSUME Accounted, NEW s \in Seqs, ~Freed(s), DeallocateLast(s)
  PROVE  Accounted'
<1>0. PICK b : /\ b = Last(table[s])
               /\ ref' = [ref EXCEPT ![b] = @ - 1]
               /\ IF ref[b] = 1 THEN used' = used \ {b} /\ free' = Append(free, b)
                                ELSE UNCHANGED <<used, free>>
  BY DEF DeallocateLast, Unreferenced, Release
<1>a. PICK n \in Nat :
        /\ b \in Blocks
        /\ <<s, n>> \in Holders(table, b)
        /\ Holders(table', b) = Holders(table, b) \ {<<s, n>>}
        /\ \A c \in Blocks \ {b} : Holders(table', c) = Holders(table, c)
  <2>1. /\ table \in [Seqs -> Seq(Blocks)] /\ table[s] # << >>
        /\ table' = [table EXCEPT ![s] = Front(@)]
    BY DEF Accounted, Freed, DeallocateLast
  <2>2. b = Last(table[s])
    BY <1>0
  <2> QED BY <2>1, <2>2, HoldersShrink
<1>1. table' \in [Seqs -> Seq(Blocks)]
  <2>1. Front(table[s]) \in Seq(Blocks)
    BY FrontProperties DEF Accounted, Freed
  <2> QED BY <2>1 DEF Accounted, DeallocateLast
<1>2. b \in Blocks
  BY <1>a
<1>3. IsFiniteSet(Holders(table, b)) /\ ref[b] = Cardinality(Holders(table, b))
  BY <1>2 DEF Accounted, Counted
<1>4. /\ IsFiniteSet(Holders(table', b))
      /\ Cardinality(Holders(table', b)) = ref[b] - 1
  BY ONLY <1>a, <1>3, FS_RemoveElement
<1>5. ref[b] \in Nat /\ ref[b] > 0
  <2>1. ref[b] # 0
    BY ONLY <1>a, <1>3, FS_EmptySet
  <2>2. ref[b] \in Nat
    BY <1>2 DEF Accounted
  <2> QED BY <2>1, <2>2
<1>6. /\ ref' \in [Blocks -> Nat]
      /\ ref'[b] = ref[b] - 1 /\ \A c \in Blocks \ {b} : ref'[c] = ref[c]
  BY <1>0, <1>2, <1>5 DEF Accounted
<1>7. Counted'
  <2> SUFFICES ASSUME NEW c \in Blocks
               PROVE  /\ IsFiniteSet(Holders(table', c))
                      /\ ref'[c] = Cardinality(Holders(table', c))
    BY DEF Counted
  <2>1. CASE c = b
    BY <2>1, <1>4, <1>6
  <2>2. CASE c # b
    BY <2>2, <1>a, <1>6 DEF Accounted, Counted
  <2> QED BY <2>1, <2>2
<1>8. /\ free \in Seq(Blocks) /\ used \subseteq Blocks
      /\ Distinct(free)
      /\ \A c \in Blocks : c \in used <=> ref[c] > 0
      /\ \A c \in Blocks : c \in used <=> ~Occurs(c, free)
  BY PartitionView DEF Accounted
<1>9. b \in used /\ ~Occurs(b, free)
  BY ONLY <1>8, <1>2, <1>5
<1>10. CASE ref[b] = 1
  <2>1. used' = used \ {b} /\ free' = Append(free, b)
    BY <1>10, <1>0
  <2>2. /\ Distinct(free')
        /\ Occurs(b, free')
        /\ \A c : c # b => (Occurs(c, free') <=> Occurs(c, free))
    BY ONLY <1>2, <1>8, <1>9, <2>1, DistinctAppend
  <2>3. ASSUME NEW c \in Blocks
        PROVE  (c \in used' <=> ref'[c] > 0) /\ (c \in used' <=> ~Occurs(c, free'))
    <3>1. CASE c = b
      <4>1. ~(ref'[c] > 0)
        BY ONLY <3>1, <1>6, <1>10
      <4> QED BY ONLY <3>1, <4>1, <2>1, <2>2
    <3>2. CASE c # b
      <4>1. c \in used' <=> c \in used
        BY ONLY <3>2, <2>1
      <4>2. ref'[c] = ref[c]
        BY <3>2, <1>6
      <4> QED BY ONLY <3>2, <4>1, <4>2, <1>8, <2>2, c \in Blocks
    <3> QED BY <3>1, <3>2
  <2>4. Partitioned'
    BY ONLY <2>2, <2>3 DEF Partitioned, Distinct, Occurs
  <2>5. free' \in Seq(Blocks) /\ used' \subseteq Blocks
    BY ONLY <2>1, <1>2, <1>8
  <2> QED BY <2>4, <2>5, <1>1, <1>6, <1>7 DEF Accounted
<1>11. CASE ref[b] # 1
  <2>1. used' = used /\ free' = free
    BY <1>11, <1>0
  <2>2. ASSUME NEW c \in Blocks
        PROVE  ref'[c] > 0 <=> ref[c] > 0
    <3>1. CASE c = b
      BY ONLY <3>1, <1>11, <1>5, <1>6
    <3>2. CASE c # b
      BY <3>2, <1>6
    <3> QED BY <3>1, <3>2
  <2>3. Partitioned'
    BY <2>1, <2>2 DEF Accounted, Partitioned
  <2> QED BY <2>1, <2>3, <1>1, <1>6, <1>7 DEF Accounted
<1> QED BY <1>10, <1>11

-----------------------------------------------------------------------------
(* The two queues of the scheduler as sequences: moving the head of one to *)
(* the end of the other, or the last of one to the head of the other,      *)
(* leaves the line they form together alone, and removing an element of    *)
(* one keeps the line sorted.                                              *)

Sorted(q) == \A j, k \in 1 .. Len(q) : j < k => q[j] < q[k]

\* popleft of q and append to p
LEMMA MoveHead ==
  ASSUME NEW S, NEW p \in Seq(S), NEW q \in Seq(S), q # << >>
  PROVE  /\ Append(p, Head(q)) \o Tail(q) = p \o q
         /\ Append(p, Head(q)) \in Seq(S) /\ Tail(q) \in Seq(S)
<1>1. Head(q) \in S /\ Tail(q) \in Seq(S)
  OBVIOUS
<1>2. Append(p, Head(q)) = p \o <<Head(q)>>
  BY <1>1, AppendIsConcat
<1>3. <<Head(q)>> \in Seq(S)
  BY <1>1
<1>4. (p \o <<Head(q)>>) \o Tail(q) = p \o (<<Head(q)>> \o Tail(q))
  BY ONLY <1>1, <1>3, p \in Seq(S), ConcatAssociative
<1>5. <<Head(q)>> \o Tail(q) = q
  <2>1. <<Head(q)>> \o Tail(q) \in Seq(S)
    BY <1>1, <1>3
  <2>2. Len(<<Head(q)>> \o Tail(q)) = Len(q)
    BY <1>1
  <2>3. \A i \in 1 .. Len(q) : (<<Head(q)>> \o Tail(q))[i] = q[i]
    BY <1>1
  <2> QED BY <2>1, <2>2, <2>3, SeqEqual
<1> QED BY <1>1, <1>2, <1>4, <1>5

\* pop of p and appendleft to q
LEMMA MoveLast ==
  ASSUME NEW S, NEW p \in Seq(S), NEW q \in Seq(S), p # << >>
  PROVE  Front(p) \o (<<Last(p)>> \o q) = p \o q
<1>1. /\ Front(p) \in Seq(S) /\ Last(p) \in S
      /\ Append(Front(p), Last(p)) = p
  BY ONLY p \in Seq(S), p # << >>, FrontProperties
<1>2. Append(Front(p), Last(p)) = Front(p) \o <<Last(p)>>
  BY ONLY <1>1, AppendIsConcat
<1>3. <<Last(p)>> \in Seq(S)
  BY <1>1
<1>4. (Front(p) \o <<Last(p)>>) \o q = Front(p) \o (<<Last(p)>> \o q)
  BY ONLY <1>1, <1>3, q \in Seq(S), ConcatAssociative
<1> QED BY ONLY <1>1, <1>2, <1>4

LEMMA SortedDistinct ==
  ASSUME NEW q \in Seq(Int), Sorted(q)
  PROVE  Distinct(q)
BY DEF Sorted, Distinct

LEMMA SortedConcat ==
  ASSUME NEW p \in Seq(Int), NEW q \in Seq(Int)
  PROVE  Sorted(p \o q) <=> /\ Sorted(p) /\ Sorted(q)
                            /\ \A j \in 1 .. Len(p), k \in 1 .. Len(q) : p[j] < q[k]
<1> DEFINE r == p \o q
<1>1. /\ r \in Seq(Int) /\ Len(r) = Len(p) + Len(q)
      /\ \A i \in 1 .. Len(p) : r[i] = p[i]
      /\ \A i \in 1 .. Len(q) : r[Len(p) + i] = q[i]
  OBVIOUS
<1> HIDE DEF r
<1>2. PICK m \in Nat, n \in Nat : m = Len(p) /\ n = Len(q)
  OBVIOUS
<1>3. ASSUME Sorted(r)
      PROVE  /\ Sorted(p) /\ Sorted(q)
             /\ \A j \in 1 .. m, k \in 1 .. n : p[j] < q[k]
  <2>1. \A j, k \in 1 .. m + n : j < k => r[j] < r[k]
    BY <1>1, <1>2, <1>3 DEF Sorted
  <2>2. Sorted(p)
    BY <2>1, <1>1, <1>2 DEF Sorted
  <2>3. ASSUME NEW j \in 1 .. n, NEW k \in 1 .. n, j < k PROVE q[j] < q[k]
    <3>1. m + j \in 1 .. m + n /\ m + k \in 1 .. m + n /\ m + j < m + k
      BY <2>3
    <3>2. r[m + j] < r[m + k]
      BY <3>1, <2>1
    <3> QED BY <3>2, <1>1, <1>2
  <2>4. ASSUME NEW j \in 1 .. m, NEW k \in 1 .. n PROVE p[j] < q[k]
    <3>1. j \in 1 .. m + n /\ m + k \in 1 .. m + n /\ j < m + k
      OBVIOUS
    <3>2. r[j] < r[m + k]
      BY <3>1, <2>1
    <3> QED BY <3>2, <1>1, <1>2
  <2> QED BY <2>2, <2>3, <2>4, <1>2 DEF Sorted
<1>4. ASSUME Sorted(p), Sorted(q), \A j \in 1 .. m, k \in 1 .. n : p[j] < q[k],
             NEW j \in 1 .. m + n, NEW k \in 1 .. m + n, j < k
      PROVE  r[j] < r[k]
  <2>1. CASE k <= m
    <3>1. j \in 1 .. m /\ k \in 1 .. m
      BY <2>1, <1>4
    <3> QED BY <3>1, <1>1, <1>2, <1>4 DEF Sorted
  <2>2. CASE j <= m /\ m < k
    <3>1. j \in 1 .. m /\ k - m \in 1 .. n /\ k = m + (k - m)
      BY <2>2
    <3>2. r[j] = p[j] /\ r[k] = q[k - m]
      BY <3>1, <1>1, <1>2
    <3> QED BY <3>1, <3>2, <1>4
  <2>3. CASE m < j
    <3>1. /\ j - m \in 1 .. n /\ k - m \in 1 .. n /\ j - m < k - m
          /\ j = m + (j - m) /\ k = m + (k - m)
      BY <2>3, <1>4
    <3>2. r[j] = q[j - m] /\ r[k] = q[k - m]
      BY <3>1, <1>1, <1>2
    <3> QED BY <3>1, <3>2, <1>2, <1>4 DEF Sorted
  <2> QED BY <2>1, <2>2, <2>3
<1> QED BY <1>1, <1>2, <1>3, <1>4 DEF Sorted, r

\* deque.remove of a queue that has no element twice
LEMMA RemoveFirstSorted ==
  ASSUME NEW S, NEW q \in Seq(S), S \subseteq Int, Sorted(q), NEW e, NEW r,
         r = RemoveFirst(q, e)
  PROVE  /\ r \in Seq(S) /\ Sorted(r)
         /\ ~Occurs(e, r)
         /\ \A c : Occurs(c, r) => Occurs(c, q)
<1>0. q \in Seq(Int) /\ Distinct(q)
  <2>1. q \in Seq(Int)
    BY SeqMonotonic
  <2> QED BY ONLY <2>1, Sorted(q), SortedDistinct
<1>1. CASE Occurs(e, q)
  <2>1. PICK k \in 1 .. Len(q) : q[k] = e
    BY <1>1 DEF Occurs
  <2>2. \A j \in 1 .. Len(q) : q[j] = q[k] => j = k
    BY ONLY <1>0, k \in 1 .. Len(q) DEF Distinct
  <2>3. r = RemoveAt(q, k)
    BY ONLY <2>1, <2>2, q \in Seq(S), k \in 1 .. Len(q), r = RemoveFirst(q, e),
            RemoveFirstOfOne
  <2>4. /\ r \in Seq(S) /\ Len(r) = Len(q) - 1
        /\ \A j \in 1 .. Len(q) - 1 : r[j] = IF j < k THEN q[j] ELSE q[j + 1]
    BY ONLY <2>3, q \in Seq(S), k \in 1 .. Len(q), RemoveAtProperties
  <2>5. Sorted(r)
    <3>1. PICK n \in Nat : n = Len(q)
      OBVIOUS
    <3>2. ASSUME NEW i \in 1 .. n - 1, NEW j \in 1 .. n - 1, i < j PROVE r[i] < r[j]
      <4>1. /\ r[i] = q[IF i < k THEN i ELSE i + 1]
            /\ r[j] = q[IF j < k THEN j ELSE j + 1]
        BY <2>4, <3>1
      <4>2. PICK a \in 1 .. n, b \in 1 .. n :
              /\ a = (IF i < k THEN i ELSE i + 1)
              /\ b = (IF j < k THEN j ELSE j + 1)
        OBVIOUS
      <4>3. a < b
        BY <3>1, <3>2, <4>2
      <4>4. q[a] < q[b]
        BY ONLY <4>3, <3>1, Sorted(q), a \in 1 .. n, b \in 1 .. n DEF Sorted
      <4> QED BY ONLY <4>1, <4>2, <4>4
    <3> QED BY ONLY <3>1, <3>2, <2>4 DEF Sorted
  <2>6. ~Occurs(e, r) /\ \A c : c # e => (Occurs(c, r) <=> Occurs(c, q))
    BY ONLY <1>0, <2>1, <2>3, q \in Seq(S), k \in 1 .. Len(q), DistinctRemove
  <2> QED BY <1>1, <2>4, <2>5, <2>6
<1>2. CASE ~Occurs(e, q)
  <2>1. r = q
    BY <1>2 DEF Occurs, RemoveFirst
  <2> QED BY <1>2, <2>1
<1> QED BY <1>1, <1>2

\* what occurs in a queue after a move
LEMMA OccursHeadTail ==
  ASSUME NEW S, NEW q \in Seq(S), q # << >>
  PROVE  /\ Occurs(Head(q), q)
         /\ \A c : Occurs(c, Tail(q)) => Occurs(c, q)
<1>1. Len(q) \in Nat /\ Len(q) > 0 /\ Head(q) = q[1]
  OBVIOUS
<1>2. Len(Tail(q)) = Len(q) - 1 /\ \A i \in 1 .. Len(q) - 1 : Tail(q)[i] = q[i + 1]
  OBVIOUS
<1>3. ASSUME NEW i \in 1 .. Len(Tail(q))
      PROVE  i + 1 \in 1 .. Len(q) /\ Tail(q)[i] = q[i + 1]
  BY <1>1, <1>2
<1> QED BY ONLY <1>1, <1>3 DEF Occurs

LEMMA OccursFrontLast ==
  ASSUME NEW S, NEW q \in Seq(S), q # << >>
  PROVE  /\ Occurs(Last(q), q)
         /\ \A c : Occurs(c, Front(q)) => Occurs(c, q)
<1>1. Len(q) \in Nat /\ Len(q) > 0 /\ Last(q) = q[Len(q)]
  BY DEF Last
<1>2. Len(Front(q)) = Len(q) - 1 /\ \A i \in 1 .. Len(q) - 1 : Front(q)[i] = q[i]
  BY FrontProperties
<1>3. 1 .. Len(Front(q)) \subseteq 1 .. Len(q) /\ Len(q) \in 1 .. Len(q)
  BY ONLY <1>1, <1>2
<1> QED BY ONLY <1>1, <1>2, <1>3 DEF Occurs

LEMMA OccursAppend ==
  ASSUME NEW S, NEW q \in Seq(S), NEW e \in S, NEW c
  PROVE  Occurs(c, Append(q, e)) <=> Occurs(c, q) \/ c = e
<1>1. PICK n \in Nat : n = Len(q)
  OBVIOUS
<1> DEFINE r == Append(q, e)
<1>2. Len(r) = n + 1 /\ r[n + 1] = e /\ \A i \in 1 .. n : r[i] = q[i]
  BY <1>1
<1> HIDE DEF r
<1>3. /\ \A i \in 1 .. n + 1 : i \in 1 .. n \/ i = n + 1
      /\ 1 .. n \subseteq 1 .. n + 1 /\ n + 1 \in 1 .. n + 1
  OBVIOUS
<1>4. Occurs(c, r) <=> Occurs(c, q) \/ c = e
  BY ONLY <1>1, <1>2, <1>3 DEF Occurs
<1> QED BY <1>4 DEF r

LEMMA OccursConcat ==
  ASSUME NEW S, NEW p \in Seq(S), NEW q \in Seq(S), NEW c
  PROVE  Occurs(c, p \o q) <=> Occurs(c, p) \/ Occurs(c, q)
<1>1. PICK m \in Nat, n \in Nat : m = Len(p) /\ n = Len(q)
  OBVIOUS
<1> DEFINE r == p \o q
<1>2. /\ Len(r) = m + n
      /\ \A i \in 1 .. m : r[i] = p[i]
      /\ \A i \in 1 .. n : r[m + i] = q[i]
  BY <1>1
<1> HIDE DEF r
<1>3. ASSUME NEW i \in 1 .. m + n
      PROVE  i \in 1 .. m \/ \E j \in 1 .. n : i = m + j
  <2>1. CASE i <= m
    BY <2>1
  <2>2. CASE i > m
    <3>1. i - m \in 1 .. n /\ i = m + (i - m)
      BY <2>2
    <3> QED BY <3>1
  <2> QED BY <2>1, <2>2
<1>4. /\ 1 .. m \subseteq 1 .. m + n
      /\ \A j \in 1 .. n : m + j \in 1 .. m + n
  OBVIOUS
<1>5. Occurs(c, r) => Occurs(c, p) \/ Occurs(c, q)
  BY ONLY <1>1, <1>2, <1>3 DEF Occurs
<1>6. Occurs(c, p) \/ Occurs(c, q) => Occurs(c, r)
  BY ONLY <1>1, <1>2, <1>4 DEF Occurs
<1> QED BY <1>5, <1>6 DEF r

-----------------------------------------------------------------------------
(* The invariant of the scheduler                                          *)

\* the loops that take the head of a queue find one there
Nonempty ==
  /\ pc = "alloc" => waiting # << >>
  /\ pc = "preempt" => running # << >>
  /\ pc \in {"run", "post", "finish"} => scheduled # << >>

Queued(s) == Occurs(s, waiting) \/ Occurs(s, running) \/ Occurs(s, scheduled)

\* ids are given out in order, and only to requests with a prompt
Numbered ==
  /\ \A r, s \in Seqs : status[r] # "NONE" /\ status[s] = "NONE" => r < s
  /\ \A s \in Seqs : status[s] # "NONE" => tokens[s] # << >>
  /\ \A s \in Seqs : Queued(s) => status[s] # "NONE"

\* a sequence in service has a block, unless it is just losing its blocks
Serving(s) ==
  \/ Occurs(s, running)
  \/ pc \in {"decode", "preempt"} /\ Occurs(s, scheduled)

Leaving(s) ==
  \/ pc = "preempt" /\ s = Last(running)
  \/ pc = "finish" /\ s = Head(scheduled)

Rooted == \A s \in Seqs : Serving(s) => table[s] # << >> \/ Leaving(s)

Inv ==
  /\ TypeOK /\ Counted /\ Partitioned /\ Funded
  /\ Nonempty /\ Numbered /\ ArrivalOrder /\ Rooted

-----------------------------------------------------------------------------
(* Helpers of the code                                                     *)

LEMMA BlocksForNat ==
  ASSUME NEW n \in Nat
  PROVE  BlocksFor(n) \in Nat /\ (n > 0 => BlocksFor(n) > 0)
BY SizesAssumption DEF BlocksFor

LEMMA NumBlocksOfNat ==
  ASSUME tokens \in [Seqs -> Seq(Tokens)], NEW s \in Seqs
  PROVE  /\ Length(s) \in Nat
         /\ NumBlocksOf(s) \in Nat
         /\ tokens[s] # << >> => Length(s) > 0 /\ NumBlocksOf(s) > 0
BY BlocksForNat DEF Length, NumBlocksOf

LEMMA BlockTokensType ==
  ASSUME tokens \in [Seqs -> Seq(Tokens)], NEW s \in Seqs, NEW i \in Nat \ {0}
  PROVE  BlockTokens(s, i) \in Seq(Tokens) /\ PrefixHash(s, i) \in Seq(Tokens)
<1>1. i * SeqBlockSize \in Int /\ Length(s) \in Int /\ Length(s) = Len(tokens[s])
  BY SizesAssumption DEF Length
<1>2. BlockEnd(s, i) \in Int /\ BlockEnd(s, i) <= Len(tokens[s])
  BY <1>1, MinOfTwo DEF BlockEnd
<1>3. (i - 1) * SeqBlockSize + 1 \in Nat \ {0}
  BY SizesAssumption
<1>4. tokens[s] \in Seq(Tokens)
  OBVIOUS
<1>5. BlockTokens(s, i) \in Seq(Tokens)
  BY ONLY <1>2, <1>3, <1>4, SubSeqInSeq DEF BlockTokens
<1>6. SubSeq(tokens[s], 1, BlockEnd(s, i)) \in Seq(Tokens)
  BY ONLY <1>2, <1>4, SubSeqInSeq
<1>7. NoHash \in Seq(Tokens)
  BY DEF NoHash
<1> QED BY ONLY <1>5, <1>6, <1>7 DEF PrefixHash

\* hash_to_block_id, and the hashes and tokens of the blocks
Published ==
  /\ hash \in [Blocks -> Seq(Tokens)]
  /\ toks \in [Blocks -> Seq(Tokens)]
  /\ DOMAIN index \subseteq Seq(Tokens)
  /\ \A h \in DOMAIN index : index[h] \in Blocks

LEMMA PublishType ==
  ASSUME Published, NEW b \in Blocks, NEW h \in Seq(Tokens), NEW t \in Seq(Tokens),
         Publish(b, h, t)
  PROVE  Published'
<1>1. CASE h # NoHash
  <2>1. /\ hash' = [hash EXCEPT ![b] = h]
        /\ toks' = [toks EXCEPT ![b] = t]
        /\ index' = [g \in DOMAIN index \cup {h} |-> IF g = h THEN b ELSE index[g]]
    BY <1>1 DEF Publish
  <2>2. hash' \in [Blocks -> Seq(Tokens)] /\ toks' \in [Blocks -> Seq(Tokens)]
    BY <2>1 DEF Published
  <2>3. DOMAIN index' = DOMAIN index \cup {h}
    BY ONLY <2>1
  <2>4. ASSUME NEW g \in DOMAIN index' PROVE index'[g] \in Blocks
    <3>1. CASE g = h
      BY ONLY <3>1, <2>1, <2>3, b \in Blocks
    <3>2. CASE g # h
      <4>1. g \in DOMAIN index /\ index'[g] = index[g]
        BY ONLY <3>2, <2>1, <2>3, g \in DOMAIN index'
      <4> QED BY <4>1 DEF Published
    <3> QED BY <3>1, <3>2
  <2> QED BY <2>2, <2>3, <2>4 DEF Published
<1>2. CASE h = NoHash
  BY <1>2 DEF Published, Publish, NoHash
<1> QED BY <1>1, <1>2

-----------------------------------------------------------------------------
(* The actions that move blocks                                            *)

LEMMA InvAccounted ==
  ASSUME Inv
  PROVE  Accounted /\ Published
BY DEF Inv, TypeOK, Accounted, Published

LEMMA SameAccounts ==
  ASSUME Accounted, UNCHANGED <<ref, free, used, table>>
  PROVE  Accounted'
<1>1. ref' = ref /\ free' = free /\ used' = used /\ table' = table
  OBVIOUS
<1> QED BY ONLY Accounted, <1>1 DEF Accounted, Counted, Partitioned

LEMMA HeadType ==
  ASSUME NEW S, NEW q \in Seq(S), q # << >>
  PROVE  Head(q) \in S /\ Head(q) = q[1] /\ Len(q) > 0
OBVIOUS

\* An iteration of allocate finds a free block when it needs one.
LEMMA AllocBlockStep ==
  ASSUME Inv, AllocBlock
  PROVE  /\ Accounted' /\ Published' /\ cached' \in [Seqs -> Nat]
         /\ Funded'
<1>0. Accounted /\ Published
  BY InvAccounted
<1>1. PICK s \in Seqs : s = Head(waiting)
  BY HeadType DEF Inv, TypeOK, Nonempty, AllocBlock
<1>2. PICK i \in Nat \ {0} : i = Len(table[s]) + 1
  BY <1>0 DEF Accounted
<1>3. i <= NumBlocksOf(s) /\ Len(free) >= NumBlocksOf(s) - Len(table[s])
  BY <1>1, <1>2 DEF AllocBlock, Inv, Funded
<1>4. /\ PrefixHash(s, i) \in Seq(Tokens) /\ BlockTokens(s, i) \in Seq(Tokens)
      /\ NumBlocksOf(s) \in Nat
  BY <1>1, BlockTokensType, NumBlocksOfNat DEF Inv, TypeOK
<1>5. cached \in [Seqs -> Nat]
  BY DEF Inv, TypeOK
<1>6. ASSUME Accounted', Len(table'[s]) = Len(table[s]) + 1, Len(free') >= Len(free) - 1
      PROVE  Funded'
  <2>1. waiting' = waiting /\ tokens' = tokens
    BY DEF AllocBlock, queueVars
  <2>2. NumBlocksOf(s)' = NumBlocksOf(s)
    BY <2>1 DEF NumBlocksOf, Length
  <2>3. Len(free') >= NumBlocksOf(s)' - Len(table'[s])
    <3>1. /\ Len(free) \in Nat /\ Len(free') \in Nat
          /\ Len(table[s]) \in Nat /\ Len(table'[s]) \in Nat
      BY <1>0, <1>6 DEF Accounted
    <3> QED BY ONLY <3>1, <1>3, <1>4, <1>6, <2>2
  <2>4. s = Head(waiting')
    BY <1>1, <2>1
  <2> QED BY ONLY <2>3, <2>4 DEF Funded
<1>7. CASE miss'
  <2>1. AllocateMiss(s)
    BY <1>1, <1>7 DEF AllocBlock
  <2>2. free \in Seq(Blocks) /\ Len(free) > 0
    BY <1>0, <1>2, <1>3, <1>4 DEF Accounted
  <2>3. PICK b \in Blocks : b = free[1]
    BY <2>2
  <2>4. /\ TakeBlock(b)
        /\ Publish(b, PrefixHash(s, i), BlockTokens(s, i))
        /\ table' = [table EXCEPT ![s] = Append(@, b)]
        /\ cached' = cached
    BY <1>2, <2>1, <2>3 DEF AllocateMiss
  <2>5. b \notin used
    BY <1>0, <2>2, <2>3 DEF Accounted, Partitioned
  <2>6. Accounted' /\ Len(free') = Len(free) - 1
    BY ONLY <1>0, <2>4, <2>5, s \in Seqs, b \in Blocks, TakeAccounted
  <2>7. Published'
    BY ONLY <1>0, <1>4, <2>4, b \in Blocks, PublishType
  <2>8. Funded'
    <3>1. Len(table'[s]) = Len(table[s]) + 1
      BY <1>0, <2>4 DEF Accounted
    <3>2. Len(free') >= Len(free) - 1
      BY <1>0, <2>6 DEF Accounted
    <3> QED BY <3>1, <3>2, <2>6, <1>6
  <2> QED BY <2>4, <2>6, <2>7, <2>8, <1>5
<1>8. CASE ~miss'
  <2>1. /\ AllocateHit(s)
        /\ PrefixHash(s, i) \in DOMAIN index
    BY <1>1, <1>2, <1>8 DEF AllocBlock, Hit
  <2>2. PICK b \in Blocks : b = index[PrefixHash(s, i)]
    BY <1>0, <2>1 DEF Published
  <2>3. /\ IF b \in used THEN ShareBlock(b) ELSE TakeBlock(b)
        /\ Publish(b, PrefixHash(s, i), BlockTokens(s, i))
        /\ table' = [table EXCEPT ![s] = Append(@, b)]
        /\ cached' = [cached EXCEPT ![s] = @ + BlockSize]
    BY <1>2, <2>1, <2>2 DEF AllocateHit
  <2>4. Accounted' /\ Len(free') >= Len(free) - 1
    <3>1. Len(free) \in Nat
      BY <1>0 DEF Accounted
    <3>2. CASE b \in used
      <4>1. ShareBlock(b) /\ table' = [table EXCEPT ![s] = Append(@, b)]
        BY <2>3, <3>2
      <4>2. Accounted' /\ free' = free
        BY ONLY <1>0, <4>1, <3>2, s \in Seqs, ShareAccounted
      <4> QED BY ONLY <4>2, <3>1
    <3>3. CASE b \notin used
      <4>1. TakeBlock(b) /\ table' = [table EXCEPT ![s] = Append(@, b)]
        BY <2>3, <3>3
      <4>2. Accounted' /\ Len(free') = Len(free) - 1
        BY ONLY <1>0, <4>1, <3>3, s \in Seqs, b \in Blocks, TakeAccounted
      <4> QED BY ONLY <4>2, <3>1
    <3> QED BY <3>2, <3>3
  <2>5. Published'
    BY ONLY <1>0, <1>4, <2>3, b \in Blocks, PublishType
  <2>6. Len(table'[s]) = Len(table[s]) + 1
    BY <1>0, <2>3 DEF Accounted
  <2>7. cached' \in [Seqs -> Nat]
    BY <1>5, <2>3, SizesAssumption
  <2> QED BY <2>4, <2>5, <2>6, <2>7, <1>6
<1> QED BY <1>7, <1>8

\* may_append keeps the accounts whichever of its branches it takes.
LEMMA DecodeAppendStep ==
  ASSUME Inv, DecodeAppend
  PROVE  Accounted' /\ Published' /\ cached' \in [Seqs -> Nat]
<1>0. Accounted /\ Published
  BY InvAccounted
<1>1. PICK s \in Seqs : s = Head(running)
  BY HeadType DEF Inv, TypeOK, DecodeAppend, Decoding
<1>2. MayAppend(s) /\ CanAppend(s) /\ pc = "decode"
  BY <1>1 DEF DecodeAppend, Decoding
<1>3. cached' \in [Seqs -> Nat]
  BY <1>2 DEF MayAppend, Inv, TypeOK
<1>4. running \in Seq(Seqs) /\ running # << >> /\ s = running[1]
  BY <1>1 DEF Inv, TypeOK, DecodeAppend, Decoding
<1>5. table[s] # << >> /\ tokens[s] # << >>
  <2>1. Occurs(s, running)
    BY <1>4 DEF Occurs
  <2>2. Serving(s) /\ ~Leaving(s) /\ Queued(s)
    BY <1>2, <2>1 DEF Serving, Leaving, Queued
  <2> QED BY <2>2 DEF Inv, Rooted, Numbered
<1>6. CASE NeedsBlock(s)
  <2>1. free \in Seq(Blocks) /\ Len(free) > 0
    BY <1>0, <1>2, <1>6 DEF Accounted, CanAppend
  <2>2. PICK b \in Blocks : b = free[1]
    BY <2>1
  <2>3. /\ TakeBlock(b)
        /\ Publish(b, NoHash, << >>)
        /\ table' = [table EXCEPT ![s] = Append(@, b)]
    BY <1>2, <1>6, <2>2 DEF MayAppend
  <2>4. b \notin used
    BY <1>0, <2>1, <2>2 DEF Accounted, Partitioned
  <2>5. Accounted'
    BY ONLY <1>0, <2>3, <2>4, s \in Seqs, b \in Blocks, TakeAccounted
  <2>6. NoHash \in Seq(Tokens) /\ << >> \in Seq(Tokens)
    BY DEF NoHash
  <2>7. Published'
    BY ONLY <1>0, <2>3, <2>6, b \in Blocks, PublishType
  <2> QED BY <2>5, <2>7, <1>3
<1>7. CASE ~NeedsBlock(s)
  <2>1. UNCHANGED <<ref, free, used, table>>
    BY <1>2, <1>7 DEF MayAppend
  <2>2. Accounted'
    BY <1>0, <2>1, SameAccounts
  <2>3. CASE FillsBlock(s)
    <3> DEFINE n == Len(table[s])
               t == BlockTokens(s, NumBlocksOf(s))
               prefix == IF n > 1 THEN hash[table[s][n - 1]] ELSE NoHash
    <3>1. Publish(LastBlock(s), prefix \o t, t)
      BY <1>2, <1>7, <2>3 DEF MayAppend
    <3>2. LastBlock(s) \in Blocks
      BY <1>0, <1>5, FrontProperties DEF Accounted, LastBlock
    <3>3. t \in Seq(Tokens)
      <4>1. tokens \in [Seqs -> Seq(Tokens)]
        BY DEF Inv, TypeOK
      <4>2. NumBlocksOf(s) \in Nat \ {0}
        BY ONLY <4>1, <1>5, s \in Seqs, NumBlocksOfNat
      <4> QED BY ONLY <4>1, <4>2, s \in Seqs, BlockTokensType
    <3>4. prefix \in Seq(Tokens)
      <4>1. CASE n > 1
        <5>1. table[s][n - 1] \in Blocks
          BY <1>0, <4>1 DEF Accounted
        <5> QED BY <1>0, <4>1, <5>1 DEF Published
      <4>2. CASE ~(n > 1)
        BY <4>2 DEF NoHash
      <4> QED BY <4>1, <4>2
    <3> HIDE DEF t, prefix
    <3>5. prefix \o t \in Seq(Tokens)
      BY <3>3, <3>4, ConcatProperties
    <3> QED BY <1>0, <1>3, <2>2, <3>1, <3>2, <3>3, <3>5, PublishType
  <2>4. CASE ~FillsBlock(s)
    <3>1. UNCHANGED <<hash, toks, index>>
      BY <1>2, <1>7, <2>4 DEF MayAppend
    <3> QED BY <1>0, <1>3, <2>2, <3>1 DEF Published
  <2> QED BY <2>3, <2>4
<1> QED BY <1>6, <1>7

\* Giving a block back, in a preemption or at the end of a sequence.
LEMMA DeallocateStep ==
  ASSUME Inv, NEW s \in Seqs, ~Freed(s), DeallocateLast(s)
  PROVE  Accounted' /\ Published' /\ cached' \in [Seqs -> Nat]
<1>1. Accounted /\ Published
  BY InvAccounted
<1>2. Accounted'
  BY ONLY <1>1, s \in Seqs, ~Freed(s), DeallocateLast(s), DropAccounted
<1>3. UNCHANGED <<hash, toks, index, cached>>
  BY DEF DeallocateLast
<1>4. Published'
  BY ONLY <1>1, <1>3 DEF Published
<1>5. cached' \in [Seqs -> Nat]
  BY <1>3 DEF Inv, TypeOK
<1> QED BY <1>2, <1>4, <1>5

-----------------------------------------------------------------------------
(* Types and accounts                                                      *)

LEMMA AccountsStep ==
  ASSUME Inv, [SchedNext]_vars
  PROVE  Accounted' /\ Published' /\ cached' \in [Seqs -> Nat]
<1>0. Accounted /\ Published /\ cached \in [Seqs -> Nat]
  BY InvAccounted DEF Inv, TypeOK
<1>1. ASSUME UNCHANGED <<blockVars, table>>,
             cached' = cached \/ \E s \in Seqs : cached' = [cached EXCEPT ![s] = 0]
      PROVE  Accounted' /\ Published' /\ cached' \in [Seqs -> Nat]
  <2>1. UNCHANGED <<ref, free, used, table>> /\ UNCHANGED <<hash, toks, index>>
    BY <1>1 DEF blockVars
  <2>2. Accounted'
    BY ONLY <1>0, <2>1, SameAccounts
  <2>3. Published'
    BY ONLY <1>0, <2>1 DEF Published
  <2>4. cached' \in [Seqs -> Nat]
    BY <1>0, <1>1
  <2> QED BY <2>2, <2>3, <2>4
<1>2. CASE UNCHANGED managerVars
  BY <1>1, <1>2 DEF managerVars, blockVars
<1>3. CASE AllocBlock
  BY <1>3, AllocBlockStep
<1>4. CASE DecodeAppend
  BY <1>4, DecodeAppendStep
<1>5. CASE PreemptBlock
  <2>1. PICK s \in Seqs : s = Last(running)
    BY <1>5, FrontProperties DEF Inv, TypeOK, Nonempty, PreemptBlock
  <2> QED BY <1>5, <2>1, DeallocateStep DEF PreemptBlock
<1>6. CASE FinishBlock
  <2>1. PICK s \in Seqs : s = Head(scheduled)
    BY <1>6, HeadType DEF Inv, TypeOK, Nonempty, FinishBlock
  <2> QED BY <1>6, <2>1, DeallocateStep DEF FinishBlock
<1>7. CASE Preempted
  <2>1. PICK s \in Seqs : s = Last(running)
    BY <1>7, FrontProperties DEF Inv, TypeOK, Nonempty, Preempted
  <2> QED BY <1>1, <1>7, <2>1 DEF Preempted
<1>8. CASE Finished
  <2>1. PICK s \in Seqs : s = Head(scheduled)
    BY <1>8, HeadType DEF Inv, TypeOK, Nonempty, Finished
  <2> QED BY <1>1, <1>8, <2>1 DEF Finished
<1>9. UNCHANGED managerVars \/ AllocBlock \/ DecodeAppend \/ PreemptBlock
        \/ FinishBlock \/ Preempted \/ Finished
  <2>1. CASE UNCHANGED vars
    BY <2>1 DEF vars
  <2>2. CASE SchedNext
    BY <2>2 DEF SchedNext, Prefill, Decode, Postprocess, AddRequest, Step, Admit,
                Admitted, PrefillDone, Preempt, DecodeDone, DecodeFails, Forward,
                Sampled, Terminated, vars
  <2> QED BY <2>1, <2>2
<1> QED BY <1>2, <1>3, <1>4, <1>5, <1>6, <1>7, <1>8, <1>9

\* Whatever the place in the step, each queue is sorted.
LEMMA LineSorted ==
  ASSUME Inv
  PROVE  /\ waiting \in Seq(Int) /\ running \in Seq(Int) /\ scheduled \in Seq(Int)
         /\ Sorted(Line) /\ Sorted(running) /\ Sorted(waiting)
         /\ pc \in {"decode", "preempt"} =>
              \A j \in 1 .. Len(scheduled), k \in 1 .. Len(running) :
                scheduled[j] < running[k]
<1>1. waiting \in Seq(Int) /\ running \in Seq(Int) /\ scheduled \in Seq(Int)
  <2>1. Seqs \subseteq Int
    BY SizesAssumption
  <2> QED BY <2>1, SeqMonotonic DEF Inv, TypeOK
<1>2. Sorted(Line)
  BY DEF Inv, ArrivalOrder, Sorted
<1>3. CASE pc \in {"decode", "preempt"}
  <2>1. Line = (scheduled \o running) \o waiting
    BY <1>1, <1>3, ConcatAssociative DEF Line
  <2>2. scheduled \o running \in Seq(Int)
    BY <1>1
  <2>3. Sorted(scheduled \o running) /\ Sorted(waiting)
    BY ONLY <1>1, <1>2, <2>1, <2>2, SortedConcat
  <2> QED BY ONLY <1>1, <1>2, <2>3, SortedConcat
<1>4. CASE pc \notin {"decode", "preempt"}
  <2>1. Line = running \o waiting
    BY <1>4 DEF Line
  <2>2. Sorted(running) /\ Sorted(waiting)
    BY ONLY <1>1, <1>2, <2>1, SortedConcat
  <2> QED BY <1>1, <1>2, <1>4, <2>2
<1> QED BY <1>3, <1>4

\* the rest of the types
Queues ==
  /\ tokens \in [Seqs -> Seq(Tokens)]
  /\ waiting \in Seq(Seqs) /\ running \in Seq(Seqs) /\ scheduled \in Seq(Seqs)
  /\ batched \in Int /\ miss \in BOOLEAN /\ prefill \in BOOLEAN
  /\ status \in [Seqs -> Statuses]
  /\ prompt \in [Seqs -> Nat]
  /\ pc \in Places

LEMMA QueuesStep ==
  ASSUME Inv, [SchedNext]_vars
  PROVE  Queues'
<1>0. Queues
  BY DEF Inv, TypeOK, Queues
<1> USE DEF Queues, Places, Statuses
<1>1. CASE UNCHANGED vars
  BY <1>0, <1>1 DEF vars, queueVars
<1>2. ASSUME NEW s \in Seqs, NEW p \in Prompts, AddRequest(s, p)
      PROVE  Queues'
  BY <1>0, <1>2, EngineAssumption DEF AddRequest
<1>3. CASE Step
  BY <1>0, <1>3 DEF Step
<1>4. CASE Admit
  BY <1>0, <1>4 DEF Admit, queueVars
<1>5. CASE AllocBlock
  BY <1>0, <1>5 DEF AllocBlock, queueVars
<1>6. CASE Admitted
  <2>1. PICK s \in Seqs : s = Head(waiting)
    BY <1>6, HeadType DEF Inv, TypeOK, Nonempty, Admitted
  <2>2. Length(s) \in Nat /\ cached[s] \in Nat
    BY <2>1, NumBlocksOfNat DEF Inv, TypeOK
  <2>3. /\ batched' \in Int
        /\ waiting' \in Seq(Seqs) /\ running' \in Seq(Seqs) /\ scheduled' \in Seq(Seqs)
    BY <1>0, <1>6, <2>1, <2>2 DEF Admitted, Inv, Nonempty
  <2> QED BY <1>0, <1>6, <2>1, <2>3 DEF Admitted
<1>7. CASE PrefillDone
  BY <1>0, <1>7 DEF PrefillDone, queueVars
<1>8. CASE DecodeAppend
  BY <1>0, <1>8 DEF DecodeAppend, Decoding
<1>9. CASE Preempt
  BY <1>0, <1>9 DEF Preempt, queueVars
<1>10. CASE PreemptBlock
  BY <1>0, <1>10 DEF PreemptBlock, queueVars
<1>11. CASE Preempted
  <2>1. PICK s \in Seqs : s = Last(running)
    BY <1>11, FrontProperties DEF Inv, TypeOK, Nonempty, Preempted
  <2>2. Front(running) \in Seq(Seqs)
    BY <1>11, FrontProperties DEF Inv, TypeOK, Nonempty, Preempted
  <2>3. <<s>> \o waiting \in Seq(Seqs)
    BY <1>0, <2>1
  <2> QED BY <1>0, <1>11, <2>1, <2>2, <2>3 DEF Preempted, Requeue
<1>12. CASE DecodeDone
  <2>1. scheduled \o running \in Seq(Seqs)
    BY <1>0
  <2> QED BY <1>0, <1>12, <2>1 DEF DecodeDone
<1>13. CASE DecodeFails
  BY <1>0, <1>13 DEF DecodeFails, queueVars
<1>14. CASE Forward
  BY <1>0, <1>14 DEF Forward, queueVars
<1>15. ASSUME NEW u \in Tokens, Sampled(u)
       PROVE  Queues'
  <2>1. PICK s \in Seqs : s = Head(scheduled)
    BY <1>15, HeadType DEF Inv, TypeOK, Nonempty, Sampled
  <2>2. Tail(scheduled) \in Seq(Seqs)
    BY <1>15 DEF Inv, TypeOK, Nonempty, Sampled
  <2>3. tokens' \in [Seqs -> Seq(Tokens)]
    <3>1. Append(tokens[s], u) \in Seq(Tokens)
      BY <1>0
    <3> QED BY <1>0, <1>15, <2>1, <3>1 DEF Sampled
  <2>4. CASE Finishes(s, u)
    BY <1>0, <1>15, <2>1, <2>3, <2>4 DEF Sampled
  <2>5. CASE ~Finishes(s, u)
    BY <1>0, <1>15, <2>1, <2>2, <2>3, <2>5 DEF Sampled, AfterPost
  <2> QED BY <2>4, <2>5
<1>16. CASE FinishBlock
  BY <1>0, <1>16 DEF FinishBlock, queueVars
<1>17. CASE Finished
  <2>1. PICK s \in Seqs : s = Head(scheduled)
    BY <1>17, HeadType DEF Inv, TypeOK, Nonempty, Finished
  <2>2. Tail(scheduled) \in Seq(Seqs)
    BY <1>17 DEF Inv, TypeOK, Nonempty, Finished
  <2>3. /\ running' = RemoveFirst(running, s) /\ scheduled' = Tail(scheduled)
        /\ pc' \in {"idle", "post"}
        /\ UNCHANGED <<tokens, waiting, batched, miss, prefill, status, prompt>>
    BY <1>17, <2>1 DEF Finished, AfterPost
  <2>4. running' \in Seq(Seqs)
    <3>1. running \in Seq(Seqs)
      BY <1>0
    <3>2. Sorted(running)
      BY LineSorted
    <3>3. Seqs \subseteq Int
      BY ONLY SizesAssumption
    <3> QED BY ONLY <2>3, <3>1, <3>2, <3>3, RemoveFirstSorted
  <2>5. scheduled' \in Seq(Seqs)
    BY ONLY <2>2, <2>3
  <2> QED BY ONLY <1>0, <2>3, <2>4, <2>5
<1>18. CASE Terminated
  BY <1>0, <1>18 DEF Terminated, vars, queueVars
<1> QED BY <1>1, <1>2, <1>3, <1>4, <1>5, <1>6, <1>7, <1>8, <1>9, <1>10, <1>11, <1>12,
           <1>13, <1>14, <1>15, <1>16, <1>17, <1>18
        DEF SchedNext, Prefill, Decode, Postprocess

-----------------------------------------------------------------------------
(* The order of the queues                                                 *)

\* Only an arrival and an end change the line; every other action leaves each
\* request in its place.
LEMMA OrderStep ==
  ASSUME Inv, [SchedNext]_vars
  PROVE  ArrivalOrder'
<1>0. /\ waiting \in Seq(Seqs) /\ running \in Seq(Seqs) /\ scheduled \in Seq(Seqs)
      /\ Sorted(Line)
  BY LineSorted DEF Inv, TypeOK
<1>1. ASSUME Line' = Line PROVE ArrivalOrder'
  BY ONLY <1>0, <1>1 DEF ArrivalOrder, Sorted
<1>2. CASE UNCHANGED <<running, waiting>> /\ pc \notin {"decode", "preempt"}
             /\ pc' \notin {"decode", "preempt"}
  BY <1>1, <1>2 DEF Line
<1>3. CASE UNCHANGED queueVars /\ pc \in {"decode", "preempt"}
             /\ pc' \in {"decode", "preempt"}
  BY <1>1, <1>3 DEF Line, queueVars
<1>4. ASSUME NEW s \in Seqs, NEW p \in Prompts, AddRequest(s, p)
      PROVE  ArrivalOrder'
  <2>1. /\ pc = "idle" /\ pc' = pc /\ status[s] = "NONE"
        /\ running' = running /\ waiting' = Append(waiting, s)
    BY <1>4 DEF AddRequest
  <2>2. /\ waiting \in Seq(Int) /\ running \in Seq(Int) /\ s \in Int
        /\ Line = running \o waiting /\ Line' = running \o waiting'
    BY <2>1, LineSorted, SizesAssumption DEF Line
  <2>3. ASSUME NEW q \in Seq(Seqs), q = running \/ q = waiting, NEW k \in 1 .. Len(q)
        PROVE  q[k] < s
    <3>1. q[k] \in Seqs /\ Occurs(q[k], q)
      BY DEF Occurs
    <3>2. Queued(q[k])
      BY <3>1, <2>3 DEF Queued
    <3> QED BY <3>1, <3>2, <2>1 DEF Inv, Numbered
  <2>4. \A k \in 1 .. Len(waiting) : waiting[k] < s
    BY <2>3, <1>0
  <2>5. \A k \in 1 .. Len(running) : running[k] < s
    BY <2>3, <1>0
  <2>6. /\ Sorted(running) /\ Sorted(waiting)
        /\ \A j \in 1 .. Len(running), k \in 1 .. Len(waiting) : running[j] < waiting[k]
    BY ONLY <1>0, <2>2, SortedConcat
  <2>7. PICK n \in Nat : n = Len(waiting)
    BY <2>2
  <2>8. /\ waiting' \in Seq(Int) /\ Len(waiting') = n + 1 /\ waiting'[n + 1] = s
        /\ \A k \in 1 .. n : waiting'[k] = waiting[k]
        /\ \A k \in 1 .. n + 1 : k \in 1 .. n \/ k = n + 1
    BY <2>1, <2>2, <2>7
  <2>9. Sorted(waiting')
    <3> SUFFICES ASSUME NEW j \in 1 .. n + 1, NEW k \in 1 .. n + 1, j < k
                 PROVE  waiting'[j] < waiting'[k]
      BY <2>8 DEF Sorted
    <3>1. j \in 1 .. n
      OBVIOUS
    <3>2. CASE k \in 1 .. n
      BY ONLY <3>1, <3>2, j < k, <2>6, <2>7, <2>8 DEF Sorted
    <3>3. CASE k = n + 1
      BY ONLY <3>1, <3>3, <2>4, <2>7, <2>8
    <3> QED BY <3>2, <3>3, <2>8
  <2>10. \A j \in 1 .. Len(running), k \in 1 .. Len(waiting') : running[j] < waiting'[k]
    BY ONLY <2>5, <2>6, <2>7, <2>8
  <2>11. Sorted(running \o waiting')
    BY ONLY <2>2, <2>6, <2>8, <2>9, <2>10, SortedConcat
  <2> QED BY ONLY <2>2, <2>11 DEF ArrivalOrder, Sorted
<1>5. CASE Admitted
  <2>1. /\ pc = "alloc" /\ pc' = "admit" /\ waiting # << >>
        /\ waiting' = Tail(waiting) /\ running' = Append(running, Head(waiting))
    BY <1>5 DEF Admitted, Inv, Nonempty
  <2>2. running' \o waiting' = running \o waiting
    BY ONLY <1>0, <2>1, MoveHead
  <2> QED BY <1>1, <2>1, <2>2 DEF Line
<1>6. CASE PrefillDone
  <2>1. CASE scheduled # << >>
    BY <1>2, <1>6, <2>1 DEF PrefillDone, queueVars
  <2>2. CASE scheduled = << >>
    <3>1. /\ pc = "admit" /\ pc' = "decode" /\ UNCHANGED queueVars
      BY <1>6, <2>2 DEF PrefillDone
    <3>2. scheduled \o (running \o waiting) = running \o waiting
      <4>1. running \o waiting \in Seq(Seqs)
        BY <1>0
      <4> QED BY <4>1, <2>2, ConcatEmptySeq
    <3>3. (scheduled \o running) \o waiting = scheduled \o (running \o waiting)
      BY ONLY <1>0, ConcatAssociative
    <3> QED BY <1>1, <3>1, <3>2, <3>3 DEF Line, queueVars
  <2> QED BY <2>1, <2>2
<1>7. CASE DecodeAppend
  <2>1. /\ pc = "decode" /\ pc' = "decode" /\ running # << >> /\ waiting' = waiting
        /\ running' = Tail(running) /\ scheduled' = Append(scheduled, Head(running))
    BY <1>7 DEF DecodeAppend, Decoding
  <2>2. scheduled' \o running' = scheduled \o running
    BY ONLY <1>0, <2>1, MoveHead
  <2> QED BY <1>1, <2>1, <2>2 DEF Line
<1>8. CASE Preempted
  <2>1. /\ pc = "preempt" /\ pc' = "decode" /\ running # << >> /\ scheduled' = scheduled
        /\ running' = Front(running) /\ waiting' = <<Last(running)>> \o waiting
    BY <1>8 DEF Preempted, Requeue, Inv, Nonempty
  <2>2. running' \o waiting' = running \o waiting
    BY ONLY <1>0, <2>1, MoveLast
  <2>3. running' \in Seq(Seqs) /\ waiting' \in Seq(Seqs)
    BY QueuesStep DEF Queues
  <2>4. (scheduled \o running) \o waiting = scheduled \o (running \o waiting)
    BY ONLY <1>0, ConcatAssociative
  <2>5. (scheduled \o running') \o waiting' = scheduled \o (running' \o waiting')
    BY ONLY <1>0, <2>3, ConcatAssociative
  <2> QED BY <1>1, <2>1, <2>2, <2>4, <2>5 DEF Line
<1>9. CASE DecodeDone
  <2>1. /\ pc = "decode" /\ pc' = "run" /\ UNCHANGED <<scheduled, waiting>>
        /\ running' = scheduled \o running
    BY <1>9 DEF DecodeDone
  <2>2. (scheduled \o running) \o waiting = scheduled \o (running \o waiting)
    BY ONLY <1>0, ConcatAssociative
  <2> QED BY <1>1, <2>1, <2>2 DEF Line
<1>10. CASE DecodeFails
  <2>1. /\ pc = "decode" /\ pc' = "failed" /\ UNCHANGED queueVars /\ scheduled = << >>
    BY <1>10 DEF DecodeFails
  <2>2. scheduled \o running = running
    BY <1>0, <2>1, ConcatEmptySeq
  <2>3. (scheduled \o running) \o waiting = scheduled \o (running \o waiting)
    BY ONLY <1>0, ConcatAssociative
  <2> QED BY <1>1, <2>1, <2>2, <2>3 DEF Line, queueVars
<1>11. CASE Finished
  <2>1. /\ pc = "finish" /\ pc' \in {"idle", "post"} /\ waiting' = waiting
        /\ running' = RemoveFirst(running, Head(scheduled))
    BY <1>11 DEF Finished, AfterPost
  <2>2. Line = running \o waiting /\ Line' = running' \o waiting
    BY <2>1 DEF Line
  <2>3. waiting \in Seq(Int) /\ running \in Seq(Int)
    BY LineSorted
  <2>4. /\ Sorted(running) /\ Sorted(waiting)
        /\ \A j \in 1 .. Len(running), k \in 1 .. Len(waiting) : running[j] < waiting[k]
    BY ONLY <1>0, <2>2, <2>3, SortedConcat
  <2>5. /\ running' \in Seq(Int) /\ Sorted(running')
        /\ \A c : Occurs(c, running') => Occurs(c, running)
    BY ONLY <2>1, <2>3, <2>4, RemoveFirstSorted
  <2>6. ASSUME NEW j \in 1 .. Len(running'), NEW k \in 1 .. Len(waiting)
        PROVE  running'[j] < waiting[k]
    <3>1. Occurs(running'[j], running)
      BY <2>5 DEF Occurs
    <3> QED BY ONLY <3>1, <2>4, k \in 1 .. Len(waiting) DEF Occurs
  <2>7. Sorted(running' \o waiting)
    BY ONLY <2>3, <2>4, <2>5, <2>6, SortedConcat
  <2> QED BY ONLY <2>2, <2>7 DEF ArrivalOrder, Sorted
<1>12. CASE UNCHANGED vars
  BY <1>2, <1>3, <1>12 DEF vars, queueVars
<1>13. CASE Step \/ Admit \/ AllocBlock \/ Forward \/ FinishBlock
  BY <1>2, <1>13 DEF Step, Admit, AllocBlock, Forward, FinishBlock, queueVars
<1>14. ASSUME NEW u \in Tokens, Sampled(u) PROVE ArrivalOrder'
  BY <1>2, <1>14 DEF Sampled, AfterPost
<1>15. CASE Preempt \/ PreemptBlock
  BY <1>3, <1>15 DEF Preempt, PreemptBlock, Decoding, queueVars
<1> QED BY <1>4, <1>5, <1>6, <1>7, <1>8, <1>9, <1>10, <1>11, <1>12, <1>13, <1>14, <1>15
        DEF SchedNext, Prefill, Decode, Postprocess, Terminated

-----------------------------------------------------------------------------
(* The other parts of the invariant                                        *)

LEMMA FundedStep ==
  ASSUME Inv, [SchedNext]_vars
  PROVE  Funded'
<1>1. CASE AllocBlock
  BY <1>1, AllocBlockStep
<1>2. CASE Admit
  <2>1. PICK s \in Seqs : s = Head(waiting)
    BY <1>2, HeadType DEF Inv, TypeOK, Admit, Admissible
  <2>2. Len(free) >= NumBlocksOf(s) /\ NumBlocksOf(s) \in Nat
    BY <1>2, <2>1, NumBlocksOfNat DEF Admit, Admissible, CanAllocate, Inv, TypeOK
  <2>3. Len(table[s]) \in Nat /\ Len(free) \in Nat
    BY DEF Inv, TypeOK
  <2>4. /\ waiting' = waiting /\ free' = free /\ table' = table
        /\ NumBlocksOf(s)' = NumBlocksOf(s)
    BY <1>2 DEF Admit, managerVars, queueVars, NumBlocksOf, Length
  <2>5. Len(free') >= NumBlocksOf(s)' - Len(table'[s])
    BY ONLY <2>2, <2>3, <2>4
  <2> QED BY ONLY <2>1, <2>4, <2>5 DEF Funded
<1>3. CASE UNCHANGED vars
  <2>1. /\ waiting' = waiting /\ free' = free /\ table' = table /\ tokens' = tokens
        /\ pc' = pc
    BY <1>3 DEF vars, managerVars, queueVars
  <2> QED BY <2>1 DEF Inv, Funded, NumBlocksOf, Length
<1>4. CASE pc' # "alloc"
  BY <1>4 DEF Funded
<1>5. AllocBlock \/ Admit \/ UNCHANGED vars \/ pc' # "alloc"
  BY DEF SchedNext, Prefill, Decode, Postprocess, AddRequest, Step, Admitted, PrefillDone,
         DecodeAppend, Decoding, Preempt, PreemptBlock, Preempted, DecodeDone, DecodeFails,
         Forward, Sampled, AfterPost, FinishBlock, Finished, Terminated
<1> QED BY <1>1, <1>2, <1>3, <1>4, <1>5

LEMMA NonemptyStep ==
  ASSUME Inv, [SchedNext]_vars
  PROVE  Nonempty'
<1> USE DEF Inv, Nonempty
<1>1. CASE UNCHANGED vars
  BY <1>1 DEF vars, queueVars
<1>2. ASSUME NEW s \in Seqs, NEW p \in Prompts, AddRequest(s, p)
      PROVE  Nonempty'
  BY <1>2 DEF AddRequest
<1>3. CASE Step \/ Admit \/ AllocBlock \/ Admitted
  BY <1>3 DEF Step, Admit, Admissible, AllocBlock, Admitted, queueVars
<1>4. CASE PrefillDone \/ DecodeAppend \/ Preempt \/ PreemptBlock
  BY <1>4 DEF PrefillDone, DecodeAppend, Decoding, Preempt, PreemptBlock, queueVars
<1>5. CASE Preempted \/ DecodeDone \/ DecodeFails \/ Forward
  BY <1>5 DEF Preempted, DecodeDone, DecodeFails, Forward, queueVars
<1>6. ASSUME NEW u \in Tokens, Sampled(u) PROVE Nonempty'
  BY <1>6 DEF Sampled, AfterPost
<1>7. CASE FinishBlock \/ Finished
  BY <1>7 DEF FinishBlock, Finished, AfterPost, queueVars
<1> QED BY <1>1, <1>2, <1>3, <1>4, <1>5, <1>6, <1>7
        DEF SchedNext, Prefill, Decode, Postprocess, Terminated

\* The requests that the queues hold after a step were there before it, or
\* have just been added.
LEMMA QueuedStep ==
  ASSUME Inv, [SchedNext]_vars, NEW c \in Seqs, Queued(c)'
  PROVE  \/ Queued(c)
         \/ \E p \in Prompts : AddRequest(c, p)
<1>0. waiting \in Seq(Seqs) /\ running \in Seq(Seqs) /\ scheduled \in Seq(Seqs)
  BY DEF Inv, TypeOK
<1>1. Occurs(c, waiting') \/ Occurs(c, running') \/ Occurs(c, scheduled')
  BY DEF Queued
<1> HIDE DEF Queued
<1>2. ASSUME Occurs(c, waiting) \/ Occurs(c, running) \/ Occurs(c, scheduled)
      PROVE  Queued(c)
  BY <1>2 DEF Queued
<1>3. ~Occurs(c, << >>)
  BY DEF Occurs
<1>4. CASE UNCHANGED queueVars
  BY <1>1, <1>2, <1>4 DEF queueVars
<1>5. ASSUME NEW s \in Seqs, NEW p \in Prompts, AddRequest(s, p)
      PROVE  Queued(c) \/ AddRequest(c, p)
  <2>1. waiting' = Append(waiting, s) /\ running' = running /\ scheduled' = scheduled
    BY <1>5 DEF AddRequest
  <2>2. Occurs(c, waiting') => Occurs(c, waiting) \/ c = s
    BY ONLY <1>0, <2>1, s \in Seqs, OccursAppend
  <2> QED BY <1>1, <1>2, <1>5, <2>1, <2>2
<1>6. CASE Step
  BY <1>1, <1>2, <1>3, <1>6 DEF Step
<1>7. CASE Admitted
  <2>1. /\ waiting # << >> /\ Head(waiting) \in Seqs
        /\ waiting' = Tail(waiting) /\ running' = Append(running, Head(waiting))
        /\ scheduled' = Append(scheduled, Head(waiting))
    BY <1>0, <1>7 DEF Admitted, Inv, Nonempty
  <2>2. Occurs(Head(waiting), waiting) /\ (Occurs(c, waiting') => Occurs(c, waiting))
    BY ONLY <1>0, <2>1, OccursHeadTail
  <2>3. Occurs(c, running') => Occurs(c, running) \/ c = Head(waiting)
    BY ONLY <1>0, <2>1, OccursAppend
  <2>4. Occurs(c, scheduled') => Occurs(c, scheduled) \/ c = Head(waiting)
    BY ONLY <1>0, <2>1, OccursAppend
  <2> QED BY ONLY <1>1, <1>2, <2>2, <2>3, <2>4
<1>8. CASE DecodeAppend
  <2>1. /\ running # << >> /\ Head(running) \in Seqs /\ waiting' = waiting
        /\ running' = Tail(running) /\ scheduled' = Append(scheduled, Head(running))
    BY <1>0, <1>8 DEF DecodeAppend, Decoding
  <2>2. Occurs(Head(running), running) /\ (Occurs(c, running') => Occurs(c, running))
    BY ONLY <1>0, <2>1, OccursHeadTail
  <2>3. Occurs(c, scheduled') => Occurs(c, scheduled) \/ c = Head(running)
    BY ONLY <1>0, <2>1, OccursAppend
  <2> QED BY ONLY <1>1, <1>2, <2>1, <2>2, <2>3
<1>9. CASE Preempted
  <2>1. /\ running # << >> /\ scheduled' = scheduled
        /\ running' = Front(running) /\ waiting' = <<Last(running)>> \o waiting
    BY <1>9 DEF Preempted, Requeue, Inv, Nonempty
  <2>2. Occurs(Last(running), running) /\ (Occurs(c, running') => Occurs(c, running))
    BY ONLY <1>0, <2>1, OccursFrontLast
  <2>3. Last(running) \in Seqs
    BY ONLY <1>0, <2>1, FrontProperties
  <2>4. <<Last(running)>> \in Seq(Seqs) /\ (Occurs(c, <<Last(running)>>) => c = Last(running))
    BY <2>3 DEF Occurs
  <2>5. Occurs(c, waiting') => Occurs(c, waiting) \/ c = Last(running)
    BY ONLY <1>0, <2>1, <2>4, OccursConcat
  <2> QED BY ONLY <1>1, <1>2, <2>1, <2>2, <2>5
<1>10. CASE DecodeDone
  <2>1. /\ UNCHANGED <<scheduled, waiting>>
        /\ running' = scheduled \o running
    BY <1>10 DEF DecodeDone
  <2>2. Occurs(c, running') => Occurs(c, scheduled) \/ Occurs(c, running)
    BY ONLY <1>0, <2>1, OccursConcat
  <2> QED BY ONLY <1>1, <1>2, <2>1, <2>2
<1>11. ASSUME NEW u \in Tokens, Sampled(u) PROVE Queued(c)
  <2>1. /\ UNCHANGED <<waiting, running>> /\ scheduled # << >>
        /\ scheduled' = scheduled \/ scheduled' = Tail(scheduled)
    BY <1>11 DEF Sampled, Inv, Nonempty
  <2>2. Occurs(c, scheduled') => Occurs(c, scheduled)
    BY ONLY <1>0, <2>1, OccursHeadTail
  <2> QED BY ONLY <1>1, <1>2, <2>1, <2>2
<1>12. CASE Finished
  <2>1. /\ UNCHANGED waiting /\ scheduled # << >>
        /\ scheduled' = Tail(scheduled)
        /\ running' = RemoveFirst(running, Head(scheduled))
    BY <1>12 DEF Finished, Inv, Nonempty
  <2>2. Occurs(c, scheduled') => Occurs(c, scheduled)
    BY ONLY <1>0, <2>1, OccursHeadTail
  <2>3. Sorted(running) /\ Seqs \subseteq Int
    BY LineSorted, SizesAssumption
  <2>4. Occurs(c, running') => Occurs(c, running)
    BY ONLY <1>0, <2>1, <2>3, RemoveFirstSorted
  <2> QED BY ONLY <1>1, <1>2, <2>1, <2>2, <2>4
<1>13. CASE Admit \/ AllocBlock \/ PrefillDone \/ Preempt \/ PreemptBlock \/ DecodeFails
              \/ Forward \/ FinishBlock \/ UNCHANGED vars
  BY <1>4, <1>13 DEF Admit, AllocBlock, PrefillDone, Preempt, PreemptBlock, DecodeFails,
                     Forward, FinishBlock, vars
<1> QED BY <1>5, <1>6, <1>7, <1>8, <1>9, <1>10, <1>11, <1>12, <1>13
        DEF SchedNext, Prefill, Decode, Postprocess, Terminated

\* A request has a status and a prompt from its arrival on.
LEMMA NumberedStep ==
  ASSUME Inv, [SchedNext]_vars
  PROVE  Numbered'
<1>0. /\ status \in [Seqs -> Statuses] /\ tokens \in [Seqs -> Seq(Tokens)]
      /\ waiting \in Seq(Seqs) /\ running \in Seq(Seqs) /\ scheduled \in Seq(Seqs)
      /\ \A r, s \in Seqs : status[r] # "NONE" /\ status[s] = "NONE" => r < s
      /\ \A s \in Seqs : status[s] # "NONE" => tokens[s] # << >>
      /\ \A s \in Seqs : Queued(s) => status[s] # "NONE"
  BY DEF Inv, TypeOK, Numbered
<1>1. ASSUME NEW s \in Seqs, NEW p \in Prompts, AddRequest(s, p)
      PROVE  Numbered'
  <2>1. /\ \A r \in Seqs : status[r] = "NONE" => s <= r
        /\ status' = [status EXCEPT ![s] = "WAITING"]
        /\ tokens' = [tokens EXCEPT ![s] = p]
    BY <1>1 DEF AddRequest
  <2>2. status'[s] = "WAITING" /\ \A r \in Seqs \ {s} : status'[r] = status[r]
    BY <1>0, <2>1
  <2>3. tokens'[s] = p /\ \A r \in Seqs \ {s} : tokens'[r] = tokens[r]
    BY <1>0, <2>1
  <2>4. p # << >>
    BY EngineAssumption
  <2>5. ASSUME NEW r \in Seqs, NEW q \in Seqs, status'[r] # "NONE", status'[q] = "NONE"
        PROVE  r < q
    <3>1. q # s /\ status[q] = "NONE" /\ q \in Int /\ s \in Int
      BY <2>2, <2>5, SizesAssumption
    <3>2. CASE r = s
      BY <2>1, <3>1, <3>2
    <3>3. CASE r # s
      BY ONLY <1>0, <2>2, <2>5, <3>1, <3>3, r \in Seqs, q \in Seqs
    <3> QED BY <3>2, <3>3
  <2>6. ASSUME NEW q \in Seqs, Queued(q)' PROVE status'[q] # "NONE"
    <3>1. CASE q = s
      BY <2>2, <3>1
    <3>2. CASE q # s
      <4>1. waiting' = Append(waiting, s) /\ running' = running /\ scheduled' = scheduled
        BY <1>1 DEF AddRequest
      <4>2. Occurs(q, waiting') => Occurs(q, waiting)
        BY ONLY <1>0, <3>2, <4>1, s \in Seqs, OccursAppend
      <4>3. Queued(q)
        BY ONLY <2>6, <4>1, <4>2 DEF Queued
      <4> QED BY <1>0, <2>2, <3>2, <4>3
    <3> QED BY <3>1, <3>2
  <2>7. \A q \in Seqs : status'[q] # "NONE" => tokens'[q] # << >>
    BY ONLY <1>0, <2>2, <2>3, <2>4
  <2> QED BY ONLY <2>5, <2>6, <2>7 DEF Numbered
<1>2. ASSUME \A s \in Seqs : status'[s] = "NONE" <=> status[s] = "NONE",
             \A s \in Seqs : tokens[s] # << >> => tokens'[s] # << >>,
             \A s \in Seqs, p \in Prompts : ~AddRequest(s, p)
      PROVE  Numbered'
  <2>1. ASSUME NEW s \in Seqs, Queued(s)' PROVE status'[s] # "NONE"
    BY <1>0, <1>2, <2>1, QueuedStep
  <2> QED BY ONLY <1>0, <1>2, <2>1 DEF Numbered
<1>3. CASE UNCHANGED <<status, tokens>>
  <2>1. CASE \E s \in Seqs, p \in Prompts : AddRequest(s, p)
    BY <1>1, <2>1
  <2>2. CASE ~\E s \in Seqs, p \in Prompts : AddRequest(s, p)
    BY <1>2, <1>3, <2>2
  <2> QED BY <2>1, <2>2
<1>4. ASSUME NEW s \in Seqs, Queued(s), pc # "idle", UNCHANGED tokens,
             NEW x \in Statuses \ {"NONE"}, status' = [status EXCEPT ![s] = x]
      PROVE  Numbered'
  <2>1. status[s] # "NONE" /\ status'[s] # "NONE"
        /\ \A r \in Seqs \ {s} : status'[r] = status[r]
    BY <1>0, <1>4
  <2>2. \A r \in Seqs : status'[r] = "NONE" <=> status[r] = "NONE"
    BY ONLY <2>1
  <2> QED BY ONLY <1>2, <1>4, <2>2 DEF AddRequest
<1>5. CASE Admitted
  <2>1. Head(waiting) \in Seqs /\ Occurs(Head(waiting), waiting)
    BY <1>5, OccursHeadTail DEF Admitted, Inv, Nonempty, TypeOK
  <2>2. Queued(Head(waiting))
    BY <2>1 DEF Queued
  <2> QED BY <1>4, <1>5, <2>1, <2>2 DEF Admitted, Statuses
<1>6. CASE Preempt
  <2>1. Last(running) \in Seqs /\ Occurs(Last(running), running)
    BY <1>6, FrontProperties, OccursFrontLast DEF Preempt, Decoding, Inv, TypeOK
  <2>2. Queued(Last(running))
    BY <2>1 DEF Queued
  <2> QED BY <1>4, <1>6, <2>1, <2>2 DEF Preempt, Decoding, Statuses
<1>7. ASSUME NEW u \in Tokens, Sampled(u) PROVE Numbered'
  <2>1. PICK s \in Seqs : s = Head(scheduled) /\ Occurs(s, scheduled)
    BY <1>7, OccursHeadTail DEF Sampled, Inv, Nonempty, TypeOK
  <2>2. status[s] # "NONE"
    BY <1>0, <2>1 DEF Queued
  <2>3. status' = [status EXCEPT ![s] = "FINISHED"] \/ status' = status
    BY <1>7, <2>1 DEF Sampled
  <2>4. \A r \in Seqs : status'[r] = "NONE" <=> status[r] = "NONE"
    BY ONLY <1>0, <2>2, <2>3, s \in Seqs
  <2>5. tokens' = [tokens EXCEPT ![s] = Append(@, u)]
    BY <1>7, <2>1 DEF Sampled
  <2>6. Append(tokens[s], u) # << >>
    <3>1. tokens[s] \in Seq(Tokens)
      BY <1>0
    <3> QED BY ONLY <3>1, u \in Tokens, AppendProperties
  <2>7. \A r \in Seqs : tokens[r] # << >> => tokens'[r] # << >>
    BY ONLY <1>0, <2>5, <2>6, s \in Seqs
  <2>8. \A r \in Seqs, p \in Prompts : ~AddRequest(r, p)
    BY <1>7 DEF Sampled, AddRequest
  <2> QED BY ONLY <1>2, <2>4, <2>7, <2>8
<1>8. CASE UNCHANGED vars
  BY <1>3, <1>8 DEF vars
<1>9. CASE Step \/ Admit \/ AllocBlock \/ PrefillDone \/ DecodeAppend \/ PreemptBlock
  BY <1>3, <1>9 DEF Step, Admit, AllocBlock, PrefillDone, DecodeAppend, PreemptBlock
<1>10. CASE Preempted \/ DecodeDone \/ DecodeFails \/ Forward \/ FinishBlock \/ Finished
  BY <1>3, <1>10 DEF Preempted, DecodeDone, DecodeFails, Forward, FinishBlock, Finished
<1> QED BY <1>1, <1>5, <1>6, <1>7, <1>8, <1>9, <1>10
        DEF SchedNext, Prefill, Decode, Postprocess, Terminated

\* What keeps a sequence in service rooted: it was so before the step, and its
\* table is not the one that the step empties.
LEMMA RootedStep ==
  ASSUME Inv, [SchedNext]_vars
  PROVE  Rooted'
<1>0. /\ table \in [Seqs -> Seq(Blocks)]
      /\ waiting \in Seq(Seqs) /\ running \in Seq(Seqs) /\ scheduled \in Seq(Seqs)
      /\ \A s \in Seqs : Serving(s) => table[s] # << >> \/ Leaving(s)
  BY DEF Inv, TypeOK, Rooted
<1>1. ASSUME \A s \in Seqs : Serving(s)' /\ ~Leaving(s)' =>
               (Serving(s) /\ ~Leaving(s) /\ (table[s] # << >> => table'[s] # << >>))
               \/ table'[s] # << >>
      PROVE  Rooted'
  BY ONLY <1>0, <1>1 DEF Rooted
<1>2. CASE /\ UNCHANGED <<table, running>>
           /\ UNCHANGED scheduled \/ pc' \notin {"decode", "preempt"}
           /\ pc \in {"decode", "preempt"} \/ scheduled = << >>
                \/ pc' \notin {"decode", "preempt"}
           /\ pc \notin {"preempt", "finish"}
  <2>1. ASSUME NEW s \in Seqs, Serving(s)' PROVE Serving(s)
    <3>1. ~Occurs(s, << >>)
      BY DEF Occurs
    <3> QED BY <1>2, <2>1, <3>1 DEF Serving
  <2>2. \A s \in Seqs : ~Leaving(s)
    BY <1>2 DEF Leaving
  <2> QED BY <1>1, <1>2, <2>1, <2>2
<1>3. CASE UNCHANGED vars
  <2>1. UNCHANGED <<table, running, scheduled, pc>>
    BY <1>3 DEF vars, managerVars, queueVars
  <2> QED BY <1>0, <2>1 DEF Rooted, Serving, Leaving
<1>4. ASSUME NEW s \in Seqs, NEW p \in Prompts, AddRequest(s, p)
      PROVE  Rooted'
  BY <1>2, <1>4 DEF AddRequest, managerVars
<1>5. CASE Step \/ Admit \/ PrefillDone \/ DecodeFails \/ Forward \/ Preempt
  BY <1>2, <1>5 DEF Step, Admit, PrefillDone, DecodeFails, Forward, Preempt, Decoding,
                    managerVars, queueVars
<1>6. ASSUME NEW u \in Tokens, Sampled(u) PROVE Rooted'
  BY <1>2, <1>6 DEF Sampled, AfterPost, managerVars
<1>7. ASSUME NEW q \in Seqs, \/ \E b : table' = [table EXCEPT ![q] = Append(@, b)]
                             \/ table' = table,
             NEW s \in Seqs, table[s] # << >>
      PROVE  table'[s] # << >>
  BY <1>0, <1>7
<1>8. CASE AllocBlock
  <2>1. pc = "alloc" /\ pc' = "alloc" /\ running' = running
    BY <1>8 DEF AllocBlock, queueVars
  <2>2. PICK q \in Seqs : q = Head(waiting)
    BY <1>0, <1>8, HeadType DEF AllocBlock, Inv, Nonempty
  <2>3. \E b : table' = [table EXCEPT ![q] = Append(@, b)]
    BY <1>8, <2>2 DEF AllocBlock, AllocateMiss, AllocateHit
  <2>4. \A s \in Seqs : Serving(s)' => Serving(s) /\ ~Leaving(s)
    BY <2>1 DEF Serving, Leaving
  <2> QED BY <1>1, <1>7, <2>3, <2>4
<1>9. CASE Admitted
  <2>1. /\ pc = "alloc" /\ pc' = "admit" /\ running' = Append(running, Head(waiting))
        /\ table' = table
        /\ Len(table[Head(waiting)]) = NumBlocksOf(Head(waiting))
    BY <1>9 DEF Admitted, managerVars
  <2>2. PICK q \in Seqs : q = Head(waiting) /\ Occurs(q, waiting)
    BY <1>0, <1>9, HeadType, OccursHeadTail DEF Admitted, Inv, Nonempty
  <2>3. tokens \in [Seqs -> Seq(Tokens)] /\ tokens[q] # << >>
    BY <2>2 DEF Inv, TypeOK, Numbered, Queued
  <2>4. NumBlocksOf(q) > 0
    BY ONLY <2>3, q \in Seqs, NumBlocksOfNat
  <2>5. table'[q] # << >>
    BY <1>0, <2>1, <2>2, <2>4
  <2>6. ASSUME NEW s \in Seqs, Serving(s)', s # q PROVE Serving(s) /\ ~Leaving(s)
    <3>1. Occurs(s, running')
      BY <2>1, <2>6 DEF Serving
    <3>2. Occurs(s, running)
      BY ONLY <1>0, <2>1, <2>2, <2>6, <3>1, OccursAppend
    <3> QED BY <2>1, <3>2 DEF Serving, Leaving
  <2> QED BY <1>1, <2>1, <2>5, <2>6
<1>10. CASE DecodeAppend
  <2>1. /\ pc = "decode" /\ pc' = "decode" /\ running # << >> /\ Head(running) \in Seqs
        /\ running' = Tail(running) /\ scheduled' = Append(scheduled, Head(running))
    BY <1>0, <1>10 DEF DecodeAppend, Decoding
  <2>2. \/ \E b : table' = [table EXCEPT ![Head(running)] = Append(@, b)]
        \/ table' = table
    BY <1>10 DEF DecodeAppend, MayAppend
  <2>3. ASSUME NEW s \in Seqs, Serving(s)' PROVE Serving(s) /\ ~Leaving(s)
    <3>1. Occurs(s, running') \/ Occurs(s, scheduled')
      BY <2>3 DEF Serving
    <3>2. Occurs(Head(running), running) /\ (Occurs(s, running') => Occurs(s, running))
      BY ONLY <1>0, <2>1, OccursHeadTail
    <3>3. Occurs(s, scheduled') => Occurs(s, scheduled) \/ s = Head(running)
      BY ONLY <1>0, <2>1, OccursAppend
    <3> QED BY ONLY <2>1, <3>1, <3>2, <3>3 DEF Serving, Leaving
  <2> QED BY <1>1, <1>7, <2>1, <2>2, <2>3
<1>11. CASE PreemptBlock \/ FinishBlock
  <2>1. /\ UNCHANGED <<running, scheduled, pc>>
        /\ pc = "preempt" \/ pc = "finish"
    BY <1>11 DEF PreemptBlock, FinishBlock, queueVars
  <2>2. PICK q : /\ table' = [table EXCEPT ![q] = Front(@)]
                 /\ q = IF pc = "preempt" THEN Last(running) ELSE Head(scheduled)
    BY <1>11 DEF PreemptBlock, FinishBlock, DeallocateLast
  <2>3. ASSUME NEW s \in Seqs, Serving(s)', ~Leaving(s)'
        PROVE  Serving(s) /\ ~Leaving(s) /\ table'[s] = table[s]
    <3>1. Serving(s) /\ ~Leaving(s)
      BY <2>1, <2>3 DEF Serving, Leaving
    <3>2. s # q
      BY <2>1, <2>2, <3>1 DEF Leaving
    <3> QED BY <1>0, <2>2, <3>1, <3>2
  <2> QED BY <1>1, <2>3
<1>12. CASE Preempted
  <2>1. /\ pc = "preempt" /\ pc' = "decode" /\ running # << >> /\ scheduled' = scheduled
        /\ running' = Front(running) /\ table' = table
    BY <1>12 DEF Preempted, Inv, Nonempty
  <2>2. ASSUME NEW s \in Seqs, Serving(s)' PROVE Serving(s) /\ s # Last(running)
    <3>1. PICK n \in Nat : n = Len(running) /\ n > 0 /\ Last(running) = running[n]
      BY <1>0, <2>1 DEF Last
    <3>2. \A j, k \in 1 .. n : j < k => running[j] < running[k]
      BY <3>1, LineSorted DEF Sorted
    <3>3. \A j \in 1 .. n : running[j] \in Int
      BY <3>1, LineSorted
    <3>4. CASE Occurs(s, running')
      <4>1. PICK i \in 1 .. n - 1 : running[i] = s
        <5>1. Len(running') = n - 1 /\ \A i \in 1 .. n - 1 : running'[i] = running[i]
          BY ONLY <1>0, <2>1, <3>1, FrontProperties
        <5> QED BY <3>4, <5>1 DEF Occurs
      <4>2. i \in 1 .. n /\ n \in 1 .. n /\ i < n
        BY <3>1
      <4>3. running[i] < running[n]
        BY ONLY <3>2, <4>2
      <4>4. Occurs(s, running)
        BY ONLY <3>1, <4>1, <4>2 DEF Occurs
      <4> QED BY <3>1, <3>3, <4>1, <4>2, <4>3, <4>4 DEF Serving
    <3>5. CASE Occurs(s, scheduled)
      <4>1. PICK j \in 1 .. Len(scheduled) : scheduled[j] = s
        BY <3>5 DEF Occurs
      <4>2. scheduled[j] < running[n]
        BY <2>1, <3>1, LineSorted
      <4>3. n \in 1 .. n
        BY <3>1
      <4> QED BY <2>1, <3>1, <3>3, <3>5, <4>1, <4>2, <4>3 DEF Serving
    <3> QED BY <2>1, <2>2, <3>4, <3>5 DEF Serving
  <2>3. \A s \in Seqs : s # Last(running) => ~Leaving(s)
    BY <2>1 DEF Leaving
  <2> QED BY <1>1, <2>1, <2>2, <2>3
<1>13. CASE DecodeDone
  <2>1. /\ pc = "decode" /\ pc' = "run" /\ table' = table
        /\ running' = scheduled \o running
    BY <1>13 DEF DecodeDone, managerVars
  <2>2. ASSUME NEW s \in Seqs, Serving(s)' PROVE Serving(s) /\ ~Leaving(s)
    <3>1. Occurs(s, running')
      BY <2>1, <2>2 DEF Serving
    <3>2. Occurs(s, scheduled) \/ Occurs(s, running)
      BY ONLY <1>0, <2>1, <3>1, OccursConcat
    <3> QED BY ONLY <2>1, <3>2 DEF Serving, Leaving
  <2> QED BY <1>1, <2>1, <2>2
<1>14. CASE Finished
  <2>1. /\ pc = "finish" /\ pc' \in {"idle", "post"} /\ table' = table
        /\ running' = RemoveFirst(running, Head(scheduled))
    BY <1>14 DEF Finished, AfterPost
  <2>2. Sorted(running) /\ Seqs \subseteq Int
    BY LineSorted, SizesAssumption
  <2>3. /\ ~Occurs(Head(scheduled), running')
        /\ \A s : Occurs(s, running') => Occurs(s, running)
    BY ONLY <1>0, <2>1, <2>2, RemoveFirstSorted
  <2>4. \A s \in Seqs : Serving(s)' => Serving(s) /\ ~Leaving(s)
    BY ONLY <2>1, <2>3 DEF Serving, Leaving
  <2> QED BY <1>1, <2>1, <2>4
<1> QED BY <1>3, <1>4, <1>5, <1>6, <1>8, <1>9, <1>10, <1>11, <1>12, <1>13, <1>14
        DEF SchedNext, Prefill, Decode, Postprocess, Terminated

-----------------------------------------------------------------------------
(* The theorems                                                            *)

LEMMA InitInv ==
  ASSUME SchedInit
  PROVE  Inv
<1> USE SizesAssumption DEF SchedInit, BlockInit
<1>1. TypeOK
  <2>1. free \in Seq(Blocks)
    <3>1. \A k \in 1 .. NumBlocks : k - 1 \in Blocks
      BY DEF Blocks
    <3>2. free \in [1 .. NumBlocks -> Blocks] /\ NumBlocks \in Nat
      BY <3>1
    <3> QED BY ONLY <3>2, IsASeq
  <2>2. Published
    BY DEF Published, NoHash
  <2>3. Queues
    <3>1. miss \in BOOLEAN /\ prefill \in BOOLEAN
      OBVIOUS
    <3>2. status \in [Seqs -> Statuses] /\ pc \in Places
      BY DEF Statuses, Places
    <3>3. /\ tokens \in [Seqs -> Seq(Tokens)] /\ prompt \in [Seqs -> Nat]
          /\ waiting \in Seq(Seqs) /\ running \in Seq(Seqs) /\ scheduled \in Seq(Seqs)
          /\ batched \in Int
      OBVIOUS
    <3> QED BY ONLY <3>1, <3>2, <3>3 DEF Queues
  <2>4. ref \in [Blocks -> Nat] /\ table \in [Seqs -> Seq(Blocks)] /\ cached \in [Seqs -> Nat]
    OBVIOUS
  <2>5. used \subseteq Blocks
    OBVIOUS
  <2> QED BY ONLY <2>1, <2>2, <2>3, <2>4, <2>5 DEF TypeOK, Published, Queues
<1>2. ASSUME NEW b \in Blocks PROVE Holders(table, b) = {}
  BY DEF Holders
<1>3. Counted
  BY <1>2, FS_EmptySet DEF Counted
<1>4. Partitioned
  <2>1. Len(free) = NumBlocks /\ \A k \in 1 .. NumBlocks : free[k] = k - 1
    OBVIOUS
  <2>2. ASSUME NEW b \in Blocks PROVE \E k \in 1 .. NumBlocks : free[k] = b
    <3>1. b + 1 \in 1 .. NumBlocks /\ (b + 1) - 1 = b
      BY DEF Blocks
    <3> QED BY <3>1, <2>1
  <2> QED BY <2>1, <2>2 DEF Partitioned
<1>5. ~Occurs(waiting, << >>) /\ \A c : ~Occurs(c, << >>)
  BY DEF Occurs
<1>6. Line = << >>
  <2>1. << >> \o << >> = << >>
    BY ConcatEmptySeq
  <2> QED BY <2>1 DEF Line
<1>7. ArrivalOrder
  BY <1>6 DEF ArrivalOrder
<1> QED BY <1>1, <1>3, <1>4, <1>5, <1>7
        DEF Inv, Funded, Nonempty, Numbered, Queued, Rooted, Serving

LEMMA InvStep ==
  ASSUME Inv, [SchedNext]_vars
  PROVE  Inv'
<1>1. Accounted' /\ Published' /\ cached' \in [Seqs -> Nat] /\ Queues'
  BY AccountsStep, QueuesStep
<1>2. TypeOK' /\ Counted' /\ Partitioned'
  BY ONLY <1>1 DEF Accounted, Published, Queues, TypeOK
<1> QED BY <1>2, FundedStep, NonemptyStep, NumberedStep, OrderStep, RootedStep DEF Inv

\* Every state the scheduler reaches satisfies the inductive invariant.
THEOREM Invariance == SchedSpec => []Inv
BY InitInv, InvStep, PTL DEF SchedSpec

\* The variables keep their types: in particular ref_count never falls below
\* zero and a block table only ever names blocks of the pool.
THEOREM TypeCorrectness == SchedSpec => []TypeOK
<1>1. Inv => TypeOK
  BY DEF Inv
<1> QED BY <1>1, Invariance, PTL

\* ref_count counts the table entries that name a block, for any number of
\* requests sharing any number of blocks.
THEOREM ReferencesCounted == SchedSpec => []RefCounted
<1>1. Inv => RefCounted
  BY DEF Inv, Counted, RefCounted
<1> QED BY <1>1, Invariance, PTL

\* free_block_ids and used_block_ids partition the pool, and the used blocks
\* are the referenced ones.
THEOREM PoolPartitioned == SchedSpec => []Partitioned
<1>1. Inv => Partitioned
  BY DEF Inv
<1> QED BY <1>1, Invariance, PTL

\* can_allocate's check covers the whole of allocate: free_block_ids[0] is
\* never read from an empty deque.
THEOREM AllocationFunded == SchedSpec => []Funded
<1>1. Inv => Funded
  BY DEF Inv
<1> QED BY <1>1, Invariance, PTL

\* Requests are served in the order of their arrival through every admission,
\* preemption and retirement.
THEOREM FirstComeFirstServed == SchedSpec => []ArrivalOrder
<1>1. Inv => ArrivalOrder
  BY DEF Inv
<1> QED BY <1>1, Invariance, PTL

=============================================================================
