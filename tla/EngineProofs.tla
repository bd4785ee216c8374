---------------------------- MODULE EngineProofs ----------------------------
(***************************************************************************)
(* The engine implements the scheduler: what the forward pass does to the  *)
(* KV cache is a stuttering step of it, so all that is proved of SchedSpec *)
(* holds of the engine that the runs check.  With any number of workers it *)
(* still does, since the worker channel only delays the forward pass; the  *)
(* channel loses and repeats no command, and a command says enough.  The   *)
(* slots of a prefill are as many as its tokens when the block sizes agree.*)
(*                                                                         *)
(* Before that, what a block table holds, in every reachable state: who    *)
(* may have one at all (NoLeak), how long it is (Fitting) and whether its  *)
(* last block is published.  The last two are one argument.  Between two   *)
(* decodes a running sequence has blocks for all tokens but the one just   *)
(* sampled, and its last block has a hash exactly if those tokens fill it; *)
(* may_append reads off that hash whether a block must be added, so the    *)
(* argument must also show that nobody else writes it: a block without a   *)
(* hash is in one table only (Alone).                                      *)
(*                                                                         *)
(* The last part is about the cache itself.  A published block holds the   *)
(* tokens that each of its users has there (Matching) and the blocks a     *)
(* sequence computes itself have one owner (OneOwner): so a slot has one   *)
(* writer.  An entry that is read is stored, or awaited by an input of the *)
(* pass to come (PublishedComputed, OpenComputed): so the cache is whole   *)
(* after every pass.                                                       *)
(***************************************************************************)
EXTENDS ModelRunner, SchedulerProofs

\* The manager and Sequence cut the tokens at the same places, as they do with
\* the default sizes (256 and 256); config.py's multiples of 256 exceed 1.
SameSizes == BlockSize = SeqBlockSize /\ BlockSize > 1

LEMMA DivMod ==
  ASSUME NEW n \in Nat, NEW d \in Nat \ {0}
  PROVE  /\ n \div d \in Nat /\ n % d \in 0 .. d - 1
         /\ n = (n \div d) * d + (n % d)
OBVIOUS

LEMMA ProductGap ==
  ASSUME NEW d \in Nat \ {0}, NEW j \in Int, NEW k \in Int, j * d < k * d
  PROVE  j * d + d <= k * d
<1>1. j < k
  BY SMT
<1> QED BY <1>1, SMT

LEMMA BlocksForBounds ==
  ASSUME NEW n \in Nat
  PROVE  /\ n <= BlocksFor(n) * SeqBlockSize
         /\ BlocksFor(n) * SeqBlockSize < n + SeqBlockSize
<1> DEFINE d == SeqBlockSize
           m == n + d - 1
           q == m \div d
<1>1. d \in Nat \ {0} /\ m \in Nat
  BY SizesAssumption
<1> HIDE DEF m, d
<1>2. q \in Nat /\ m % d \in 0 .. d - 1 /\ m = q * d + (m % d)
  BY <1>1, DivMod
<1>3. BlocksFor(n) = q
  BY DEF BlocksFor, m, d
<1>4. q * d \in Int
  BY <1>1, <1>2
<1> QED BY <1>1, <1>2, <1>3, <1>4 DEF m, d

LEMMA BlocksForUnique ==
  ASSUME NEW n \in Nat, NEW k \in Nat, n <= k * SeqBlockSize, k * SeqBlockSize < n + SeqBlockSize
  PROVE  BlocksFor(n) = k
<1>1. PICK q \in Nat : q = BlocksFor(n)
  BY BlocksForNat
<1>2. PICK d \in Nat \ {0} : d = SeqBlockSize
  BY SizesAssumption
<1>3. n <= q * d /\ q * d < n + d /\ n <= k * d /\ k * d < n + d
  BY <1>1, <1>2, BlocksForBounds
<1>4. q * d \in Int /\ k * d \in Int
  BY <1>1, <1>2
<1>i. k \in Int /\ q \in Int
  OBVIOUS
<1>5. q * d < k * d => q * d + d <= k * d
  BY ONLY <1>i, d \in Nat \ {0}, ProductGap
<1>6. k * d < q * d => k * d + d <= q * d
  BY ONLY <1>i, d \in Nat \ {0}, ProductGap
<1>7. k * d = q * d
  BY ONLY <1>3, <1>4, <1>5, <1>6, n \in Nat, d \in Nat
<1> QED BY <1>1, <1>2, <1>7

\* The sizes at which a token more needs a block more, and at which it fills one.
LEMMA BlocksForNext ==
  ASSUME SameSizes, NEW n \in Nat \ {0}
  PROVE  /\ n % BlockSize = 1 <=> BlocksFor(n - 1) * BlockSize <= n - 1
         /\ n % BlockSize = 1 => BlocksFor(n) = BlocksFor(n - 1) + 1
         /\ n % BlockSize # 1 => BlocksFor(n) = BlocksFor(n - 1)
         /\ n % BlockSize = 0 <=> BlocksFor(n) * BlockSize <= n
<1>1. PICK d \in Nat : d = BlockSize /\ d = SeqBlockSize /\ d > 1
  BY SizesAssumption DEF SameSizes
<1>2. PICK q \in Nat, r \in 0 .. d - 1 : n = q * d + r /\ n % d = r
  <2>1. /\ n \div d \in Nat /\ n % d \in 0 .. d - 1
        /\ n = (n \div d) * d + (n % d)
    <3>1. n \in Nat /\ d \in Nat \ {0}
      BY <1>1
    <3> QED BY ONLY <3>1, DivMod
  <2> QED BY ONLY <2>1
<1>3. q * d \in Nat /\ (q + 1) * d = q * d + d /\ (q + 1 - 1) * d = q * d
  BY <1>1, <1>2
<1>4. CASE r = 0
  <2>1. BlocksFor(n) = q
    BY <1>1, <1>2, <1>3, <1>4, BlocksForUnique
  <2>2. BlocksFor(n - 1) = q
    BY <1>1, <1>2, <1>3, <1>4, BlocksForUnique
  <2> QED BY ONLY <1>1, <1>2, <1>3, <1>4, <2>1, <2>2
<1>5. CASE r = 1
  <2>1. BlocksFor(n) = q + 1
    BY <1>1, <1>2, <1>3, <1>5, BlocksForUnique
  <2>2. BlocksFor(n - 1) = q
    BY <1>1, <1>2, <1>3, <1>5, BlocksForUnique
  <2> QED BY ONLY <1>1, <1>2, <1>3, <1>5, <2>1, <2>2
<1>6. CASE r > 1
  <2>1. BlocksFor(n) = q + 1
    BY <1>1, <1>2, <1>3, <1>6, BlocksForUnique
  <2>2. BlocksFor(n - 1) = q + 1
    BY <1>1, <1>2, <1>3, <1>6, BlocksForUnique
  <2> QED BY ONLY <1>1, <1>2, <1>3, <1>6, <2>1, <2>2
<1> QED BY <1>2, <1>4, <1>5, <1>6

-----------------------------------------------------------------------------
(* No sequence keeps a block it has no use for                             *)

LEMMA NoLeakStep ==
  ASSUME Inv, NoLeak, [SchedNext]_vars
  PROVE  NoLeak'
<1>0. /\ table \in [Seqs -> Seq(Blocks)] /\ status \in [Seqs -> Statuses]
      /\ \A s \in Seqs : table[s] # << >> => Holding(s)
      /\ waiting \in Seq(Seqs) /\ running \in Seq(Seqs) /\ scheduled \in Seq(Seqs)
  BY DEF Inv, TypeOK, NoLeak
<1>1. ASSUME \A s \in Seqs : table'[s] # << >> => Holding(s)' \/ (table[s] # << >> /\ ~Holding(s))
      PROVE  NoLeak'
  BY ONLY <1>0, <1>1 DEF NoLeak
<1>2. CASE UNCHANGED <<table, status, queueVars>> /\ (pc \in {"alloc", "preempt", "finish"} => pc' = pc)
  BY <1>0, <1>1, <1>2 DEF Holding, queueVars
<1>3. CASE UNCHANGED vars
  BY <1>2, <1>3 DEF vars, managerVars
<1>4. ASSUME NEW s \in Seqs, NEW p \in Prompts, AddRequest(s, p)
      PROVE  NoLeak'
  <2>1. /\ pc = "idle" /\ pc' = "idle" /\ status[s] = "NONE" /\ table' = table
        /\ status' = [status EXCEPT ![s] = "WAITING"]
    BY <1>4 DEF AddRequest, managerVars
  <2>2. \A r \in Seqs : Holding(r) => Holding(r)'
    BY <1>0, <2>1 DEF Holding
  <2> QED BY <1>1, <2>1, <2>2
<1>5. CASE Step \/ Admit \/ PrefillDone \/ DecodeFails \/ Forward \/ DecodeAppend
  <2>1. pc \notin {"alloc", "preempt", "finish"} /\ UNCHANGED status
    BY <1>5 DEF Step, Admit, PrefillDone, DecodeFails, Forward, DecodeAppend, Decoding
  <2>2. \A r \in Seqs : Holding(r) => Holding(r)'
    BY <2>1 DEF Holding
  <2>3. CASE ~DecodeAppend
    <3>1. table' = table
      BY <1>5, <2>3 DEF Step, Admit, PrefillDone, DecodeFails, Forward, managerVars
    <3> QED BY <1>1, <2>2, <3>1
  <2>4. CASE DecodeAppend
    <3>1. /\ running # << >> /\ Head(running) \in Seqs
          /\ \/ \E b : table' = [table EXCEPT ![Head(running)] = Append(@, b)]
             \/ table' = table
      BY <1>0, <2>4, HeadType DEF DecodeAppend, Decoding, MayAppend
    <3>2. Serving(Head(running)) /\ ~Leaving(Head(running))
      BY <1>0, <2>1, <3>1, OccursHeadTail DEF Serving, Leaving
    <3>3. table[Head(running)] # << >>
      BY <3>1, <3>2 DEF Inv, Rooted
    <3>4. \A r \in Seqs : table'[r] # << >> => table[r] # << >>
      BY <1>0, <3>1, <3>3
    <3> QED BY <1>1, <2>2, <3>4
  <2> QED BY <2>3, <2>4
<1>6. CASE AllocBlock
  <2>1. /\ pc = "alloc" /\ pc' = "alloc" /\ UNCHANGED <<status, waiting, running, scheduled>>
        /\ Head(waiting) \in Seqs
    BY <1>0, <1>6, HeadType DEF AllocBlock, queueVars, Inv, Nonempty
  <2>2. \E b : table' = [table EXCEPT ![Head(waiting)] = Append(@, b)]
    BY <1>6 DEF AllocBlock, AllocateMiss, AllocateHit
  <2>3. \A r \in Seqs : r # Head(waiting) => table'[r] = table[r]
    BY <1>0, <2>1, <2>2
  <2>4. \A r \in Seqs : Holding(r) => Holding(r)'
    BY <2>1 DEF Holding
  <2>5. \A r \in Seqs : r = Head(waiting) => Holding(r)'
    BY <2>1 DEF Holding
  <2> QED BY <1>1, <2>3, <2>4, <2>5
<1>7. CASE Admitted
  <2>1. /\ pc = "alloc" /\ Head(waiting) \in Seqs /\ table' = table
        /\ status' = [status EXCEPT ![Head(waiting)] = "RUNNING"]
    BY <1>0, <1>7, HeadType DEF Admitted, Inv, Nonempty, managerVars
  <2>2. \A r \in Seqs : Holding(r) => Holding(r)'
    BY <1>0, <2>1 DEF Holding
  <2> QED BY <1>1, <2>1, <2>2
<1>8. CASE Preempt
  <2>1. /\ pc = "decode" /\ pc' = "preempt" /\ table' = table /\ running' = running
        /\ status' = [status EXCEPT ![Last(running)] = "WAITING"]
    BY <1>8 DEF Preempt, Decoding, managerVars, queueVars
  <2>2. \A r \in Seqs : Holding(r) => Holding(r)'
    BY <1>0, <2>1 DEF Holding
  <2> QED BY <1>1, <2>1, <2>2
<1>9. CASE PreemptBlock \/ FinishBlock
  <2>1. UNCHANGED <<status, waiting, running, scheduled, pc>>
    BY <1>9 DEF PreemptBlock, FinishBlock, queueVars
  <2>2. \A r \in Seqs : Holding(r) => Holding(r)'
    BY <2>1 DEF Holding
  <2>3. PICK q : /\ table' = [table EXCEPT ![q] = Front(@)] /\ table[q] # << >>
                 /\ \/ pc = "preempt" /\ q = Last(running)
                    \/ pc = "finish" /\ q = Head(scheduled)
    BY <1>9 DEF PreemptBlock, FinishBlock, DeallocateLast, Freed
  <2>4. \A r \in Seqs : table'[r] = table[r] \/ r = q
    BY <1>0, <2>3
  <2>5. \A r \in Seqs : r = q => Holding(r)
    BY <2>3 DEF Holding
  <2> QED BY <1>1, <2>2, <2>4, <2>5
<1>10. CASE Preempted \/ Finished
  <2>1. PICK q : /\ table[q] = << >> /\ table' = table /\ UNCHANGED status
                 /\ \/ pc = "preempt" /\ q = Last(running)
                    \/ pc = "finish" /\ q = Head(scheduled)
    BY <1>10 DEF Preempted, Finished, Freed
  <2>2. \A r \in Seqs : Holding(r) => Holding(r)' \/ r = q
    BY <2>1 DEF Holding
  <2> QED BY <1>1, <2>1, <2>2
<1>11. CASE DecodeDone
  <2>1. pc = "decode" /\ UNCHANGED <<status, table>>
    BY <1>11 DEF DecodeDone, managerVars
  <2>2. \A r \in Seqs : Holding(r) => Holding(r)'
    BY <2>1 DEF Holding
  <2> QED BY <1>1, <2>1, <2>2
<1>12. ASSUME NEW u \in Tokens, Sampled(u) PROVE NoLeak'
  <2>1. /\ pc = "post" /\ table' = table
        /\ \/ UNCHANGED status
           \/ /\ status' = [status EXCEPT ![Head(scheduled)] = "FINISHED"]
              /\ pc' = "finish" /\ UNCHANGED scheduled
    BY <1>12 DEF Sampled, managerVars
  <2>2. \A r \in Seqs : Holding(r) => Holding(r)'
    BY <1>0, <2>1 DEF Holding
  <2> QED BY <1>1, <2>1, <2>2
<1> QED BY <1>3, <1>4, <1>5, <1>6, <1>7, <1>8, <1>9, <1>10, <1>11, <1>12
        DEF SchedNext, Prefill, Decode, Postprocess, Terminated

-----------------------------------------------------------------------------
(* The queues and the statuses                                             *)

InService(s) == Occurs(s, running) \/ Occurs(s, scheduled)

Served ==
  /\ Distinct(scheduled)
  /\ pc = "idle" => scheduled = << >>
  /\ \A s \in Seqs : Occurs(s, waiting) => status[s] = "WAITING"
  /\ \A s \in Seqs : InService(s) => status[s] = "RUNNING" \/ Leaving(s)
  /\ pc = "preempt" => status[Last(running)] = "WAITING"
  /\ pc = "finish" => status[Head(scheduled)] = "FINISHED"

\* the head of a queue is taken
LEMMA DistinctTail ==
  ASSUME NEW S, NEW q \in Seq(S), q # << >>, Distinct(q)
  PROVE  Distinct(Tail(q)) /\ ~Occurs(Head(q), Tail(q))
<1>1. /\ Len(q) \in Nat /\ Len(q) > 0 /\ Head(q) = q[1] /\ Len(Tail(q)) = Len(q) - 1
      /\ \A i \in 1 .. Len(q) - 1 : Tail(q)[i] = q[i + 1]
  OBVIOUS
<1>2. \A j, k \in 1 .. Len(q) : q[j] = q[k] => j = k
  BY DEF Distinct
<1> HIDE DEF Distinct
<1>3. PICK n \in Nat : n = Len(q) - 1
  <2>1. Len(q) - 1 \in Nat
    BY ONLY <1>1
  <2> QED BY ONLY <2>1
<1>4. \A i \in 1 .. n : Tail(q)[i] = q[i + 1] /\ i + 1 \in 1 .. Len(q) /\ i + 1 # 1
  BY <1>1, <1>3
<1>5. 1 \in 1 .. Len(q)
  BY <1>1
<1>6. Distinct(Tail(q))
  BY <1>1, <1>2, <1>3, <1>4 DEF Distinct
<1>7. ~Occurs(Head(q), Tail(q))
  BY ONLY <1>1, <1>2, <1>3, <1>4, <1>5 DEF Occurs
<1> QED BY <1>6, <1>7

LEMMA TailKeeps ==
  ASSUME NEW S, NEW q \in Seq(S), q # << >>, NEW c, c # Head(q), Occurs(c, q)
  PROVE  Occurs(c, Tail(q))
<1>1. /\ Len(q) \in Nat /\ Head(q) = q[1] /\ Len(Tail(q)) = Len(q) - 1
      /\ \A i \in 1 .. Len(q) - 1 : Tail(q)[i] = q[i + 1]
  OBVIOUS
<1>2. PICK k \in 1 .. Len(q) : q[k] = c
  BY DEF Occurs
<1>3. k # 1
  BY <1>1, <1>2
<1>4. k - 1 \in 1 .. Len(Tail(q)) /\ (k - 1) + 1 = k
  BY ONLY <1>1, <1>3, k \in 1 .. Len(q)
<1>5. Tail(q)[k - 1] = c
  BY ONLY <1>1, <1>2, <1>4
<1> QED BY ONLY <1>4, <1>5 DEF Occurs

\* the last element of a sorted queue is taken
LEMMA SortedFront ==
  ASSUME NEW S, NEW q \in Seq(S), S \subseteq Int, q # << >>, Sorted(q)
  PROVE  ~Occurs(Last(q), Front(q))
<1>1. PICK n \in Nat : n = Len(q) /\ n > 0 /\ Last(q) = q[n]
  BY DEF Last
<1>2. Len(Front(q)) = n - 1 /\ \A i \in 1 .. n - 1 : Front(q)[i] = q[i]
  BY <1>1, FrontProperties
<1>s. \A j, k \in 1 .. n : j < k => q[j] < q[k]
  BY ONLY <1>1, Sorted(q) DEF Sorted
<1>t. \A k \in 1 .. n : q[k] \in Int
  <2>1. \A k \in 1 .. Len(q) : q[k] \in S
    BY ONLY q \in Seq(S)
  <2> QED BY ONLY <1>1, <2>1, S \subseteq Int
<1>3. \A i \in 1 .. n - 1 : q[i] < q[n] /\ q[i] \in Int /\ q[n] \in Int
  <2> TAKE i \in 1 .. n - 1
  <2>1. i \in 1 .. n /\ n \in 1 .. n /\ i < n
    BY <1>1
  <2> QED BY ONLY <1>s, <1>t, <2>1
<1> QED BY ONLY <1>1, <1>2, <1>3 DEF Occurs

\* Sequences in service run, those that wait do not, and no batch has a sequence twice.
LEMMA ServedStep ==
  ASSUME Inv, Served, [SchedNext]_vars
  PROVE  Served'
<1>0. /\ status \in [Seqs -> Statuses] /\ pc \in Places
      /\ waiting \in Seq(Seqs) /\ running \in Seq(Seqs) /\ scheduled \in Seq(Seqs)
      /\ Sorted(running) /\ Sorted(waiting) /\ Seqs \subseteq Int
      /\ waiting \in Seq(Int) /\ running \in Seq(Int) /\ scheduled \in Seq(Int)
  BY LineSorted, SizesAssumption DEF Inv, TypeOK
<1>a. /\ Distinct(scheduled) /\ (pc = "idle" => scheduled = << >>)
      /\ pc = "preempt" => status[Last(running)] = "WAITING"
      /\ pc = "finish" => status[Head(scheduled)] = "FINISHED"
  BY DEF Served
<1>b. /\ \A s \in Seqs : Occurs(s, waiting) => status[s] = "WAITING"
      /\ \A s \in Seqs : InService(s) => status[s] = "RUNNING" \/ Leaving(s)
  BY DEF Served
<1>e. \A c : ~Occurs(c, << >>)
  BY DEF Occurs
<1>1. ASSUME /\ UNCHANGED <<status, queueVars>>
             /\ pc \in {"preempt", "finish"} => pc' = pc
             /\ pc' \in {"preempt", "finish", "idle"} => pc' = pc
      PROVE  Served'
  <2>1. \A s \in Seqs : InService(s)' => InService(s)
    BY <1>1 DEF InService, queueVars
  <2>2. \A s \in Seqs : Leaving(s) => Leaving(s)'
    BY <1>1 DEF Leaving, queueVars
  <2>3. UNCHANGED <<status, waiting, running, scheduled>>
    BY <1>1 DEF queueVars
  <2> QED BY <1>1, <1>a, <1>b, <2>1, <2>2, <2>3 DEF Served
<1>2. CASE UNCHANGED vars
  BY <1>1, <1>2 DEF vars
<1>3. ASSUME NEW s \in Seqs, NEW p \in Prompts, AddRequest(s, p)
      PROVE  Served'
  <2>1. /\ pc = "idle" /\ pc' = "idle" /\ status[s] = "NONE"
        /\ status' = [status EXCEPT ![s] = "WAITING"]
        /\ waiting' = Append(waiting, s) /\ running' = running /\ scheduled' = scheduled
    BY <1>3 DEF AddRequest
  <2>2. status'[s] = "WAITING" /\ \A r \in Seqs : r # s => status'[r] = status[r]
    BY <1>0, <2>1
  <2>3. \A r \in Seqs : Occurs(r, waiting') => Occurs(r, waiting) \/ r = s
    BY <1>0, <2>1, OccursAppend
  <2>4. \A r \in Seqs : InService(r)' => InService(r) /\ ~Leaving(r)
    BY <2>1 DEF InService, Leaving
  <2>5. ~InService(s)
    BY <1>b, <2>1 DEF Leaving
  <2> QED BY <1>a, <1>b, <2>1, <2>2, <2>3, <2>4, <2>5 DEF Served
<1>4. CASE Step
  <2>1. /\ pc = "idle" /\ pc' = "admit" /\ scheduled' = << >>
        /\ UNCHANGED <<status, waiting, running>>
    BY <1>4 DEF Step
  <2>2. scheduled = << >>
    BY <1>a, <2>1
  <2>3. \A s \in Seqs : InService(s)' => InService(s) /\ ~Leaving(s)
    BY <1>e, <2>1 DEF InService, Leaving
  <2> QED BY <1>a, <1>b, <2>1, <2>2, <2>3 DEF Served
<1>5. CASE Admit \/ AllocBlock \/ PrefillDone \/ DecodeFails \/ Forward
            \/ PreemptBlock \/ FinishBlock
  BY <1>1, <1>5 DEF Admit, AllocBlock, PrefillDone, DecodeFails, Forward, PreemptBlock,
                    FinishBlock
<1>6. CASE Admitted
  <2>1. PICK s \in Seqs : s = Head(waiting) /\ Occurs(s, waiting)
    BY <1>0, <1>6, HeadType, OccursHeadTail DEF Admitted, Inv, Nonempty
  <2>2. /\ pc = "alloc" /\ pc' = "admit" /\ waiting # << >>
        /\ status' = [status EXCEPT ![s] = "RUNNING"]
        /\ waiting' = Tail(waiting) /\ running' = Append(running, s)
        /\ scheduled' = Append(scheduled, s)
    BY <1>6, <2>1 DEF Admitted, Inv, Nonempty
  <2>3. status'[s] = "RUNNING" /\ \A r \in Seqs : r # s => status'[r] = status[r]
    BY <1>0, <2>2
  <2>4. status[s] = "WAITING" /\ ~InService(s)
    BY <1>b, <2>1, <2>2 DEF Leaving
  <2>5. Distinct(scheduled')
    BY <1>0, <1>a, <2>2, <2>4, DistinctAppend DEF InService
  <2>6. \A r \in Seqs : Occurs(r, waiting') => Occurs(r, waiting) /\ r # s
    BY <1>0, <2>1, <2>2, OccursHeadTail, DistinctTail, SortedDistinct
  <2>7. \A r \in Seqs : InService(r)' => (InService(r) /\ ~Leaving(r)) \/ r = s
    <3> TAKE r \in Seqs
    <3>1. Occurs(r, running') => Occurs(r, running) \/ r = s
      BY ONLY <1>0, <2>2, s \in Seqs, OccursAppend
    <3>2. Occurs(r, scheduled') => Occurs(r, scheduled) \/ r = s
      BY ONLY <1>0, <2>2, s \in Seqs, OccursAppend
    <3> QED BY <2>2, <3>1, <3>2 DEF InService, Leaving
  <2> QED BY <1>b, <2>2, <2>3, <2>5, <2>6, <2>7 DEF Served
<1>7. CASE DecodeAppend
  <2>1. PICK s \in Seqs : s = Head(running) /\ Occurs(s, running)
    BY <1>0, <1>7, HeadType, OccursHeadTail DEF DecodeAppend, Decoding
  <2>2. /\ pc = "decode" /\ pc' = "decode" /\ running # << >> /\ UNCHANGED <<status, waiting>>
        /\ running' = Tail(running) /\ scheduled' = Append(scheduled, s)
    BY <1>7, <2>1 DEF DecodeAppend, Decoding
  <2>3. ~Occurs(s, scheduled)
    <3>1. \A j \in 1 .. Len(scheduled), k \in 1 .. Len(running) : scheduled[j] < running[k]
      BY <2>2, LineSorted
    <3>2. s \in Int
      BY <1>0
    <3> QED BY ONLY <2>1, <3>1, <3>2 DEF Occurs
  <2>4. Distinct(scheduled')
    BY <1>0, <1>a, <2>2, <2>3, DistinctAppend
  <2>5. \A r \in Seqs : InService(r)' => InService(r) /\ ~Leaving(r)
    <3> TAKE r \in Seqs
    <3>1. Occurs(r, running') => Occurs(r, running)
      BY ONLY <1>0, <2>2, OccursHeadTail
    <3>2. Occurs(r, scheduled') => Occurs(r, scheduled) \/ r = s
      BY ONLY <1>0, <2>2, s \in Seqs, OccursAppend
    <3> QED BY <2>1, <2>2, <3>1, <3>2 DEF InService, Leaving
  <2> QED BY <1>b, <2>2, <2>4, <2>5 DEF Served
<1>8. CASE Preempt
  <2>1. PICK s \in Seqs : s = Last(running) /\ Occurs(s, running)
    BY <1>0, <1>8, FrontProperties, OccursFrontLast DEF Preempt, Decoding
  <2>2. /\ pc = "decode" /\ pc' = "preempt" /\ UNCHANGED <<waiting, running, scheduled>>
        /\ status' = [status EXCEPT ![s] = "WAITING"]
    BY <1>8, <2>1 DEF Preempt, Decoding, queueVars
  <2>3. status'[s] = "WAITING" /\ \A r \in Seqs : r # s => status'[r] = status[r]
    BY <1>0, <2>2
  <2>4. \A r \in Seqs : InService(r)' => InService(r) /\ ~Leaving(r)
    BY <2>2 DEF InService, Leaving
  <2>5. \A r \in Seqs : r = s => Leaving(r)'
    BY <2>1, <2>2 DEF Leaving
  <2>6. status'[Last(running')] = "WAITING"
    BY <2>1, <2>2, <2>3
  <2> QED BY <1>a, <1>b, <2>2, <2>3, <2>4, <2>5, <2>6 DEF Served
<1>9. CASE Preempted
  <2>1. PICK s \in Seqs : s = Last(running) /\ Occurs(s, running)
    BY <1>0, <1>9, FrontProperties, OccursFrontLast DEF Preempted, Inv, Nonempty
  <2>2. /\ pc = "preempt" /\ pc' = "decode" /\ running # << >> /\ UNCHANGED <<status, scheduled>>
        /\ running' = Front(running) /\ waiting' = <<s>> \o waiting
    BY <1>9, <2>1 DEF Preempted, Requeue, Inv, Nonempty
  <2>3. status[s] = "WAITING"
    BY <1>a, <2>1, <2>2
  <2>4. \A r \in Seqs : Occurs(r, waiting') => Occurs(r, waiting) \/ r = s
    <3> TAKE r \in Seqs
    <3>1. <<s>> \in Seq(Seqs) /\ (Occurs(r, <<s>>) => r = s)
      BY DEF Occurs
    <3> QED BY ONLY <1>0, <2>2, <3>1, OccursConcat
  <2>5. ~Occurs(s, scheduled)
    <3>1. \A j \in 1 .. Len(scheduled), k \in 1 .. Len(running) : scheduled[j] < running[k]
      BY <2>2, LineSorted
    <3>2. s \in Int
      BY <1>0
    <3> QED BY ONLY <2>1, <3>1, <3>2 DEF Occurs
  <2>6. \A r \in Seqs : InService(r)' => InService(r) /\ r # s
    <3> TAKE r \in Seqs
    <3>1. Occurs(r, running') => Occurs(r, running) /\ r # s
      BY <1>0, <2>1, <2>2, OccursFrontLast, SortedFront
    <3> QED BY <2>2, <2>5, <3>1 DEF InService
  <2>7. \A r \in Seqs : Leaving(r) => r = s
    BY <2>1, <2>2 DEF Leaving
  <2> QED BY <1>a, <1>b, <2>2, <2>3, <2>4, <2>6, <2>7 DEF Served
<1>10. CASE DecodeDone
  <2>1. /\ pc = "decode" /\ pc' = "run" /\ UNCHANGED <<status, waiting, scheduled>>
        /\ running' = scheduled \o running
    BY <1>10 DEF DecodeDone
  <2>2. \A r \in Seqs : InService(r)' => InService(r) /\ ~Leaving(r)
    <3> TAKE r \in Seqs
    <3>1. Occurs(r, running') => Occurs(r, scheduled) \/ Occurs(r, running)
      BY ONLY <1>0, <2>1, OccursConcat
    <3> QED BY <2>1, <3>1 DEF InService, Leaving
  <2> QED BY <1>a, <1>b, <2>1, <2>2 DEF Served
<1>11. ASSUME NEW u \in Tokens, Sampled(u) PROVE Served'
  <2>1. PICK s \in Seqs : s = Head(scheduled) /\ Occurs(s, scheduled)
    BY <1>0, <1>11, HeadType, OccursHeadTail DEF Sampled, Inv, Nonempty
  <2>2. pc = "post" /\ scheduled # << >> /\ UNCHANGED <<waiting, running>>
    BY <1>11 DEF Sampled, Inv, Nonempty
  <2>3. status[s] = "RUNNING"
    BY <1>b, <2>1, <2>2 DEF InService, Leaving
  <2>4. CASE status' = [status EXCEPT ![s] = "FINISHED"] /\ pc' = "finish" /\ scheduled' = scheduled
    <3>1. status'[s] = "FINISHED" /\ \A r \in Seqs : r # s => status'[r] = status[r]
      BY <1>0, <2>4
    <3>2. \A r \in Seqs : InService(r)' => InService(r) /\ ~Leaving(r)
      BY <2>2, <2>4 DEF InService, Leaving
    <3>3. \A r \in Seqs : r = s => Leaving(r)'
      BY <2>1, <2>4 DEF Leaving
    <3>4. status'[Head(scheduled')] = "FINISHED"
      BY <2>1, <2>4, <3>1
    <3> QED BY <1>a, <1>b, <2>2, <2>3, <2>4, <3>1, <3>2, <3>3, <3>4 DEF Served
  <2>5. CASE status' = status /\ scheduled' = Tail(scheduled) /\ pc' = AfterPost(Tail(scheduled))
    <3>1. Distinct(scheduled')
      BY <1>0, <1>a, <2>2, <2>5, DistinctTail
    <3>2. \A r \in Seqs : InService(r)' => InService(r) /\ ~Leaving(r)
      BY <1>0, <2>2, <2>5, OccursHeadTail DEF InService, Leaving
    <3>3. pc' \in {"idle", "post"} /\ (pc' = "idle" => scheduled' = << >>)
      BY <2>5 DEF AfterPost
    <3> QED BY <1>b, <2>2, <2>5, <3>1, <3>2, <3>3 DEF Served
  <2> QED BY <1>11, <2>1, <2>4, <2>5 DEF Sampled
<1>12. CASE Finished
  <2>1. PICK s \in Seqs : s = Head(scheduled)
    BY <1>0, <1>12, HeadType DEF Finished, Inv, Nonempty
  <2>2. /\ pc = "finish" /\ scheduled # << >> /\ UNCHANGED <<waiting, status>>
        /\ running' = RemoveFirst(running, s) /\ scheduled' = Tail(scheduled)
        /\ pc' = AfterPost(Tail(scheduled))
    BY <1>12, <2>1 DEF Finished, Inv, Nonempty
  <2>3. Distinct(scheduled')
    BY <1>0, <1>a, <2>2, DistinctTail
  <2>4. \A r \in Seqs : InService(r)' => InService(r) /\ r # s
    <3> TAKE r \in Seqs
    <3>1. Occurs(r, running') => Occurs(r, running) /\ r # s
      BY ONLY <1>0, <2>2, RemoveFirstSorted
    <3>2. Occurs(r, scheduled') => Occurs(r, scheduled) /\ r # s
      BY ONLY <1>0, <1>a, <2>1, <2>2, OccursHeadTail, DistinctTail
    <3> QED BY <3>1, <3>2 DEF InService
  <2>5. \A r \in Seqs : Leaving(r) => r = s
    BY <2>1, <2>2 DEF Leaving
  <2>6. pc' \in {"idle", "post"} /\ (pc' = "idle" => scheduled' = << >>)
    BY <2>2 DEF AfterPost
  <2> QED BY <1>b, <2>2, <2>3, <2>4, <2>5, <2>6 DEF Served
<1> QED BY <1>2, <1>3, <1>4, <1>5, <1>6, <1>7, <1>8, <1>9, <1>10, <1>11, <1>12
        DEF SchedNext, Prefill, Decode, Postprocess, Terminated

-----------------------------------------------------------------------------
(* The blocks of a sequence                                                *)

LEMMA ProductMonotone ==
  ASSUME NEW d \in Nat \ {0}, NEW j \in Int, NEW k \in Int, j <= k
  PROVE  j * d <= k * d
<1>1. k * d < j * d => k * d + d <= j * d
  BY ONLY d \in Nat \ {0}, j \in Int, k \in Int, ProductGap
<1> QED BY <1>1, SMT

\* block i of a sequence is not empty, and is full when the sequence reaches its end
LEMMA BlockTokensLength ==
  ASSUME tokens \in [Seqs -> Seq(Tokens)], NEW s \in Seqs, NEW i \in 1 .. NumBlocksOf(s)
  PROVE  /\ Len(BlockTokens(s, i)) > 0
         /\ BlockEnd(s, i) \in 1 .. Length(s)
         /\ Len(BlockTokens(s, i)) = SeqBlockSize <=> i * SeqBlockSize <= Length(s)
<1>1. PICK n \in Nat, k \in Nat : n = Length(s) /\ n = Len(tokens[s]) /\ k = NumBlocksOf(s) /\ k = BlocksFor(n)
  BY NumBlocksOfNat DEF NumBlocksOf, Length
<1>2. PICK d \in Nat \ {0} : d = SeqBlockSize
  BY SizesAssumption
<1>3. k * d < n + d
  BY <1>1, <1>2, BlocksForBounds
<1>4. i \in Nat \ {0} /\ i <= k
  BY <1>1
<1>5. i * d <= k * d
  <2>1. i \in Int /\ k \in Int /\ i <= k
    BY <1>4
  <2> QED BY ONLY <2>1, d \in Nat \ {0}, ProductMonotone
<1>6. PICK p \in Int : p = i * d
  BY <1>2, <1>4
<1>7. p < n + d /\ (i - 1) * d = p - d /\ p - d \in Nat
  <2>1. k * d \in Int /\ i * d \in Int /\ (i - 1) * d = i * d - d /\ (i - 1) * d \in Nat
    BY <1>4, d \in Nat \ {0}
  <2> QED BY ONLY <1>3, <1>5, <1>6, <2>1, n \in Nat, d \in Nat \ {0}
<1>8. PICK e \in Int : e = BlockEnd(s, i) /\ e <= n /\ e <= p /\ (e = p \/ e = n)
  <2>1. BlockEnd(s, i) = Min({p, n})
    BY <1>1, <1>2, <1>6 DEF BlockEnd
  <2>2. n \in Int
    OBVIOUS
  <2>3. Min({p, n}) \in {p, n} /\ Min({p, n}) <= p /\ Min({p, n}) <= n
    BY ONLY p \in Int, <2>2, MinOfTwo
  <2>4. Min({p, n}) \in Int
    BY ONLY p \in Int, <2>2, <2>3
  <2> QED BY ONLY <2>1, <2>3, <2>4
<1>9. PICK m \in Nat : m = p - d
  BY <1>7
<1>10. m < e /\ e \in 1 .. n
  BY ONLY <1>7, <1>8, <1>9, n \in Nat, p \in Int, d \in Nat \ {0}
<1>11. Len(SubSeq(tokens[s], m + 1, e)) = e - m
  BY <1>1, <1>10, SubSeqProperties
<1>12. BlockTokens(s, i) = SubSeq(tokens[s], m + 1, e)
  BY <1>2, <1>7, <1>8, <1>9 DEF BlockTokens
<1>13. e - m = d <=> p <= n
  BY ONLY <1>7, <1>8, <1>9, n \in Nat, p \in Int, d \in Nat \ {0}
<1> QED BY <1>1, <1>2, <1>6, <1>8, <1>10, <1>11, <1>12, <1>13

LEMMA PrefixHashFull ==
  ASSUME tokens \in [Seqs -> Seq(Tokens)], NEW s \in Seqs, NEW i \in 1 .. NumBlocksOf(s)
  PROVE  PrefixHash(s, i) # NoHash <=> Len(BlockTokens(s, i)) = BlockSize
<1>1. BlockEnd(s, i) \in 1 .. Len(tokens[s])
  BY BlockTokensLength DEF Length
<1>2. Len(SubSeq(tokens[s], 1, BlockEnd(s, i))) = BlockEnd(s, i)
  BY <1>1, SubSeqProperties
<1>3. SubSeq(tokens[s], 1, BlockEnd(s, i)) # << >>
  BY ONLY <1>1, <1>2
<1> QED BY <1>3 DEF PrefixHash, NoHash

\* What -1 and an empty token list say of a block, and who may hold one.
Keyed == NoHash \notin DOMAIN index /\ \A b \in Blocks : hash[b] = NoHash => toks[b] = << >>

Alone == \A r, s \in Seqs : \A i \in 1 .. Len(table[r]), j \in 1 .. Len(table[s]) :
           table[r][i] = table[s][j] /\ hash[table[r][i]] = NoHash => r = s /\ i = j

LEMMA PublishEffect ==
  ASSUME Published, NEW b \in Blocks, NEW h \in Seq(Tokens), NEW t \in Seq(Tokens),
         Publish(b, h, t)
  PROVE  /\ hash'[b] = h /\ \A c \in Blocks \ {b} : hash'[c] = hash[c]
         /\ Keyed => Keyed'
<1>1. CASE h # NoHash
  <2>1. /\ hash' = [hash EXCEPT ![b] = h] /\ toks' = [toks EXCEPT ![b] = t]
        /\ DOMAIN index' = DOMAIN index \cup {h}
    BY <1>1 DEF Publish
  <2>2. hash'[b] = h /\ \A c \in Blocks \ {b} : hash'[c] = hash[c] /\ toks'[c] = toks[c]
    BY <2>1 DEF Published
  <2> QED BY ONLY <1>1, <2>1, <2>2 DEF Keyed
<1>2. CASE h = NoHash
  <2>1. /\ hash' = [hash EXCEPT ![b] = NoHash] /\ toks' = [toks EXCEPT ![b] = << >>]
        /\ index' = index
    BY <1>2 DEF Publish
  <2>2. hash'[b] = NoHash /\ \A c \in Blocks \ {b} : hash'[c] = hash[c] /\ toks'[c] = toks[c]
    BY <2>1 DEF Published
  <2>3. toks'[b] = << >>
    BY <2>1 DEF Published
  <2> QED BY ONLY <1>2, <2>1, <2>2, <2>3 DEF Keyed
<1> QED BY <1>1, <1>2

\* a block in a table is in use
LEMMA HeldUsed ==
  ASSUME Accounted, NEW s \in Seqs, NEW i \in 1 .. Len(table[s])
  PROVE  table[s][i] \in Blocks /\ table[s][i] \in used
<1>1. PICK b \in Blocks : b = table[s][i]
  BY DEF Accounted
<1>2. <<s, i>> \in Holders(table, b)
  <2>1. i \in DOMAIN table[s]
    BY DEF Accounted
  <2> QED BY <1>1, <2>1, HoldersMember
<1>3. ref[b] > 0
  <2>1. IsFiniteSet(Holders(table, b)) /\ ref[b] = Cardinality(Holders(table, b))
    BY DEF Accounted, Counted
  <2> QED BY <1>2, <2>1, FS_EmptySet, FS_CardinalityType
<1> QED BY <1>1, <1>3 DEF Accounted, Partitioned

LEMMA AppendLast ==
  ASSUME NEW S, NEW q \in Seq(S), NEW e \in S
  PROVE  Len(Append(q, e)) = Len(q) + 1 /\ Last(Append(q, e)) = e
BY DEF Last

LEMMA AloneAppend ==
  ASSUME Accounted, Alone, NEW s \in Seqs, NEW b \in Blocks,
         table' = [table EXCEPT ![s] = Append(@, b)],
         \A c \in Blocks \ {b} : hash'[c] = hash[c],
         b \notin used \/ hash'[b] # NoHash
  PROVE  Alone'
<1>1. PICK n \in Nat : n = Len(table[s])
  BY DEF Accounted
<1>2. /\ Len(table'[s]) = n + 1 /\ table'[s][n + 1] = b
      /\ \A i \in 1 .. n : table'[s][i] = table[s][i]
      /\ \A r \in Seqs \ {s} : table'[r] = table[r]
  BY <1>1 DEF Accounted
<1>3. ASSUME NEW r \in Seqs, NEW i \in 1 .. Len(table'[r])
      PROVE  \/ i \in 1 .. Len(table[r]) /\ table'[r][i] = table[r][i]
             \/ r = s /\ i = n + 1 /\ table'[r][i] = b
  <2>1. CASE r = s
    <3>1. i \in 1 .. n \/ i = n + 1
      BY <1>2, <2>1
    <3> QED BY <1>1, <1>2, <2>1, <3>1
  <2>2. CASE r # s
    BY <1>2, <2>2
  <2> QED BY <2>1, <2>2
<1>4. ASSUME NEW q \in Seqs, NEW r \in Seqs,
             NEW i \in 1 .. Len(table'[q]), NEW j \in 1 .. Len(table'[r]),
             table'[q][i] = table'[r][j], hash'[table'[q][i]] = NoHash
      PROVE  q = r /\ i = j
  <2>1. CASE table'[q][i] = b
    <3>1. b \notin used
      BY <1>4, <2>1
    <3>2. q = s /\ i = n + 1
      BY <1>3, <2>1, <3>1, HeldUsed
    <3>3. r = s /\ j = n + 1
      BY <1>3, <1>4, <2>1, <3>1, HeldUsed
    <3> QED BY <3>2, <3>3
  <2>2. CASE table'[q][i] # b
    <3>1. i \in 1 .. Len(table[q]) /\ table'[q][i] = table[q][i]
      BY <1>3, <2>2
    <3>2. j \in 1 .. Len(table[r]) /\ table'[r][j] = table[r][j]
      BY <1>3, <1>4, <2>2
    <3>3. table[q][i] \in Blocks \ {b}
      BY <2>2, <3>1, HeldUsed
    <3> QED BY <1>4, <3>1, <3>2, <3>3 DEF Alone
  <2> QED BY <2>1, <2>2
<1> QED BY ONLY <1>4 DEF Alone

LEMMA AloneHash ==
  ASSUME Accounted, Alone, table' = table,
         \A c \in Blocks : hash'[c] = NoHash => hash[c] = NoHash
  PROVE  Alone'
<1>1. SUFFICES ASSUME NEW q \in Seqs, NEW r \in Seqs,
                      NEW i \in 1 .. Len(table[q]), NEW j \in 1 .. Len(table[r]),
                      table[q][i] = table[r][j], hash'[table[q][i]] = NoHash
               PROVE  q = r /\ i = j
  BY DEF Alone
<1>2. table[q][i] \in Blocks
  BY HeldUsed
<1> QED BY <1>1, <1>2 DEF Alone

LEMMA AloneDrop ==
  ASSUME Accounted, Alone, NEW s \in Seqs, table[s] # << >>,
         table' = [table EXCEPT ![s] = Front(@)], hash' = hash
  PROVE  Alone'
<1>1. table[s] \in Seq(Blocks)
  BY DEF Accounted
<1>2. Len(Front(table[s])) = Len(table[s]) - 1
      /\ \A i \in 1 .. Len(table[s]) - 1 : Front(table[s])[i] = table[s][i]
  BY <1>1, FrontProperties
<1>3. table'[s] = Front(table[s]) /\ \A r \in Seqs \ {s} : table'[r] = table[r]
  BY DEF Accounted
<1>4. ASSUME NEW r \in Seqs, NEW i \in 1 .. Len(table'[r])
      PROVE  i \in 1 .. Len(table[r]) /\ table'[r][i] = table[r][i]
  <2>1. CASE r = s
    <3>1. Len(table[s]) \in Nat
      BY <1>1
    <3>2. i \in 1 .. Len(table[s]) - 1
      BY <1>2, <1>3, <2>1
    <3>3. i \in 1 .. Len(table[s])
      BY ONLY <3>1, <3>2
    <3> QED BY <1>2, <1>3, <2>1, <3>2, <3>3
  <2>2. CASE r # s
    BY <1>3, <2>2
  <2> QED BY <2>1, <2>2
<1>5. SUFFICES ASSUME NEW q \in Seqs, NEW r \in Seqs,
                      NEW i \in 1 .. Len(table'[q]), NEW j \in 1 .. Len(table'[r]),
                      table'[q][i] = table'[r][j], hash'[table'[q][i]] = NoHash
               PROVE  q = r /\ i = j
  BY DEF Alone
<1>6. i \in 1 .. Len(table[q]) /\ table'[q][i] = table[q][i]
  BY <1>4
<1>7. j \in 1 .. Len(table[r]) /\ table'[r][j] = table[r][j]
  BY <1>4
<1> QED BY <1>5, <1>6, <1>7 DEF Alone

\* What an iteration of allocate does to the head of waiting.
AllocShape(s, i, b) ==
  /\ pc = "alloc" /\ s = Head(waiting) /\ Occurs(s, waiting)
  /\ i = Len(table[s]) + 1 /\ i \in 1 .. NumBlocksOf(s)
  /\ Publish(b, PrefixHash(s, i), BlockTokens(s, i))
  /\ table' = [table EXCEPT ![s] = Append(@, b)]
  /\ b \notin used \/ (hash[b] # NoHash /\ PrefixHash(s, i) # NoHash)
  /\ UNCHANGED <<tokens, waiting, running, scheduled, status, pc>>

\* How a block comes into a table: fresh after a miss, else the published block
\* that has the tokens of this one.
Looked(s, i, b) ==
  \/ /\ miss' /\ b \notin used /\ cached' = cached
  \/ /\ ~miss /\ ~miss' /\ toks[b] = BlockTokens(s, i) /\ hash[b] # NoHash
     /\ PrefixHash(s, i) # NoHash /\ cached' = [cached EXCEPT ![s] = @ + BlockSize]

LEMMA AllocBlockLookup ==
  ASSUME Inv, Keyed, AllocBlock
  PROVE  \E s \in Seqs, i \in Nat \ {0}, b \in Blocks : AllocShape(s, i, b) /\ Looked(s, i, b)
<1>0. /\ Accounted /\ Published /\ waiting \in Seq(Seqs) /\ tokens \in [Seqs -> Seq(Tokens)]
      /\ miss \in BOOLEAN
  BY InvAccounted DEF Inv, TypeOK
<1>1. PICK s \in Seqs : s = Head(waiting) /\ Occurs(s, waiting) /\ pc = "alloc"
  BY <1>0, HeadType, OccursHeadTail DEF Inv, Nonempty, AllocBlock
<1>2. PICK i \in Nat \ {0} : i = Len(table[s]) + 1
  BY <1>0 DEF Accounted
<1>3. i \in 1 .. NumBlocksOf(s) /\ Len(free) >= NumBlocksOf(s) - Len(table[s]) /\ NumBlocksOf(s) \in Nat
  BY <1>0, <1>1, <1>2, NumBlocksOfNat DEF AllocBlock, Inv, Funded
<1>4. UNCHANGED <<tokens, waiting, running, scheduled, status, pc>>
  BY DEF AllocBlock, queueVars
<1>5. CASE miss'
  <2>1. AllocateMiss(s)
    BY <1>1, <1>5 DEF AllocBlock
  <2>2. free \in Seq(Blocks) /\ Len(free) > 0
    BY <1>0, <1>2, <1>3 DEF Accounted
  <2>3. PICK b \in Blocks : b = free[1]
    BY <2>2
  <2>4. /\ Publish(b, PrefixHash(s, i), BlockTokens(s, i))
        /\ table' = [table EXCEPT ![s] = Append(@, b)] /\ cached' = cached
    BY <1>2, <2>1, <2>3 DEF AllocateMiss
  <2>5. b \notin used
    BY <1>0, <2>2, <2>3 DEF Accounted, Partitioned
  <2> QED BY <1>1, <1>2, <1>3, <1>4, <1>5, <2>4, <2>5 DEF AllocShape, Looked
<1>6. CASE ~miss'
  <2>1. /\ AllocateHit(s) /\ ~miss
        /\ PrefixHash(s, i) \in DOMAIN index
        /\ toks[index[PrefixHash(s, i)]] = BlockTokens(s, i)
    BY <1>1, <1>2, <1>6 DEF AllocBlock, Hit
  <2>2. PICK b \in Blocks : b = index[PrefixHash(s, i)]
    BY <1>0, <2>1 DEF Published
  <2>3. /\ Publish(b, PrefixHash(s, i), BlockTokens(s, i))
        /\ table' = [table EXCEPT ![s] = Append(@, b)]
        /\ cached' = [cached EXCEPT ![s] = @ + BlockSize]
    BY <1>2, <2>1, <2>2 DEF AllocateHit
  <2>4. PrefixHash(s, i) # NoHash
    BY <2>1 DEF Keyed
  <2>5. toks[b] # << >>
    <3>1. Len(BlockTokens(s, i)) > 0
      BY <1>0, <1>3, BlockTokensLength
    <3> QED BY <2>1, <2>2, <3>1
  <2>6. hash[b] # NoHash
    BY <2>5 DEF Keyed
  <2>7. toks[b] = BlockTokens(s, i)
    BY <2>1, <2>2
  <2> QED BY <1>1, <1>2, <1>3, <1>4, <1>6, <2>1, <2>3, <2>4, <2>6, <2>7 DEF AllocShape, Looked
<1> QED BY <1>5, <1>6

LEMMA AllocBlockShape ==
  ASSUME Inv, Keyed, AllocBlock
  PROVE  \E s \in Seqs, i \in Nat \ {0}, b \in Blocks : AllocShape(s, i, b)
<1>1. PICK s \in Seqs, i \in Nat \ {0}, b \in Blocks : AllocShape(s, i, b) /\ Looked(s, i, b)
  BY AllocBlockLookup
<1> QED BY <1>1

\* What an iteration of decode does to the head of running.
AppendShape(s, b) ==
  /\ pc = "decode" /\ s = Head(running) /\ Occurs(s, running) /\ table[s] # << >>
  /\ \/ /\ NeedsBlock(s) /\ b \notin used /\ Publish(b, NoHash, << >>)
        /\ table' = [table EXCEPT ![s] = Append(@, b)]
     \/ /\ ~NeedsBlock(s) /\ FillsBlock(s) /\ b = LastBlock(s) /\ table' = table
        /\ \E h \in Seq(Tokens) \ {NoHash}, t \in Seq(Tokens) : Publish(b, h, t)
     \/ /\ ~NeedsBlock(s) /\ ~FillsBlock(s) /\ UNCHANGED <<table, hash, toks, index>>
  /\ scheduled' = Append(scheduled, s)
  /\ UNCHANGED <<tokens, waiting, status, pc>>

LEMMA DecodeAppendShape ==
  ASSUME Inv, DecodeAppend
  PROVE  \E s \in Seqs, b \in Blocks : AppendShape(s, b)
<1>0. /\ Accounted /\ Published /\ tokens \in [Seqs -> Seq(Tokens)]
      /\ running \in Seq(Seqs) /\ running # << >>
  BY InvAccounted DEF Inv, TypeOK, DecodeAppend, Decoding
<1>1. PICK s \in Seqs : s = Head(running) /\ Occurs(s, running)
  BY <1>0, HeadType, OccursHeadTail
<1>2. /\ MayAppend(s) /\ CanAppend(s) /\ pc = "decode"
      /\ scheduled' = Append(scheduled, s) /\ UNCHANGED <<tokens, waiting, status, pc>>
  BY <1>1 DEF DecodeAppend, Decoding
<1>3. table[s] # << >> /\ tokens[s] # << >>
  <2>1. Serving(s) /\ ~Leaving(s) /\ Queued(s)
    BY <1>1, <1>2 DEF Serving, Leaving, Queued
  <2> QED BY <2>1 DEF Inv, Rooted, Numbered
<1>4. CASE NeedsBlock(s)
  <2>1. free \in Seq(Blocks) /\ Len(free) > 0
    BY <1>0, <1>2, <1>4 DEF Accounted, CanAppend
  <2>2. PICK b \in Blocks : b = free[1]
    BY <2>1
  <2>3. Publish(b, NoHash, << >>) /\ table' = [table EXCEPT ![s] = Append(@, b)]
    BY <1>2, <1>4, <2>2 DEF MayAppend
  <2>4. b \notin used
    BY <1>0, <2>1, <2>2 DEF Accounted, Partitioned
  <2> QED BY <1>1, <1>2, <1>3, <1>4, <2>3, <2>4 DEF AppendShape
<1>5. CASE ~NeedsBlock(s) /\ FillsBlock(s)
  <2> DEFINE n == Len(table[s])
             t == BlockTokens(s, NumBlocksOf(s))
             prefix == IF n > 1 THEN hash[table[s][n - 1]] ELSE NoHash
  <2>1. Publish(LastBlock(s), prefix \o t, t) /\ table' = table
    BY <1>2, <1>5 DEF MayAppend
  <2>2. PICK b \in Blocks : b = LastBlock(s)
    BY <1>0, <1>3, FrontProperties DEF Accounted, LastBlock
  <2>3. NumBlocksOf(s) \in Nat \ {0}
    BY ONLY <1>0, <1>3, s \in Seqs, NumBlocksOfNat
  <2>4. t \in Seq(Tokens)
    BY ONLY <1>0, <2>3, s \in Seqs, BlockTokensType
  <2>5. Len(t) > 0
    <3>1. NumBlocksOf(s) \in 1 .. NumBlocksOf(s)
      BY ONLY <2>3
    <3> QED BY <1>0, <3>1, BlockTokensLength
  <2>6. prefix \in Seq(Tokens)
    <3>1. CASE n > 1
      <4>1. table[s][n - 1] \in Blocks
        BY <1>0, <3>1 DEF Accounted
      <4> QED BY <1>0, <3>1, <4>1 DEF Published
    <3>2. CASE ~(n > 1)
      BY <3>2 DEF NoHash
    <3> QED BY <3>1, <3>2
  <2> HIDE DEF t, prefix
  <2>7. prefix \o t \in Seq(Tokens) /\ Len(prefix \o t) = Len(prefix) + Len(t)
    BY ONLY <2>4, <2>6, ConcatProperties
  <2>8. prefix \o t # NoHash
    <3>1. Len(prefix) \in Nat /\ Len(t) \in Nat
      BY ONLY <2>4, <2>6
    <3>2. Len(prefix \o t) # 0
      BY ONLY <2>5, <2>7, <3>1
    <3> QED BY ONLY <3>2 DEF NoHash
  <2>9. PICK h \in Seq(Tokens) \ {NoHash} : h = prefix \o t
    BY ONLY <2>7, <2>8
  <2>10. Publish(b, h, t)
    BY ONLY <2>1, <2>2, <2>9
  <2> QED BY ONLY <1>1, <1>2, <1>3, <1>5, <2>1, <2>2, <2>4, <2>10 DEF AppendShape
<1>6. CASE ~NeedsBlock(s) /\ ~FillsBlock(s)
  <2>1. UNCHANGED <<table, hash, toks, index>>
    BY <1>2, <1>6 DEF MayAppend
  <2>2. LastBlock(s) \in Blocks
    BY <1>0, <1>3, FrontProperties DEF Accounted, LastBlock
  <2> QED BY <1>1, <1>2, <1>3, <1>6, <2>1, <2>2 DEF AppendShape
<1> QED BY <1>4, <1>5, <1>6

\* Only allocate, may_append and deallocate touch the tables and the hashes.
LEMMA Elsewhere ==
  ASSUME Inv, [SchedNext]_vars, ~AllocBlock, ~DecodeAppend
  PROVE  /\ UNCHANGED <<hash, toks, index>>
         /\ \/ table' = table
            \/ \E s \in Seqs : /\ table[s] # << >> /\ table' = [table EXCEPT ![s] = Front(@)]
                               /\ \/ PreemptBlock /\ s = Last(running)
                                  \/ FinishBlock /\ s = Head(scheduled)
<1>1. CASE UNCHANGED managerVars
  BY <1>1 DEF managerVars
<1>2. CASE PreemptBlock \/ FinishBlock
  <2>1. PICK s \in Seqs : /\ ~Freed(s) /\ DeallocateLast(s)
                          /\ \/ PreemptBlock /\ s = Last(running)
                             \/ FinishBlock /\ s = Head(scheduled)
    <3>1. /\ running \in Seq(Seqs) /\ scheduled \in Seq(Seqs)
          /\ pc = "preempt" => running # << >>
          /\ pc = "finish" => scheduled # << >>
      BY DEF Inv, TypeOK, Nonempty
    <3> QED BY <1>2, <3>1, HeadType, FrontProperties DEF PreemptBlock, FinishBlock
  <2> QED BY <2>1 DEF DeallocateLast, Freed
<1>3. CASE Preempted \/ Finished
  BY <1>3 DEF Preempted, Finished, blockVars
<1>4. CASE UNCHANGED vars
  BY <1>1, <1>4 DEF vars
<1>5. CASE Step \/ Admit \/ Admitted \/ PrefillDone \/ Preempt \/ DecodeDone \/ DecodeFails \/ Forward
  BY <1>1, <1>5 DEF Step, Admit, Admitted, PrefillDone, Preempt, DecodeDone, DecodeFails, Forward
<1>6. CASE \E s \in Seqs, p \in Prompts : AddRequest(s, p)
  BY <1>1, <1>6 DEF AddRequest
<1>7. CASE \E t \in Tokens : Sampled(t)
  BY <1>1, <1>7 DEF Sampled
<1> QED BY <1>2, <1>3, <1>4, <1>5, <1>6, <1>7
        DEF SchedNext, Prefill, Decode, Postprocess, Terminated

\* An open block, one without a hash, is never shared.
LEMMA AloneStep ==
  ASSUME Inv, Keyed, Alone, [SchedNext]_vars
  PROVE  Keyed' /\ Alone'
<1>0. Accounted /\ Published /\ tokens \in [Seqs -> Seq(Tokens)]
  BY InvAccounted DEF Inv, TypeOK
<1>1. CASE AllocBlock
  <2>1. PICK s \in Seqs, i \in Nat \ {0}, b \in Blocks : AllocShape(s, i, b)
    BY <1>1, AllocBlockShape
  <2>2. /\ Publish(b, PrefixHash(s, i), BlockTokens(s, i))
        /\ table' = [table EXCEPT ![s] = Append(@, b)]
        /\ b \notin used \/ PrefixHash(s, i) # NoHash
    BY <2>1 DEF AllocShape
  <2>3. BlockTokens(s, i) \in Seq(Tokens) /\ PrefixHash(s, i) \in Seq(Tokens)
    BY ONLY <1>0, s \in Seqs, i \in Nat \ {0}, BlockTokensType
  <2>4. /\ hash'[b] = PrefixHash(s, i) /\ \A c \in Blocks \ {b} : hash'[c] = hash[c]
        /\ Keyed'
    BY <1>0, <2>2, <2>3, PublishEffect
  <2> QED BY <1>0, <2>2, <2>4, AloneAppend
<1>2. CASE DecodeAppend
  <2>1. PICK s \in Seqs, b \in Blocks : AppendShape(s, b)
    BY <1>2, DecodeAppendShape
  <2>2. CASE NeedsBlock(s)
    <3>1. /\ Publish(b, NoHash, << >>) /\ b \notin used
          /\ table' = [table EXCEPT ![s] = Append(@, b)]
      BY <2>1, <2>2 DEF AppendShape
    <3>2. NoHash \in Seq(Tokens) /\ << >> \in Seq(Tokens)
      BY DEF NoHash
    <3>3. (\A c \in Blocks \ {b} : hash'[c] = hash[c]) /\ Keyed'
      BY <1>0, <3>1, <3>2, PublishEffect
    <3> QED BY <1>0, <3>1, <3>3, AloneAppend
  <2>3. CASE ~NeedsBlock(s) /\ FillsBlock(s)
    <3>1. table' = table
      BY <2>1, <2>3 DEF AppendShape
    <3>2. PICK h \in Seq(Tokens) \ {NoHash}, t \in Seq(Tokens) : Publish(b, h, t)
      BY <2>1, <2>3 DEF AppendShape
    <3>3. hash'[b] = h /\ (\A c \in Blocks \ {b} : hash'[c] = hash[c]) /\ Keyed'
      BY <1>0, <3>2, PublishEffect
    <3>4. \A c \in Blocks : hash'[c] = NoHash => hash[c] = NoHash
      BY ONLY <3>3, h \in Seq(Tokens) \ {NoHash}
    <3> QED BY <1>0, <3>1, <3>3, <3>4, AloneHash
  <2>4. CASE ~NeedsBlock(s) /\ ~FillsBlock(s)
    <3>1. UNCHANGED <<table, hash, toks, index>>
      BY <2>1, <2>4 DEF AppendShape
    <3> QED BY <3>1 DEF Keyed, Alone
  <2> QED BY <2>2, <2>3, <2>4
<1>3. CASE ~AllocBlock /\ ~DecodeAppend
  <2>1. UNCHANGED <<hash, toks, index>>
    BY <1>3, Elsewhere
  <2>2. Keyed'
    BY ONLY <2>1, Keyed DEF Keyed
  <2>3. CASE table' = table
    BY <2>1, <2>2, <2>3 DEF Alone
  <2>4. CASE \E s \in Seqs : table[s] # << >> /\ table' = [table EXCEPT ![s] = Front(@)]
    BY <1>0, <2>1, <2>2, <2>4, AloneDrop
  <2> QED BY <1>3, <2>3, <2>4, Elsewhere
<1> QED BY <1>1, <1>2, <1>3

-----------------------------------------------------------------------------
(* A table has the blocks its sequence needs                               *)

\* The tokens of s that have their room in its table: the batch has made room
\* for every token, and what waits for a decode lacks that of the last one.
Due(s) == IF Occurs(s, scheduled) THEN Length(s) ELSE Length(s) - 1

\* the last block of s has a hash if it is full
Closed(s, n) == hash[LastBlock(s)] # NoHash <=> Len(table[s]) * BlockSize <= n

Fits(s) == /\ Due(s) \in Nat \ {0} /\ Len(table[s]) = BlocksFor(Due(s))
           /\ Closed(s, Due(s))

Fitting == \A s \in Seqs : status[s] = "RUNNING" => Fits(s)

Filling == \A s \in Seqs : pc = "alloc" /\ s = Head(waiting) /\ table[s] # << >>
                             => Closed(s, Length(s))

Tidy == NoLeak /\ Served /\ Keyed /\ Alone

LEMMA FitsKept ==
  ASSUME NEW s \in Seqs, Fits(s), Due(s)' = Due(s), table'[s] = table[s],
         hash'[LastBlock(s)] = hash[LastBlock(s)]
  PROVE  Fits(s)'
BY DEF Fits, Closed, LastBlock

LEMMA LastHeld ==
  ASSUME Accounted, NEW s \in Seqs, table[s] # << >>
  PROVE  /\ LastBlock(s) = table[s][Len(table[s])] /\ Len(table[s]) \in 1 .. Len(table[s])
         /\ LastBlock(s) \in Blocks /\ LastBlock(s) \in used
<1>1. Len(table[s]) \in 1 .. Len(table[s])
  BY DEF Accounted
<1>2. LastBlock(s) = table[s][Len(table[s])]
  BY DEF LastBlock, Last
<1>3. table[s][Len(table[s])] \in Blocks /\ table[s][Len(table[s])] \in used
  BY ONLY <1>1, Accounted, s \in Seqs, HeldUsed
<1> QED BY <1>1, <1>2, <1>3

LEMMA FitsTable ==
  ASSUME Accounted, NEW s \in Seqs, Fits(s)
  PROVE  table[s] # << >>
<1>1. Len(table[s]) > 0
  BY BlocksForNat DEF Fits
<1> QED BY <1>1

\* The steps that neither give a block nor take a token's room.
LEMMA FittingElsewhere ==
  ASSUME Inv, Tidy, Fitting, [SchedNext]_vars, ~AllocBlock, ~DecodeAppend,
         NEW s \in Seqs, status[s] = "RUNNING", Due(s)' = Due(s)
  PROVE  Fits(s)'
<1>1. UNCHANGED <<hash, toks, index>>
  BY Elsewhere
<1>2. table \in [Seqs -> Seq(Blocks)]
  BY DEF Inv, TypeOK
<1>3. table'[s] = table[s]
  <2>1. CASE table' = table
    BY <2>1
  <2>2. CASE \E q \in Seqs : /\ table' = [table EXCEPT ![q] = Front(@)]
                            /\ \/ PreemptBlock /\ q = Last(running)
                               \/ FinishBlock /\ q = Head(scheduled)
    <3>1. PICK q \in Seqs : /\ table' = [table EXCEPT ![q] = Front(@)]
                            /\ \/ PreemptBlock /\ q = Last(running)
                               \/ FinishBlock /\ q = Head(scheduled)
      BY <2>2
    <3>2. status[q] = "WAITING" \/ status[q] = "FINISHED"
      BY <3>1 DEF Tidy, Served, PreemptBlock, FinishBlock
    <3>3. q # s
      BY <3>2
    <3> QED BY <1>2, <3>1, <3>3
  <2>3. \/ table' = table
        \/ \E q \in Seqs : /\ table' = [table EXCEPT ![q] = Front(@)]
                           /\ \/ PreemptBlock /\ q = Last(running)
                              \/ FinishBlock /\ q = Head(scheduled)
    BY Elsewhere
  <2> QED BY ONLY <2>1, <2>2, <2>3
<1>4. Fits(s)
  BY DEF Fitting
<1>5. hash'[LastBlock(s)] = hash[LastBlock(s)]
  BY <1>1
<1> QED BY <1>3, <1>4, <1>5, FitsKept

LEMMA DueStep ==
  ASSUME Inv, Tidy, [SchedNext]_vars, ~AllocBlock, ~DecodeAppend, ~Admitted,
         NEW s \in Seqs, status'[s] = "RUNNING"
  PROVE  status[s] = "RUNNING" /\ Due(s)' = Due(s)
<1>0. /\ status \in [Seqs -> Statuses] /\ tokens \in [Seqs -> Seq(Tokens)]
      /\ scheduled \in Seq(Seqs) /\ Distinct(scheduled)
      /\ pc = "idle" => scheduled = << >>
      /\ pc = "finish" => status[Head(scheduled)] = "FINISHED"
  BY DEF Inv, TypeOK, Tidy, Served
<1>1. ASSUME status'[s] = status[s] \/ status'[s] # "RUNNING",
             tokens'[s] = tokens[s], Occurs(s, scheduled') <=> Occurs(s, scheduled)
      PROVE  status[s] = "RUNNING" /\ Due(s)' = Due(s)
  BY <1>1 DEF Due, Length
<1>2. CASE \/ Admit \/ PrefillDone \/ PreemptBlock \/ Preempted \/ DecodeDone \/ DecodeFails
           \/ Forward \/ FinishBlock \/ UNCHANGED vars
  <2>1. UNCHANGED <<status, tokens, scheduled>>
    BY <1>2 DEF Admit, PrefillDone, PreemptBlock, Preempted, DecodeDone, DecodeFails, Forward,
                FinishBlock, vars, queueVars
  <2> QED BY <1>1, <2>1
<1>3. CASE Preempt
  <2>1. /\ status' = [status EXCEPT ![Last(running)] = "WAITING"] /\ UNCHANGED <<tokens, scheduled>>
    BY <1>3 DEF Preempt, queueVars
  <2>2. status'[s] = status[s] \/ status'[s] = "WAITING"
    BY <1>0, <2>1
  <2> QED BY <1>1, <2>1, <2>2
<1>4. CASE \E q \in Seqs, p \in Prompts : AddRequest(q, p)
  <2>1. PICK q \in Seqs, p \in Prompts : AddRequest(q, p)
    BY <1>4
  <2>2. /\ status' = [status EXCEPT ![q] = "WAITING"] /\ tokens' = [tokens EXCEPT ![q] = p]
        /\ UNCHANGED scheduled
    BY <2>1 DEF AddRequest
  <2>3. status'[q] = "WAITING"
    BY <1>0, <2>2
  <2>4. s # q
    BY <2>3
  <2>5. status'[s] = status[s] /\ tokens'[s] = tokens[s]
    BY <1>0, <2>2, <2>4
  <2> QED BY <1>1, <2>2, <2>5
<1>5. CASE Step
  <2>1. scheduled = << >> /\ scheduled' = << >> /\ UNCHANGED <<status, tokens>>
    BY <1>0, <1>5 DEF Step
  <2> QED BY <1>1, <2>1
<1>6. CASE Finished
  <2>1. /\ scheduled # << >> /\ scheduled' = Tail(scheduled) /\ UNCHANGED <<status, tokens>>
        /\ status[Head(scheduled)] = "FINISHED"
    BY <1>0, <1>6 DEF Finished, Inv, Nonempty
  <2>2. s # Head(scheduled)
    BY <2>1
  <2>3. Occurs(s, scheduled') <=> Occurs(s, scheduled)
    BY ONLY <1>0, <2>1, <2>2, TailKeeps, OccursHeadTail
  <2> QED BY <1>1, <2>1, <2>3
<1>7. CASE \E t \in Tokens : Sampled(t)
  <2>1. PICK t \in Tokens : Sampled(t)
    BY <1>7
  <2>2. PICK q \in Seqs : q = Head(scheduled) /\ scheduled # << >>
    BY <1>0, <2>1, HeadType DEF Sampled, Inv, Nonempty
  <2>3. /\ tokens' = [tokens EXCEPT ![q] = Append(@, t)]
        /\ \/ /\ status' = [status EXCEPT ![q] = "FINISHED"] /\ UNCHANGED scheduled
           \/ /\ scheduled' = Tail(scheduled) /\ UNCHANGED status
    BY <2>1, <2>2 DEF Sampled
  <2>4. CASE s # q
    <3>1. tokens'[s] = tokens[s] /\ status'[s] = status[s]
      BY <1>0, <2>3, <2>4
    <3>2. CASE scheduled' = scheduled
      BY <1>1, <3>1, <3>2
    <3>3. CASE scheduled' = Tail(scheduled)
      <4>1. Occurs(s, scheduled') <=> Occurs(s, scheduled)
        BY ONLY <1>0, <2>2, <2>4, <3>3, TailKeeps, OccursHeadTail
      <4> QED BY <1>1, <3>1, <4>1
    <3> QED BY <2>3, <3>2, <3>3
  <2>5. CASE s = q
    <3>1. scheduled' = Tail(scheduled) /\ UNCHANGED status
      BY <1>0, <2>3, <2>5
    <3>2. Occurs(s, scheduled) /\ ~Occurs(s, scheduled')
      BY ONLY <1>0, <2>2, <2>5, <3>1, DistinctTail, OccursHeadTail
    <3>3. Len(tokens'[s]) = Len(tokens[s]) + 1 /\ Len(tokens[s]) \in Nat
      BY <1>0, <2>3, <2>5
    <3> QED BY <3>1, <3>2, <3>3 DEF Due, Length
  <2> QED BY <2>4, <2>5
<1> QED BY <1>2, <1>3, <1>4, <1>5, <1>6, <1>7
        DEF SchedNext, Prefill, Decode, Postprocess, Terminated

LEMMA FittingStep ==
  ASSUME SameSizes, Inv, Tidy, Fitting, Filling, [SchedNext]_vars
  PROVE  Fitting' /\ Filling'
<1>0. /\ Accounted /\ Published /\ status \in [Seqs -> Statuses]
      /\ tokens \in [Seqs -> Seq(Tokens)] /\ waiting \in Seq(Seqs)
      /\ running \in Seq(Seqs) /\ scheduled \in Seq(Seqs)
  BY InvAccounted DEF Inv, TypeOK
<1>t. table \in [Seqs -> Seq(Blocks)]
  BY DEF Inv, TypeOK
<1>1. CASE AllocBlock
  <2>1. PICK s \in Seqs, i \in Nat \ {0}, b \in Blocks : AllocShape(s, i, b)
    BY <1>1, AllocBlockShape DEF Tidy
  <2>2. /\ Publish(b, PrefixHash(s, i), BlockTokens(s, i))
        /\ table' = [table EXCEPT ![s] = Append(@, b)]
        /\ i = Len(table[s]) + 1 /\ i \in 1 .. NumBlocksOf(s)
        /\ s = Head(waiting) /\ Occurs(s, waiting)
        /\ b \notin used \/ (hash[b] # NoHash /\ PrefixHash(s, i) # NoHash)
        /\ UNCHANGED <<tokens, waiting, scheduled, status, pc>>
    BY <2>1 DEF AllocShape
  <2>3. BlockTokens(s, i) \in Seq(Tokens) /\ PrefixHash(s, i) \in Seq(Tokens)
    BY ONLY <1>0, s \in Seqs, i \in Nat \ {0}, BlockTokensType
  <2>4. hash'[b] = PrefixHash(s, i) /\ \A c \in Blocks \ {b} : hash'[c] = hash[c]
    BY <1>0, <2>2, <2>3, PublishEffect
  <2>5. status[s] = "WAITING"
    BY <2>2 DEF Tidy, Served
  <2>6. ASSUME NEW r \in Seqs, status'[r] = "RUNNING" PROVE Fits(r)'
    <3>1. Fits(r) /\ r # s
      BY <2>2, <2>5, <2>6 DEF Fitting
    <3>2. table'[r] = table[r]
      BY <1>t, <2>2, <3>1
    <3>3. Due(r)' = Due(r)
      BY <2>2 DEF Due, Length
    <3>4. LastBlock(r) \in Blocks /\ LastBlock(r) \in used
      BY <1>0, <3>1, FitsTable, LastHeld
    <3>5. hash'[LastBlock(r)] # NoHash <=> hash[LastBlock(r)] # NoHash
      BY <2>2, <2>4, <3>4
    <3>6. LastBlock(r)' = LastBlock(r)
      BY <3>2 DEF LastBlock
    <3>7. Closed(r, Due(r))
      BY <3>1 DEF Fits
    <3>8. Closed(r, Due(r))'
      BY <3>2, <3>3, <3>5, <3>6, <3>7 DEF Closed
    <3> QED BY <3>1, <3>2, <3>3, <3>8 DEF Fits
  <2>7. Closed(s, Length(s))'
    <3>1. Len(table'[s]) = i /\ LastBlock(s)' = b
      BY <1>t, <2>2 DEF LastBlock, Last
    <3>2. hash'[b] # NoHash <=> i * BlockSize <= Length(s)
      BY <1>0, <2>2, <2>4, BlockTokensLength, PrefixHashFull DEF SameSizes
    <3>3. Length(s)' = Length(s)
      BY <2>2 DEF Length
    <3> QED BY <3>1, <3>2, <3>3 DEF Closed
  <2>8. Filling'
    BY <2>2, <2>7 DEF Filling
  <2> QED BY <2>6, <2>8 DEF Fitting
<1>2. CASE DecodeAppend
  <2>1. PICK s \in Seqs, b \in Blocks : AppendShape(s, b)
    BY <1>2, DecodeAppendShape
  <2>2. /\ pc = "decode" /\ pc' = "decode" /\ Occurs(s, running)
        /\ scheduled' = Append(scheduled, s) /\ UNCHANGED <<tokens, status>>
    BY <2>1 DEF AppendShape
  <2>3. Fits(s) /\ ~Occurs(s, scheduled)
    <3>1. status[s] = "RUNNING"
      BY <2>2 DEF Tidy, Served, InService, Leaving
    <3>2. \A j \in 1 .. Len(scheduled), k \in 1 .. Len(running) : scheduled[j] < running[k]
      BY <2>2, LineSorted
    <3>3. s \in Int
      BY SizesAssumption
    <3>4. ~Occurs(s, scheduled)
      BY ONLY <2>2, <3>2, <3>3 DEF Occurs
    <3> QED BY <3>1, <3>4 DEF Fitting
  <2>4. PICK n \in Nat \ {0} : n = Length(s) /\ Due(s) = n - 1 /\ n - 1 \in Nat \ {0}
    <3>1. Length(s) \in Nat
      BY <1>0 DEF Length
    <3>2. Due(s) = Length(s) - 1 /\ Due(s) \in Nat \ {0}
      BY <2>3 DEF Fits, Due
    <3>3. Length(s) \in Nat \ {0}
      BY ONLY <3>1, <3>2
    <3> QED BY ONLY <3>2, <3>3
  <2>5. PICK m \in Nat : /\ m = Len(table[s]) /\ m = BlocksFor(n - 1)
                         /\ hash[LastBlock(s)] # NoHash <=> m * BlockSize <= n - 1
    <3>1. Len(table[s]) \in Nat
      BY <1>t
    <3> QED BY <2>3, <2>4, <3>1 DEF Fits, Closed
  <2>6. /\ n % BlockSize = 1 <=> BlocksFor(n - 1) * BlockSize <= n - 1
        /\ n % BlockSize = 1 => BlocksFor(n) = BlocksFor(n - 1) + 1
        /\ n % BlockSize # 1 => BlocksFor(n) = BlocksFor(n - 1)
        /\ n % BlockSize = 0 <=> BlocksFor(n) * BlockSize <= n
    BY BlocksForNext
  <2>7. hash[LastBlock(s)] # NoHash <=> NeedsBlock(s)
    BY <2>4, <2>5, <2>6 DEF NeedsBlock
  <2>8. Due(s)' = n
    <3>1. Occurs(s, scheduled')
      BY ONLY <1>0, <2>2, s \in Seqs, OccursAppend
    <3> QED BY <2>2, <2>4, <3>1 DEF Due, Length
  <2>9. ASSUME NEW r \in Seqs, r # s, status'[r] = "RUNNING",
               table'[r] = table[r], hash'[LastBlock(r)] = hash[LastBlock(r)]
        PROVE  Fits(r)'
    <3>1. Fits(r)
      BY <2>2, <2>9 DEF Fitting
    <3>2. Occurs(r, scheduled') <=> Occurs(r, scheduled)
      BY ONLY <1>0, <2>2, <2>9, s \in Seqs, OccursAppend
    <3>3. Due(r)' = Due(r)
      BY <2>2, <3>2 DEF Due, Length
    <3> QED BY <2>9, <3>1, <3>3, FitsKept
  <2>10. Filling'
    BY <2>2 DEF Filling
  <2>11. CASE NeedsBlock(s)
    <3>1. /\ Publish(b, NoHash, << >>) /\ b \notin used
          /\ table' = [table EXCEPT ![s] = Append(@, b)]
      BY <2>1, <2>11 DEF AppendShape
    <3>2. NoHash \in Seq(Tokens) /\ << >> \in Seq(Tokens)
      BY DEF NoHash
    <3>3. hash'[b] = NoHash /\ \A c \in Blocks \ {b} : hash'[c] = hash[c]
      BY <1>0, <3>1, <3>2, PublishEffect
    <3>4. ASSUME NEW r \in Seqs, r # s, status'[r] = "RUNNING" PROVE Fits(r)'
      <4>1. Fits(r)
        BY <2>2, <3>4 DEF Fitting
      <4>2. LastBlock(r) \in Blocks /\ LastBlock(r) \in used
        BY <1>0, <4>1, FitsTable, LastHeld
      <4>3. hash'[LastBlock(r)] = hash[LastBlock(r)]
        BY <3>1, <3>3, <4>2
      <4>4. table'[r] = table[r]
        BY <1>t, <3>1, <3>4
      <4> QED BY <2>9, <3>4, <4>3, <4>4
    <3>5. Fits(s)'
      <4>1. Len(table'[s]) = m + 1 /\ LastBlock(s)' = b
        <5>1. table'[s] = Append(table[s], b) /\ table[s] \in Seq(Blocks)
          BY <1>t, <3>1
        <5>2. Len(table'[s]) = Len(table[s]) + 1 /\ Last(table'[s]) = b
          BY ONLY <5>1, b \in Blocks, AppendLast
        <5> QED BY ONLY <2>5, <5>2 DEF LastBlock
      <4>2. n % BlockSize = 1 /\ n % BlockSize # 0
        BY <2>4, <2>11 DEF NeedsBlock
      <4>3. BlocksFor(n) = m + 1 /\ ~(BlocksFor(n) * BlockSize <= n)
        BY ONLY <2>5, <2>6, <4>2
      <4>4. Closed(s, n)'
        BY <3>3, <4>1, <4>3 DEF Closed
      <4> QED BY <2>8, <4>1, <4>3, <4>4 DEF Fits
    <3> QED BY <2>10, <3>4, <3>5 DEF Fitting
  <2>12. CASE ~NeedsBlock(s)
    <3>1. /\ BlocksFor(n) = m /\ hash[LastBlock(s)] = NoHash /\ table' = table
          /\ FillsBlock(s) <=> m * BlockSize <= n
      <4>1. n % BlockSize # 1
        BY <2>4, <2>12 DEF NeedsBlock
      <4>2. FillsBlock(s) <=> n % BlockSize = 0
        BY <2>4 DEF FillsBlock
      <4>3. hash[LastBlock(s)] = NoHash /\ table' = table
        BY <2>1, <2>7, <2>12 DEF AppendShape
      <4>4. BlocksFor(n) = m
        BY ONLY <2>5, <2>6, <4>1
      <4>5. n % BlockSize = 0 <=> m * BlockSize <= n
        BY ONLY <2>6, <4>4
      <4> QED BY ONLY <4>2, <4>3, <4>4, <4>5
    <3>2. table[s] # << >>
      BY <1>0, <2>3, FitsTable
    <3>3. /\ hash'[LastBlock(s)] # NoHash <=> FillsBlock(s)
          /\ \A c \in Blocks : c # LastBlock(s) => hash'[c] = hash[c]
      <4>1. CASE FillsBlock(s)
        <5>1. b = LastBlock(s)
          BY <2>1, <2>12, <4>1 DEF AppendShape
        <5>2. PICK h \in Seq(Tokens) \ {NoHash}, t \in Seq(Tokens) : Publish(b, h, t)
          BY <2>1, <2>12, <4>1 DEF AppendShape
        <5>3. hash'[b] = h /\ \A c \in Blocks \ {b} : hash'[c] = hash[c]
          BY <1>0, <5>2, PublishEffect
        <5> QED BY ONLY <4>1, <5>1, <5>3, h \in Seq(Tokens) \ {NoHash}
      <4>2. CASE ~FillsBlock(s)
        <5>1. hash' = hash
          BY <2>1, <2>12, <4>2 DEF AppendShape
        <5> QED BY <3>1, <4>2, <5>1
      <4> QED BY <4>1, <4>2
    <3>4. ASSUME NEW r \in Seqs, r # s, status'[r] = "RUNNING" PROVE Fits(r)'
      <4>1. Fits(r)
        BY <2>2, <3>4 DEF Fitting
      <4>2. table[r] # << >>
        BY <1>0, <4>1, FitsTable
      <4>3. /\ LastBlock(r) = table[r][Len(table[r])] /\ Len(table[r]) \in 1 .. Len(table[r])
            /\ LastBlock(s) = table[s][Len(table[s])] /\ Len(table[s]) \in 1 .. Len(table[s])
            /\ LastBlock(r) \in Blocks
        BY <1>0, <3>2, <4>2, LastHeld
      <4>4. LastBlock(r) # LastBlock(s)
        BY <3>1, <3>4, <4>3 DEF Tidy, Alone
      <4> QED BY <2>9, <3>1, <3>3, <3>4, <4>3, <4>4
    <3>5. Fits(s)'
      <4>1. LastBlock(s)' = LastBlock(s) /\ Len(table'[s]) = m
        BY <2>5, <3>1 DEF LastBlock
      <4>2. Closed(s, n)'
        BY <3>1, <3>3, <4>1 DEF Closed
      <4> QED BY <2>8, <3>1, <4>1, <4>2 DEF Fits
    <3> QED BY <2>10, <3>4, <3>5 DEF Fitting
  <2> QED BY <2>11, <2>12
<1>3. CASE Admitted
  <2>1. PICK s \in Seqs : s = Head(waiting) /\ Occurs(s, waiting)
    BY <1>0, <1>3, HeadType, OccursHeadTail DEF Admitted, Inv, Nonempty
  <2>2. /\ pc = "alloc" /\ pc' = "admit" /\ Len(table[s]) = NumBlocksOf(s)
        /\ status' = [status EXCEPT ![s] = "RUNNING"] /\ scheduled' = Append(scheduled, s)
        /\ UNCHANGED <<tokens, table, hash>>
    BY <1>3, <2>1 DEF Admitted, managerVars
  <2>3. \A r \in Seqs : Occurs(r, scheduled') <=> Occurs(r, scheduled) \/ r = s
    BY ONLY <1>0, <2>2, s \in Seqs, OccursAppend
  <2>4. Fits(s)'
    <3>1. tokens[s] # << >>
      BY <2>1 DEF Inv, Numbered, Queued
    <3>2. Length(s) \in Nat \ {0} /\ NumBlocksOf(s) \in Nat \ {0}
      BY ONLY <1>0, <3>1, s \in Seqs, NumBlocksOfNat
    <3>3. table[s] # << >>
      BY <2>2, <3>2
    <3>4. Closed(s, Length(s))
      BY <2>1, <2>2, <3>3 DEF Filling
    <3>5. Due(s)' = Length(s)
      BY <2>2, <2>3 DEF Due, Length
    <3>6. Closed(s, Length(s))'
      BY <2>2, <3>4 DEF Closed, LastBlock, Length
    <3>7. Length(s)' = Length(s)
      BY <2>2 DEF Length
    <3> QED BY <2>2, <3>2, <3>5, <3>6, <3>7 DEF Fits, NumBlocksOf
  <2>5. ASSUME NEW r \in Seqs, r # s, status'[r] = "RUNNING" PROVE Fits(r)'
    <3>1. status[r] = "RUNNING"
      BY <1>0, <2>2, <2>5
    <3>2. Due(r)' = Due(r)
      BY <2>2, <2>3, <2>5 DEF Due, Length
    <3>3. ~DecodeAppend
      BY <2>2 DEF DecodeAppend, Decoding
    <3>4. ~AllocBlock
      BY <2>2 DEF AllocBlock
    <3> QED BY <3>1, <3>2, <3>3, <3>4, FittingElsewhere
  <2> QED BY <2>2, <2>4, <2>5 DEF Fitting, Filling
<1>4. CASE ~AllocBlock /\ ~DecodeAppend /\ ~Admitted
  <2>1. Fitting'
    <3> SUFFICES ASSUME NEW s \in Seqs, status'[s] = "RUNNING" PROVE Fits(s)'
      BY DEF Fitting
    <3>1. status[s] = "RUNNING" /\ Due(s)' = Due(s)
      BY <1>4, DueStep
    <3> QED BY <1>4, <3>1, FittingElsewhere
  <2>2. Filling'
    <3>1. CASE Admit
      <4>1. pc = "admit" /\ table' = table /\ waiting' = waiting /\ waiting # << >>
        BY <3>1 DEF Admit, Admissible, managerVars, queueVars
      <4>2. PICK s \in Seqs : s = Head(waiting) /\ Occurs(s, waiting)
        BY <1>0, <4>1, HeadType, OccursHeadTail
      <4>3. status[s] = "WAITING"
        BY <4>2 DEF Tidy, Served
      <4>4. table[s] = << >>
        BY <4>1, <4>3 DEF Tidy, NoLeak, Holding
      <4> QED BY <4>1, <4>2, <4>4 DEF Filling
    <3>2. CASE UNCHANGED vars
      BY <3>2 DEF vars, managerVars, queueVars, Filling, Closed, LastBlock, Length
    <3>3. CASE pc' # "alloc"
      BY <3>3 DEF Filling
    <3> QED BY <1>4, <3>1, <3>2, <3>3
            DEF SchedNext, Prefill, Decode, Postprocess, Terminated, AddRequest, Step,
                PrefillDone, Preempt, PreemptBlock, Preempted, DecodeDone, DecodeFails,
                Forward, Sampled, FinishBlock, Finished, AfterPost
  <2> QED BY <2>1, <2>2
<1> QED BY <1>1, <1>2, <1>3, <1>4

-----------------------------------------------------------------------------
(* The theorems                                                            *)

LEMMA TidyInit ==
  ASSUME SchedInit
  PROVE  Tidy /\ Fitting /\ Filling
<1>1. /\ \A s \in Seqs : table[s] = << >> /\ status[s] = "NONE"
      /\ running = << >> /\ scheduled = << >> /\ waiting = << >> /\ pc = "idle"
      /\ DOMAIN index = {} /\ toks = [b \in Blocks |-> << >>]
  BY DEF SchedInit, BlockInit
<1>2. \A c : ~Occurs(c, << >>)
  BY DEF Occurs
<1>3. Served
  BY <1>1, <1>2 DEF Served, InService, Distinct
<1>4. NoLeak /\ Keyed /\ Alone
  BY <1>1 DEF NoLeak, Keyed, Alone
<1>5. Fitting /\ Filling
  BY <1>1 DEF Fitting, Filling
<1> QED BY <1>3, <1>4, <1>5 DEF Tidy

LEMMA TidyStep ==
  ASSUME Inv, Tidy, [SchedNext]_vars
  PROVE  Tidy'
BY NoLeakStep, ServedStep, AloneStep DEF Tidy

LEMMA TidyInvariant == SchedSpec => [](Inv /\ Tidy)
<1>1. SchedInit => Inv /\ Tidy
  BY InitInv, TidyInit
<1>2. Inv /\ Tidy /\ [SchedNext]_vars => (Inv /\ Tidy)'
  BY InvStep, TidyStep
<1> QED BY <1>1, <1>2, PTL DEF SchedSpec

\* Whatever holds a block is running, or about to run or to lose it: no
\* preempted and no finished sequence keeps one, and allocate always starts
\* from an empty block table.
THEOREM BlocksReturned == SchedSpec => []NoLeak
<1>1. Tidy => NoLeak
  BY DEF Tidy
<1> QED BY <1>1, TidyInvariant, PTL

LEMMA FittingInvariant ==
  ASSUME SameSizes
  PROVE  SchedSpec => [](Inv /\ Tidy /\ Fitting /\ Filling)
<1>1. SchedInit => Inv /\ Tidy /\ Fitting /\ Filling
  BY InitInv, TidyInit
<1>2. Inv /\ Tidy /\ Fitting /\ Filling /\ [SchedNext]_vars => (Inv /\ Tidy /\ Fitting /\ Filling)'
  BY InvStep, TidyStep, FittingStep
<1> QED BY <1>1, <1>2, PTL DEF SchedSpec

\* may_append's three assertions hold whenever decode calls it, when the
\* manager and Sequence agree on a block size above one.
THEOREM AppendAsserted ==
  ASSUME SameSizes
  PROVE  SchedSpec => []AppendAsserts
<1>1. ASSUME Inv, Tidy, Fitting PROVE AppendAsserts
  <2> SUFFICES ASSUME Decoding PROVE AppendAssert(Head(running))
    BY DEF AppendAsserts
  <2>1. PICK s \in Seqs : s = Head(running) /\ Occurs(s, running)
    BY <1>1, HeadType, OccursHeadTail DEF Inv, TypeOK, Decoding
  <2>2. pc = "decode" /\ ~Occurs(s, scheduled)
    <3>1. pc = "decode"
      BY DEF Decoding
    <3>2. \A j \in 1 .. Len(scheduled), k \in 1 .. Len(running) : scheduled[j] < running[k]
      BY <1>1, <3>1, LineSorted
    <3>3. s \in Int
      BY SizesAssumption
    <3> QED BY ONLY <2>1, <3>1, <3>2, <3>3 DEF Occurs
  <2>3. Fits(s)
    BY <1>1, <2>1, <2>2 DEF Tidy, Served, InService, Leaving, Fitting
  <2>4. tokens \in [Seqs -> Seq(Tokens)]
    BY <1>1 DEF Inv, TypeOK
  <2>5. PICK n \in Nat \ {0} : n = Length(s) /\ Due(s) = n - 1 /\ n - 1 \in Nat \ {0}
    <3>1. Length(s) \in Nat
      BY <2>4 DEF Length
    <3>2. Due(s) = Length(s) - 1 /\ Due(s) \in Nat \ {0}
      BY <2>2, <2>3 DEF Fits, Due
    <3>3. Length(s) \in Nat \ {0}
      BY ONLY <3>1, <3>2
    <3> QED BY ONLY <3>2, <3>3
  <2>6. hash[LastBlock(s)] # NoHash <=> BlocksFor(n - 1) * BlockSize <= n - 1
    BY <2>3, <2>5 DEF Fits, Closed
  <2>7. n % BlockSize = 1 <=> BlocksFor(n - 1) * BlockSize <= n - 1
    BY BlocksForNext
  <2> QED BY <2>1, <2>5, <2>6, <2>7 DEF AppendAssert, NeedsBlock
<1>2. Inv /\ Tidy /\ Fitting /\ Filling => AppendAsserts
  BY <1>1
<1> QED BY <1>2, FittingInvariant, PTL

\* The forward pass finds a block for every token of every sequence of the
\* batch, when the manager and Sequence agree on a block size above one.
THEOREM BatchCovered ==
  ASSUME SameSizes
  PROVE  SchedSpec => []Covered
<1>1. ASSUME Inv, Tidy, Fitting PROVE Covered
  <2> SUFFICES ASSUME pc = "run", NEW k \in 1 .. Len(scheduled)
               PROVE  Len(table[scheduled[k]]) = NumBlocksOf(scheduled[k])
    BY DEF Covered
  <2>1. PICK s \in Seqs : s = scheduled[k]
    BY <1>1 DEF Inv, TypeOK
  <2>2. Occurs(s, scheduled)
    BY <2>1 DEF Occurs
  <2>3. Fits(s)
    BY <1>1, <2>2 DEF Tidy, Served, InService, Leaving, Fitting
  <2> QED BY <2>1, <2>2, <2>3 DEF Fits, Due, NumBlocksOf
<1>2. Inv /\ Tidy /\ Fitting /\ Filling => Covered
  BY <1>1
<1> QED BY <1>2, FittingInvariant, PTL

-----------------------------------------------------------------------------
(* The engine                                                              *)

\* Every behaviour of the engine is one of the scheduler.
THEOREM EngineImplementsScheduler == EngineSpec => SchedSpec
<1>1. EngineInit => SchedInit
  BY DEF EngineInit
<1>2. [EngineNext]_engineVars => [SchedNext]_vars
  <2> SUFFICES ASSUME [EngineNext]_engineVars PROVE [SchedNext]_vars
    OBVIOUS
  <2>1. CASE UNCHANGED engineVars
    BY <2>1 DEF engineVars
  <2>2. CASE EngineNext
    BY <2>2 DEF EngineNext, KeepsCache, Run, SchedNext, Prefill, Decode, Postprocess
  <2> QED BY <2>1, <2>2
<1> QED BY <1>1, <1>2, PTL DEF EngineSpec, SchedSpec

\* The block accounting, the return of blocks and the order of service hold of
\* the whole engine.
THEOREM EngineSafe == EngineSpec => [](RefCounted /\ Partitioned /\ ArrivalOrder /\ NoLeak)
BY EngineImplementsScheduler, ReferencesCounted, PoolPartitioned, FirstComeFirstServed,
   BlocksReturned, PTL

\* With equal block sizes the assertions of may_append never fail in the engine,
\* and the forward pass finds a block for each token of its batch.
THEOREM EngineCovered ==
  ASSUME SameSizes
  PROVE  EngineSpec => [](AppendAsserts /\ Covered)
BY EngineImplementsScheduler, AppendAsserted, BatchCovered, PTL

-----------------------------------------------------------------------------
(* Why schedule finds nothing                                              *)

\* what else occurs in a queue stays there when its head or its last one goes
LEMMA TailKeepsOthers ==
  ASSUME NEW S, NEW q \in Seq(S), q # << >>, NEW c, Occurs(c, q), c # Head(q)
  PROVE  Occurs(c, Tail(q))
<1>1. PICK k \in 1 .. Len(q) : q[k] = c
  BY DEF Occurs
<1>2. Len(q) \in Nat /\ Head(q) = q[1] /\ Len(Tail(q)) = Len(q) - 1
      /\ \A i \in 1 .. Len(q) - 1 : Tail(q)[i] = q[i + 1]
  OBVIOUS
<1>3. k # 1
  BY <1>1, <1>2
<1>4. k - 1 \in 1 .. Len(Tail(q)) /\ k - 1 \in 1 .. Len(q) - 1 /\ (k - 1) + 1 = k
  BY ONLY <1>2, <1>3, k \in 1 .. Len(q)
<1>5. Tail(q)[k - 1] = c
  BY <1>1, <1>2, <1>4
<1> QED BY <1>4, <1>5 DEF Occurs

LEMMA FrontKeepsOthers ==
  ASSUME NEW S, NEW q \in Seq(S), q # << >>, NEW c, Occurs(c, q), c # Last(q)
  PROVE  Occurs(c, Front(q))
<1>1. PICK k \in 1 .. Len(q) : q[k] = c
  BY DEF Occurs
<1>2. Len(q) \in Nat /\ Last(q) = q[Len(q)] /\ Len(Front(q)) = Len(q) - 1
      /\ \A i \in 1 .. Len(q) - 1 : Front(q)[i] = q[i]
  BY FrontProperties DEF Last
<1>3. k # Len(q)
  BY <1>1, <1>2
<1>4. k \in 1 .. Len(Front(q)) /\ k \in 1 .. Len(q) - 1
  BY ONLY <1>2, <1>3, k \in 1 .. Len(q)
<1>5. Front(q)[k] = c
  BY <1>1, <1>2, <1>4
<1> QED BY <1>4, <1>5 DEF Occurs

LEMMA RemoveKeepsOthers ==
  ASSUME NEW S, NEW q \in Seq(S), Distinct(q), NEW e, NEW c, Occurs(c, q), c # e
  PROVE  Occurs(c, RemoveFirst(q, e))
<1>1. CASE Occurs(e, q)
  <2>1. PICK k \in 1 .. Len(q) : q[k] = e
    BY <1>1 DEF Occurs
  <2>2. \A j \in 1 .. Len(q) : q[j] = q[k] => j = k
    BY ONLY Distinct(q), k \in 1 .. Len(q) DEF Distinct
  <2>3. PICK r : r = RemoveFirst(q, e) /\ r = RemoveAt(q, k)
    BY ONLY <2>1, <2>2, q \in Seq(S), k \in 1 .. Len(q), RemoveFirstOfOne
  <2>4. \A d : d # e => (Occurs(d, r) <=> Occurs(d, q))
    BY ONLY <2>1, <2>3, Distinct(q), q \in Seq(S), k \in 1 .. Len(q), DistinctRemove
  <2> QED BY <2>3, <2>4
<1>2. CASE ~Occurs(e, q)
  BY <1>2 DEF Occurs, RemoveFirst
<1> QED BY <1>1, <1>2

\* A running sequence is in running, or taken from it by the decode under way.
Active == \A s \in Seqs : status[s] = "RUNNING" => Serving(s)

LEMMA ActiveStep ==
  ASSUME Inv, Served, Active, [SchedNext]_vars
  PROVE  Active'
<1>0. /\ status \in [Seqs -> Statuses]
      /\ waiting \in Seq(Seqs) /\ running \in Seq(Seqs) /\ scheduled \in Seq(Seqs)
      /\ pc = "alloc" => waiting # << >>
      /\ pc = "preempt" => running # << >>
      /\ pc \in {"run", "post", "finish"} => scheduled # << >>
  BY DEF Inv, TypeOK, Nonempty
<1>1. CASE /\ \A s \in Seqs : status'[s] = "RUNNING" => status[s] = "RUNNING"
           /\ UNCHANGED <<running, scheduled>>
           /\ pc \in {"decode", "preempt"} => pc' \in {"decode", "preempt"} \/ scheduled = << >>
  <2>1. \A c : ~Occurs(c, << >>)
    BY DEF Occurs
  <2> QED BY <1>1, <2>1 DEF Active, Serving
<1>2. CASE UNCHANGED vars \/ AllocBlock \/ PreemptBlock \/ FinishBlock
  <2>1. UNCHANGED <<status, running, scheduled, pc>>
    BY <1>2 DEF vars, AllocBlock, PreemptBlock, FinishBlock, queueVars
  <2> QED BY <1>1, <2>1
<1>3. CASE Admit \/ PrefillDone \/ DecodeFails \/ Forward
  <2>1. /\ UNCHANGED <<status, running, scheduled>>
        /\ pc = "decode" => scheduled = << >>
        /\ pc # "preempt"
    BY <1>3 DEF Admit, PrefillDone, DecodeFails, Forward, queueVars
  <2> QED BY <1>1, <2>1
<1>4. CASE Step
  <2>1. scheduled = << >> /\ scheduled' = << >> /\ UNCHANGED <<status, running>> /\ pc = "idle"
    BY <1>4 DEF Step, Served
  <2> QED BY <1>1, <2>1
<1>5. ASSUME NEW q \in Seqs, NEW p \in Prompts, AddRequest(q, p) PROVE Active'
  <2>1. UNCHANGED <<running, scheduled, pc>> /\ status' = [status EXCEPT ![q] = "WAITING"]
    BY <1>5 DEF AddRequest
  <2> QED BY <1>0, <1>1, <2>1
<1>6. CASE Preempt
  <2>1. PICK q \in Seqs : q = Last(running)
    BY <1>0, <1>6, FrontProperties DEF Preempt, Decoding
  <2>2. UNCHANGED <<running, scheduled>> /\ pc' = "preempt" /\ status' = [status EXCEPT ![q] = "WAITING"]
    BY <1>6, <2>1 DEF Preempt, queueVars
  <2> QED BY <1>0, <1>1, <2>2
<1>7. ASSUME NEW t \in Tokens, Sampled(t) PROVE Active'
  <2>1. PICK q \in Seqs : q = Head(scheduled)
    BY <1>0, <1>7, HeadType DEF Sampled
  <2>2. /\ pc = "post" /\ running' = running
        /\ status' = status \/ status' = [status EXCEPT ![q] = "FINISHED"]
    BY <1>7, <2>1 DEF Sampled
  <2> QED BY <1>0, <2>2 DEF Active, Serving
<1>8. CASE Admitted
  <2>1. PICK q \in Seqs : q = Head(waiting)
    BY <1>0, <1>8, HeadType DEF Admitted
  <2>2. pc = "alloc" /\ running' = Append(running, q) /\ status' = [status EXCEPT ![q] = "RUNNING"]
    BY <1>8, <2>1 DEF Admitted
  <2>3. ASSUME NEW s \in Seqs, status'[s] = "RUNNING" PROVE Occurs(s, running')
    <3>1. s = q \/ Occurs(s, running)
      BY <1>0, <2>2, <2>3 DEF Active, Serving
    <3> QED BY ONLY <1>0, <2>2, <3>1, q \in Seqs, OccursAppend
  <2> QED BY <2>3 DEF Active, Serving
<1>9. CASE DecodeAppend
  <2>1. PICK q \in Seqs : q = Head(running) /\ running # << >>
    BY <1>0, <1>9, HeadType DEF DecodeAppend, Decoding
  <2>2. /\ pc = "decode" /\ pc' = "decode" /\ UNCHANGED status
        /\ running' = Tail(running) /\ scheduled' = Append(scheduled, q)
    BY <1>9, <2>1 DEF DecodeAppend, Decoding
  <2>3. ASSUME NEW s \in Seqs, status[s] = "RUNNING" PROVE Occurs(s, running') \/ Occurs(s, scheduled')
    <3>1. Occurs(s, running) \/ Occurs(s, scheduled)
      BY <2>3 DEF Active, Serving
    <3>2. s = q \/ Occurs(s, scheduled) => Occurs(s, scheduled')
      BY ONLY <1>0, <2>2, q \in Seqs, OccursAppend
    <3>3. Occurs(s, running) /\ s # q => Occurs(s, running')
      BY ONLY <1>0, <2>1, <2>2, TailKeepsOthers
    <3> QED BY <3>1, <3>2, <3>3
  <2> QED BY <2>2, <2>3 DEF Active, Serving
<1>10. CASE Preempted
  <2>1. /\ pc = "preempt" /\ pc' = "decode" /\ UNCHANGED <<status, scheduled>>
        /\ running' = Front(running) /\ running # << >> /\ status[Last(running)] = "WAITING"
    BY <1>0, <1>10 DEF Preempted, Served
  <2>2. ASSUME NEW s \in Seqs, status[s] = "RUNNING", Occurs(s, running) PROVE Occurs(s, running')
    <3>1. s # Last(running)
      BY <2>1, <2>2
    <3> QED BY ONLY <1>0, <2>1, <2>2, <3>1, FrontKeepsOthers
  <2> QED BY <2>1, <2>2 DEF Active, Serving
<1>11. CASE DecodeDone
  <2>1. pc = "decode" /\ running' = scheduled \o running /\ UNCHANGED status
    BY <1>11 DEF DecodeDone
  <2>2. ASSUME NEW s \in Seqs, Serving(s) PROVE Occurs(s, running')
    <3>1. Occurs(s, running) \/ Occurs(s, scheduled)
      BY <2>2 DEF Serving
    <3> QED BY ONLY <1>0, <2>1, <3>1, OccursConcat
  <2> QED BY <2>1, <2>2 DEF Active, Serving
<1>12. CASE Finished
  <2>1. PICK q \in Seqs : q = Head(scheduled)
    BY <1>0, <1>12, HeadType DEF Finished
  <2>2. /\ pc = "finish" /\ running' = RemoveFirst(running, q) /\ UNCHANGED status
        /\ status[q] = "FINISHED"
    BY <1>12, <2>1 DEF Finished, Served
  <2>3. Distinct(running) /\ running \in Seq(Int)
    <3>1. running \in Seq(Int) /\ Sorted(running)
      BY LineSorted
    <3> QED BY ONLY <3>1, SortedDistinct
  <2>4. ASSUME NEW s \in Seqs, status[s] = "RUNNING", Occurs(s, running) PROVE Occurs(s, running')
    <3>1. s # q
      BY <2>2, <2>4
    <3> QED BY ONLY <2>2, <2>3, <2>4, <3>1, RemoveKeepsOthers
  <2> QED BY <2>2, <2>4 DEF Active, Serving
<1> QED BY <1>2, <1>3, <1>4, <1>5, <1>6, <1>7, <1>8, <1>9, <1>10, <1>11, <1>12
        DEF SchedNext, Prefill, Decode, Postprocess, Terminated

\* a list of all the blocks is as long as the pool
LEMMA AllBlocks ==
  ASSUME NEW q \in Seq(Blocks), \A b \in Blocks : Occurs(b, q)
  PROVE  NumBlocks <= Len(q)
<1>1. PICK n \in Nat : n = Len(q)
  OBVIOUS
<1>2. NumBlocks \in Nat \ {0}
  BY SizesAssumption
<1>3. IsFiniteSet(1 .. n) /\ Cardinality(1 .. n) = n
  BY FS_Interval, Z3
<1>4. IsFiniteSet(Blocks) /\ Cardinality(Blocks) = NumBlocks
  <2>1. 0 \in Int /\ NumBlocks - 1 \in Int /\ ~(0 > NumBlocks - 1) /\ NumBlocks - 1 - 0 + 1 = NumBlocks
    BY <1>2
  <2>2. IsFiniteSet(0 .. NumBlocks - 1) /\ Cardinality(0 .. NumBlocks - 1) = NumBlocks
    BY <2>1, FS_Interval
  <2> QED BY <2>2 DEF Blocks
<1>5. PICK f : f = [k \in 1 .. n |-> q[k]]
  OBVIOUS
<1>6. f \in Surjection(1 .. n, Blocks)
  <2>1. f \in [1 .. n -> Blocks]
    BY <1>1, <1>5
  <2>2. \A b \in Blocks : \E k \in 1 .. n : f[k] = b
    BY <1>1, <1>5 DEF Occurs
  <2> QED BY <2>1, <2>2 DEF Surjection
<1>7. Cardinality(Blocks) <= Cardinality(1 .. n)
  BY <1>3, <1>6, FS_Surjection
<1> QED BY <1>1, <1>3, <1>4, <1>7

\* a block that no table names is free
LEMMA UnnamedFree ==
  ASSUME Inv, NEW b \in Blocks, \A s \in Seqs : ~Occurs(b, table[s])
  PROVE  Occurs(b, free)
<1>1. Holders(table, b) = {}
  <2>1. ASSUME NEW p \in Holders(table, b) PROVE FALSE
    <3>1. PICK s \in Seqs : \E i \in DOMAIN table[s] : table[s][i] = b
      BY HoldersMember
    <3>2. table[s] \in Seq(Blocks)
      BY DEF Inv, TypeOK
    <3> QED BY <3>1, <3>2 DEF Occurs
  <2> QED BY <2>1
<1>2. ref[b] = 0
  BY <1>1, FS_EmptySet DEF Inv, Counted
<1>3. b \notin used
  BY <1>2, PartitionView DEF Inv
<1> QED BY <1>3, PartitionView DEF Inv

\* Nobody holds a block.
LEMMA PoolWhole ==
  ASSUME Inv, \A s \in Seqs : table[s] = << >>
  PROVE  NumBlocks <= Len(free)
<1>1. ASSUME NEW b \in Blocks PROVE Occurs(b, free)
  <2>1. \A s \in Seqs : ~Occurs(b, table[s])
    BY DEF Occurs
  <2> QED BY <2>1, UnnamedFree
<1>2. free \in Seq(Blocks)
  BY DEF Inv, TypeOK
<1> QED BY ONLY <1>1, <1>2, AllBlocks

\* One sequence holds them all.
LEMMA PoolHeld ==
  ASSUME Inv, free = << >>, NEW s \in Seqs, \A r \in Seqs : r # s => table[r] = << >>
  PROVE  NumBlocks <= Len(table[s])
<1>1. ASSUME NEW b \in Blocks, ~Occurs(b, table[s]) PROVE FALSE
  <2>1. \A r \in Seqs : ~Occurs(b, table[r])
    BY <1>1 DEF Occurs
  <2>2. Occurs(b, free)
    BY <2>1, UnnamedFree
  <2> QED BY <2>2 DEF Occurs
<1>2. table[s] \in Seq(Blocks)
  BY DEF Inv, TypeOK
<1> QED BY ONLY <1>1, <1>2, AllBlocks

\* The oldest waiting request exceeds what one prefill or the whole cache can hold.
Oversized ==
  /\ waiting # << >>
  /\ LET n == Length(Head(waiting)) IN n > MaxBatchedTokens \/ BlocksFor(n) > NumBlocks

Stranded ==
  /\ pc \in {"admit", "alloc"} /\ scheduled = << >> => batched = 0 /\ ~IsFinished
  /\ pc = "preempt" /\ scheduled = << >> /\ Len(running) = 1
       => BlocksFor(Length(Last(running))) > NumBlocks
  /\ pc \in {"decode", "failed"} /\ scheduled = << >> /\ running = << >> => Oversized
  /\ pc = "failed" => scheduled = << >> /\ running = << >>

\* Nothing runs and nothing is admissible: the head of waiting is too long.
LEMMA NothingAdmissible ==
  ASSUME Inv, Tidy, Active, Stranded, PrefillDone, scheduled = << >>, running = << >>
  PROVE  Oversized
<1>1. pc = "admit" /\ ~Admissible
  BY DEF PrefillDone
<1>2. waiting # << >> /\ batched = 0 /\ Len(scheduled) = 0
  BY <1>1 DEF Stranded, IsFinished
<1>3. \A s \in Seqs : table[s] = << >>
  <2>1. \A s \in Seqs : ~Serving(s)
    BY <1>1 DEF Serving, Occurs
  <2>2. \A s \in Seqs : ~Holding(s)
    BY <1>1, <2>1 DEF Active, Holding
  <2> QED BY <2>2 DEF Tidy, NoLeak
<1>4. NumBlocks <= Len(free) /\ NumBlocks \in Nat /\ Len(free) \in Nat
  BY <1>3, PoolWhole, SizesAssumption DEF Inv, TypeOK
<1>5. PICK s \in Seqs : s = Head(waiting)
  BY <1>2, HeadType DEF Inv, TypeOK
<1>6. Length(s) \in Nat /\ BlocksFor(Length(s)) \in Nat
  BY BlocksForNat DEF Inv, TypeOK, Length
<1>7. 0 + Length(s) > MaxBatchedTokens \/ ~(Len(free) >= BlocksFor(Length(s)))
  BY <1>1, <1>2, <1>5, <1>6, EngineAssumption DEF Admissible, CanAllocate, NumBlocksOf
<1>8. Length(s) > MaxBatchedTokens \/ BlocksFor(Length(s)) > NumBlocks
  BY ONLY <1>4, <1>6, <1>7, EngineAssumption
<1> QED BY <1>2, <1>5, <1>8 DEF Oversized

\* The last running sequence preempts itself: it holds all the blocks already.
LEMMA PreemptsItself ==
  ASSUME SameSizes, Inv, Tidy, Fitting, Active, Preempt, scheduled = << >>, Len(running) = 1
  PROVE  BlocksFor(Length(Last(running))) > NumBlocks
<1>1. PICK s \in Seqs : s = Head(running) /\ s = Last(running) /\ running = <<s>>
  <2>1. running \in Seq(Seqs)
    BY DEF Inv, TypeOK
  <2>2. running[1] \in Seqs /\ Head(running) = running[1] /\ Last(running) = running[1]
    BY <2>1 DEF Last
  <2>3. running = <<running[1]>>
    BY <2>1
  <2> QED BY <2>2, <2>3
<1>2. pc = "decode" /\ ~CanAppend(s)
  BY <1>1 DEF Preempt, Decoding
<1>3. free = << >> /\ NeedsBlock(s)
  <2>1. free \in Seq(Blocks) /\ Len(free) \in Nat
    BY DEF Inv, TypeOK
  <2>2. NeedsBlock(s) /\ Len(free) < 1
    BY <1>2, <2>1 DEF CanAppend
  <2> QED BY <2>1, <2>2
<1>4. Occurs(s, running) /\ ~Occurs(s, scheduled) /\ \A r \in Seqs : Serving(r) => r = s
  <2>1. /\ \A r : Occurs(r, scheduled) => FALSE
        /\ \A r : Occurs(r, running) => r = s
        /\ Occurs(s, running)
    BY <1>1 DEF Occurs
  <2> QED BY <2>1 DEF Serving
<1>5. \A r \in Seqs : r # s => table[r] = << >>
  BY <1>2, <1>4 DEF Active, Holding, Tidy, NoLeak
<1>6. Fits(s)
  BY <1>2, <1>4 DEF Tidy, Served, InService, Leaving, Fitting
<1>7. NumBlocks <= Len(table[s])
  BY <1>3, <1>5, PoolHeld
<1>8. PICK n \in Nat \ {0} : n = Length(s) /\ Len(table[s]) = BlocksFor(n - 1) /\ n - 1 \in Nat
  <2>1. Length(s) \in Nat
    BY DEF Inv, TypeOK, Length
  <2>2. Length(s) - 1 \in Nat \ {0} /\ Len(table[s]) = BlocksFor(Length(s) - 1)
    BY <1>4, <1>6 DEF Fits, Due
  <2>3. Length(s) \in Nat \ {0}
    BY ONLY <2>1, <2>2
  <2> QED BY ONLY <2>2, <2>3
<1>9. BlocksFor(n) = BlocksFor(n - 1) + 1
  <2>1. n % BlockSize = 1
    BY <1>3, <1>8 DEF NeedsBlock
  <2> QED BY <2>1, BlocksForNext
<1>10. BlocksFor(n - 1) \in Nat /\ NumBlocks \in Nat
  BY <1>8, BlocksForNat, SizesAssumption
<1> QED BY <1>1, <1>7, <1>8, <1>9, <1>10

LEMMA AppendNonempty ==
  ASSUME NEW S, NEW q \in Seq(S), NEW e \in S
  PROVE  Append(q, e) # << >>
<1>1. Len(Append(q, e)) = Len(q) + 1 /\ Len(q) \in Nat
  BY AppendLast
<1> QED BY <1>1

LEMMA StrandedStep ==
  ASSUME SameSizes, Inv, Tidy, Fitting, Active, Stranded, [SchedNext]_vars
  PROVE  Stranded'
<1>0. /\ running \in Seq(Seqs) /\ scheduled \in Seq(Seqs) /\ waiting \in Seq(Seqs)
      /\ pc = "preempt" => running # << >>
      /\ pc = "alloc" => waiting # << >>
      /\ pc \in {"run", "post", "finish"} => scheduled # << >>
      /\ \A s \in Seqs : Length(s) \in Nat
  BY DEF Inv, TypeOK, Nonempty, Length
<1>1. CASE pc' \notin {"admit", "alloc", "preempt", "decode", "failed"}
  BY <1>1 DEF Stranded
<1>2. CASE UNCHANGED vars
  <2>1. UNCHANGED <<waiting, running, scheduled, batched, tokens, pc>>
    BY <1>2 DEF vars, queueVars
  <2> QED BY <2>1 DEF Stranded, Oversized, IsFinished, Length
<1>3. CASE Admit \/ AllocBlock
  <2>1. /\ UNCHANGED <<waiting, running, scheduled, batched>>
        /\ pc \in {"admit", "alloc"} /\ pc' = "alloc"
    BY <1>3 DEF Admit, AllocBlock, queueVars
  <2> QED BY <2>1 DEF Stranded, IsFinished
<1>4. CASE Admitted
  <2>1. pc' = "admit" /\ scheduled' = Append(scheduled, Head(waiting)) /\ waiting # << >>
    BY <1>0, <1>4 DEF Admitted
  <2>2. scheduled' # << >>
    BY ONLY <1>0, <2>1, HeadType, AppendNonempty
  <2> QED BY <2>1, <2>2 DEF Stranded
<1>5. CASE Step
  <2>1. pc' = "admit" /\ batched' = 0 /\ UNCHANGED <<waiting, running>> /\ ~IsFinished
    BY <1>5 DEF Step
  <2> QED BY <2>1 DEF Stranded, IsFinished
<1>6. CASE PrefillDone
  <2>1. /\ UNCHANGED <<waiting, running, scheduled, tokens>>
        /\ pc' = "run" \/ (pc' = "decode" /\ scheduled = << >>)
    BY <1>6 DEF PrefillDone, queueVars
  <2>2. scheduled = << >> /\ running = << >> => Oversized
    BY <1>6, NothingAdmissible
  <2> QED BY <2>1, <2>2 DEF Stranded, Oversized, Length
<1>7. CASE DecodeAppend
  <2>1. pc' = "decode" /\ scheduled' = Append(scheduled, Head(running)) /\ running # << >>
    BY <1>7 DEF DecodeAppend, Decoding
  <2>2. scheduled' # << >>
    BY ONLY <1>0, <2>1, HeadType, AppendNonempty
  <2> QED BY <2>1, <2>2 DEF Stranded
<1>8. CASE Preempt
  <2>1. pc' = "preempt" /\ UNCHANGED <<waiting, running, scheduled, tokens>>
    BY <1>8 DEF Preempt, queueVars
  <2>2. scheduled = << >> /\ Len(running) = 1 => BlocksFor(Length(Last(running))) > NumBlocks
    BY <1>8, PreemptsItself
  <2> QED BY <2>1, <2>2 DEF Stranded, Length
<1>9. CASE PreemptBlock
  <2>1. pc = "preempt" /\ pc' = "preempt" /\ UNCHANGED <<running, scheduled, tokens>>
    BY <1>9 DEF PreemptBlock, queueVars
  <2> QED BY <2>1 DEF Stranded, Length
<1>10. CASE Preempted
  <2>1. PICK s \in Seqs : s = Last(running)
    BY <1>0, <1>10, FrontProperties DEF Preempted
  <2>2. /\ pc = "preempt" /\ pc' = "decode" /\ UNCHANGED <<scheduled, tokens>>
        /\ running' = Front(running) /\ waiting' = <<s>> \o waiting
    BY <1>10, <2>1 DEF Preempted, Requeue
  <2>3. Len(running') = Len(running) - 1 /\ Len(running) \in Nat
    <3>1. running # << >> /\ Len(running) \in Nat
      BY <1>0, <2>2
    <3>2. Len(Front(running)) = Len(running) - 1
      BY ONLY <1>0, <3>1, FrontProperties
    <3> QED BY <2>2, <3>1, <3>2
  <2>4. waiting' # << >> /\ Head(waiting') = s
    BY <1>0, <2>2
  <2>5. ASSUME scheduled' = << >>, running' = << >> PROVE Oversized'
    <3>1. Len(running) = 1
      BY <2>3, <2>5
    <3>2. BlocksFor(Length(s)) > NumBlocks
      BY <2>1, <2>2, <2>5, <3>1 DEF Stranded
    <3>3. Length(s)' = Length(s)
      BY <2>2 DEF Length
    <3> QED BY <2>4, <3>2, <3>3 DEF Oversized, Length
  <2> QED BY <2>2, <2>5 DEF Stranded
<1>11. CASE DecodeFails
  <2>1. /\ pc = "decode" /\ pc' = "failed" /\ UNCHANGED <<waiting, running, scheduled, tokens>>
        /\ scheduled = << >> /\ ~Decoding
    BY <1>11 DEF DecodeFails, queueVars
  <2>2. running = << >>
    <3>1. Len(scheduled) < MaxNumSeqs
      BY <2>1, EngineAssumption
    <3> QED BY <2>1, <3>1 DEF Decoding
  <2> QED BY <2>1, <2>2 DEF Stranded, Oversized, Length
<1>12. CASE \E s \in Seqs, p \in Prompts : AddRequest(s, p)
  BY <1>1, <1>12 DEF AddRequest
<1>13. CASE DecodeDone \/ Forward
  BY <1>1, <1>13 DEF DecodeDone, Forward
<1>14. CASE \E t \in Tokens : Sampled(t)
  BY <1>1, <1>14 DEF Sampled, AfterPost
<1>15. CASE FinishBlock
  BY <1>1, <1>15 DEF FinishBlock
<1>16. CASE Finished
  BY <1>1, <1>16 DEF Finished, AfterPost
<1> QED BY <1>2, <1>3, <1>4, <1>5, <1>6, <1>7, <1>8, <1>9, <1>10, <1>11, <1>12, <1>13, <1>14,
           <1>15, <1>16 DEF SchedNext, Prefill, Decode, Postprocess, Terminated

\* `assert scheduled_seqs` fails only while the oldest request has grown past what
\* one prefill or the whole cache can hold: no order of admissions, preemptions and
\* retirements, and no block that was kept or lost, brings it about.
THEOREM StuckOnlyWhenOversized ==
  ASSUME SameSizes
  PROVE  EngineSpec => []StuckOnlyOversized
<1>1. SchedInit => Active /\ Stranded
  BY DEF SchedInit, Active, Stranded
<1>2. Inv /\ Tidy /\ Fitting /\ Active /\ Stranded /\ [SchedNext]_vars => (Active /\ Stranded)'
  BY ActiveStep, StrandedStep DEF Tidy
<1>3. Stranded => StuckOnlyOversized
  BY DEF Stranded, Oversized, StuckOnlyOversized
<1> QED
  BY <1>1, <1>2, <1>3, FittingInvariant, EngineImplementsScheduler, PTL DEF SchedSpec

-----------------------------------------------------------------------------
(* The slot mapping of a prefill                                           *)

Departs(s) == \/ Preempted /\ s = Last(running)
              \/ Finished /\ s = Head(scheduled)

LEMMA HoldingKept ==
  ASSUME Inv, [SchedNext]_vars, NEW s \in Seqs, Holding(s)
  PROVE  Holding(s)' \/ Departs(s)
<1>0. /\ status \in [Seqs -> Statuses] /\ waiting \in Seq(Seqs)
      /\ running \in Seq(Seqs) /\ scheduled \in Seq(Seqs)
  BY DEF Inv, TypeOK
<1>1. CASE UNCHANGED <<status, queueVars, pc>>
  BY <1>1 DEF Holding, queueVars
<1>2. CASE UNCHANGED vars \/ AllocBlock \/ PreemptBlock \/ FinishBlock
  BY <1>1, <1>2 DEF vars, AllocBlock, PreemptBlock, FinishBlock
<1>3. CASE pc \notin {"alloc", "preempt", "finish"} /\ UNCHANGED status
  BY <1>3 DEF Holding
<1>4. CASE Step \/ Admit \/ PrefillDone \/ DecodeFails \/ Forward \/ DecodeAppend \/ DecodeDone
  BY <1>3, <1>4 DEF Step, Admit, PrefillDone, DecodeFails, Forward, DecodeAppend, DecodeDone, Decoding
<1>5. CASE \E r \in Seqs, p \in Prompts : AddRequest(r, p)
  <2>1. PICK r \in Seqs : /\ pc = "idle" /\ status[r] = "NONE"
                          /\ status' = [status EXCEPT ![r] = "WAITING"]
    BY <1>5 DEF AddRequest
  <2> QED BY <1>0, <2>1 DEF Holding
<1>6. CASE Admitted
  <2>1. /\ pc = "alloc" /\ Head(waiting) \in Seqs
        /\ status' = [status EXCEPT ![Head(waiting)] = "RUNNING"]
    BY <1>0, <1>6, HeadType DEF Admitted, Inv, Nonempty
  <2> QED BY <1>0, <2>1 DEF Holding
<1>7. CASE Preempt
  <2>1. /\ pc = "decode" /\ pc' = "preempt" /\ running' = running
        /\ status' = [status EXCEPT ![Last(running)] = "WAITING"]
    BY <1>7 DEF Preempt, Decoding, queueVars
  <2> QED BY <1>0, <2>1 DEF Holding
<1>8. CASE Preempted \/ Finished
  BY <1>8 DEF Preempted, Finished, Holding, Departs
<1>9. CASE \E t \in Tokens : Sampled(t)
  <2>1. /\ pc = "post"
        /\ \/ UNCHANGED status
           \/ /\ status' = [status EXCEPT ![Head(scheduled)] = "FINISHED"]
              /\ pc' = "finish" /\ UNCHANGED scheduled
    BY <1>9 DEF Sampled
  <2> QED BY <1>0, <2>1 DEF Holding
<1> QED BY <1>2, <1>4, <1>5, <1>6, <1>7, <1>8, <1>9
        DEF SchedNext, Prefill, Decode, Postprocess, Terminated

\* What prefix caching has found for s: whole blocks, within its tokens, and
\* nothing for a sequence that holds no blocks.
Found(s) == /\ \E c \in Nat : cached[s] = c * BlockSize
            /\ cached[s] <= Length(s)
            /\ cached[s] # 0 => Holding(s)

Reuse == /\ \A s \in Seqs : Found(s)
         /\ \A s \in Seqs : pc = "alloc" /\ s = Head(waiting)
                              => cached[s] <= Len(table[s]) * BlockSize

\* tokens never get fewer while something of them is cached
LEMMA TokensGrow ==
  ASSUME Inv, [SchedNext]_vars, NEW s \in Seqs
  PROVE  /\ Length(s) \in Nat /\ Length(s)' \in Nat
         /\ Length(s) <= Length(s)' \/ ~Holding(s)
<1>0. tokens \in [Seqs -> Seq(Tokens)] /\ status \in [Seqs -> Statuses] /\ scheduled \in Seq(Seqs)
  BY DEF Inv, TypeOK
<1>1. Length(s) \in Nat
  BY <1>0 DEF Length
<1>2. CASE tokens' = tokens
  BY <1>1, <1>2 DEF Length
<1>3. ASSUME NEW r \in Seqs, NEW p \in Prompts, AddRequest(r, p)
      PROVE  Length(s)' \in Nat /\ (Length(s) <= Length(s)' \/ ~Holding(s))
  <2>1. /\ tokens' = [tokens EXCEPT ![r] = p] /\ pc = "idle" /\ status[r] = "NONE"
        /\ p \in Seq(Tokens)
    BY <1>3, EngineAssumption DEF AddRequest
  <2>2. CASE r = s
    BY <1>0, <2>1, <2>2 DEF Length, Holding
  <2>3. CASE r # s
    BY <1>0, <1>1, <2>1, <2>3 DEF Length
  <2> QED BY <2>2, <2>3
<1>4. ASSUME NEW t \in Tokens, Sampled(t)
      PROVE  Length(s)' \in Nat /\ Length(s) <= Length(s)'
  <2>1. Head(scheduled) \in Seqs /\ tokens' = [tokens EXCEPT ![Head(scheduled)] = Append(@, t)]
    BY <1>0, <1>4, HeadType DEF Sampled, Inv, Nonempty
  <2>2. tokens'[s] = tokens[s] \/ tokens'[s] = Append(tokens[s], t)
    BY <1>0, <2>1
  <2> QED BY <1>0, <1>1, <2>2 DEF Length
<1>5. \/ tokens' = tokens
      \/ \E r \in Seqs, p \in Prompts : AddRequest(r, p)
      \/ \E t \in Tokens : Sampled(t)
  BY DEF SchedNext, Prefill, Decode, Postprocess, Terminated, Step, Admit, AllocBlock, Admitted,
         PrefillDone, DecodeAppend, Preempt, PreemptBlock, Preempted, DecodeDone, DecodeFails,
         Forward, FinishBlock, Finished, vars, managerVars
<1> QED BY <1>1, <1>2, <1>3, <1>4, <1>5

LEMMA CachedChange ==
  ASSUME [SchedNext]_vars
  PROVE  \/ UNCHANGED cached \/ AllocBlock
         \/ Preempted /\ cached' = [cached EXCEPT ![Last(running)] = 0]
         \/ Finished /\ cached' = [cached EXCEPT ![Head(scheduled)] = 0]
<1>1. CASE UNCHANGED managerVars
  BY <1>1 DEF managerVars
<1>2. CASE DecodeAppend
  BY <1>2 DEF DecodeAppend, MayAppend
<1>3. CASE PreemptBlock \/ FinishBlock
  BY <1>3 DEF PreemptBlock, FinishBlock, DeallocateLast
<1>4. CASE Preempted \/ Finished
  BY <1>4 DEF Preempted, Finished
<1>5. CASE UNCHANGED vars \/ Step \/ Admit \/ Admitted \/ PrefillDone \/ Preempt \/ DecodeDone
           \/ DecodeFails \/ Forward
  BY <1>1, <1>5 DEF vars, Step, Admit, Admitted, PrefillDone, Preempt, DecodeDone, DecodeFails, Forward
<1>6. CASE \E s \in Seqs, p \in Prompts : AddRequest(s, p)
  BY <1>1, <1>6 DEF AddRequest
<1>7. CASE \E t \in Tokens : Sampled(t)
  BY <1>1, <1>7 DEF Sampled
<1> QED BY <1>2, <1>3, <1>4, <1>5, <1>6, <1>7
        DEF SchedNext, Prefill, Decode, Postprocess, Terminated

\* A lookup that hits adds one block to what was found.
LEMMA ReuseAlloc ==
  ASSUME BlockSize = SeqBlockSize, Inv, Keyed, Reuse, AllocBlock
  PROVE  Reuse'
<1>0. /\ tokens \in [Seqs -> Seq(Tokens)] /\ table \in [Seqs -> Seq(Blocks)]
      /\ cached \in [Seqs -> Nat] /\ waiting \in Seq(Seqs)
  BY DEF Inv, TypeOK
<1>1. PICK s \in Seqs, i \in Nat \ {0}, b \in Blocks : AllocShape(s, i, b)
  BY AllocBlockShape
<1>2. /\ pc = "alloc" /\ pc' = "alloc" /\ s = Head(waiting)
      /\ i = Len(table[s]) + 1 /\ i \in 1 .. NumBlocksOf(s)
      /\ table' = [table EXCEPT ![s] = Append(@, b)]
      /\ UNCHANGED <<tokens, waiting, running, scheduled, status>>
  BY <1>1 DEF AllocShape
<1>3. PICK d \in Nat \ {0}, k \in Nat, n \in Nat, e \in Nat :
        d = BlockSize /\ k = cached[s] /\ n = Length(s) /\ e = Len(table[s])
  <2>1. BlockSize \in Nat \ {0} /\ cached[s] \in Nat /\ Length(s) \in Nat /\ Len(table[s]) \in Nat
    BY <1>0, SizesAssumption DEF Length
  <2> QED BY <2>1
<1>4. k <= e * d /\ k <= n /\ \E c \in Nat : k = c * d
  BY <1>2, <1>3 DEF Reuse, Found
<1>5. \/ cached' = cached
      \/ cached' = [cached EXCEPT ![s] = @ + d] /\ i * d <= n
  <2>1. CASE AllocateMiss(s)
    BY <2>1 DEF AllocateMiss
  <2>2. CASE AllocateHit(s) /\ PrefixHash(s, i) \in DOMAIN index
    <3>1. PrefixHash(s, i) # NoHash
      BY <2>2 DEF Keyed
    <3>2. i * SeqBlockSize <= Length(s)
      BY <1>0, <1>2, <3>1, BlockTokensLength, PrefixHashFull
    <3> QED BY <1>3, <2>2, <3>2 DEF AllocateHit
  <2>3. AllocateMiss(s) \/ (AllocateHit(s) /\ PrefixHash(s, i) \in DOMAIN index)
    BY <1>2 DEF AllocBlock, Hit
  <2> QED BY <2>1, <2>2, <2>3
<1>6. PICK m \in Nat : m = cached'[s] /\ m <= i * d /\ m <= n /\ \E c \in Nat : m = c * d
  <2>1. i = e + 1 /\ i * d = e * d + d /\ e * d \in Nat
    BY <1>2, <1>3
  <2>2. CASE cached'[s] = k
    BY <1>4, <2>1, <2>2
  <2>3. CASE cached'[s] = k + d /\ i * d <= n
    <3>1. PICK c \in Nat : k = c * d
      BY <1>4
    <3>2. k + d = (c + 1) * d /\ c + 1 \in Nat /\ k + d \in Nat
      BY <3>1
    <3>3. k + d <= i * d /\ k + d <= n
      BY ONLY <1>4, <2>1, <2>3, k \in Nat, d \in Nat \ {0}, n \in Nat, i \in Nat, i * d \in Nat
    <3> QED BY <2>3, <3>2, <3>3
  <2> QED BY <1>0, <1>3, <1>5, <2>2, <2>3
<1>7. Len(table'[s]) = i
  BY <1>0, <1>2
<1>8. ASSUME NEW r \in Seqs PROVE Found(r)'
  <2>1. CASE r = s
    BY <1>2, <1>3, <1>6, <2>1 DEF Found, Holding, Length
  <2>2. CASE r # s
    <3>1. cached'[r] = cached[r]
      BY <1>0, <1>5, <2>2
    <3> QED BY <1>2, <3>1 DEF Reuse, Found, Holding, Length
  <2> QED BY <2>1, <2>2
<1> QED BY <1>2, <1>3, <1>6, <1>7, <1>8 DEF Reuse

LEMMA ReuseStep ==
  ASSUME BlockSize = SeqBlockSize, Inv, Tidy, Reuse, [SchedNext]_vars
  PROVE  Reuse'
<1>0. /\ cached \in [Seqs -> Nat] /\ waiting \in Seq(Seqs) /\ BlockSize \in Nat
  BY SizesAssumption DEF Inv, TypeOK
<1>1. CASE AllocBlock
  BY <1>1, ReuseAlloc DEF Tidy
<1>2. CASE ~AllocBlock
  <2>1. ASSUME NEW s \in Seqs PROVE Found(s)'
    <3>1. Found(s) /\ cached[s] \in Nat
      BY <1>0 DEF Reuse
    <3>2. cached'[s] = 0 \/ (cached'[s] = cached[s] /\ ~Departs(s))
      BY <1>0, <1>2, CachedChange DEF Departs, Preempted, Finished
    <3>3. Length(s) \in Nat /\ Length(s)' \in Nat /\ (Length(s) <= Length(s)' \/ ~Holding(s))
      BY TokensGrow
    <3>4. CASE cached'[s] = 0
      <4>1. 0 = 0 * BlockSize
        BY <1>0
      <4> QED BY <3>3, <3>4, <4>1 DEF Found
    <3>5. CASE cached'[s] = cached[s] /\ cached[s] # 0 /\ ~Departs(s)
      <4>1. Holding(s) /\ Holding(s)'
        BY <3>1, <3>5, HoldingKept DEF Found
      <4>2. cached[s] <= Length(s)'
        <5>1. cached[s] <= Length(s) /\ Length(s) <= Length(s)'
          BY <3>1, <3>3, <4>1 DEF Found
        <5> QED BY ONLY <5>1, <3>1, <3>3
      <4> QED BY <3>1, <3>5, <4>1, <4>2 DEF Found
    <3> QED BY <3>2, <3>4, <3>5
  <2>2. ASSUME pc' = "alloc", NEW s \in Seqs, s = Head(waiting)'
        PROVE  cached'[s] <= Len(table'[s]) * BlockSize
    <3>1. CASE UNCHANGED vars
      BY <2>2, <3>1 DEF vars, managerVars, queueVars, Reuse
    <3>2. CASE Admit
      <4>1. pc = "admit" /\ s = Head(waiting) /\ waiting # << >> /\ UNCHANGED <<cached, table>>
        BY <2>2, <3>2 DEF Admit, Admissible, managerVars, queueVars
      <4>2. status[s] = "WAITING"
        BY <1>0, <4>1, OccursHeadTail DEF Tidy, Served
      <4>3. cached[s] = 0
        BY <4>1, <4>2 DEF Reuse, Found, Holding
      <4>4. Len(table[s]) \in Nat
        BY DEF Inv, TypeOK
      <4>5. 0 <= Len(table[s]) * BlockSize
        BY ONLY <4>4, <1>0
      <4> QED BY <4>1, <4>3, <4>5
    <3>3. UNCHANGED vars \/ Admit
      BY <1>2, <2>2 DEF SchedNext, Prefill, Decode, Postprocess, Terminated, AddRequest, Step,
         Admitted, PrefillDone, DecodeAppend, Decoding, Preempt, PreemptBlock, Preempted, DecodeDone,
         DecodeFails, Forward, Sampled, AfterPost, FinishBlock, Finished
    <3> QED BY <3>1, <3>2, <3>3
  <2> QED BY <2>1, <2>2 DEF Reuse
<1> QED BY <1>1, <1>2

LEMMA ReuseInvariant ==
  ASSUME BlockSize = SeqBlockSize
  PROVE  SchedSpec => [](Inv /\ Tidy /\ Reuse)
<1>1. ASSUME SchedInit PROVE Reuse
  <2>1. 0 = 0 * BlockSize
    BY SizesAssumption
  <2>2. \A s \in Seqs : cached[s] = 0 /\ Length(s) = 0
    BY <1>1 DEF SchedInit, Length
  <2>3. pc # "alloc"
    BY <1>1 DEF SchedInit
  <2> QED BY <2>1, <2>2, <2>3 DEF Reuse, Found
<1>2. Inv /\ Tidy /\ Reuse /\ [SchedNext]_vars => Reuse'
  BY ReuseStep
<1> QED BY <1>1, <1>2, TidyInvariant, PTL DEF SchedSpec

\* The slots of a prompt, counted block by block, are those of its tokens that
\* were not cached.
LEMMA SlotsCounted ==
  ASSUME BlockSize = SeqBlockSize, Inv, Reuse, NEW s \in Seqs
  PROVE  SlotCount(s) = Cardinality(cached[s] .. Length(s) - 1)
<1>1. PICK d \in Nat \ {0} : d = SeqBlockSize /\ d = BlockSize
  BY SizesAssumption
<1>2. PICK k \in Nat, c \in Nat, n \in Nat : k = cached[s] /\ k = c * d /\ n = Length(s) /\ k <= n
  <2>1. cached[s] \in Nat /\ Length(s) \in Nat
    BY DEF Inv, TypeOK, Length
  <2> QED BY <1>1, <2>1 DEF Reuse, Found
<1>3. PICK m \in Nat : m = BlocksFor(n) /\ n <= m * d /\ m * d < n + d
  BY <1>1, BlocksForNat, BlocksForBounds
<1>4. k \div d = c
  <2>1. /\ k \div d \in Nat /\ k % d \in 0 .. d - 1
        /\ k = (k \div d) * d + (k % d)
    BY DivMod
  <2>2. PICK q \in Nat, r \in 0 .. d - 1 : q = k \div d /\ k = q * d + r
    BY ONLY <2>1
  <2>3. q * d <= c * d /\ c * d < q * d + d
    BY <1>2, <2>2
  <2>4. ~(c * d < q * d) /\ ~(q * d + d <= c * d)
    BY <2>3
  <2>5. q < c => q * d < c * d
    BY SMT
  <2>6. c < q => c * d < q * d
    BY SMT
  <2>7. q < c => q * d + d <= c * d
    BY <2>5, ProductGap
  <2>8. ~(q < c) /\ ~(c < q)
    BY ONLY <2>4, <2>6, <2>7
  <2> QED BY ONLY <2>2, <2>8, c \in Nat
<1>5. SlotCount(s) = IF c < m THEN (m - 1 - c) * d + (n - (m - 1) * d) ELSE 0
  BY <1>1, <1>2, <1>3, <1>4 DEF SlotCount, LastBlockNumTokens, NumBlocksOf
<1>6. Cardinality(k .. n - 1) = n - k
  <2>1. k \in Int /\ n - 1 \in Int
    OBVIOUS
  <2>2. Cardinality(k .. n - 1) = IF k > n - 1 THEN 0 ELSE (n - 1) - k + 1
    BY <2>1, FS_Interval
  <2> QED BY ONLY <1>2, <2>2, k \in Nat, n \in Nat
<1>7. CASE c < m
  <2>1. (m - 1 - c) * d + (n - (m - 1) * d) = n - c * d
    BY SMT
  <2> QED BY <1>2, <1>5, <1>6, <1>7, <2>1
<1>8. CASE ~(c < m)
  <2>1. m * d <= c * d
    BY <1>8, ProductMonotone
  <2>2. PICK p \in Int : p = m * d /\ n <= p /\ p <= k
    BY <1>2, <1>3, <2>1
  <2>3. k = n
    BY ONLY <1>2, <2>2, k \in Nat, n \in Nat, p \in Int
  <2> QED BY <1>2, <1>5, <1>6, <1>8, <2>3
<1> QED BY <1>7, <1>8

\* store_kvcache's assertion never fails when the manager and Sequence agree on
\* the block size, whatever was found in the cache.
THEOREM SlotsComplete ==
  ASSUME BlockSize = SeqBlockSize
  PROVE  EngineSpec => []SlotMappingComplete
<1>1. ASSUME Inv, Tidy, Reuse PROVE SlotMappingComplete
  <2> SUFFICES ASSUME prefill, NEW s \in Scheduled
               PROVE  SlotCount(s) = Cardinality(InputPositions(s))
    BY DEF SlotMappingComplete, StoreAssert
  <2>1. s \in Seqs
    BY <1>1 DEF Scheduled, Inv, TypeOK
  <2> QED BY <1>1, <2>1, SlotsCounted DEF InputPositions
<1>2. Inv /\ Tidy /\ Reuse => SlotMappingComplete
  BY <1>1
<1> QED BY <1>2, ReuseInvariant, EngineImplementsScheduler, PTL

-----------------------------------------------------------------------------
(* The worker channel                                                      *)

\* Any number of workers behind the shared buffer leave the engine what it is
\* on one rank: a step of the channel stutters, until run returns.
THEOREM RunnerImplementsEngine == RunnerSpec => EngineSpec
<1>1. RunnerInit => EngineInit
  BY DEF RunnerInit
<1>2. [RunnerNext]_runnerVars => [EngineNext]_engineVars
  <2> SUFFICES ASSUME [RunnerNext]_runnerVars PROVE [EngineNext]_engineVars
    OBVIOUS
  <2>1. CASE UNCHANGED runnerVars
    BY <2>1 DEF runnerVars
  <2>2. CASE OutsideCall
    BY <2>2 DEF OutsideCall
  <2>3. CASE RunReturns
    BY <2>3 DEF RunReturns, EngineNext
  <2>4. CASE CallRun \/ CallExit \/ SetEvent \/ Signalled \/ ExitReturns
    BY <2>4 DEF CallRun, CallExit, WriteShm, SetEvent, Signalled, ExitReturns
  <2>5. ASSUME NEW w \in Workers,
               Attach(w) \/ ReadShm(w) \/ ClearEvent(w) \/ Execute(w) \/ ExitLoop(w)
        PROVE  UNCHANGED engineVars
    BY <2>5 DEF Attach, ReadShm, ClearEvent, Execute, ExitLoop
  <2> QED BY <2>1, <2>2, <2>3, <2>4, <2>5 DEF RunnerNext, Stopped
<1> QED BY <1>1, <1>2, PTL DEF RunnerSpec, EngineSpec

\* So its safety is that of the engine on one rank.
THEOREM RunnerSafe ==
  RunnerSpec => [](RefCounted /\ Partitioned /\ ArrivalOrder /\ NoLeak)
BY RunnerImplementsEngine, EngineSafe, PTL

ChannelTypeOK ==
  /\ event \in [Workers -> BOOLEAN]
  /\ call \in {"idle", "signal", "execute", "ended"}
  /\ next \in 1 .. WorldSize
  /\ place \in [Workers -> {"attach", "wait", "clear", "call", "exit", "failed", "done"}]
  /\ DOMAIN got = Workers
  /\ joined \subseteq Workers

\* the worker is at rest: it has nothing of the command
AtRest(w) == ~event[w] /\ place[w] \in {"attach", "wait"} /\ w \notin joined

\* the worker has its event, has the command, or has done with it
Reached(w) ==
  \/ event[w] /\ place[w] \in {"attach", "wait", "clear"} /\ w \notin joined
  \/ ~event[w] /\ place[w] \in {"call", "exit", "failed"} /\ w \notin joined
  \/ ~event[w] /\ place[w] = "wait" /\ w \in joined

Holds(w) == /\ place[w] \in {"clear", "call"} => got[w] = shm
            /\ place[w] \notin {"clear", "call"} => got[w] = NoCommand

\* Each worker has been reached exactly if its event has been set, and between
\* two commands all are at rest.
ChannelInv ==
  /\ ChannelTypeOK
  /\ \A w \in Workers : Holds(w)
  /\ call = "idle" => \A w \in Workers : AtRest(w)
  /\ call = "signal" => \A w \in Workers : IF w < next THEN Reached(w) ELSE AtRest(w)
  /\ call = "execute" => \A w \in Workers : Reached(w)
  /\ call = "ended" => \A w \in Workers : place[w] = "done"

LEMMA ChannelInit ==
  ASSUME RunnerInit
  PROVE  ChannelInv
BY WorldAssumption DEF RunnerInit, ChannelInv, ChannelTypeOK, Holds, AtRest, Workers

\* A step of a worker takes it from reached to reached and no other anywhere.
LEMMA WorkerStep ==
  ASSUME ChannelInv, NEW w \in Workers, place[w] # "done", UNCHANGED <<shm, call, next>>, 
         ChannelTypeOK', Holds(w)', Reached(w) => Reached(w)', AtRest(w) => AtRest(w)',
         \A v \in Workers \ {w} : /\ event'[v] = event[v] /\ place'[v] = place[v]
                                  /\ got'[v] = got[v] /\ (v \in joined' <=> v \in joined)
  PROVE  ChannelInv'
<1>1. ASSUME NEW v \in Workers
      PROVE  Holds(v)' /\ (Reached(v) => Reached(v)') /\ (AtRest(v) => AtRest(v)')
  <2>1. CASE v = w
    BY <2>1
  <2>2. CASE v # w
    BY <2>2 DEF ChannelInv, Holds, Reached, AtRest
  <2> QED BY <2>1, <2>2
<1> QED BY <1>1 DEF ChannelInv

LEMMA ChannelStep ==
  ASSUME ChannelInv, [RunnerNext]_runnerVars
  PROVE  ChannelInv'
<1> USE DEF ChannelTypeOK
<1>1. CASE UNCHANGED channelVars
  BY <1>1 DEF channelVars, ChannelInv, Holds, AtRest, Reached
<1>2. CASE CallRun \/ CallExit
  <2>1. /\ call = "idle" /\ call' = "signal" /\ next' = 1
        /\ UNCHANGED <<event, place, got, joined>>
    BY <1>2 DEF CallRun, CallExit, WriteShm
  <2>2. ASSUME NEW w \in Workers PROVE AtRest(w)' /\ Holds(w)' /\ ~(w < 1)
    BY <2>1 DEF ChannelInv, AtRest, Holds, Workers
  <2>3. ChannelTypeOK'
    BY <2>1, WorldAssumption DEF ChannelInv
  <2> QED BY <2>1, <2>2, <2>3 DEF ChannelInv
<1>3. CASE SetEvent
  <2>1. /\ call = "signal" /\ next \in Workers /\ next' = next + 1
        /\ event' = [event EXCEPT ![next] = TRUE]
        /\ UNCHANGED <<shm, call, place, got, joined>>
    BY <1>3 DEF SetEvent
  <2>2. AtRest(next)
    BY <2>1 DEF ChannelInv, Workers
  <2>3. ASSUME NEW w \in Workers PROVE IF w < next' THEN Reached(w)' ELSE AtRest(w)'
    <3>1. CASE w = next
      BY <2>1, <2>2, <3>1 DEF ChannelInv, AtRest, Reached, Workers
    <3>2. CASE w # next
      <4>1. event'[w] = event[w] /\ (w < next' <=> w < next)
        BY <2>1, <3>2 DEF ChannelInv, Workers
      <4> QED BY <2>1, <4>1 DEF ChannelInv, AtRest, Reached
    <3> QED BY <3>1, <3>2
  <2>4. ChannelTypeOK' /\ \A w \in Workers : Holds(w)'
    BY <2>1, WorldAssumption DEF ChannelInv, Holds, Workers
  <2> QED BY <2>1, <2>3, <2>4 DEF ChannelInv
<1>4. CASE Signalled
  <2>1. /\ call = "signal" /\ next = WorldSize /\ call' = "execute"
        /\ UNCHANGED <<shm, event, next, place, got, joined>>
    BY <1>4 DEF Signalled
  <2>2. ASSUME NEW w \in Workers PROVE Reached(w)' /\ Holds(w)'
    <3>1. w < next
      BY <2>1, WorldAssumption DEF Workers
    <3> QED BY <2>1, <3>1 DEF ChannelInv, Reached, Holds
  <2>3. ChannelTypeOK'
    BY <2>1 DEF ChannelInv
  <2> QED BY <2>1, <2>2, <2>3 DEF ChannelInv
<1>5. CASE RunReturns
  <2>1. /\ call = "execute" /\ joined = Workers /\ call' = "idle" /\ joined' = {}
        /\ UNCHANGED <<shm, event, next, place, got>>
    BY <1>5 DEF RunReturns, AllJoined
  <2>2. ASSUME NEW w \in Workers PROVE AtRest(w)' /\ Holds(w)'
    BY <2>1 DEF ChannelInv, AtRest, Reached, Holds
  <2>3. ChannelTypeOK'
    BY <2>1 DEF ChannelInv
  <2> QED BY <2>1, <2>2, <2>3 DEF ChannelInv
<1>6. CASE ExitReturns
  <2>1. /\ call' = "ended" /\ place' = [w \in Workers |-> "done"]
        /\ \A w \in Workers : place[w] = "exit"
        /\ UNCHANGED <<shm, event, next, got, joined>>
    BY <1>6 DEF ExitReturns
  <2>2. ChannelTypeOK' /\ \A w \in Workers : Holds(w)'
    BY <2>1 DEF ChannelInv, Holds
  <2> QED BY <2>1, <2>2 DEF ChannelInv
<1>7. ASSUME NEW w \in Workers, Attach(w) PROVE ChannelInv'
  <2>1. /\ place[w] = "attach" /\ place' = [place EXCEPT ![w] = "wait"]
        /\ UNCHANGED <<shm, event, call, next, got, joined>>
    BY <1>7 DEF Attach
  <2> QED BY <2>1, WorkerStep DEF ChannelInv, Holds, Reached, AtRest
<1>8. ASSUME NEW w \in Workers, ReadShm(w) PROVE ChannelInv'
  <2>1. /\ place[w] = "wait" /\ event[w] /\ got' = [got EXCEPT ![w] = shm]
        /\ place' = [place EXCEPT ![w] = "clear"]
        /\ UNCHANGED <<shm, event, call, next, joined>>
    BY <1>8 DEF ReadShm
  <2> QED BY <2>1, WorkerStep DEF ChannelInv, Holds, Reached, AtRest
<1>9. ASSUME NEW w \in Workers, ClearEvent(w) PROVE ChannelInv'
  <2>1. /\ place[w] = "clear" /\ event' = [event EXCEPT ![w] = FALSE]
        /\ place' = [place EXCEPT ![w] = "call"]
        /\ UNCHANGED <<shm, call, next, got, joined>>
    BY <1>9 DEF ClearEvent
  <2> QED BY <2>1, WorkerStep DEF ChannelInv, Holds, Reached, AtRest
<1>10. ASSUME NEW w \in Workers, Execute(w) \/ ExitLoop(w) PROVE ChannelInv'
  <2>1. /\ place[w] = "call" /\ got' = [got EXCEPT ![w] = NoCommand]
        /\ UNCHANGED <<shm, event, call, next>>
        /\ \/ joined' = joined \cup {w} /\ place' = [place EXCEPT ![w] = "wait"]
           \/ place' = [place EXCEPT ![w] = "failed"] /\ UNCHANGED joined
           \/ place' = [place EXCEPT ![w] = "exit"] /\ UNCHANGED joined
    BY <1>10 DEF Execute, ExitLoop
  <2> QED BY <2>1, WorkerStep DEF ChannelInv, Holds, Reached, AtRest
<1> QED BY <1>1, <1>2, <1>3, <1>4, <1>5, <1>6, <1>7, <1>8, <1>9, <1>10
        DEF RunnerNext, OutsideCall, Stopped, runnerVars, channelVars

\* For any number of workers one buffer and one event each carry every command
\* to every worker once, though rank 0 gets no word that it was read.
THEOREM CommandsCarried == RunnerSpec => []CommandsOnce
<1>1. ASSUME ChannelInv PROVE CommandsOnce
  <2>1. call \in {"idle", "signal", "execute", "ended"}
    BY <1>1 DEF ChannelInv, ChannelTypeOK
  <2>2. ASSUME NEW w \in Workers
        PROVE  AtRest(w) \/ Reached(w) \/ place[w] = "done"
    BY <1>1, <2>1 DEF ChannelInv
  <2>3. \A w \in Workers : got[w] # NoCommand => got[w] = shm /\ w \notin joined
    BY <1>1, <2>2 DEF ChannelInv, AtRest, Reached, Holds
  <2>4. call = "idle" => \A w \in Workers : ~event[w] /\ place[w] \in {"attach", "wait"}
    BY <1>1 DEF ChannelInv, AtRest
  <2>5. call = "execute" =>
          \A w \in Workers : event[w] \/ w \in joined \/ place[w] \in {"call", "exit", "failed"}
    BY <1>1 DEF ChannelInv, Reached
  <2> QED BY <2>3, <2>4, <2>5 DEF CommandsOnce
<1>2. RunnerSpec => []ChannelInv
  BY ChannelInit, ChannelStep, PTL DEF RunnerSpec
<1> QED BY <1>1, <1>2, PTL

-----------------------------------------------------------------------------
(* What the commands carry                                                 *)

Over(s) == Length(s) > prompt[s]
DecodeBatch == pc \in {"decode", "preempt"} \/ (pc \in {"run", "post", "finish"} /\ ~prefill)

\* A request that has been in a batch has a token more than its prompt: this
\* holds of what runs and is not in the batch, and of all of a decode batch.
Grown ==
  /\ \A s \in Seqs : Length(s) >= prompt[s]
  /\ \A s \in Seqs : Occurs(s, running) => Over(s) \/ Occurs(s, scheduled)
  /\ DecodeBatch => \A s \in Seqs : Occurs(s, scheduled) => Over(s)
  /\ pc = "finish" => Over(Head(scheduled))

LEMMA GrownKept ==
  ASSUME Inv, Grown, UNCHANGED <<tokens, prompt>>,
         \A s \in Seqs : Occurs(s, running)' => Occurs(s, running) \/ Occurs(s, scheduled)'
                                                \/ (pc = "finish" /\ s = Head(scheduled)),
         \A s \in Seqs : Occurs(s, running) /\ Occurs(s, scheduled) /\ ~Occurs(s, scheduled)'
                           => pc = "finish" /\ s = Head(scheduled),
         DecodeBatch' => \A s \in Seqs :
           Occurs(s, scheduled)' => (DecodeBatch /\ Occurs(s, scheduled)) \/ Over(s),
         pc' = "finish" => pc = "finish" /\ scheduled' = scheduled
  PROVE  Grown'
<1>1. \A s \in Seqs : Length(s)' = Length(s) /\ prompt'[s] = prompt[s]
  BY DEF Length
<1>2. \A s \in Seqs : Over(s)' <=> Over(s)
  BY <1>1 DEF Over
<1>3. pc' = "finish" => Over(Head(scheduled))'
  BY DEF Grown, Over, Length
<1> QED BY <1>1, <1>2, <1>3 DEF Grown

LEMMA GrownStep ==
  ASSUME Inv, Tidy, Grown, [SchedNext]_vars
  PROVE  Grown'
<1>0. /\ tokens \in [Seqs -> Seq(Tokens)] /\ prompt \in [Seqs -> Nat] /\ pc \in Places
      /\ running \in Seq(Seqs) /\ scheduled \in Seq(Seqs)
  BY DEF Inv, TypeOK
<1>e. \A c : ~Occurs(c, << >>)
  BY DEF Occurs
<1>1. CASE /\ UNCHANGED <<tokens, prompt, running, scheduled>>
           /\ DecodeBatch' => DecodeBatch
           /\ pc' = "finish" => pc = "finish"
  BY <1>1, GrownKept
<1>2. CASE UNCHANGED vars \/ AllocBlock \/ PreemptBlock \/ FinishBlock
  <2>1. UNCHANGED <<tokens, prompt, running, scheduled, prefill, pc>>
    BY <1>2 DEF vars, AllocBlock, PreemptBlock, FinishBlock, queueVars
  <2> QED BY <1>1, <2>1 DEF DecodeBatch
<1>3. CASE Admit \/ Preempt \/ Forward \/ DecodeFails
  <2>1. /\ UNCHANGED <<tokens, prompt, running, scheduled, prefill>>
        /\ \/ pc' = "alloc" \/ pc' = "failed" \/ (pc = "decode" /\ pc' = "preempt")
           \/ (pc = "run" /\ pc' = "post")
    BY <1>3 DEF Admit, Preempt, Forward, DecodeFails, Decoding, queueVars
  <2> QED BY <1>1, <2>1 DEF DecodeBatch
<1>4. CASE Step
  <2>1. /\ scheduled = << >> /\ scheduled' = << >> /\ pc' = "admit"
        /\ UNCHANGED <<tokens, prompt, running>>
    BY <1>4 DEF Step, Tidy, Served
  <2> QED BY <1>1, <2>1 DEF DecodeBatch
<1>5. CASE PrefillDone
  <2>1. /\ UNCHANGED <<tokens, prompt, running, scheduled>>
        /\ \/ pc' = "run" /\ prefill' = TRUE
           \/ pc' = "decode" /\ scheduled = << >>
    BY <1>5 DEF PrefillDone, queueVars
  <2>2. DecodeBatch' => scheduled = << >>
    BY <2>1 DEF DecodeBatch
  <2> QED BY <1>e, <2>1, <2>2, GrownKept
<1>6. ASSUME NEW q \in Seqs, NEW p \in Prompts, AddRequest(q, p)
      PROVE  Grown'
  <2>1. /\ pc = "idle" /\ pc' = "idle" /\ status[q] = "NONE"
        /\ tokens' = [tokens EXCEPT ![q] = p] /\ prompt' = [prompt EXCEPT ![q] = Len(p)]
        /\ UNCHANGED <<running, scheduled>>
    BY <1>6 DEF AddRequest
  <2>2. ~Occurs(q, running)
    BY <2>1 DEF Inv, Numbered, Queued
  <2>3. ASSUME NEW s \in Seqs, s # q
        PROVE  Length(s)' = Length(s) /\ prompt'[s] = prompt[s]
    BY <1>0, <2>1, <2>3 DEF Length
  <2>4. Length(q)' = Len(p) /\ prompt'[q] = Len(p) /\ Len(p) \in Nat
    BY <1>0, <2>1, EngineAssumption DEF Length
  <2>5. \A s \in Seqs : Length(s)' >= prompt'[s]
    BY <2>3, <2>4 DEF Grown
  <2> QED BY <2>1, <2>2, <2>3, <2>5 DEF Grown, Over, DecodeBatch
<1>7. CASE Admitted
  <2>1. PICK q \in Seqs : q = Head(waiting)
    BY <1>7, HeadType DEF Admitted, Inv, TypeOK, Nonempty
  <2>2. /\ pc' = "admit" /\ running' = Append(running, q) /\ scheduled' = Append(scheduled, q)
        /\ UNCHANGED <<tokens, prompt>> /\ pc = "alloc"
    BY <1>7, <2>1 DEF Admitted
  <2>3. \A r \in Seqs : /\ Occurs(r, running') <=> Occurs(r, running) \/ r = q
                        /\ Occurs(r, scheduled') <=> Occurs(r, scheduled) \/ r = q
    BY ONLY <1>0, <2>2, q \in Seqs, OccursAppend
  <2> QED BY <2>2, <2>3, GrownKept DEF DecodeBatch
<1>8. CASE DecodeAppend
  <2>1. PICK q \in Seqs : q = Head(running) /\ running # << >>
    BY <1>0, <1>8, HeadType DEF DecodeAppend, Decoding
  <2>2. /\ pc = "decode" /\ pc' = "decode" /\ running' = Tail(running)
        /\ scheduled' = Append(scheduled, q) /\ UNCHANGED <<tokens, prompt>>
    BY <1>8, <2>1 DEF DecodeAppend, Decoding
  <2>3. \A r \in Seqs : Occurs(r, scheduled') <=> Occurs(r, scheduled) \/ r = q
    BY ONLY <1>0, <2>2, q \in Seqs, OccursAppend
  <2>4. Occurs(q, running) /\ \A r : Occurs(r, Tail(running)) => Occurs(r, running)
    BY ONLY <1>0, <2>1, OccursHeadTail
  <2>5. Over(q)
    BY <2>2, <2>4 DEF Grown, DecodeBatch
  <2> QED BY <2>2, <2>3, <2>4, <2>5, GrownKept DEF DecodeBatch
<1>9. CASE Preempted
  <2>1. /\ pc = "preempt" /\ pc' = "decode" /\ running # << >> /\ running' = Front(running)
        /\ UNCHANGED <<tokens, prompt, scheduled>>
    BY <1>9 DEF Preempted, Inv, Nonempty
  <2>2. \A r : Occurs(r, Front(running)) => Occurs(r, running)
    BY ONLY <1>0, <2>1, OccursFrontLast
  <2> QED BY <2>1, <2>2, GrownKept DEF DecodeBatch
<1>10. CASE DecodeDone
  <2>1. /\ pc = "decode" /\ pc' = "run" /\ running' = scheduled \o running
        /\ UNCHANGED <<tokens, prompt, scheduled>>
    BY <1>10 DEF DecodeDone
  <2>2. \A r \in Seqs : Occurs(r, running') <=> Occurs(r, scheduled) \/ Occurs(r, running)
    BY ONLY <1>0, <2>1, OccursConcat
  <2> QED BY <2>1, <2>2, GrownKept DEF DecodeBatch
<1>11. ASSUME NEW t \in Tokens, Sampled(t) PROVE Grown'
  <2>1. PICK q \in Seqs : q = Head(scheduled) /\ scheduled # << >>
    BY <1>0, <1>11, HeadType DEF Sampled, Inv, Nonempty
  <2>2. /\ pc = "post" /\ tokens' = [tokens EXCEPT ![q] = Append(@, t)]
        /\ UNCHANGED <<running, prompt, prefill>>
        /\ \/ pc' = "finish" /\ scheduled' = scheduled
           \/ scheduled' = Tail(scheduled) /\ pc' \in {"idle", "post"}
    BY <1>11, <2>1 DEF Sampled, AfterPost
  <2>3. ASSUME NEW s \in Seqs
        PROVE  /\ Length(s)' >= prompt'[s]
               /\ Over(s) => Over(s)'
               /\ s = q => Over(s)'
    <3>1. Length(s) \in Nat /\ prompt[s] \in Nat /\ Length(s) >= prompt[s]
      BY <1>0 DEF Length, Grown
    <3>2. Length(s)' = (IF s = q THEN Length(s) + 1 ELSE Length(s)) /\ prompt'[s] = prompt[s]
      BY <1>0, <2>2 DEF Length
    <3> QED BY <3>1, <3>2 DEF Over
  <2>4. ASSUME NEW s \in Seqs
        PROVE  /\ Occurs(s, scheduled') => Occurs(s, scheduled)
               /\ Occurs(s, scheduled) => Occurs(s, scheduled') \/ s = q
    <3>1. CASE scheduled' = scheduled
      BY <3>1
    <3>2. CASE scheduled' = Tail(scheduled)
      BY ONLY <1>0, <2>1, <3>2, OccursHeadTail, TailKeeps
    <3> QED BY <2>2, <3>1, <3>2
  <2>5. DecodeBatch' => DecodeBatch
    BY <2>2 DEF DecodeBatch
  <2>6. pc' = "finish" => Over(Head(scheduled))'
    BY <2>1, <2>2, <2>3
  <2> QED BY <2>2, <2>3, <2>4, <2>5, <2>6 DEF Grown
<1>12. CASE Finished
  <2>1. PICK q \in Seqs : q = Head(scheduled) /\ scheduled # << >>
    BY <1>0, <1>12, HeadType DEF Finished, Inv, Nonempty
  <2>2. /\ pc = "finish" /\ running' = RemoveFirst(running, q) /\ scheduled' = Tail(scheduled)
        /\ pc' \in {"idle", "post"} /\ UNCHANGED <<tokens, prompt, prefill>>
    BY <1>12, <2>1 DEF Finished, AfterPost
  <2>3. Sorted(running) /\ running \in Seq(Int) /\ q \in Int
    BY LineSorted, SizesAssumption DEF Inv, TypeOK
  <2>4. \A r \in Seqs : Occurs(r, running') => Occurs(r, running)
    BY ONLY <1>0, <2>2, <2>3, RemoveFirstSorted
  <2>5. \A r \in Seqs : /\ Occurs(r, scheduled') => Occurs(r, scheduled)
                        /\ Occurs(r, scheduled) => Occurs(r, scheduled') \/ r = q
    BY ONLY <1>0, <2>1, <2>2, OccursHeadTail, TailKeeps
  <2>6. DecodeBatch' => DecodeBatch
    BY <2>2 DEF DecodeBatch
  <2> QED BY <2>1, <2>2, <2>4, <2>5, <2>6, GrownKept
<1> QED BY <1>2, <1>3, <1>4, <1>5, <1>6, <1>7, <1>8, <1>9, <1>10, <1>11, <1>12
        DEF SchedNext, Prefill, Decode, Postprocess, Terminated

LEMMA GrownInvariant == SchedSpec => [](Inv /\ Tidy /\ Grown)
<1>1. ASSUME SchedInit PROVE Grown
  <2>1. \A c : ~Occurs(c, << >>)
    BY DEF Occurs
  <2> QED BY <1>1, <2>1 DEF SchedInit, Grown, DecodeBatch, Length
<1>2. Inv /\ Tidy /\ Grown /\ [SchedNext]_vars => Grown'
  BY GrownStep
<1> QED BY <1>1, <1>2, TidyInvariant, PTL DEF SchedSpec

\* The command in flight is the batch that rank 0 is about to run.
Carried == call \in {"signal", "execute"} /\ shm.method = "run" => pc = "run" /\ shm = RunCommand

LEMMA CommandFixed ==
  ASSUME UNCHANGED engineVars
  PROVE  RunCommand' = RunCommand
<1>1. UNCHANGED <<tokens, table, cached, scheduled, prefill, prompt>>
  BY DEF engineVars, vars, managerVars, queueVars
<1>2. \A s : SequenceState(s)' = SequenceState(s)
  BY <1>1 DEF SequenceState, CarriesTokens, Length, Last
<1> QED BY <1>1, <1>2 DEF RunCommand

LEMMA CarriedStep ==
  ASSUME Carried, [RunnerNext]_runnerVars
  PROVE  Carried'
<1>1. CASE UNCHANGED <<engineVars, shm>> /\ (call' = call \/ call' \in {"idle", "ended"}
                                              \/ (call = "signal" /\ call' = "execute"))
  <2>1. pc' = pc /\ RunCommand' = RunCommand
    BY <1>1, CommandFixed DEF engineVars, vars
  <2> QED BY <1>1, <2>1 DEF Carried
<1>2. CASE UNCHANGED runnerVars
  BY <1>1, <1>2 DEF runnerVars, channelVars
<1>3. CASE OutsideCall \/ RunReturns
  BY <1>3 DEF OutsideCall, RunReturns, channelVars, Carried
<1>4. CASE CallRun
  <2>1. UNCHANGED engineVars /\ shm' = RunCommand /\ pc = "run"
    BY <1>4 DEF CallRun, WriteShm
  <2>2. pc' = "run" /\ RunCommand' = RunCommand
    BY <2>1, CommandFixed DEF engineVars, vars
  <2> QED BY <2>1, <2>2 DEF Carried
<1>5. CASE CallExit
  BY <1>5 DEF CallExit, WriteShm, ExitCommand, Carried
<1>6. CASE SetEvent \/ Signalled \/ ExitReturns
  BY <1>1, <1>6 DEF SetEvent, Signalled, ExitReturns
<1>7. ASSUME NEW w \in Workers, Attach(w) \/ ReadShm(w) \/ ClearEvent(w) \/ Execute(w) \/ ExitLoop(w)
      PROVE  Carried'
  BY <1>1, <1>7 DEF Attach, ReadShm, ClearEvent, Execute, ExitLoop
<1> QED BY <1>2, <1>3, <1>4, <1>5, <1>6, <1>7 DEF RunnerNext, Stopped

LEMMA LastOnly ==
  ASSUME NEW S, NEW q \in Seq(S), q # << >>
  PROVE  SubSeq(q, Len(q), Len(q)) = <<q[Len(q)]>>
<1>1. PICK n \in Nat \ {0} : n = Len(q) /\ n - n + 1 = 1 /\ n + 1 - 1 = n
  OBVIOUS
<1>2. \A i \in n .. n : q[i] \in S
  BY <1>1
<1>3. /\ SubSeq(q, n, n) \in Seq(S) /\ Len(SubSeq(q, n, n)) = 1
      /\ \A i \in 1 .. 1 : SubSeq(q, n, n)[i] = q[n + i - 1]
  BY <1>1, <1>2, SubSeqProperties
<1>4. SubSeq(q, n, n)[1] = q[n]
  <2>1. 1 \in 1 .. 1 /\ n + 1 - 1 = n
    BY <1>1
  <2> QED BY ONLY <1>3, <2>1
<1>5. <<q[n]>> \in Seq(S) /\ Len(<<q[n]>>) = 1 /\ <<q[n]>>[1] = q[n]
  <2>1. q[n] \in S
    BY <1>1
  <2> QED BY ONLY <2>1
<1>6. \A i \in 1 .. Len(SubSeq(q, n, n)) : SubSeq(q, n, n)[i] = <<q[n]>>[i]
  <2>1. \A i \in 1 .. 1 : i = 1
    OBVIOUS
  <2> QED BY ONLY <1>3, <1>4, <1>5, <2>1
<1>7. SubSeq(q, n, n) = <<q[n]>>
  <2>1. Len(SubSeq(q, n, n)) = Len(<<q[n]>>)
    BY ONLY <1>3, <1>5
  <2> QED BY ONLY <1>3, <1>5, <1>6, <2>1, SeqEqual
<1> QED BY <1>1, <1>7

\* One sequence of a command: the tokens that a worker takes from it are those
\* that rank 0 takes, but for a prompt that has tokens sampled after it.
LEMMA CarriedTokens ==
  ASSUME Inv, Grown, pc = "run", NEW s \in Seqs, Occurs(s, scheduled)
  PROVE  \/ /\ SequenceState(s).has_tokens = prefill
            /\ WorkerInputIds(SequenceState(s)) = InputIds(s)
         \/ prefill /\ Length(s) > prompt[s]
<1>1. PICK n \in Nat, p \in Nat : n = Length(s) /\ n = Len(tokens[s]) /\ p = prompt[s] /\ n >= p
  <2>1. Length(s) \in Nat /\ prompt[s] \in Nat
    BY DEF Inv, TypeOK, Length
  <2> QED BY <2>1 DEF Grown, Length
<1>2. prefill \in BOOLEAN /\ tokens[s] \in Seq(Tokens)
  BY DEF Inv, TypeOK
<1>3. CASE prefill /\ n = p
  <2>1. CarriesTokens(s)
    BY <1>1, <1>3 DEF CarriesTokens
  <2>2. WorkerInputIds(SequenceState(s)) = InputIds(s) /\ SequenceState(s).has_tokens = TRUE
    BY <1>3, <2>1 DEF SequenceState, WorkerInputIds, InputIds
  <2> QED BY <1>3, <2>2
<1>4. CASE ~prefill
  <2>1. n > p
    BY <1>1, <1>4 DEF Grown, DecodeBatch, Over
  <2>2. ~CarriesTokens(s)
    BY <1>1, <2>1 DEF CarriesTokens
  <2>3. n > 0 /\ (n - 1) + 1 = n
    BY <2>1
  <2>4. InputIds(s) = SubSeq(tokens[s], n, n)
    BY <1>1, <1>4, <2>3 DEF InputIds
  <2>5. SubSeq(tokens[s], n, n) = <<tokens[s][n]>>
    <3>1. tokens[s] # << >>
      BY <1>1, <2>3
    <3> QED BY <1>1, <1>2, <3>1, LastOnly
  <2>6. WorkerInputIds(SequenceState(s)) = <<tokens[s][n]>> /\ SequenceState(s).has_tokens = FALSE
    BY <1>1, <1>4, <2>2 DEF SequenceState, WorkerInputIds, Last
  <2> QED BY <1>2, <1>4, <2>4, <2>5, <2>6
<1> QED BY <1>1, <1>2, <1>3, <1>4

\* For any number of workers a worker that has a command runs the batch of rank
\* 0 on the same blocks and, re-prefilled prompts apart, on the same tokens.
THEOREM WorkersAgree == RunnerSpec => []RanksAgree
<1>1. ASSUME ChannelInv, Carried, Inv, Grown PROVE RanksAgree
  <2> SUFFICES ASSUME NEW w \in Workers, got[w].method = "run"
      PROVE /\ pc = "run" /\ got[w].is_prefill = prefill
            /\ Len(got[w].seqs) = Len(scheduled)
            /\ \A k \in 1 .. Len(scheduled) :
                 LET g == got[w].seqs[k]
                     s == scheduled[k]
                 IN  /\ g.block_table = table[s]
                     /\ \/ g.has_tokens = prefill /\ WorkerInputIds(g) = InputIds(s)
                        \/ prefill /\ Length(s) > prompt[s]
    BY DEF RanksAgree
  <2>1. got[w] # NoCommand
    BY DEF NoCommand
  <2>2. got[w] = shm /\ call \in {"signal", "execute"}
    BY <1>1, <2>1 DEF ChannelInv, ChannelTypeOK, Holds, AtRest
  <2>3. pc = "run" /\ got[w] = RunCommand
    BY <1>1, <2>2 DEF Carried
  <2>4. scheduled \in Seq(Seqs) /\ Len(scheduled) \in Nat
    BY <1>1 DEF Inv, TypeOK
  <2>5. /\ got[w].is_prefill = prefill /\ Len(got[w].seqs) = Len(scheduled)
        /\ \A k \in 1 .. Len(scheduled) : got[w].seqs[k] = SequenceState(scheduled[k])
    BY <2>3, <2>4 DEF RunCommand
  <2>6. ASSUME NEW k \in 1 .. Len(scheduled)
        PROVE  LET g == got[w].seqs[k]
                   s == scheduled[k]
               IN  /\ g.block_table = table[s]
                   /\ \/ g.has_tokens = prefill /\ WorkerInputIds(g) = InputIds(s)
                      \/ prefill /\ Length(s) > prompt[s]
    <3>1. PICK s \in Seqs : s = scheduled[k] /\ Occurs(s, scheduled)
      BY <2>4 DEF Occurs
    <3>2. SequenceState(s).block_table = table[s]
      BY DEF SequenceState
    <3>3. \/ /\ SequenceState(s).has_tokens = prefill
             /\ WorkerInputIds(SequenceState(s)) = InputIds(s)
          \/ prefill /\ Length(s) > prompt[s]
      BY <1>1, <2>3, <3>1, CarriedTokens
    <3>4. got[w].seqs[k] = SequenceState(s)
      BY <2>5, <3>1
    <3> QED BY <3>1, <3>2, <3>3, <3>4
  <2> QED BY <2>3, <2>5, <2>6
<1>2. RunnerInit => Carried
  BY DEF RunnerInit, Carried
<1>3. Carried /\ [RunnerNext]_runnerVars => Carried'
  BY CarriedStep
<1>4. RunnerSpec => [](Inv /\ Tidy /\ Grown)
  BY RunnerImplementsEngine, EngineImplementsScheduler, GrownInvariant, PTL
<1>5. RunnerSpec => []ChannelInv
  BY ChannelInit, ChannelStep, PTL DEF RunnerSpec
<1> QED BY <1>1, <1>2, <1>3, <1>4, <1>5, PTL DEF RunnerSpec

-----------------------------------------------------------------------------
(* Positions, blocks and slots                                             *)

Offsets == 0 .. BlockSize - 1

\* the position of the token with offset o in the block of index i
At(i, o) == (i - 1) * BlockSize + o

LEMMA QuotientUnique ==
  ASSUME NEW d \in Nat \ {0}, NEW j \in Int, NEW k \in Int,
         NEW o \in 0 .. d - 1, NEW u \in 0 .. d - 1, j * d + o = k * d + u
  PROVE  j = k /\ o = u
<1>1. j * d \in Int /\ k * d \in Int
  OBVIOUS
<1>2. j * d < k * d => j * d + d <= k * d
  BY ONLY d \in Nat \ {0}, j \in Int, k \in Int, ProductGap
<1>3. k * d < j * d => k * d + d <= j * d
  BY ONLY d \in Nat \ {0}, j \in Int, k \in Int, ProductGap
<1>4. j * d = k * d
  BY ONLY <1>1, <1>2, <1>3, d \in Nat \ {0}, o \in 0 .. d - 1, u \in 0 .. d - 1, j * d + o = k * d + u
<1>5. o = u
  BY ONLY <1>1, <1>4, o \in 0 .. d - 1, u \in 0 .. d - 1, j * d + o = k * d + u
<1>6. j = k
  BY <1>4
<1> QED BY <1>5, <1>6

LEMMA AtNat ==
  ASSUME NEW i \in Nat \ {0}, NEW o \in Offsets
  PROVE  At(i, o) \in Nat /\ At(i, 0) \in Nat /\ At(i, 0) <= At(i, o) /\ 0 \in Offsets
<1>1. PICK d \in Nat \ {0} : d = BlockSize
  BY SizesAssumption
<1>2. (i - 1) * d \in Nat /\ o \in 0 .. d - 1
  BY <1>1 DEF Offsets
<1> QED BY <1>1, <1>2 DEF At, Offsets

LEMMA AtStart ==
  ASSUME NEW i \in Nat \ {0}
  PROVE  At(i, 0) \in Nat /\ 0 \in Offsets
<1>1. 0 \in Offsets
  BY SizesAssumption DEF Offsets
<1> QED BY <1>1, AtNat

LEMMA AtSplit ==
  ASSUME NEW p \in Nat
  PROVE  /\ p \div BlockSize + 1 \in Nat \ {0} /\ (p % BlockSize) \in Offsets
         /\ At(p \div BlockSize + 1, (p % BlockSize)) = p
<1>1. PICK d \in Nat \ {0} : d = BlockSize
  BY SizesAssumption
<1>2. PICK q \in Nat, r \in 0 .. d - 1 : q = p \div d /\ r = p % d /\ p = q * d + r
  BY DivMod
<1>3. q + 1 \in Nat \ {0} /\ q + 1 - 1 = q
  OBVIOUS
<1>4. At(q + 1, r) = p
  BY ONLY <1>1, <1>2, <1>3 DEF At
<1> QED BY <1>1, <1>2, <1>3, <1>4 DEF Offsets

LEMMA AtUnique ==
  ASSUME NEW i \in Nat \ {0}, NEW o \in Offsets
  PROVE  At(i, o) \div BlockSize + 1 = i /\ (At(i, o) % BlockSize) = o
<1>1. PICK d \in Nat \ {0} : d = BlockSize
  BY SizesAssumption
<1>2. PICK p \in Nat : p = At(i, o) /\ p = (i - 1) * d + o
  BY <1>1, AtNat DEF At
<1>3. PICK q \in Nat, r \in 0 .. d - 1 : q = p \div d /\ r = p % d /\ p = q * d + r
  BY DivMod
<1>4. o \in 0 .. d - 1 /\ i - 1 \in Int /\ q \in Int /\ q * d + r = (i - 1) * d + o
  BY <1>1, <1>2, <1>3 DEF Offsets
<1>5. q = i - 1 /\ r = o
  BY ONLY <1>4, d \in Nat \ {0}, r \in 0 .. d - 1, QuotientUnique
<1>6. q + 1 = i
  BY <1>5
<1> QED BY <1>1, <1>2, <1>3, <1>5, <1>6

\* a block of index i starts at or after what c whole blocks hold, or ends before
LEMMA AtBeyond ==
  ASSUME NEW i \in Nat \ {0}, NEW o \in Offsets, NEW c \in Nat
  PROVE  /\ At(i, o) >= c * BlockSize <=> i > c
         /\ At(i, 0) >= c * BlockSize <=> i > c
<1>1. PICK d \in Nat \ {0} : d = BlockSize
  BY SizesAssumption
<1>2. PICK j \in Nat : j = i - 1
  OBVIOUS
<1>3. j * d \in Nat /\ c * d \in Nat /\ o \in 0 .. d - 1
  BY <1>1 DEF Offsets
<1>4. c * d > j * d => j * d + d <= c * d
  BY ONLY d \in Nat \ {0}, j \in Nat, c \in Nat, <1>3, ProductGap
<1>5. c * d > j * d <=> c > j
  BY SMT
<1>6. (j * d + o >= c * d <=> j >= c) /\ (j * d + 0 >= c * d <=> j >= c)
  BY ONLY <1>3, <1>4, <1>5, d \in Nat \ {0}, j \in Nat, c \in Nat
<1>7. j >= c <=> i > c
  BY <1>2
<1> QED BY ONLY <1>1, <1>2, <1>6, <1>7 DEF At

\* each token has its block
LEMMA AtWithin ==
  ASSUME SameSizes, NEW n \in Nat, NEW i \in Nat \ {0}, NEW o \in Offsets, At(i, o) < n
  PROVE  i \in 1 .. BlocksFor(n)
<1>1. PICK k \in Nat : k = BlocksFor(n) /\ n <= k * BlockSize
  BY BlocksForBounds, BlocksForNat DEF SameSizes
<1>2. At(i, o) \in Nat /\ k * BlockSize \in Nat
  BY AtNat, SizesAssumption
<1>3. ~(At(i, o) >= k * BlockSize)
  BY <1>1, <1>2
<1>4. ~(i > k)
  BY <1>3, AtBeyond
<1> QED BY <1>1, <1>4

LEMMA SlotUnique ==
  ASSUME NEW b \in Nat, NEW c \in Nat, NEW o \in Offsets, NEW u \in Offsets,
         b * BlockSize + o = c * BlockSize + u
  PROVE  b = c /\ o = u
<1>1. PICK d \in Nat \ {0} : d = BlockSize
  BY SizesAssumption
<1>2. o \in 0 .. d - 1 /\ u \in 0 .. d - 1 /\ b \in Int /\ c \in Int /\ b * d + o = c * d + u
  BY <1>1 DEF Offsets
<1> QED BY ONLY <1>2, d \in Nat \ {0}, QuotientUnique

LEMMA SlotIn ==
  ASSUME NEW b \in Blocks, NEW o \in Offsets
  PROVE  b * BlockSize + o \in Slots
<1>1. PICK d \in Nat \ {0} : d = BlockSize
  BY SizesAssumption
<1>2. PICK n \in Nat \ {0} : n = NumBlocks
  BY SizesAssumption
<1>3. b \in Nat /\ b < n /\ o \in 0 .. d - 1
  BY <1>1, <1>2 DEF Blocks, Offsets
<1>4. b * d \in Nat /\ n * d \in Nat /\ b * d < n * d
  BY <1>3
<1>5. b * d + d <= n * d
  BY ONLY <1>3, <1>4, d \in Nat \ {0}, n \in Nat \ {0}, ProductGap
<1>6. b * d + o \in 0 .. n * d - 1
  BY ONLY <1>3, <1>4, <1>5, d \in Nat \ {0}
<1> QED BY <1>1, <1>2, <1>6 DEF Slots

\* the tokens of a full block, by their positions
LEMMA FullBlock ==
  ASSUME SameSizes, tokens \in [Seqs -> Seq(Tokens)], NEW s \in Seqs,
         NEW i \in 1 .. NumBlocksOf(s), Len(BlockTokens(s, i)) = BlockSize, NEW o \in Offsets
  PROVE  At(i, o) < Length(s) /\ BlockTokens(s, i)[o + 1] = tokens[s][At(i, o) + 1]
<1>1. PICK d \in Nat \ {0} : d = BlockSize /\ d = SeqBlockSize
  BY SizesAssumption DEF SameSizes
<1>2. i \in Nat \ {0} /\ i * d <= Length(s)
  <2>1. i * SeqBlockSize <= Length(s)
    BY BlockTokensLength DEF SameSizes
  <2> QED BY <1>1, <2>1, NumBlocksOfNat
<1>3. PICK m \in Nat, n \in Nat : m = (i - 1) * d /\ i * d = m + d /\ n = Length(s) /\ n = Len(tokens[s])
  <2>1. (i - 1) * d \in Nat /\ i * d = (i - 1) * d + d
    BY <1>2
  <2>2. Length(s) = Len(tokens[s]) /\ Len(tokens[s]) \in Nat
    BY LenProperties DEF Length
  <2> QED BY ONLY <2>1, <2>2
<1>4. BlockEnd(s, i) = m + d
  <2>1. BlockEnd(s, i) = Min({m + d, n})
    BY <1>1, <1>3 DEF BlockEnd
  <2>2. m + d \in Int /\ n \in Int /\ m + d <= n
    BY <1>2, <1>3
  <2>3. Min({m + d, n}) \in {m + d, n} /\ Min({m + d, n}) <= m + d
    BY ONLY <2>2, MinOfTwo
  <2> QED BY ONLY <2>1, <2>2, <2>3
<1>5. BlockTokens(s, i) = SubSeq(tokens[s], m + 1, m + d)
  BY <1>1, <1>3, <1>4 DEF BlockTokens
<1>6. o \in 0 .. d - 1 /\ At(i, o) = m + o
  BY <1>1, <1>3 DEF Offsets, At
<1>7. m + d <= n
  BY ONLY <1>2, <1>3
<1>8. SubSeq(tokens[s], m + 1, m + d)[o + 1] = tokens[s][m + o + 1]
  <2>1. tokens[s] \in Seq(Tokens) /\ Len(tokens[s]) = n
    BY <1>3
  <2>2. /\ m + 1 \in 1 .. n + 1 /\ m + d \in m + 1 - 1 .. n /\ o + 1 \in 1 .. m + d - (m + 1) + 1
        /\ m + 1 + (o + 1) - 1 = m + o + 1
    BY ONLY <1>6, <1>7, m \in Nat, n \in Nat, d \in Nat \ {0}
  <2>3. SubSeq(tokens[s], m + 1, m + d)[o + 1] = tokens[s][m + 1 + (o + 1) - 1]
    BY ONLY <2>1, <2>2, SubSeqProperties
  <2> QED BY <2>2, <2>3
<1>9. m + o < n
  BY ONLY <1>6, <1>7, m \in Nat, n \in Nat, d \in Nat \ {0}
<1> QED BY <1>3, <1>5, <1>6, <1>8, <1>9


-----------------------------------------------------------------------------
(* What allocate and may_append publish                                    *)

LEMMA PublishTokens ==
  ASSUME Published, NEW b \in Blocks, NEW h \in Seq(Tokens), NEW t \in Seq(Tokens),
         Publish(b, h, t)
  PROVE  /\ hash'[b] = h /\ \A c \in Blocks \ {b} : hash'[c] = hash[c] /\ toks'[c] = toks[c]
         /\ h # NoHash => toks'[b] = t
  BY DEF Published, Publish

\* the block that may_append publishes is open, held by one table only, and
\* holds the last tokens of its sequence
Fills(s, b) ==
  /\ b = LastBlock(s) /\ table' = table /\ hash[b] = NoHash
  /\ Len(table[s]) = NumBlocksOf(s) /\ NumBlocksOf(s) \in 1 .. NumBlocksOf(s)
  /\ Len(BlockTokens(s, NumBlocksOf(s))) = BlockSize
  /\ \E h \in Seq(Tokens) \ {NoHash} : Publish(b, h, BlockTokens(s, NumBlocksOf(s)))

Extends(s, b) ==
  /\ b \notin used /\ Publish(b, NoHash, << >>) /\ table' = [table EXCEPT ![s] = Append(@, b)]

LEMMA DecodeAppendFills ==
  ASSUME SameSizes, Inv, Tidy, Fitting, DecodeAppend
  PROVE  \E s \in Seqs, b \in Blocks :
           /\ pc = "decode" /\ s = Head(running) /\ Occurs(s, running) /\ table[s] # << >>
           /\ status[s] = "RUNNING" /\ ~Occurs(s, scheduled) /\ Length(s) \in Nat \ {0}
           /\ scheduled' = Append(scheduled, s)
           /\ UNCHANGED <<tokens, waiting, status, pc, cached>>
           /\ \/ Extends(s, b) /\ (Length(s) % BlockSize) = 1
              \/ Fills(s, b) /\ (Length(s) % BlockSize) # 1
              \/ UNCHANGED <<table, hash, toks, index>> /\ (Length(s) % BlockSize) # 1
<1>0. /\ Accounted /\ Published /\ tokens \in [Seqs -> Seq(Tokens)]
      /\ running \in Seq(Seqs) /\ scheduled \in Seq(Seqs) /\ running # << >>
  BY InvAccounted DEF Inv, TypeOK, DecodeAppend, Decoding
<1>1. PICK s \in Seqs : s = Head(running) /\ Occurs(s, running)
  BY <1>0, HeadType, OccursHeadTail
<1>2. /\ MayAppend(s) /\ CanAppend(s) /\ AppendAssert(s) /\ pc = "decode"
      /\ scheduled' = Append(scheduled, s) /\ UNCHANGED <<tokens, waiting, status, pc, cached>>
  BY <1>1 DEF DecodeAppend, Decoding, MayAppend
<1>3. table[s] # << >> /\ tokens[s] # << >> /\ ~Leaving(s)
  <2>1. Serving(s) /\ ~Leaving(s) /\ Queued(s)
    BY <1>1, <1>2 DEF Serving, Leaving, Queued
  <2> QED BY <2>1 DEF Inv, Rooted, Numbered
<1>4. status[s] = "RUNNING"
  BY <1>1, <1>3 DEF Tidy, Served, InService
<1>5. ~Occurs(s, scheduled)
  <2>1. \A j \in 1 .. Len(scheduled), k \in 1 .. Len(running) : scheduled[j] < running[k]
    BY <1>2, LineSorted
  <2>2. ~(s < s)
    BY SizesAssumption
  <2> QED BY <1>1, <2>1, <2>2 DEF Occurs
<1>6. PICK n \in Nat \ {0} : n = Length(s)
  BY <1>0, <1>3, NumBlocksOfNat
<1>7. n - 1 \in Nat \ {0} /\ Len(table[s]) = BlocksFor(n - 1)
  BY <1>4, <1>5, <1>6 DEF Fitting, Fits, Due
<1>8. LastBlock(s) \in Blocks
  BY <1>0, <1>3, FrontProperties DEF Accounted, LastBlock
<1>9. CASE NeedsBlock(s)
  <2>1. free \in Seq(Blocks) /\ Len(free) > 0
    BY <1>0, <1>2, <1>9 DEF Accounted, CanAppend
  <2>2. PICK b \in Blocks : b = free[1]
    BY <2>1
  <2>3. Publish(b, NoHash, << >>) /\ table' = [table EXCEPT ![s] = Append(@, b)]
    BY <1>2, <1>9, <2>2 DEF MayAppend
  <2>4. b \notin used
    BY <1>0, <2>1, <2>2 DEF Accounted, Partitioned
  <2>5. Extends(s, b) /\ (Length(s) % BlockSize) = 1
    BY <1>9, <2>3, <2>4 DEF Extends, NeedsBlock
  <2> QED BY ONLY <1>1, <1>2, <1>3, <1>4, <1>5, <1>6, <2>5
<1>10. CASE ~NeedsBlock(s) /\ FillsBlock(s)
  <2> DEFINE t == BlockTokens(s, NumBlocksOf(s))
             prefix == IF Len(table[s]) > 1 THEN hash[table[s][Len(table[s]) - 1]] ELSE NoHash
  <2>1. Publish(LastBlock(s), prefix \o t, t) /\ table' = table
    BY <1>2, <1>10 DEF MayAppend
  <2>2. PICK b \in Blocks : b = LastBlock(s)
    BY <1>8
  <2>3. hash[b] = NoHash
    BY <1>2, <1>10, <2>2 DEF AppendAssert
  <2>4. Len(table[s]) = NumBlocksOf(s) /\ NumBlocksOf(s) \in 1 .. NumBlocksOf(s)
    <3>1. BlocksFor(n) = BlocksFor(n - 1)
      BY <1>6, <1>10, BlocksForNext DEF NeedsBlock
    <3>2. BlocksFor(n) \in Nat \ {0}
      BY <1>6, BlocksForNat
    <3> QED BY <1>6, <1>7, <3>1, <3>2 DEF NumBlocksOf
  <2>5. Len(t) = BlockSize
    <3>1. NumBlocksOf(s) * BlockSize <= Length(s)
      BY <1>6, <1>10, BlocksForNext DEF FillsBlock, NumBlocksOf
    <3>2. NumBlocksOf(s) * SeqBlockSize <= Length(s)
      BY <3>1 DEF SameSizes
    <3>3. Len(t) = SeqBlockSize
      BY ONLY <1>0, <2>4, <3>2, s \in Seqs, BlockTokensLength
    <3> QED BY <3>3 DEF SameSizes
  <2>6. t \in Seq(Tokens)
    <3>1. NumBlocksOf(s) \in Nat \ {0}
      BY ONLY <1>0, <1>3, s \in Seqs, NumBlocksOfNat
    <3> QED BY ONLY <1>0, <3>1, s \in Seqs, BlockTokensType
  <2>7. prefix \in Seq(Tokens)
    <3>1. CASE Len(table[s]) > 1
      <4>1. table[s][Len(table[s]) - 1] \in Blocks
        BY <1>0, <3>1 DEF Accounted
      <4> QED BY <1>0, <3>1, <4>1 DEF Published
    <3>2. CASE ~(Len(table[s]) > 1)
      BY <3>2 DEF NoHash
    <3> QED BY <3>1, <3>2
  <2> HIDE DEF t, prefix
  <2>8. prefix \o t \in Seq(Tokens) /\ Len(prefix \o t) = Len(prefix) + Len(t)
    BY ONLY <2>6, <2>7, ConcatProperties
  <2>9. prefix \o t # NoHash
    <3>1. Len(prefix) \in Nat /\ Len(t) \in Nat /\ BlockSize \in Nat \ {0}
      BY <2>6, <2>7, SizesAssumption
    <3>2. Len(prefix \o t) # 0
      BY ONLY <2>5, <2>8, <3>1
    <3> QED BY ONLY <3>2 DEF NoHash
  <2>10. PICK h \in Seq(Tokens) \ {NoHash} : h = prefix \o t
    BY ONLY <2>8, <2>9
  <2>11. Publish(b, h, t)
    BY ONLY <2>1, <2>2, <2>10
  <2>12. Fills(s, b)
    BY ONLY <2>1, <2>2, <2>3, <2>4, <2>5, <2>11 DEF Fills, t
  <2>13. (Length(s) % BlockSize) # 1
    BY ONLY <1>10 DEF NeedsBlock
  <2> QED BY ONLY <1>1, <1>2, <1>3, <1>4, <1>5, <1>6, <2>12, <2>13
<1>11. CASE ~NeedsBlock(s) /\ ~FillsBlock(s)
  <2>1. UNCHANGED <<table, hash, toks, index>>
    BY <1>2, <1>11 DEF MayAppend
  <2>2. (Length(s) % BlockSize) # 1
    BY ONLY <1>11 DEF NeedsBlock
  <2> QED BY ONLY <1>1, <1>2, <1>3, <1>4, <1>5, <1>6, <1>8, <2>1, <2>2
<1> QED BY <1>9, <1>10, <1>11

\* a sequence that holds a block keeps the tokens it has
TokensKept(s) == /\ Length(s) \in Nat /\ Length(s)' \in Nat /\ Length(s) <= Length(s)'
                 /\ \A k \in 1 .. Length(s) : tokens'[s][k] = tokens[s][k]

LEMMA PrefixKept ==
  ASSUME Inv, NoLeak, [SchedNext]_vars, NEW s \in Seqs, table[s] # << >>
  PROVE  TokensKept(s)
<1>0. tokens \in [Seqs -> Seq(Tokens)] /\ status \in [Seqs -> Statuses] /\ scheduled \in Seq(Seqs)
  BY DEF Inv, TypeOK
<1>1. Length(s) \in Nat /\ Holding(s)
  BY <1>0 DEF Length, NoLeak
<1>2. CASE tokens' = tokens
  BY <1>1, <1>2 DEF Length, TokensKept
<1>3. ASSUME NEW r \in Seqs, NEW p \in Prompts, AddRequest(r, p)
      PROVE  TokensKept(s)
  <2>1. tokens' = [tokens EXCEPT ![r] = p] /\ pc = "idle" /\ status[r] = "NONE"
    BY <1>3 DEF AddRequest
  <2>2. r # s
    BY <1>1, <2>1 DEF Holding
  <2> QED BY <1>0, <1>1, <2>1, <2>2 DEF Length, TokensKept
<1>4. ASSUME NEW t \in Tokens, Sampled(t)
      PROVE  TokensKept(s)
  <2>1. Head(scheduled) \in Seqs /\ tokens' = [tokens EXCEPT ![Head(scheduled)] = Append(@, t)]
    BY <1>0, <1>4, HeadType DEF Sampled, Inv, Nonempty
  <2>2. tokens'[s] = tokens[s] \/ tokens'[s] = Append(tokens[s], t)
    BY <1>0, <2>1
  <2>3. PICK q \in Seq(Tokens) : q = tokens[s]
    BY <1>0
  <2>4. \/ tokens'[s] = q
        \/ tokens'[s] = Append(q, t) /\ Len(Append(q, t)) = Len(q) + 1
           /\ \A k \in 1 .. Len(q) : Append(q, t)[k] = q[k]
    BY <2>2, <2>3, AppendProperties
  <2>5. Len(q) \in Nat /\ Len(q) <= Len(tokens'[s]) /\ Len(tokens'[s]) \in Nat
        /\ \A k \in 1 .. Len(q) : tokens'[s][k] = q[k]
    BY <2>3, <2>4
  <2> QED BY <2>3, <2>5 DEF Length, TokensKept
<1>5. \/ tokens' = tokens
      \/ \E r \in Seqs, p \in Prompts : AddRequest(r, p)
      \/ \E t \in Tokens : Sampled(t)
  BY DEF SchedNext, Prefill, Decode, Postprocess, Terminated, Step, Admit, AllocBlock, Admitted,
         PrefillDone, DecodeAppend, Preempt, PreemptBlock, Preempted, DecodeDone, DecodeFails,
         Forward, FinishBlock, Finished, vars, managerVars
<1> QED BY <1>2, <1>3, <1>4, <1>5


-----------------------------------------------------------------------------
(* Who writes a slot                                                       *)

\* a published block has the tokens that each sequence holding it has there
Matches(s, i) ==
  \A o \in Offsets : /\ At(i, o) < Length(s)
                     /\ toks[table[s][i]][o + 1] = tokens[s][At(i, o) + 1]
Matching == \A s \in Seqs : \A i \in 1 .. Len(table[s]) :
              hash[table[s][i]] # NoHash => Matches(s, i)

\* the blocks that a sequence computes itself, beyond what it found published,
\* have one owner
Owner(s, i) == At(i, 0) >= cached[s]
OneOwner == \A r, s \in Seqs : \A i \in 1 .. Len(table[r]), j \in 1 .. Len(table[s]) :
              table[r][i] = table[s][j] /\ Owner(r, i) /\ Owner(s, j) => r = s /\ i = j

Stepping == pc \in {"decode", "preempt"} \/ (pc = "run" /\ ~prefill)

\* the last token of a sequence is not cached when a decode computes it
Ahead == \A s \in Seqs : status[s] = "RUNNING" =>
           cached[s] < Length(s) \/ (Occurs(s, scheduled) /\ ~Stepping)

\* what allocate has found is what it has put into the table, until it misses
Contiguous == pc = "alloc" /\ ~miss =>
                cached[Head(waiting)] = Len(table[Head(waiting)]) * BlockSize

LEMMA MatchesKept ==
  ASSUME NEW s \in Seqs, NEW i \in Nat \ {0}, Matches(s, i), TokensKept(s),
         table'[s][i] = table[s][i], toks'[table[s][i]] = toks[table[s][i]]
  PROVE  Matches(s, i)'
<1>1. ASSUME NEW o \in Offsets
      PROVE  At(i, o) < Length(s)' /\ toks'[table'[s][i]][o + 1] = tokens'[s][At(i, o) + 1]
  <2>1. PICK p \in Nat, n \in Nat, m \in Nat : p = At(i, o) /\ n = Length(s) /\ m = Length(s)'
    BY AtNat DEF TokensKept
  <2>2. p < n /\ n <= m
    BY <2>1 DEF Matches, TokensKept
  <2>3. p < m /\ p + 1 \in 1 .. n
    BY ONLY <2>2, p \in Nat, n \in Nat, m \in Nat
  <2>4. tokens'[s][p + 1] = tokens[s][p + 1]
    BY <2>1, <2>3 DEF TokensKept
  <2> QED BY <2>1, <2>3, <2>4 DEF Matches
<1> QED BY <1>1 DEF Matches, Offsets, At

LEMMA FullMatches ==
  ASSUME SameSizes, tokens \in [Seqs -> Seq(Tokens)], NEW s \in Seqs,
         NEW i \in 1 .. NumBlocksOf(s), Len(BlockTokens(s, i)) = BlockSize,
         toks[table[s][i]] = BlockTokens(s, i)
  PROVE  Matches(s, i)
  BY FullBlock DEF Matches

LEMMA TableShrinks ==
  ASSUME table \in [Seqs -> Seq(Blocks)],
         \/ table' = table
         \/ \E s \in Seqs : table[s] # << >> /\ table' = [table EXCEPT ![s] = Front(@)],
         NEW r \in Seqs, NEW j \in 1 .. Len(table'[r])
  PROVE  j \in 1 .. Len(table[r]) /\ table'[r][j] = table[r][j]
<1>1. CASE table' = table
  BY <1>1
<1>2. CASE table' # table
  <2>1. PICK s \in Seqs : table[s] # << >> /\ table' = [table EXCEPT ![s] = Front(@)]
    BY <1>2
  <2>2. CASE r # s
    BY <2>1, <2>2
  <2>3. CASE r = s
    <3>1. PICK q \in Seq(Blocks) : q = table[s] /\ q # << >> /\ table'[r] = Front(q)
      BY <2>1, <2>3
    <3>2. Len(Front(q)) = Len(q) - 1 /\ \A i \in 1 .. Len(q) - 1 : Front(q)[i] = q[i]
      BY ONLY <3>1, FrontProperties
    <3> QED BY <2>3, <3>1, <3>2
  <2> QED BY <2>2, <2>3
<1> QED BY <1>1, <1>2

LEMMA MatchingStep ==
  ASSUME SameSizes, Inv, Tidy, Fitting, Matching, [SchedNext]_vars
  PROVE  Matching'
<1>0. /\ Accounted /\ Published /\ tokens \in [Seqs -> Seq(Tokens)] /\ table \in [Seqs -> Seq(Blocks)]
      /\ Keyed /\ NoLeak /\ Alone
  BY InvAccounted DEF Inv, TypeOK, Tidy
<1>1. CASE AllocBlock
  <2>1. PICK s \in Seqs, i \in Nat \ {0}, b \in Blocks : AllocShape(s, i, b) /\ Looked(s, i, b)
    BY <1>0, <1>1, AllocBlockLookup
  <2>2. /\ i = Len(table[s]) + 1 /\ i \in 1 .. NumBlocksOf(s)
        /\ Publish(b, PrefixHash(s, i), BlockTokens(s, i))
        /\ table' = [table EXCEPT ![s] = Append(@, b)] /\ tokens' = tokens
    BY <2>1 DEF AllocShape
  <2>3. BlockTokens(s, i) \in Seq(Tokens) /\ PrefixHash(s, i) \in Seq(Tokens)
    BY <1>0, BlockTokensType
  <2>4. /\ hash'[b] = PrefixHash(s, i)
        /\ \A c \in Blocks \ {b} : hash'[c] = hash[c] /\ toks'[c] = toks[c]
        /\ PrefixHash(s, i) # NoHash => toks'[b] = BlockTokens(s, i)
    BY ONLY <1>0, <2>2, <2>3, b \in Blocks, PublishTokens
  <2>5. ASSUME NEW r \in Seqs, NEW j \in 1 .. Len(table'[r]), hash'[table'[r][j]] # NoHash
        PROVE  Matches(r, j)'
    <3>1. j \in Nat \ {0}
      BY <1>0, <2>2
    <3>2. CASE j \in 1 .. Len(table[r])
      <4>1. table'[r][j] = table[r][j]
        BY <1>0, <2>2, <3>2
      <4>2. table[r] # << >>
        BY <3>2
      <4>3. TokensKept(r)
        BY <1>0, <4>2, PrefixKept
      <4>4. PICK c \in Blocks : c = table[r][j] /\ c \in used
        BY <1>0, <3>2, HeldUsed
      <4>5. hash[c] # NoHash /\ toks'[c] = toks[c]
        <5>1. CASE c # b
          BY <2>4, <2>5, <4>1, <4>4, <5>1
        <5>2. CASE c = b
          BY <2>1, <2>4, <4>4, <5>2 DEF Looked
        <5> QED BY <5>1, <5>2
      <4>6. Matches(r, j)
        BY <3>2, <4>4, <4>5 DEF Matching
      <4> QED BY <3>1, <4>1, <4>3, <4>4, <4>5, <4>6, MatchesKept
    <3>3. CASE j \notin 1 .. Len(table[r])
      <4>1. r = s /\ j = i /\ table'[s][i] = b
        BY <1>0, <2>2, <3>3
      <4>2. PrefixHash(s, i) # NoHash
        BY <2>4, <2>5, <4>1
      <4>3. Len(BlockTokens(s, i)) = BlockSize
        BY ONLY <1>0, <2>2, <4>2, s \in Seqs, PrefixHashFull
      <4>4. toks'[b] = BlockTokens(s, i)
        BY <2>4, <4>2
      <4>5. \A o \in Offsets : At(i, o) < Length(s) /\ BlockTokens(s, i)[o + 1] = tokens[s][At(i, o) + 1]
        BY <1>0, <2>2, <4>3, FullBlock
      <4> QED BY <2>2, <4>1, <4>4, <4>5 DEF Matches, Length, Offsets, At
    <3> QED BY <3>2, <3>3
  <2> QED BY <2>5 DEF Matching
<1>2. CASE DecodeAppend
  <2>1. PICK s \in Seqs, b \in Blocks :
           /\ pc = "decode" /\ s = Head(running) /\ Occurs(s, running) /\ table[s] # << >>
           /\ tokens' = tokens
           /\ \/ Extends(s, b) \/ Fills(s, b) \/ UNCHANGED <<table, hash, toks, index>>
    BY <1>2, DecodeAppendFills
  <2>2. ASSUME NEW r \in Seqs, NEW j \in 1 .. Len(table[r]), NEW c \in Blocks, c = table[r][j],
               table'[r][j] = c, hash[c] # NoHash, toks'[c] = toks[c]
        PROVE  Matches(r, j)'
    <3>1. j \in Nat \ {0} /\ table[r] # << >>
      BY <1>0
    <3>2. TokensKept(r)
      BY <1>0, <3>1, PrefixKept
    <3>3. Matches(r, j)
      BY <2>2 DEF Matching
    <3> QED BY <2>2, <3>1, <3>2, <3>3, MatchesKept
  <2>3. CASE Extends(s, b)
    <3>0. << >> \in Seq(Tokens) /\ NoHash \in Seq(Tokens)
      BY DEF NoHash
    <3>1. hash'[b] = NoHash /\ \A c \in Blocks \ {b} : hash'[c] = hash[c] /\ toks'[c] = toks[c]
      BY ONLY <1>0, <2>3, <3>0, b \in Blocks, PublishTokens DEF Extends
    <3>2. ASSUME NEW r \in Seqs, NEW j \in 1 .. Len(table'[r]), hash'[table'[r][j]] # NoHash
          PROVE  Matches(r, j)'
      <4>1. j \in 1 .. Len(table[r]) /\ table'[r][j] = table[r][j]
        BY <1>0, <2>3, <3>1, <3>2 DEF Extends
      <4>2. PICK c \in Blocks : c = table[r][j] /\ c \in used
        BY <1>0, <4>1, HeldUsed
      <4>3. c # b
        BY <2>3, <4>2 DEF Extends
      <4> QED BY <2>2, <3>1, <3>2, <4>1, <4>2, <4>3
    <3> QED BY <3>2 DEF Matching
  <2>4. CASE Fills(s, b)
    <3>1. PICK i, t : /\ i \in Nat \ {0} /\ i = NumBlocksOf(s) /\ i \in 1 .. NumBlocksOf(s) /\ i = Len(table[s])
                       /\ t = BlockTokens(s, i) /\ Len(t) = BlockSize
      BY <2>4 DEF Fills
    <3>2. t \in Seq(Tokens)
      BY <1>0, <3>1, BlockTokensType
    <3>3. PICK h \in Seq(Tokens) \ {NoHash} : Publish(b, h, t)
      BY <2>4, <3>1 DEF Fills
    <3>4. hash'[b] # NoHash /\ toks'[b] = t /\ \A c \in Blocks \ {b} : hash'[c] = hash[c] /\ toks'[c] = toks[c]
      BY ONLY <1>0, <3>2, <3>3, b \in Blocks, PublishTokens
    <3>5. b = table[s][i] /\ i \in 1 .. Len(table[s]) /\ hash[b] = NoHash /\ table' = table
      BY <1>0, <2>1, <2>4, <3>1, LastHeld DEF Fills
    <3>6. ASSUME NEW r \in Seqs, NEW j \in 1 .. Len(table'[r]), hash'[table'[r][j]] # NoHash
          PROVE  Matches(r, j)'
      <4>1. PICK c \in Blocks : c = table[r][j] /\ j \in 1 .. Len(table[r])
        BY <1>0, <3>5
      <4>2. CASE c # b
        BY <2>2, <3>4, <3>5, <3>6, <4>1, <4>2
      <4>3. CASE c = b
        <5>1. r = s /\ j = i
          BY <1>0, <3>5, <4>1, <4>3 DEF Alone
        <5>2. \A o \in Offsets : At(i, o) < Length(s) /\ t[o + 1] = tokens[s][At(i, o) + 1]
          BY <1>0, <3>1, FullBlock
        <5> QED BY <2>1, <3>4, <3>5, <5>1, <5>2 DEF Matches, Length, Offsets, At
      <4> QED BY <4>2, <4>3
    <3> QED BY <3>6 DEF Matching
  <2>5. CASE UNCHANGED <<table, hash, toks, index>>
    <3>1. ASSUME NEW r \in Seqs, NEW j \in 1 .. Len(table'[r]), hash'[table'[r][j]] # NoHash
          PROVE  Matches(r, j)'
      <4>1. PICK c \in Blocks : c = table[r][j] /\ j \in 1 .. Len(table[r])
        BY <1>0, <2>5
      <4> QED BY <2>2, <2>5, <3>1, <4>1
    <3> QED BY <3>1 DEF Matching
  <2> QED BY <2>1, <2>3, <2>4, <2>5
<1>3. CASE ~AllocBlock /\ ~DecodeAppend
  <2>1. /\ UNCHANGED <<hash, toks, index>>
        /\ table' = table \/ \E s \in Seqs : table[s] # << >> /\ table' = [table EXCEPT ![s] = Front(@)]
    BY <1>3, Elsewhere
  <2>2. ASSUME NEW r \in Seqs, NEW j \in 1 .. Len(table'[r]), hash'[table'[r][j]] # NoHash
        PROVE  Matches(r, j)'
    <3>1. j \in 1 .. Len(table[r]) /\ table'[r][j] = table[r][j]
      BY <1>0, <2>1, TableShrinks
    <3>2. Matches(r, j)
      BY <2>1, <2>2, <3>1 DEF Matching
    <3>3. j \in Nat \ {0} /\ table[r] # << >>
      BY <1>0, <3>1
    <3>4. TokensKept(r)
      BY <1>0, <3>3, PrefixKept
    <3> QED BY <2>1, <3>1, <3>2, <3>3, <3>4, MatchesKept
  <2> QED BY <2>2 DEF Matching
<1> QED BY <1>1, <1>2, <1>3


LEMMA OneOwnerStep ==
  ASSUME SameSizes, Inv, Tidy, Fitting, Reuse, Contiguous, OneOwner, [SchedNext]_vars
  PROVE  OneOwner'
<1>0. /\ Accounted /\ Published /\ tokens \in [Seqs -> Seq(Tokens)] /\ table \in [Seqs -> Seq(Blocks)]
      /\ cached \in [Seqs -> Nat] /\ Keyed /\ NoLeak /\ Alone
  BY InvAccounted DEF Inv, TypeOK, Tidy
<1> DEFINE Kept(r, j) == j \in 1 .. Len(table[r]) /\ table'[r][j] = table[r][j] /\ Owner(r, j)
<1>1. ASSUME \A r \in Seqs : \A j \in 1 .. Len(table'[r]) : Owner(r, j)' => Kept(r, j)
      PROVE  OneOwner'
  BY <1>1 DEF OneOwner
\* the new entry of s is its last one, and its block was free
<1>2. ASSUME NEW s \in Seqs, NEW b \in Blocks, b \notin used, cached' = cached,
             table' = [table EXCEPT ![s] = Append(@, b)]
      PROVE  OneOwner'
  <2> DEFINE New(r, j) == r = s /\ j = Len(table[s]) + 1 /\ table'[r][j] = b
  <2>1. ASSUME NEW r \in Seqs, NEW j \in 1 .. Len(table'[r]), Owner(r, j)'
        PROVE  \/ Kept(r, j) /\ table'[r][j] # b
               \/ New(r, j)
    <3>1. CASE j \in 1 .. Len(table[r])
      <4>1. table'[r][j] = table[r][j]
        BY <1>0, <1>2, <3>1
      <4>2. table[r][j] \in used
        BY <1>0, <3>1, HeldUsed
      <4>3. Owner(r, j)
        BY <1>2, <2>1 DEF Owner, At
      <4> QED BY <1>2, <3>1, <4>1, <4>2, <4>3
    <3>2. CASE j \notin 1 .. Len(table[r])
      BY <1>0, <1>2, <3>2
    <3> QED BY <3>1, <3>2
  <2>2. ASSUME NEW r \in Seqs, NEW t \in Seqs, NEW i \in 1 .. Len(table'[r]), NEW j \in 1 .. Len(table'[t]),
               table'[r][i] = table'[t][j], Owner(r, i)', Owner(t, j)'
        PROVE  r = t /\ i = j
    <3>1. (Kept(r, i) /\ table'[r][i] # b) \/ New(r, i)
      BY <2>1, <2>2
    <3>2. (Kept(t, j) /\ table'[t][j] # b) \/ New(t, j)
      BY <2>1, <2>2
    <3> QED BY <2>2, <3>1, <3>2 DEF OneOwner
  <2> QED BY <2>2 DEF OneOwner
<1>3. CASE AllocBlock
  <2>1. PICK s \in Seqs, i \in Nat \ {0}, b \in Blocks : AllocShape(s, i, b) /\ Looked(s, i, b)
    BY <1>0, <1>3, AllocBlockLookup
  <2>2. /\ i = Len(table[s]) + 1 /\ pc = "alloc" /\ s = Head(waiting)
        /\ table' = [table EXCEPT ![s] = Append(@, b)]
    BY <2>1 DEF AllocShape
  <2>3. CASE b \notin used /\ cached' = cached
    BY <1>2, <2>2, <2>3
  <2>4. CASE ~miss /\ cached' = [cached EXCEPT ![s] = @ + BlockSize]
    <3>1. PICK d \in Nat \ {0}, m \in Nat, e \in Nat : d = BlockSize /\ m = cached[s] /\ e = Len(table[s])
      <4>1. BlockSize \in Nat \ {0} /\ cached[s] \in Nat /\ Len(table[s]) \in Nat
        BY <1>0, SizesAssumption
      <4> QED BY <4>1
    <3>2. m = e * d /\ i = e + 1 /\ cached'[s] = m + d
      BY <1>0, <2>2, <2>4, <3>1 DEF Contiguous
    <3>3. ~Owner(s, i)'
      <4>1. At(i, 0) = e * d + 0
        BY <3>1, <3>2 DEF At
      <4>2. ~(e * d + 0 >= m + d)
        BY ONLY <3>2, e * d \in Nat, d \in Nat \ {0}
      <4>3. Owner(s, i)' <=> At(i, 0) >= cached'[s]
        BY <3>1 DEF Owner, At
      <4> QED BY <3>2, <4>1, <4>2, <4>3
    <3>4. ASSUME NEW r \in Seqs, NEW j \in 1 .. Len(table'[r]), Owner(r, j)'
          PROVE  Kept(r, j)
      <4>1. j \in 1 .. Len(table[r])
        BY <1>0, <2>2, <3>3, <3>4
      <4>2. table'[r][j] = table[r][j] /\ j \in Nat \ {0}
        BY <1>0, <2>2, <4>1
      <4>3. At(j, 0) \in Nat
        BY <4>2, AtStart
      <4>4. cached'[r] >= cached[r] /\ cached'[r] \in Nat /\ cached[r] \in Nat
        <5>1. CASE r = s
          <6>1. cached'[r] = m + d /\ cached[r] = m
            BY ONLY <3>1, <3>2, <5>1
          <6> QED BY ONLY <6>1, m \in Nat, d \in Nat \ {0}
        <5>2. CASE r # s
          <6>1. cached'[r] = cached[r] /\ cached[r] \in Nat
            BY <1>0, <2>4, <5>2
          <6> QED BY ONLY <6>1
        <5> QED BY <5>1, <5>2
      <4>5. At(j, 0) >= cached'[r]
        BY <3>4 DEF Owner, At
      <4>6. At(j, 0) >= cached[r]
        BY ONLY <4>3, <4>4, <4>5
      <4> QED BY <4>1, <4>2, <4>6 DEF Owner
    <3> QED BY <1>1, <3>4
  <2> QED BY <2>1, <2>3, <2>4 DEF Looked
<1>4. CASE DecodeAppend
  <2>1. PICK s \in Seqs, b \in Blocks :
           /\ cached' = cached
           /\ \/ Extends(s, b) \/ Fills(s, b) \/ UNCHANGED <<table, hash, toks, index>>
    BY <1>4, DecodeAppendFills
  <2>2. CASE Extends(s, b)
    BY <1>2, <2>1, <2>2 DEF Extends
  <2>3. CASE table' = table
    <3>1. \A r \in Seqs : \A j \in 1 .. Len(table'[r]) : Owner(r, j)' => Kept(r, j)
      BY <2>1, <2>3 DEF Owner, At
    <3> QED BY <1>1, <3>1
  <2> QED BY <2>1, <2>2, <2>3 DEF Fills
<1>5. CASE ~AllocBlock /\ ~DecodeAppend
  <2>1. table' = table \/ \E s \in Seqs : table[s] # << >> /\ table' = [table EXCEPT ![s] = Front(@)]
    BY <1>5, Elsewhere
  <2>2. \/ cached' = cached
        \/ \E s \in Seqs : table[s] = << >> /\ cached' = [cached EXCEPT ![s] = 0]
    <3>1. /\ Preempted => Last(running) \in Seqs /\ table[Last(running)] = << >>
          /\ Finished => Head(scheduled) \in Seqs /\ table[Head(scheduled)] = << >>
      <4>1. /\ running \in Seq(Seqs) /\ scheduled \in Seq(Seqs)
            /\ pc = "preempt" => running # << >>
            /\ pc = "finish" => scheduled # << >>
        BY DEF Inv, TypeOK, Nonempty
      <4> QED BY <4>1, HeadType, FrontProperties DEF Preempted, Finished, Freed
    <3> QED BY <1>5, <3>1, CachedChange
  <2>3. ASSUME NEW r \in Seqs, NEW j \in 1 .. Len(table'[r]), Owner(r, j)'
        PROVE  Kept(r, j)
    <3>1. j \in 1 .. Len(table[r]) /\ table'[r][j] = table[r][j]
      BY <1>0, <2>1, TableShrinks
    <3>2. cached'[r] = cached[r]
      <4>1. table[r] # << >>
        BY <1>0, <3>1
      <4> QED BY <1>0, <2>2, <4>1
    <3> QED BY <2>3, <3>1, <3>2 DEF Owner, At
  <2> QED BY <1>1, <2>3
<1> QED BY <1>3, <1>4, <1>5


\* the sequence that an iteration retires, frees or admits
LEMMA HeadsTyped ==
  ASSUME Inv
  PROVE  /\ running \in Seq(Seqs) /\ scheduled \in Seq(Seqs) /\ waiting \in Seq(Seqs)
         /\ pc = "preempt" => running # << >> /\ Last(running) \in Seqs
         /\ pc \in {"run", "post", "finish"} => scheduled # << >> /\ Head(scheduled) \in Seqs
         /\ pc = "alloc" => waiting # << >> /\ Head(waiting) \in Seqs
<1>1. /\ running \in Seq(Seqs) /\ scheduled \in Seq(Seqs) /\ waiting \in Seq(Seqs)
      /\ pc = "alloc" => waiting # << >>
      /\ pc = "preempt" => running # << >>
      /\ pc \in {"run", "post", "finish"} => scheduled # << >>
  BY DEF Inv, TypeOK, Nonempty
<1> QED BY <1>1, HeadType, FrontProperties

LEMMA ContiguousStep ==
  ASSUME SameSizes, Inv, Tidy, Reuse, Contiguous, [SchedNext]_vars
  PROVE  Contiguous'
<1>0. /\ table \in [Seqs -> Seq(Blocks)] /\ cached \in [Seqs -> Nat] /\ waiting \in Seq(Seqs)
      /\ Keyed /\ NoLeak /\ Served /\ BlockSize \in Nat \ {0}
  BY SizesAssumption DEF Inv, TypeOK, Tidy
<1> SUFFICES ASSUME pc' = "alloc", ~miss'
             PROVE  cached'[Head(waiting')] = Len(table'[Head(waiting')]) * BlockSize
  BY DEF Contiguous
<1>1. CASE UNCHANGED vars
  BY <1>1 DEF vars, managerVars, queueVars, Contiguous
<1>2. CASE Admit
  <2>1. PICK s \in Seqs : /\ s = Head(waiting) /\ waiting' = waiting /\ Occurs(s, waiting)
                          /\ UNCHANGED <<cached, table>> /\ pc = "admit"
    BY <1>0, <1>2, HeadType, OccursHeadTail DEF Admit, Admissible, managerVars, queueVars
  <2>2. ~Holding(s)
    BY <1>0, <2>1 DEF Served, Holding
  <2>3. table[s] = << >> /\ cached[s] = 0
    BY <1>0, <2>2 DEF NoLeak, Reuse, Found
  <2>4. Len(table[s]) = 0 /\ 0 * BlockSize = 0
    BY <1>0, <2>3
  <2> QED BY <2>1, <2>3, <2>4
<1>3. CASE AllocBlock
  <2>1. PICK s \in Seqs, i \in Nat \ {0}, b \in Blocks : AllocShape(s, i, b) /\ Looked(s, i, b)
    BY <1>0, <1>3, AllocBlockLookup
  <2>2. /\ s = Head(waiting) /\ waiting' = waiting /\ pc = "alloc" /\ ~miss
        /\ table' = [table EXCEPT ![s] = Append(@, b)]
        /\ cached' = [cached EXCEPT ![s] = @ + BlockSize]
    BY <2>1 DEF AllocShape, Looked
  <2>3. PICK d \in Nat \ {0}, m \in Nat, e \in Nat : d = BlockSize /\ m = cached[s] /\ e = Len(table[s])
    <3>1. cached[s] \in Nat /\ Len(table[s]) \in Nat
      BY <1>0
    <3> QED BY <1>0, <3>1
  <2>4. m = e * d
    BY <2>2, <2>3 DEF Contiguous
  <2>5. Len(table'[s]) = e + 1 /\ cached'[s] = m + d
    BY <1>0, <2>2, <2>3
  <2>6. m + d = (e + 1) * d
    BY <2>4
  <2> QED BY <2>2, <2>3, <2>5, <2>6
<1>4. UNCHANGED vars \/ Admit \/ AllocBlock
  BY DEF SchedNext, Prefill, Decode, Postprocess, Terminated, AddRequest, Step,
     Admitted, PrefillDone, DecodeAppend, Decoding, Preempt, PreemptBlock, Preempted, DecodeDone,
     DecodeFails, Forward, Sampled, AfterPost, FinishBlock, Finished
<1> QED BY <1>1, <1>2, <1>3, <1>4


LEMMA CachedRunning ==
  ASSUME Inv, Tidy, [SchedNext]_vars, NEW s \in Seqs, status[s] = "RUNNING"
  PROVE  cached'[s] = cached[s]
<1>0. cached \in [Seqs -> Nat] /\ Served /\ Keyed
  BY DEF Inv, TypeOK, Tidy
<1>1. CASE AllocBlock
  <2>1. PICK r \in Seqs, i \in Nat \ {0}, b \in Blocks : AllocShape(r, i, b) /\ Looked(r, i, b)
    BY <1>0, <1>1, AllocBlockLookup
  <2>2. Occurs(r, waiting) /\ (cached' = cached \/ cached' = [cached EXCEPT ![r] = @ + BlockSize])
    BY <2>1 DEF AllocShape, Looked
  <2>3. status[r] = "WAITING"
    BY <1>0, <2>2 DEF Served
  <2>4. r # s
    BY <2>3
  <2> QED BY <1>0, <2>2, <2>4
<1>2. CASE Preempted /\ cached' = [cached EXCEPT ![Last(running)] = 0]
  <2>1. pc = "preempt" /\ status[Last(running)] = "WAITING"
    BY <1>0, <1>2 DEF Preempted, Served
  <2>2. Last(running) # s
    BY <2>1
  <2> QED BY <1>0, <1>2, <2>2
<1>3. CASE Finished /\ cached' = [cached EXCEPT ![Head(scheduled)] = 0]
  <2>1. pc = "finish" /\ status[Head(scheduled)] = "FINISHED"
    BY <1>0, <1>3 DEF Finished, Served
  <2>2. Head(scheduled) # s
    BY <2>1
  <2> QED BY <1>0, <1>3, <2>2
<1> QED BY <1>1, <1>2, <1>3, CachedChange

LEMMA AheadStep ==
  ASSUME SameSizes, Inv, Tidy, Reuse, Ahead, [SchedNext]_vars
  PROVE  Ahead'
<1>0. /\ tokens \in [Seqs -> Seq(Tokens)] /\ cached \in [Seqs -> Nat] /\ status \in [Seqs -> Statuses]
      /\ running \in Seq(Seqs) /\ scheduled \in Seq(Seqs) /\ waiting \in Seq(Seqs) /\ Served
  BY DEF Inv, TypeOK, Tidy
<1> SUFFICES ASSUME NEW s \in Seqs, status'[s] = "RUNNING"
             PROVE  (cached[s] < Length(s) \/ (Occurs(s, scheduled) /\ ~Stepping))'
  BY DEF Ahead
<1>1. ASSUME status[s] = "RUNNING", tokens'[s] = tokens[s],
             Occurs(s, scheduled) /\ ~Stepping => Occurs(s, scheduled)' /\ ~Stepping'
      PROVE  (cached[s] < Length(s) \/ (Occurs(s, scheduled) /\ ~Stepping))'
  <2>1. cached'[s] = cached[s]
    BY <1>1, CachedRunning
  <2>2. cached[s] < Length(s) \/ (Occurs(s, scheduled) /\ ~Stepping)
    BY <1>1 DEF Ahead
  <2> QED BY <1>1, <2>1, <2>2 DEF Length
<1>2. CASE UNCHANGED vars
  BY <1>1, <1>2 DEF vars, queueVars, managerVars, Stepping, Occurs
<1>3. ASSUME NEW r \in Seqs, NEW p \in Prompts, AddRequest(r, p)
      PROVE  (cached[s] < Length(s) \/ (Occurs(s, scheduled) /\ ~Stepping))'
  <2>1. r # s
    BY <1>0, <1>3 DEF AddRequest
  <2>2. status[s] = "RUNNING" /\ tokens'[s] = tokens[s]
    BY <1>0, <1>3, <2>1 DEF AddRequest
  <2> QED BY <1>1, <1>3, <2>2 DEF AddRequest, Stepping, Occurs
<1>4. CASE Step
  <2>1. ~Occurs(s, scheduled)
    BY <1>0, <1>4 DEF Step, Served, Occurs
  <2> QED BY <1>1, <1>4, <2>1 DEF Step
<1>5. CASE Admit \/ Preempt \/ PreemptBlock \/ Preempted \/ DecodeDone \/ FinishBlock \/ Forward
  <2>1. status[s] = "RUNNING"
    <3>1. CASE Preempt
      <4>1. Last(running) \in Seqs
        BY <1>0, <3>1, FrontProperties DEF Preempt, Decoding
      <4> QED BY <1>0, <3>1, <4>1 DEF Preempt
    <3>2. CASE ~Preempt
      BY <1>5, <3>2 DEF Admit, PreemptBlock, Preempted, DecodeDone, FinishBlock, Forward
    <3> QED BY <3>1, <3>2
  <2>2. tokens' = tokens /\ scheduled' = scheduled
    BY <1>5 DEF Admit, Preempt, PreemptBlock, Preempted, DecodeDone, FinishBlock, Forward, queueVars
  <2>3. Stepping' => Stepping
    BY <1>5 DEF Admit, Preempt, PreemptBlock, Preempted, DecodeDone, FinishBlock, Forward, Stepping,
                Decoding
  <2> QED BY <1>1, <2>1, <2>2, <2>3
<1>6. CASE AllocBlock
  BY <1>1, <1>6 DEF AllocBlock, queueVars, Stepping, Occurs
<1>7. CASE Admitted
  <2>1. PICK r \in Seqs : /\ r = Head(waiting) /\ status' = [status EXCEPT ![r] = "RUNNING"]
                          /\ scheduled' = Append(scheduled, r) /\ pc = "alloc" /\ pc' = "admit"
                          /\ tokens' = tokens
    BY <1>7, HeadsTyped DEF Admitted
  <2>2. \A c : Occurs(c, scheduled') <=> Occurs(c, scheduled) \/ c = r
    BY <1>0, <2>1, OccursAppend
  <2>3. Occurs(s, scheduled)' <=> Occurs(s, scheduled')
    BY DEF Occurs
  <2>4. CASE r = s
    BY <2>1, <2>2, <2>3, <2>4 DEF Stepping
  <2>5. CASE r # s
    <3>1. status[s] = "RUNNING"
      BY <1>0, <2>1, <2>5
    <3> QED BY <1>1, <2>1, <2>2, <2>3, <3>1 DEF Stepping
  <2> QED BY <2>4, <2>5
<1>8. CASE PrefillDone
  <2>1. status[s] = "RUNNING" /\ tokens' = tokens /\ scheduled' = scheduled
    BY <1>8 DEF PrefillDone, queueVars
  <2>2. CASE scheduled = << >>
    <3>1. ~Occurs(s, scheduled)
      BY <2>2 DEF Occurs
    <3> QED BY <1>1, <2>1, <3>1
  <2>3. CASE scheduled # << >>
    BY <1>1, <1>8, <2>1, <2>3 DEF PrefillDone, Stepping, Occurs
  <2> QED BY <2>2, <2>3
<1>9. CASE DecodeAppend
  BY <1>1, <1>9 DEF DecodeAppend, Decoding, Stepping
<1>10. CASE DecodeFails
  BY <1>1, <1>10 DEF DecodeFails, Stepping
<1>11. ASSUME NEW t \in Tokens, Sampled(t)
       PROVE  (cached[s] < Length(s) \/ (Occurs(s, scheduled) /\ ~Stepping))'
  <2>1. PICK r \in Seqs : /\ r = Head(scheduled) /\ tokens' = [tokens EXCEPT ![r] = Append(@, t)]
                          /\ \/ status' = [status EXCEPT ![r] = "FINISHED"] /\ scheduled' = scheduled
                             \/ status' = status /\ scheduled' = Tail(scheduled)
                          /\ pc = "post" /\ pc' \in {"finish", "idle", "post"}
    BY <1>11, HeadsTyped DEF Sampled, AfterPost
  <2>2. status[s] = "RUNNING"
    BY <1>0, <2>1
  <2>3. CASE r = s
    <3>1. cached'[s] = cached[s] /\ cached[s] <= Length(s) /\ cached[s] \in Nat
      BY <1>0, <2>2, CachedRunning DEF Reuse, Found
    <3>2. Length(s)' = Length(s) + 1 /\ Length(s) \in Nat
      BY <1>0, <2>1, <2>3 DEF Length
    <3>3. cached'[s] < Length(s)'
      BY ONLY <3>1, <3>2
    <3> QED BY <3>3
  <2>4. CASE r # s
    <3>1. tokens'[s] = tokens[s] /\ ~Stepping'
      BY <1>0, <2>1, <2>4 DEF Stepping
    <3>2. Occurs(s, scheduled) => Occurs(s, Tail(scheduled))
      BY <1>0, <2>1, <2>4, HeadsTyped, TailKeepsOthers
    <3>3. Occurs(s, scheduled) => Occurs(s, scheduled')
      BY <2>1, <3>2
    <3>4. Occurs(s, scheduled') <=> Occurs(s, scheduled)'
      BY DEF Occurs
    <3> QED BY <1>1, <2>2, <3>1, <3>3, <3>4
  <2> QED BY <2>3, <2>4
<1>12. CASE Finished
  <2>1. /\ Head(scheduled) \in Seqs /\ scheduled # << >> /\ pc = "finish" /\ pc' \in {"idle", "post"}
        /\ status' = status /\ tokens' = tokens /\ scheduled' = Tail(scheduled)
    BY <1>12, HeadsTyped DEF Finished, AfterPost
  <2>2. status[Head(scheduled)] = "FINISHED"
    BY <1>0, <2>1 DEF Served
  <2>3. Head(scheduled) # s
    BY <2>1, <2>2
  <2>4. Occurs(s, scheduled) => Occurs(s, Tail(scheduled))
    BY <1>0, <2>1, <2>3, TailKeepsOthers
  <2>5. Occurs(s, scheduled') <=> Occurs(s, scheduled)'
    BY DEF Occurs
  <2>6. ~Stepping'
    BY <2>1 DEF Stepping
  <2> QED BY <1>1, <2>1, <2>4, <2>5, <2>6
<1> QED BY <1>2, <1>3, <1>4, <1>5, <1>6, <1>7, <1>8, <1>9, <1>10, <1>11, <1>12
        DEF SchedNext, Prefill, Decode, Postprocess, Terminated


\* A place in the cache: the block and the offset of a position that has a block.
LEMMA PlaceOf ==
  ASSUME SameSizes, table \in [Seqs -> Seq(Blocks)], NEW s \in Seqs, NEW p \in Nat,
         p \div BlockSize < Len(table[s])
  PROVE  \E i \in 1 .. Len(table[s]), o \in Offsets :
           /\ At(i, o) = p /\ SlotOf(s, p) = table[s][i] * BlockSize + o
           /\ table[s][i] \in Blocks
<1>1. PICK i \in Nat \ {0}, o \in Offsets :
        i = p \div BlockSize + 1 /\ o = (p % BlockSize) /\ At(i, o) = p
  BY AtSplit
<1>2. p \div BlockSize \in Nat /\ Len(table[s]) \in Nat
  BY SizesAssumption, DivMod
<1>3. i \in 1 .. Len(table[s])
  BY ONLY <1>1, <1>2, p \div BlockSize < Len(table[s])
<1>4. SlotOf(s, p) = table[s][i] * BlockSize + o
  BY <1>1 DEF SlotOf, SameSizes
<1>5. table[s][i] \in Blocks
  BY <1>3
<1> QED BY <1>1, <1>3, <1>4, <1>5

\* an input of a pass has a block, and its sequence computes that block itself
LEMMA InputPlace ==
  ASSUME SameSizes, Inv, Tidy, Fitting, Reuse, Ahead, pc = "run", NEW w \in Inputs
  PROVE  \E s \in Seqs, p \in Nat :
           /\ w = <<s, p>> /\ Occurs(s, scheduled) /\ p \in InputPositions(s)
           /\ p < Length(s) /\ Length(s) \in Nat /\ p \div BlockSize < Len(table[s])
           /\ \A i \in Nat \ {0}, o \in Offsets : At(i, o) = p => Owner(s, i)
<1>0. /\ tokens \in [Seqs -> Seq(Tokens)] /\ cached \in [Seqs -> Nat] /\ table \in [Seqs -> Seq(Blocks)]
      /\ scheduled \in Seq(Seqs) /\ Served
  BY DEF Inv, TypeOK, Tidy
<1>S. PICK s \in Seqs : \E p : w = <<s, p>> /\ Occurs(s, scheduled) /\ p \in InputPositions(s)
  BY <1>0 DEF Inputs, Scheduled, Occurs
<1>1. PICK p : w = <<s, p>> /\ Occurs(s, scheduled) /\ p \in InputPositions(s)
  BY <1>S
<1>2. status[s] = "RUNNING"
  BY <1>0, <1>1 DEF Served, InService, Leaving
<1>3. PICK n \in Nat \ {0}, c \in Nat : n = Length(s) /\ c = cached[s] /\ c <= n
  <2>1. Queued(s)
    BY <1>1 DEF Queued
  <2>2. tokens[s] # << >>
    BY <2>1, <1>2 DEF Inv, Numbered
  <2>3. Length(s) \in Nat \ {0}
    BY <1>0, <2>2, NumBlocksOfNat
  <2> QED BY <1>0, <2>3 DEF Reuse, Found
<1>4. p \in Nat /\ p < n /\ p >= c
  <2>1. CASE prefill
    BY <1>1, <1>3, <2>1 DEF InputPositions
  <2>2. CASE ~prefill
    <3>1. c < n
      BY <1>2, <1>3, <2>2 DEF Ahead, Stepping
    <3>2. p = n - 1
      BY <1>1, <1>3, <2>2 DEF InputPositions
    <3> QED BY ONLY <3>1, <3>2, n \in Nat \ {0}, c \in Nat
  <2> QED BY <2>1, <2>2
<1>5. Len(table[s]) = BlocksFor(n)
  BY <1>1, <1>2, <1>3 DEF Fitting, Fits, Due
<1>6. p \div BlockSize < Len(table[s])
  <2>1. PICK i \in Nat \ {0}, o \in Offsets : i = p \div BlockSize + 1 /\ At(i, o) = p
    BY <1>4, AtSplit
  <2>2. i \in 1 .. BlocksFor(n)
    BY <1>4, <2>1, AtWithin
  <2>3. p \div BlockSize \in Nat /\ BlocksFor(n) \in Nat
    BY <1>4, SizesAssumption, DivMod, BlocksForNat
  <2> QED BY ONLY <1>5, <2>1, <2>2, <2>3
<1>7. ASSUME NEW i \in Nat \ {0}, NEW o \in Offsets, At(i, o) = p
      PROVE  Owner(s, i)
  <2>1. PICK k \in Nat : c = k * BlockSize
    BY <1>3 DEF Reuse, Found
  <2>2. At(i, o) >= k * BlockSize
    BY <1>4, <1>7, <2>1
  <2>3. At(i, 0) >= k * BlockSize
    BY <2>2, AtBeyond
  <2> QED BY <1>3, <2>1, <2>3 DEF Owner
<1> QED BY <1>1, <1>3, <1>4, <1>6, <1>7

LEMMA WritersAlone ==
  ASSUME SameSizes, Inv, Tidy, Fitting, Reuse, Matching, OneOwner, Ahead
  PROVE  SoleWriter
<1> SUFFICES ASSUME pc = "run", NEW w \in Inputs, NEW s \in Seqs, NEW p \in Stored(s),
                    SlotOf(s, p) = SlotOf(w[1], w[2])
             PROVE  /\ tokens[s][p + 1] = tokens[w[1]][w[2] + 1]
                    /\ <<s, p>> \in Inputs => <<s, p>> = w
  BY DEF SoleWriter
<1>0. table \in [Seqs -> Seq(Blocks)] /\ tokens \in [Seqs -> Seq(Tokens)] /\ Alone
  BY DEF Inv, TypeOK, Tidy
<1>1. PICK r \in Seqs, q \in Nat :
           /\ w = <<r, q>> /\ q \div BlockSize < Len(table[r])
           /\ \A i \in Nat \ {0}, o \in Offsets : At(i, o) = q => Owner(r, i)
  BY InputPlace
<1>2. w[1] = r /\ w[2] = q
  BY <1>1
<1>3. PICK i \in 1 .. Len(table[r]), o \in Offsets :
           /\ At(i, o) = q /\ SlotOf(r, q) = table[r][i] * BlockSize + o /\ table[r][i] \in Blocks
  BY <1>0, <1>1, PlaceOf
<1>4. p \in Nat /\ p \div BlockSize < Len(table[s])
  BY <1>0 DEF Stored, Length, SameSizes
<1>5. PICK j \in 1 .. Len(table[s]), u \in Offsets :
           /\ At(j, u) = p /\ SlotOf(s, p) = table[s][j] * BlockSize + u /\ table[s][j] \in Blocks
  BY <1>0, <1>4, PlaceOf
<1>6. table[s][j] = table[r][i] /\ u = o
  <2>1. table[s][j] * BlockSize + u = table[r][i] * BlockSize + o
    BY <1>2, <1>3, <1>5
  <2>2. table[s][j] \in Nat /\ table[r][i] \in Nat
    BY <1>3, <1>5, SizesAssumption DEF Blocks
  <2> QED BY ONLY <1>3, <1>5, <2>1, <2>2, SlotUnique
<1>7. i \in Nat \ {0} /\ j \in Nat \ {0}
  BY <1>0, <1>3, <1>5
<1>8. tokens[s][p + 1] = tokens[r][q + 1]
  <2>1. CASE hash[table[r][i]] # NoHash
    <3>1. Matches(r, i) /\ Matches(s, j)
      BY <1>3, <1>5, <1>6, <2>1 DEF Matching
    <3>2. /\ toks[table[r][i]][o + 1] = tokens[r][q + 1]
          /\ toks[table[s][j]][u + 1] = tokens[s][p + 1]
      BY <1>3, <1>5, <3>1 DEF Matches
    <3> QED BY <1>6, <3>2
  <2>2. CASE hash[table[r][i]] = NoHash
    BY <1>0, <1>3, <1>5, <1>6, <2>2 DEF Alone
  <2> QED BY <2>1, <2>2
<1>9. <<s, p>> \in Inputs => s = r /\ p = q
  <2> SUFFICES ASSUME <<s, p>> \in Inputs PROVE s = r /\ p = q
    OBVIOUS
  <2>1. \A k \in Nat \ {0}, v \in Offsets : At(k, v) = p => Owner(s, k)
    <3>1. PICK t \in Seqs, x \in Nat :
             /\ <<s, p>> = <<t, x>>
             /\ \A k \in Nat \ {0}, v \in Offsets : At(k, v) = x => Owner(t, k)
      BY InputPlace
    <3> QED BY <3>1
  <2>2. Owner(s, j) /\ Owner(r, i)
    BY <1>1, <1>3, <1>5, <1>7, <2>1
  <2>3. r = s /\ i = j
    BY <1>3, <1>5, <1>6, <2>2 DEF OneOwner
  <2> QED BY <1>3, <1>5, <1>6, <2>3
<1> QED BY <1>1, <1>2, <1>8, <1>9

Writers == Matching /\ OneOwner /\ Ahead /\ Contiguous

LEMMA WritersInvariant ==
  ASSUME SameSizes
  PROVE  SchedSpec => [](Inv /\ Tidy /\ Fitting /\ Filling /\ Reuse /\ Writers)
<1>1. ASSUME SchedInit PROVE Writers
  <2>1. table = [s \in Seqs |-> << >>] /\ status = [s \in Seqs |-> "NONE"] /\ pc = "idle"
    BY <1>1 DEF SchedInit
  <2>2. \A s \in Seqs : Len(table[s]) = 0 /\ status[s] # "RUNNING"
    BY <2>1
  <2> QED BY <2>1, <2>2 DEF Writers, Matching, OneOwner, Ahead, Contiguous
<1>2. Inv /\ Tidy /\ Fitting /\ Reuse /\ Writers /\ [SchedNext]_vars => Writers'
  BY MatchingStep, OneOwnerStep, AheadStep, ContiguousStep DEF Writers
<1>3. BlockSize = SeqBlockSize
  BY DEF SameSizes
<1>4. SchedSpec => [](Inv /\ Tidy /\ Reuse)
  BY <1>3, ReuseInvariant
<1> QED BY <1>1, <1>2, <1>4, FittingInvariant, PTL DEF SchedSpec

\* Theorem.  SoleWriter: while a pass runs, no two of its inputs have one slot,
\* and no input is stored over another sequence's different token, however
\* prefixes were shared and blocks reused (store_kvcache, attention.py).
THEOREM WritesDisjoint ==
  ASSUME SameSizes
  PROVE  EngineSpec => []SoleWriter
<1>1. Inv /\ Tidy /\ Fitting /\ Reuse /\ Writers => SoleWriter
  BY WritersAlone DEF Writers
<1> QED BY <1>1, WritersInvariant, EngineImplementsScheduler, PTL

-----------------------------------------------------------------------------
(* What the cache holds                                                    *)

Prefilling == pc \in {"admit", "alloc"} \/ (pc = "run" /\ prefill)

\* the sequences of the batch being built, run or finished
InBatch(s) == Occurs(s, scheduled) \/ (pc = "alloc" /\ s = Head(waiting))

\* the entry at position p of s is still to be computed by this step
Awaits(s, p) == InBatch(s) /\ \/ Prefilling /\ p >= cached[s]
                              \/ Stepping /\ p = Length(s) - 1

Awaited(b, o) == \E s \in Seqs : \E i \in 1 .. Len(table[s]) :
  table[s][i] = b /\ At(i, o) < Length(s) /\ Awaits(s, At(i, o))

\* how many of its tokens the cache holds, after this step's pass: all of them
\* in the batch, all but the token just sampled elsewhere
Goal(s) == IF InBatch(s) /\ ~Leaving(s) THEN Length(s) ELSE Length(s) - 1

EndsIn(b, o, t) == kv[b * BlockSize + o] # << >> /\ Last(kv[b * BlockSize + o]) = t

\* The entry at offset o of block b is computed from token t, or will be.
Computed(b, o, t) == Awaited(b, o) \/ EndsIn(b, o, t)

PublishedComputed == \A b \in Blocks, o \in Offsets :
  hash[b] # NoHash => Computed(b, o, toks[b][o + 1])

OpenComputed == \A s \in Seqs : \A i \in 1 .. Len(table[s]), o \in Offsets :
  hash[table[s][i]] = NoHash /\ At(i, o) < Goal(s)
    => Computed(table[s][i], o, tokens[s][At(i, o) + 1])

\* a step that is not a pass
Quiet ==
  \/ \E s \in Seqs, p \in Prompts : AddRequest(s, p)
  \/ Step \/ Prefill \/ Decode \/ Postprocess \/ UNCHANGED vars

LEMMA QuietSched ==
  ASSUME Quiet
  PROVE  [SchedNext]_vars
  BY DEF Quiet, SchedNext

\* what is awaited stays awaited when its place and its turn are kept
LEMMA AwaitedMoved ==
  ASSUME NEW b \in Blocks, NEW o \in Offsets, NEW s \in Seqs, NEW i \in 1 .. Len(table[s]),
         table[s][i] = b, At(i, o) < Length(s), Awaits(s, At(i, o)),
         i \in 1 .. Len(table'[s]), table'[s][i] = b, Length(s)' = Length(s), InBatch(s)',
         \/ cached'[s] = cached[s] /\ Prefilling' = Prefilling /\ Stepping' = Stepping
         \/ cached'[s] = cached[s] /\ ~Stepping /\ Prefilling'
         \/ ~Prefilling /\ Stepping'
  PROVE  Awaited(b, o)'
<1>1. Awaits(s, At(i, o))'
  BY DEF Awaits, At
<1> QED BY <1>1 DEF Awaited, At

\* a sequence in the line is not also in the batch
LEMMA NotInBatch ==
  ASSUME Inv, pc \in {"decode", "preempt"}, NEW s \in Seqs, Occurs(s, running)
  PROVE  ~Occurs(s, scheduled)
<1>1. \A j \in 1 .. Len(scheduled), k \in 1 .. Len(running) : scheduled[j] < running[k]
  BY LineSorted
<1>2. ~(s < s)
  BY SizesAssumption
<1> QED BY <1>1, <1>2 DEF Occurs

LEMMA AwaitedKept ==
  ASSUME SameSizes, Inv, Tidy, Fitting, Contiguous, Quiet, NEW b \in Blocks, NEW o \in Offsets,
         Awaited(b, o)
  PROVE  Awaited(b, o)'
<1>0. /\ table \in [Seqs -> Seq(Blocks)] /\ cached \in [Seqs -> Nat] /\ tokens \in [Seqs -> Seq(Tokens)]
      /\ running \in Seq(Seqs) /\ scheduled \in Seq(Seqs) /\ waiting \in Seq(Seqs)
      /\ Keyed /\ Served /\ [SchedNext]_vars
  BY QuietSched DEF Inv, TypeOK, Tidy
<1>1. PICK s \in Seqs : \E i \in 1 .. Len(table[s]) :
        table[s][i] = b /\ At(i, o) < Length(s) /\ Awaits(s, At(i, o))
  BY DEF Awaited
<1>2. PICK i \in 1 .. Len(table[s]) : table[s][i] = b /\ At(i, o) < Length(s) /\ Awaits(s, At(i, o))
  BY <1>1
<1>3. InBatch(s) /\ (Prefilling \/ Stepping)
  BY <1>2 DEF Awaits
<1>4. ASSUME table' = table, tokens' = tokens, InBatch(s)',
             \/ cached'[s] = cached[s] /\ Prefilling' = Prefilling /\ Stepping' = Stepping
             \/ cached'[s] = cached[s] /\ ~Stepping /\ Prefilling'
             \/ ~Prefilling /\ Stepping'
      PROVE  Awaited(b, o)'
  <2>1. i \in 1 .. Len(table'[s]) /\ table'[s][i] = b /\ Length(s)' = Length(s)
    BY <1>2, <1>4 DEF Length
  <2> QED BY <1>2, <1>4, <2>1, AwaitedMoved
<1>5. CASE pc \in {"idle", "post", "finish", "failed"}
  BY <1>3, <1>5 DEF Prefilling, Stepping
<1>6. CASE UNCHANGED vars
  BY <1>3, <1>4, <1>6 DEF vars, managerVars, queueVars, InBatch, Prefilling, Stepping, Occurs
<1>7. CASE Admit
  BY <1>3, <1>4, <1>7 DEF Admit, managerVars, queueVars, InBatch, Prefilling, Stepping, Occurs
<1>8. CASE AllocBlock
  <2>1. PICK r \in Seqs, j \in Nat \ {0}, c \in Blocks : AllocShape(r, j, c) /\ Looked(r, j, c)
    BY <1>0, <1>8, AllocBlockLookup
  <2>2. /\ pc = "alloc" /\ r = Head(waiting) /\ table' = [table EXCEPT ![r] = Append(@, c)]
        /\ UNCHANGED <<tokens, waiting, scheduled, pc>>
    BY <2>1 DEF AllocShape
  <2>3. InBatch(s)' /\ Prefilling' /\ ~Stepping
    BY <1>3, <2>2 DEF InBatch, Prefilling, Stepping, Occurs
  <2>4. i \in 1 .. Len(table'[s]) /\ table'[s][i] = b /\ Length(s)' = Length(s)
    BY <1>0, <1>2, <2>2 DEF Length
  <2>5. cached'[s] = cached[s]
    <3>1. CASE cached' = cached
      BY <3>1
    <3>2. CASE ~miss /\ cached' = [cached EXCEPT ![r] = @ + BlockSize]
      <4>1. r # s
        <5>1. SUFFICES ASSUME r = s PROVE FALSE
          OBVIOUS
        <5>2. PICK n \in Nat : n = Len(table[s]) /\ cached[s] = n * BlockSize
          BY <1>0, <2>2, <3>2, <5>1 DEF Contiguous
        <5>3. At(i, o) >= n * BlockSize
          BY <1>2, <2>3, <5>2 DEF Awaits
        <5>4. i \in Nat \ {0} /\ i <= n
          BY <1>0, <1>2, <5>2
        <5>5. i > n
          BY <5>3, <5>4, AtBeyond
        <5> QED BY ONLY <5>4, <5>5, n \in Nat
      <4> QED BY <1>0, <3>2, <4>1
    <3> QED BY <2>1, <3>1, <3>2 DEF Looked
  <2> QED BY <1>2, <2>3, <2>4, <2>5, AwaitedMoved
<1>9. CASE Admitted
  <2>1. /\ scheduled' = Append(scheduled, Head(waiting)) /\ Head(waiting) \in Seqs
        /\ pc = "alloc" /\ pc' = "admit" /\ tokens' = tokens /\ table' = table /\ cached' = cached
    BY <1>9, HeadsTyped DEF Admitted, managerVars
  <2>2. \A c : Occurs(c, scheduled') <=> Occurs(c, scheduled) \/ c = Head(waiting)
    BY <1>0, <2>1, OccursAppend
  <2>3. Occurs(s, scheduled') <=> Occurs(s, scheduled)'
    BY DEF Occurs
  <2>4. InBatch(s)'
    BY <1>3, <2>2, <2>3 DEF InBatch
  <2> QED BY <1>4, <2>1, <2>4 DEF Prefilling, Stepping
<1>10. CASE PrefillDone
  <2>1. pc = "admit" /\ scheduled' = scheduled /\ table' = table /\ tokens' = tokens /\ cached' = cached
    BY <1>10 DEF PrefillDone, managerVars, queueVars
  <2>2. Occurs(s, scheduled)
    BY <1>3, <2>1 DEF InBatch
  <2>3. scheduled # << >>
    BY <2>2 DEF Occurs
  <2>4. pc' = "run" /\ prefill' = TRUE
    BY <1>10, <2>3 DEF PrefillDone
  <2>5. InBatch(s)'
    BY <2>1, <2>2 DEF InBatch, Occurs
  <2> QED BY <1>4, <2>1, <2>4, <2>5 DEF Prefilling, Stepping
<1>11. CASE DecodeAppend
  <2>1. PICK r \in Seqs, c \in Blocks :
           /\ pc = "decode" /\ scheduled' = Append(scheduled, r) /\ tokens' = tokens /\ pc' = pc
           /\ table' = table \/ table' = [table EXCEPT ![r] = Append(@, c)]
    BY <1>11, DecodeAppendFills DEF Extends, Fills
  <2>2. Occurs(s, scheduled)
    BY <1>3, <2>1 DEF InBatch
  <2>3. Occurs(s, scheduled')
    BY <1>0, <2>1, <2>2, OccursAppend
  <2>4. InBatch(s)' /\ ~Prefilling /\ Stepping'
    BY <2>1, <2>3 DEF InBatch, Occurs, Prefilling, Stepping
  <2>5. i \in 1 .. Len(table'[s]) /\ table'[s][i] = b
    <3>1. CASE table' = table
      BY <1>2, <3>1
    <3>2. CASE table' = [table EXCEPT ![r] = Append(@, c)]
      BY <1>0, <1>2, <3>2
    <3> QED BY <2>1, <3>1, <3>2
  <2>6. Length(s)' = Length(s)
    BY <2>1 DEF Length
  <2> QED BY <1>2, <2>4, <2>5, <2>6, AwaitedMoved
<1>12. CASE Preempt \/ Preempted \/ DecodeDone
  <2>1. /\ scheduled' = scheduled /\ table' = table /\ tokens' = tokens
        /\ pc \in {"decode", "preempt"} /\ (pc' \in {"decode", "preempt"} \/ (pc' = "run" /\ ~prefill'))
    BY <1>12 DEF Preempt, Preempted, DecodeDone, Decoding, managerVars, queueVars
  <2>2. Occurs(s, scheduled)
    BY <1>3, <2>1 DEF InBatch
  <2>3. InBatch(s)' /\ ~Prefilling /\ Stepping'
    BY <2>1, <2>2 DEF InBatch, Occurs, Prefilling, Stepping
  <2> QED BY <1>4, <2>1, <2>3
<1>13. CASE PreemptBlock
  <2>1. /\ scheduled' = scheduled /\ tokens' = tokens /\ pc = "preempt" /\ pc' = pc
        /\ table' = [table EXCEPT ![Last(running)] = Front(@)]
    BY <1>13 DEF PreemptBlock, DeallocateLast, queueVars
  <2>2. Occurs(s, scheduled)
    BY <1>3, <2>1 DEF InBatch
  <2>3. Last(running) # s
    <3>1. Last(running) \in Seqs /\ Occurs(Last(running), running)
      BY <1>0, <2>1, HeadsTyped, OccursFrontLast
    <3> QED BY <2>1, <2>2, <3>1, NotInBatch
  <2>4. i \in 1 .. Len(table'[s]) /\ table'[s][i] = b /\ Length(s)' = Length(s)
    BY <1>0, <1>2, <2>1, <2>3 DEF Length
  <2>5. InBatch(s)' /\ ~Prefilling /\ Stepping'
    BY <2>1, <2>2 DEF InBatch, Occurs, Prefilling, Stepping
  <2> QED BY <1>2, <2>4, <2>5, AwaitedMoved
<1>14. CASE DecodeFails
  BY <1>3, <1>14 DEF DecodeFails, InBatch, Occurs
<1>15. Quiet => \/ pc \in {"idle", "post", "finish", "failed"}
                \/ UNCHANGED vars \/ Admit \/ AllocBlock \/ Admitted \/ PrefillDone \/ DecodeAppend
                \/ Preempt \/ Preempted \/ DecodeDone \/ PreemptBlock \/ DecodeFails
  BY DEF Quiet, Prefill, Decode, Postprocess, AddRequest, Step, Sampled, FinishBlock, Finished
<1> QED BY <1>5, <1>6, <1>7, <1>8, <1>9, <1>10, <1>11, <1>12, <1>13, <1>14, <1>15


LEMMA EndsInKept ==
  ASSUME kv' = kv, NEW b, NEW o, NEW t, EndsIn(b, o, t)
  PROVE  EndsIn(b, o, t)'
  BY DEF EndsIn

LEMMA ComputedKept ==
  ASSUME SameSizes, Inv, Tidy, Fitting, Contiguous, Quiet, kv' = kv,
         NEW b \in Blocks, NEW o \in Offsets, NEW t, Computed(b, o, t)
  PROVE  Computed(b, o, t)'
  BY AwaitedKept, EndsInKept DEF Computed

LEMMA GoalKept ==
  ASSUME Inv, Tidy, Quiet, ~AllocBlock, ~DecodeAppend, NEW s \in Seqs, table[s] # << >>
  PROVE  Goal(s)' = Goal(s)
<1>0. /\ tokens \in [Seqs -> Seq(Tokens)] /\ status \in [Seqs -> Statuses]
      /\ running \in Seq(Seqs) /\ scheduled \in Seq(Seqs) /\ waiting \in Seq(Seqs)
      /\ Keyed /\ Served /\ NoLeak /\ Holding(s)
  BY DEF Inv, TypeOK, Tidy, NoLeak
<1> DEFINE In(t) == InBatch(t) /\ ~Leaving(t)
<1>1. ASSUME Length(s)' = Length(s), In(s)' <=> In(s)
      PROVE  Goal(s)' = Goal(s)
  BY <1>1 DEF Goal
<1>2. CASE UNCHANGED vars
  BY <1>1, <1>2 DEF vars, managerVars, queueVars, InBatch, Leaving, Length, Occurs
<1>3. ASSUME NEW r \in Seqs, NEW p \in Prompts, AddRequest(r, p)
      PROVE  Goal(s)' = Goal(s)
  <2>1. r # s
    BY <1>0, <1>3 DEF AddRequest, Holding
  <2>2. Length(s)' = Length(s)
    BY <1>0, <1>3, <2>1 DEF AddRequest, Length
  <2>3. In(s)' <=> In(s)
    BY <1>3 DEF AddRequest, InBatch, Leaving, Occurs
  <2> QED BY <1>1, <2>2, <2>3
<1>4. CASE Step
  <2>1. /\ scheduled = << >> /\ scheduled' = << >> /\ pc = "idle" /\ pc' = "admit" /\ tokens' = tokens
    BY <1>0, <1>4 DEF Step, Served
  <2> QED BY <1>1, <2>1 DEF InBatch, Leaving, Length, Occurs
<1>5. CASE Admit
  <2>1. /\ waiting # << >> /\ pc = "admit" /\ pc' = "alloc" /\ scheduled' = scheduled /\ waiting' = waiting
        /\ tokens' = tokens
    BY <1>5 DEF Admit, Admissible, queueVars
  <2>2. Head(waiting) # s
    <3>1. Occurs(Head(waiting), waiting)
      BY <1>0, <2>1, OccursHeadTail
    <3>2. Head(waiting) \in Seqs
      BY <1>0, <2>1, HeadType
    <3>3. status[Head(waiting)] = "WAITING"
      BY <1>0, <3>1, <3>2 DEF Served
    <3>4. status[s] = "RUNNING"
      BY <1>0, <2>1 DEF Holding
    <3> QED BY <3>3, <3>4
  <2> QED BY <1>1, <2>1, <2>2 DEF InBatch, Leaving, Length, Occurs
<1>6. CASE Admitted
  <2>1. /\ scheduled' = Append(scheduled, Head(waiting)) /\ Head(waiting) \in Seqs
        /\ pc = "alloc" /\ pc' = "admit" /\ tokens' = tokens
    BY <1>6, HeadsTyped DEF Admitted
  <2>2. \A c : Occurs(c, scheduled') <=> Occurs(c, scheduled) \/ c = Head(waiting)
    BY <1>0, <2>1, OccursAppend
  <2>3. Occurs(s, scheduled') <=> Occurs(s, scheduled)'
    BY DEF Occurs
  <2> QED BY <1>1, <2>1, <2>2, <2>3 DEF InBatch, Leaving, Length
<1>7. CASE PrefillDone \/ DecodeDone \/ DecodeFails
  <2>1. /\ scheduled' = scheduled /\ tokens' = tokens
        /\ pc \in {"admit", "decode"} /\ pc' \in {"run", "decode", "failed"}
    BY <1>7 DEF PrefillDone, DecodeDone, DecodeFails, queueVars
  <2> QED BY <1>1, <2>1 DEF InBatch, Leaving, Length, Occurs
<1>8. CASE Preempt \/ Preempted
  <2>1. /\ scheduled' = scheduled /\ tokens' = tokens
        /\ pc \in {"decode", "preempt"} /\ pc' \in {"decode", "preempt"}
        /\ running # << >> /\ (pc' = "preempt" => running' = running)
    BY <1>8, HeadsTyped DEF Preempt, Preempted, Decoding, queueVars
  <2>2. s = Last(running) => ~Occurs(s, scheduled)
    BY <1>0, <2>1, OccursFrontLast, NotInBatch
  <2> QED BY <1>1, <2>1, <2>2 DEF InBatch, Leaving, Length, Occurs
<1>9. CASE PreemptBlock \/ FinishBlock
  <2>1. UNCHANGED <<scheduled, running, waiting, tokens, pc>>
    BY <1>9 DEF PreemptBlock, FinishBlock, queueVars
  <2> QED BY <1>1, <2>1 DEF InBatch, Leaving, Length, Occurs
<1>10. ASSUME NEW t \in Tokens, Sampled(t)
       PROVE  Goal(s)' = Goal(s)
  <2>1. PICK r \in Seqs : /\ r = Head(scheduled) /\ scheduled # << >>
                          /\ tokens' = [tokens EXCEPT ![r] = Append(@, t)]
                          /\ \/ scheduled' = scheduled /\ pc' = "finish"
                             \/ scheduled' = Tail(scheduled) /\ pc' \in {"idle", "post"}
                          /\ pc = "post"
    BY <1>10, HeadsTyped DEF Sampled, AfterPost
  <2>2. ~Occurs(r, Tail(scheduled)) /\ Occurs(r, scheduled)
    BY <1>0, <2>1, DistinctTail, OccursHeadTail DEF Served
  <2>3. Occurs(s, scheduled') <=> Occurs(s, scheduled)'
    BY DEF Occurs
  <2>4. CASE s = r
    <3>1. Goal(s) = Length(s)
      BY <2>1, <2>2, <2>4 DEF Goal, InBatch, Leaving
    <3>2. Goal(s)' = Length(s)' - 1
      BY <2>1, <2>2, <2>3, <2>4 DEF Goal, InBatch, Leaving
    <3>3. Length(s) \in Nat /\ Length(s)' = Length(s) + 1
      BY <1>0, <2>1, <2>4 DEF Length
    <3> QED BY ONLY <3>1, <3>2, <3>3
  <2>5. CASE s # r
    <3>1. Length(s)' = Length(s)
      BY <1>0, <2>1, <2>5 DEF Length
    <3>2. Occurs(s, scheduled) <=> Occurs(s, Tail(scheduled))
      BY <1>0, <2>1, <2>5, TailKeepsOthers, OccursHeadTail
    <3>3. Occurs(s, scheduled)' <=> Occurs(s, scheduled)
      BY <2>1, <2>3, <3>2
    <3>4. ~Leaving(s) /\ ~Leaving(s)'
      BY <2>1, <2>5 DEF Leaving
    <3> QED BY <1>1, <2>1, <3>1, <3>3, <3>4 DEF InBatch
  <2> QED BY <2>4, <2>5
<1>11. CASE Finished
  <2>1. /\ Head(scheduled) \in Seqs /\ scheduled # << >> /\ pc = "finish" /\ pc' \in {"idle", "post"}
        /\ tokens' = tokens /\ scheduled' = Tail(scheduled) /\ table[Head(scheduled)] = << >>
    BY <1>11, HeadsTyped DEF Finished, AfterPost, Freed
  <2>2. Head(scheduled) # s
    BY <2>1
  <2>3. Occurs(s, scheduled) <=> Occurs(s, Tail(scheduled))
    BY <1>0, <2>1, <2>2, TailKeepsOthers, OccursHeadTail
  <2>4. Occurs(s, scheduled') <=> Occurs(s, scheduled)'
    BY DEF Occurs
  <2>5. ~Leaving(s) /\ ~Leaving(s)'
    BY <2>1, <2>2 DEF Leaving
  <2> QED BY <1>1, <2>1, <2>3, <2>4, <2>5 DEF InBatch, Length
<1> QED BY <1>2, <1>3, <1>4, <1>5, <1>6, <1>7, <1>8, <1>9, <1>10, <1>11
        DEF Quiet, Prefill, Decode, Postprocess


LEMMA GoalBelow ==
  ASSUME tokens \in [Seqs -> Seq(Tokens)], NEW s \in Seqs, NEW p \in Nat, p < Goal(s)
  PROVE  p < Length(s)
<1>1. Length(s) \in Nat
  BY DEF Length
<1> QED BY <1>1 DEF Goal

LEMMA ComputedAlloc ==
  ASSUME SameSizes, Inv, Tidy, Fitting, Reuse, Contiguous, PublishedComputed, OpenComputed,
         AllocBlock, kv' = kv
  PROVE  PublishedComputed' /\ OpenComputed'
<1>0. /\ Accounted /\ Published /\ tokens \in [Seqs -> Seq(Tokens)] /\ table \in [Seqs -> Seq(Blocks)]
      /\ cached \in [Seqs -> Nat] /\ Keyed /\ Quiet
  BY InvAccounted DEF Inv, TypeOK, Tidy, Quiet, Prefill
<1>1. PICK s \in Seqs, i \in Nat \ {0}, b \in Blocks : AllocShape(s, i, b) /\ Looked(s, i, b)
  BY <1>0, AllocBlockLookup
<1>2. /\ pc = "alloc" /\ s = Head(waiting) /\ i = Len(table[s]) + 1 /\ i \in 1 .. NumBlocksOf(s)
      /\ Publish(b, PrefixHash(s, i), BlockTokens(s, i))
      /\ table' = [table EXCEPT ![s] = Append(@, b)]
      /\ UNCHANGED <<tokens, waiting, scheduled, pc>>
  BY <1>1 DEF AllocShape
<1>3. BlockTokens(s, i) \in Seq(Tokens) /\ PrefixHash(s, i) \in Seq(Tokens)
  BY <1>0, BlockTokensType
<1>4. /\ hash'[b] = PrefixHash(s, i)
      /\ \A c \in Blocks \ {b} : hash'[c] = hash[c] /\ toks'[c] = toks[c]
      /\ PrefixHash(s, i) # NoHash => toks'[b] = BlockTokens(s, i)
  BY ONLY <1>0, <1>2, <1>3, b \in Blocks, PublishTokens
<1>5. Len(table'[s]) = i /\ table'[s][i] = b /\ i \in 1 .. Len(table'[s])
  BY <1>0, <1>2
\* the entries of a fresh block are awaited
<1>6. ASSUME NEW o \in Offsets, miss', At(i, o) < Length(s)
      PROVE  Awaited(b, o)'
  <2>1. PICK m \in Nat, e \in Nat : m = cached[s] /\ e = Len(table[s]) /\ m <= e * BlockSize
    BY <1>0, <1>2 DEF Reuse
  <2>2. At(i, o) >= e * BlockSize
    <3>1. i = e + 1 /\ i > e
      BY <1>2, <2>1
    <3> QED BY <3>1, AtBeyond
  <2>3. At(i, o) \in Nat /\ e * BlockSize \in Nat
    BY <2>1, AtNat, SizesAssumption
  <2>4. At(i, o) >= m
    BY ONLY <2>1, <2>2, <2>3
  <2>5. cached' = cached
    BY <1>1, <1>6 DEF Looked
  <2>6. InBatch(s)' /\ Prefilling'
    BY <1>2 DEF InBatch, Prefilling
  <2>7. Awaits(s, At(i, o))'
    BY <2>1, <2>4, <2>5, <2>6 DEF Awaits, At
  <2>8. Length(s)' = Length(s)
    BY <1>2 DEF Length
  <2> QED BY <1>5, <1>6, <2>7, <2>8 DEF Awaited, At
<1>7. ASSUME NEW c \in Blocks, NEW o \in Offsets, hash'[c] # NoHash
      PROVE  Computed(c, o, toks[c][o + 1])'
  <2>1. CASE c # b
    <3>1. hash[c] # NoHash /\ toks'[c] = toks[c]
      BY <1>4, <1>7, <2>1
    <3>2. Computed(c, o, toks[c][o + 1])
      BY <3>1 DEF PublishedComputed
    <3>3. PICK t : t = toks[c][o + 1]
      OBVIOUS
    <3>4. Computed(c, o, t)'
      BY <1>0, <3>2, <3>3, ComputedKept
    <3> QED BY <3>1, <3>3, <3>4 DEF Computed, EndsIn
  <2>2. CASE c = b /\ miss'
    <3>1. PrefixHash(s, i) # NoHash
      BY <1>4, <1>7, <2>2
    <3>2. Len(BlockTokens(s, i)) = BlockSize
      BY ONLY <1>0, <1>2, <3>1, s \in Seqs, PrefixHashFull
    <3>3. At(i, o) < Length(s)
      BY <1>0, <1>2, <3>2, FullBlock
    <3> QED BY <1>6, <2>2, <3>3 DEF Computed
  <2>3. CASE c = b /\ ~miss'
    <3>1. hash[c] # NoHash /\ toks'[c] = toks[c]
      BY <1>1, <1>4, <2>3 DEF Looked
    <3>2. Computed(c, o, toks[c][o + 1])
      BY <3>1 DEF PublishedComputed
    <3>3. PICK t : t = toks[c][o + 1]
      OBVIOUS
    <3>4. Computed(c, o, t)'
      BY <1>0, <3>2, <3>3, ComputedKept
    <3> QED BY <3>1, <3>3, <3>4 DEF Computed, EndsIn
  <2> QED BY <2>1, <2>2, <2>3
<1>8. ASSUME NEW r \in Seqs, NEW j \in 1 .. Len(table'[r]), NEW o \in Offsets,
             hash'[table'[r][j]] = NoHash, (At(j, o) < Goal(r))'
      PROVE  Computed(table[r][j], o, tokens[r][At(j, o) + 1])'
  <2>1. Goal(r)' = Goal(r)
    BY <1>2 DEF Goal, InBatch, Leaving, Length, Occurs
  <2>2. At(j, o) < Goal(r)
    BY <1>8, <2>1 DEF At
  <2>3. CASE j \in 1 .. Len(table[r])
    <3>1. table'[r][j] = table[r][j]
      BY <1>0, <1>2, <2>3
    <3>2. PICK c \in Blocks : c = table[r][j] /\ c \in used
      BY <1>0, <2>3, HeldUsed
    <3>3. c # b
      BY <1>1, <1>4, <1>8, <3>1, <3>2 DEF Looked
    <3>4. hash[c] = NoHash
      BY <1>4, <1>8, <3>1, <3>2, <3>3
    <3>5. PICK t : t = tokens[r][At(j, o) + 1]
      OBVIOUS
    <3>6. Computed(c, o, t)
      BY <2>2, <2>3, <3>2, <3>4, <3>5 DEF OpenComputed
    <3>7. Computed(c, o, t)'
      BY <1>0, <3>6, ComputedKept
    <3>8. tokens' = tokens
      BY <1>2
    <3> QED BY <3>1, <3>2, <3>5, <3>7, <3>8 DEF Computed, EndsIn, Awaited, At
  <2>4. CASE j \notin 1 .. Len(table[r])
    <3>1. r = s /\ j = i
      BY <1>0, <1>2, <2>4
    <3>2. PrefixHash(s, i) = NoHash
      BY <1>4, <1>5, <1>8, <3>1
    <3>3. miss'
      BY <1>1, <3>2 DEF Looked
    <3>4. At(i, o) \in Nat
      BY AtNat
    <3>5. At(i, o) < Length(s)
      BY <1>0, <2>2, <3>1, <3>4, GoalBelow
    <3>6. Awaited(b, o)'
      BY <1>6, <3>3, <3>5
    <3> QED BY <1>5, <3>1, <3>6 DEF Computed
  <2> QED BY <2>3, <2>4
<1> QED BY <1>7, <1>8 DEF PublishedComputed, OpenComputed, Offsets


LEMMA ComputedAppend ==
  ASSUME SameSizes, Inv, Tidy, Fitting, Contiguous, PublishedComputed, OpenComputed,
         DecodeAppend, kv' = kv
  PROVE  PublishedComputed' /\ OpenComputed'
<1>0. /\ Accounted /\ Published /\ tokens \in [Seqs -> Seq(Tokens)] /\ table \in [Seqs -> Seq(Blocks)]
      /\ scheduled \in Seq(Seqs) /\ Keyed /\ Alone /\ Quiet
  BY InvAccounted DEF Inv, TypeOK, Tidy, Quiet, Decode
<1>1. PICK s \in Seqs, b \in Blocks :
           /\ pc = "decode" /\ s = Head(running) /\ Occurs(s, running) /\ table[s] # << >>
           /\ status[s] = "RUNNING" /\ ~Occurs(s, scheduled) /\ Length(s) \in Nat \ {0}
           /\ scheduled' = Append(scheduled, s)
           /\ UNCHANGED <<tokens, waiting, status, pc, cached>>
           /\ \/ Extends(s, b) /\ (Length(s) % BlockSize) = 1
              \/ Fills(s, b) /\ (Length(s) % BlockSize) # 1
              \/ UNCHANGED <<table, hash, toks, index>> /\ (Length(s) % BlockSize) # 1
  BY DecodeAppendFills
<1>2. PICK n \in Nat \ {0} : n = Length(s)
  BY <1>1
<1>3. /\ \A c : Occurs(c, scheduled') <=> Occurs(c, scheduled) \/ c = s
      /\ \A c : Occurs(c, scheduled') <=> Occurs(c, scheduled)'
  <2>1. \A c : Occurs(c, scheduled') <=> Occurs(c, scheduled) \/ c = s
    BY <1>0, <1>1, OccursAppend
  <2>2. \A c : Occurs(c, scheduled') <=> Occurs(c, scheduled)'
    BY DEF Occurs
  <2> QED BY <2>1, <2>2
<1>4. /\ Goal(s) = n - 1
      /\ \A r \in Seqs \ {s} : Goal(r)' = Goal(r)
  <2>1. \A r \in Seqs : ~Leaving(r) /\ ~Leaving(r)'
    BY <1>1 DEF Leaving
  <2>2. \A r \in Seqs \ {s} : InBatch(r)' <=> InBatch(r)
    BY <1>1, <1>3 DEF InBatch
  <2>3. ~InBatch(s)
    BY <1>1 DEF InBatch
  <2> QED BY <1>1, <1>2, <2>1, <2>2, <2>3 DEF Goal, Length
\* the entry of the new last token is awaited
<1>5. ASSUME NEW i \in 1 .. Len(table'[s]), NEW o \in Offsets, NEW c \in Blocks,
             table'[s][i] = c, At(i, o) = n - 1
      PROVE  Awaited(c, o)'
  <2>1. InBatch(s)' /\ Stepping'
    BY <1>1, <1>3 DEF InBatch, Stepping
  <2>2. Length(s)' = n
    BY <1>1, <1>2 DEF Length
  <2>3. Awaits(s, At(i, o))'
    BY <1>5, <2>1, <2>2 DEF Awaits, At
  <2>4. n - 1 < n
    OBVIOUS
  <2> QED BY <1>5, <2>2, <2>3, <2>4 DEF Awaited, At
\* what a place of another block or another sequence had
<1>6. ASSUME NEW r \in Seqs, NEW j \in 1 .. Len(table[r]), NEW o \in Offsets, NEW c \in Blocks,
             c = table[r][j], hash[c] = NoHash, At(j, o) < Goal(r)
      PROVE  Computed(c, o, tokens[r][At(j, o) + 1])'
  <2>1. PICK t : t = tokens[r][At(j, o) + 1]
    OBVIOUS
  <2>2. Computed(c, o, t)
    BY <1>6, <2>1 DEF OpenComputed
  <2>3. Computed(c, o, t)'
    BY <1>0, <2>2, ComputedKept
  <2>4. tokens' = tokens
    BY <1>1
  <2> QED BY <2>1, <2>3, <2>4 DEF Computed, EndsIn, At
<1>7. ASSUME NEW c \in Blocks, NEW o \in Offsets, hash[c] # NoHash, toks'[c] = toks[c]
      PROVE  Computed(c, o, toks[c][o + 1])'
  <2>1. PICK t : t = toks[c][o + 1]
    OBVIOUS
  <2>2. Computed(c, o, t)
    BY <1>7, <2>1 DEF PublishedComputed
  <2>3. Computed(c, o, t)'
    BY <1>0, <2>2, ComputedKept
  <2> QED BY <1>7, <2>1, <2>3 DEF Computed, EndsIn
\* an open place of a sequence, old entry or new
<1>8. ASSUME NEW r \in Seqs, NEW j \in 1 .. Len(table[r]), NEW o \in Offsets, NEW c \in Blocks,
             c = table[r][j], table'[r][j] = c, j \in 1 .. Len(table'[r]), hash[c] = NoHash,
             (At(j, o) < Goal(r))'
      PROVE  Computed(c, o, tokens[r][At(j, o) + 1])'
  <2>0. At(j, o) < Goal(r)' /\ j \in Nat \ {0}
    BY <1>0, <1>8 DEF At
  <2>1. CASE r # s
    BY <1>4, <1>6, <1>8, <2>0, <2>1
  <2>2. CASE r = s
    <3>1. PICK p \in Nat : p = At(j, o)
      BY <2>0, AtNat
    <3>2. Goal(s)' \in {n, n - 1}
      BY <1>1, <1>2 DEF Goal, Length
    <3>3. p < n
      BY ONLY <2>0, <2>2, <3>1, <3>2, n \in Nat \ {0}
    <3>4. CASE p = n - 1
      BY <1>5, <1>8, <2>2, <3>1, <3>4 DEF Computed
    <3>5. CASE p # n - 1
      <4>1. p < n - 1
        BY ONLY <3>3, <3>5, n \in Nat \ {0}, p \in Nat
      <4> QED BY <1>4, <1>6, <1>8, <2>2, <3>1, <4>1
    <3> QED BY <3>4, <3>5
  <2> QED BY <2>1, <2>2
<1>9. CASE Extends(s, b) /\ (n % BlockSize) = 1
  <2>0. << >> \in Seq(Tokens) /\ NoHash \in Seq(Tokens)
    BY DEF NoHash
  <2>1. hash'[b] = NoHash /\ \A c \in Blocks \ {b} : hash'[c] = hash[c] /\ toks'[c] = toks[c]
    BY ONLY <1>0, <1>9, <2>0, b \in Blocks, PublishTokens DEF Extends
  <2>2. b \notin used /\ table' = [table EXCEPT ![s] = Append(@, b)]
    BY <1>9 DEF Extends
  <2>3. ASSUME NEW c \in Blocks, NEW o \in Offsets, hash'[c] # NoHash
        PROVE  Computed(c, o, toks[c][o + 1])'
    BY <1>7, <2>1, <2>3
  <2>4. ASSUME NEW r \in Seqs, NEW j \in 1 .. Len(table'[r]), NEW o \in Offsets,
               hash'[table'[r][j]] = NoHash, (At(j, o) < Goal(r))'
        PROVE  Computed(table[r][j], o, tokens[r][At(j, o) + 1])'
    <3>1. CASE j \in 1 .. Len(table[r])
      <4>1. table'[r][j] = table[r][j]
        BY <1>0, <2>2, <3>1
      <4>2. PICK c \in Blocks : c = table[r][j] /\ c \in used
        BY <1>0, <3>1, HeldUsed
      <4>3. c # b
        BY <2>2, <4>2
      <4>4. hash[c] = NoHash
        BY <2>1, <2>4, <4>1, <4>2, <4>3
      <4>5. Computed(c, o, tokens[r][At(j, o) + 1])'
        BY <1>8, <2>4, <3>1, <4>1, <4>2, <4>4
      <4> QED BY <4>1, <4>2, <4>5
    <3>2. CASE j \notin 1 .. Len(table[r])
      <4>1. r = s /\ j = Len(table[s]) + 1 /\ table'[s][j] = b /\ j \in Nat \ {0}
        <5>1. r = s
          BY <1>0, <2>2, <3>2
        <5>2. PICK q \in Seq(Blocks) : q = table[s] /\ table'[s] = Append(q, b)
          BY <1>0, <2>2
        <5>3. Len(Append(q, b)) = Len(q) + 1 /\ Append(q, b)[Len(q) + 1] = b /\ Len(q) \in Nat
          BY AppendProperties
        <5>4. j \in 1 .. Len(q) + 1 /\ j \notin 1 .. Len(q)
          BY <3>2, <5>1, <5>2, <5>3
        <5>5. j = Len(q) + 1
          BY ONLY <5>3, <5>4
        <5> QED BY <5>1, <5>2, <5>3, <5>5
      <4>2. PICK e \in Nat, m \in Nat : e = Len(table[s]) /\ m = n - 1 /\ e = BlocksFor(m)
        <5>1. Len(table[s]) = BlocksFor(n - 1)
          BY <1>1, <1>2 DEF Fitting, Fits, Due
        <5>2. Len(table[s]) \in Nat /\ n - 1 \in Nat
          BY <1>0
        <5> QED BY <5>1, <5>2
      <4>3. m <= e * BlockSize /\ e * BlockSize \in Nat
        <5>1. m <= BlocksFor(m) * SeqBlockSize
          BY BlocksForBounds
        <5>2. BlockSize = SeqBlockSize
          BY DEF SameSizes
        <5>3. e * BlockSize \in Nat
          BY SizesAssumption
        <5> QED BY ONLY <4>2, <5>1, <5>2, <5>3
      <4>4. At(j, o) >= e * BlockSize
        BY <4>1, <4>2, AtBeyond
      <4>5. Goal(s)' \in {n, n - 1}
        BY <1>1, <1>2 DEF Goal, Length
      <4>6. At(j, o) < Goal(s)' /\ At(j, o) \in Nat
        BY <2>4, <4>1, AtNat DEF At
      <4>7. At(j, o) = n - 1
        BY ONLY <4>2, <4>3, <4>4, <4>5, <4>6, n \in Nat \ {0}
      <4>8. Awaited(b, o)'
        BY <1>5, <4>1, <4>7
      <4> QED BY <4>1, <4>8 DEF Computed
    <3> QED BY <3>1, <3>2
  <2> QED BY <2>3, <2>4 DEF PublishedComputed, OpenComputed, Offsets
<1>10. CASE Fills(s, b)
  <2>1. PICK i, t : /\ i \in Nat \ {0} /\ i = NumBlocksOf(s) /\ i \in 1 .. NumBlocksOf(s) /\ i = Len(table[s])
                                  /\ t = BlockTokens(s, i) /\ Len(t) = BlockSize
    BY <1>10 DEF Fills
  <2>2. t \in Seq(Tokens)
    BY <1>0, <2>1, BlockTokensType
  <2>3. PICK h \in Seq(Tokens) \ {NoHash} : Publish(b, h, t)
    BY <1>10, <2>1 DEF Fills
  <2>4. hash'[b] # NoHash /\ toks'[b] = t /\ \A c \in Blocks \ {b} : hash'[c] = hash[c] /\ toks'[c] = toks[c]
    BY ONLY <1>0, <2>2, <2>3, b \in Blocks, PublishTokens
  <2>5. b = table[s][i] /\ i \in 1 .. Len(table[s]) /\ hash[b] = NoHash /\ table' = table
    BY <1>0, <1>1, <1>10, <2>1, LastHeld DEF Fills
  <2>6. ASSUME NEW c \in Blocks, NEW o \in Offsets, hash'[c] # NoHash
        PROVE  Computed(c, o, toks[c][o + 1])'
    <3>1. CASE c # b
      BY <1>7, <2>4, <2>6, <3>1
    <3>2. CASE c = b
      <4>1. At(i, o) < Length(s) /\ t[o + 1] = tokens[s][At(i, o) + 1]
        BY <1>0, <2>1, FullBlock
      <4>2. PICK p \in Nat : p = At(i, o)
        BY <2>1, AtNat
      <4>3. CASE p = n - 1
        BY <1>5, <2>5, <3>2, <4>2, <4>3 DEF Computed
      <4>4. CASE p # n - 1
        <5>1. p < n - 1
          BY ONLY <1>2, <4>1, <4>2, <4>4, n \in Nat \ {0}
        <5>2. Computed(b, o, tokens[s][At(i, o) + 1])'
          BY <1>4, <1>6, <2>5, <4>2, <5>1
        <5>3. toks'[c][o + 1] = tokens'[s][At(i, o) + 1]
          BY <1>1, <2>4, <3>2, <4>1
        <5> QED BY <3>2, <5>2, <5>3 DEF Computed, EndsIn, At
      <4> QED BY <4>3, <4>4
    <3> QED BY <3>1, <3>2
  <2>7. ASSUME NEW r \in Seqs, NEW j \in 1 .. Len(table'[r]), NEW o \in Offsets,
               hash'[table'[r][j]] = NoHash, (At(j, o) < Goal(r))'
        PROVE  Computed(table[r][j], o, tokens[r][At(j, o) + 1])'
    <3>1. PICK c \in Blocks : c = table[r][j] /\ table'[r][j] = c /\ j \in 1 .. Len(table[r])
      BY <1>0, <2>5
    <3>2. hash[c] = NoHash
      BY <2>4, <2>7, <3>1
    <3>3. Computed(c, o, tokens[r][At(j, o) + 1])'
      BY <1>8, <2>7, <3>1, <3>2
    <3> QED BY <3>1, <3>3
  <2> QED BY <2>6, <2>7 DEF PublishedComputed, OpenComputed, Offsets
<1>11. CASE UNCHANGED <<table, hash, toks, index>>
  <2>1. ASSUME NEW c \in Blocks, NEW o \in Offsets, hash'[c] # NoHash
        PROVE  Computed(c, o, toks[c][o + 1])'
    BY <1>7, <1>11, <2>1
  <2>2. ASSUME NEW r \in Seqs, NEW j \in 1 .. Len(table'[r]), NEW o \in Offsets,
               hash'[table'[r][j]] = NoHash, (At(j, o) < Goal(r))'
        PROVE  Computed(table[r][j], o, tokens[r][At(j, o) + 1])'
    <3>1. PICK c \in Blocks : c = table[r][j] /\ table'[r][j] = c /\ j \in 1 .. Len(table[r])
      BY <1>0, <1>11
    <3>2. hash[c] = NoHash
      BY <1>11, <2>2, <3>1
    <3>3. Computed(c, o, tokens[r][At(j, o) + 1])'
      BY <1>8, <2>2, <3>1, <3>2
    <3> QED BY <3>1, <3>3
  <2> QED BY <2>1, <2>2 DEF PublishedComputed, OpenComputed, Offsets
<1> QED BY <1>1, <1>2, <1>9, <1>10, <1>11


LEMMA ComputedElsewhere ==
  ASSUME SameSizes, Inv, Tidy, Fitting, Contiguous, PublishedComputed, OpenComputed,
         Quiet, ~AllocBlock, ~DecodeAppend, kv' = kv
  PROVE  PublishedComputed' /\ OpenComputed'
<1>0. /\ tokens \in [Seqs -> Seq(Tokens)] /\ table \in [Seqs -> Seq(Blocks)] /\ NoLeak
      /\ [SchedNext]_vars
  BY QuietSched DEF Inv, TypeOK, Tidy
<1>1. /\ UNCHANGED <<hash, toks, index>>
      /\ table' = table \/ \E s \in Seqs : table[s] # << >> /\ table' = [table EXCEPT ![s] = Front(@)]
  BY <1>0, Elsewhere
<1>2. ASSUME NEW c \in Blocks, NEW o \in Offsets, hash'[c] # NoHash
      PROVE  Computed(c, o, toks[c][o + 1])'
  <2>1. PICK t : t = toks[c][o + 1]
    OBVIOUS
  <2>2. Computed(c, o, t)
    BY <1>1, <1>2, <2>1 DEF PublishedComputed
  <2>3. Computed(c, o, t)'
    BY <2>2, ComputedKept
  <2> QED BY <1>1, <2>1, <2>3 DEF Computed, EndsIn
<1>3. ASSUME NEW r \in Seqs, NEW j \in 1 .. Len(table'[r]), NEW o \in Offsets,
             hash'[table'[r][j]] = NoHash, (At(j, o) < Goal(r))'
      PROVE  Computed(table[r][j], o, tokens[r][At(j, o) + 1])'
  <2>1. j \in 1 .. Len(table[r]) /\ table'[r][j] = table[r][j]
    BY <1>0, <1>1, TableShrinks
  <2>2. PICK c \in Blocks : c = table[r][j] /\ table'[r][j] = c
    BY <1>0, <2>1
  <2>3. table[r] # << >> /\ j \in Nat \ {0}
    BY <1>0, <2>1
  <2>4. Goal(r)' = Goal(r)
    BY <2>3, GoalKept
  <2>5. At(j, o) < Goal(r)
    BY <1>3, <2>4 DEF At
  <2>6. PICK t : t = tokens[r][At(j, o) + 1]
    OBVIOUS
  <2>7. Computed(c, o, t)
    BY <1>1, <1>3, <2>1, <2>2, <2>5, <2>6 DEF OpenComputed
  <2>8. Computed(c, o, t)'
    BY <2>7, ComputedKept
  <2>9. tokens'[r][At(j, o) + 1] = t
    <3>1. TokensKept(r)
      BY <1>0, <2>3, PrefixKept
    <3>2. PICK p \in Nat : p = At(j, o)
      BY <2>3, AtNat
    <3>3. p < Length(r) /\ Length(r) \in Nat
      BY <1>0, <2>5, <3>2, GoalBelow DEF Length
    <3>4. p + 1 \in 1 .. Length(r)
      BY ONLY <3>3, p \in Nat
    <3> QED BY <2>6, <3>1, <3>2, <3>4 DEF TokensKept
  <2> QED BY <2>2, <2>8, <2>9 DEF Computed, EndsIn, At
<1> QED BY <1>2, <1>3 DEF PublishedComputed, OpenComputed, Offsets

\* a pass stores every entry that is awaited, from the token of its place
LEMMA PassStores ==
  ASSUME SameSizes, Inv, Tidy, Fitting, Reuse, Ahead, Run, NEW b \in Blocks, NEW o \in Offsets, NEW t,
         Computed(b, o, t),
         \A r \in Seqs : \A j \in 1 .. Len(table[r]) :
           table[r][j] = b /\ At(j, o) < Length(r) /\ Occurs(r, scheduled)
             => tokens[r][At(j, o) + 1] = t
  PROVE  EndsIn(b, o, t)'
<1>0. /\ table \in [Seqs -> Seq(Blocks)] /\ cached \in [Seqs -> Nat] /\ tokens \in [Seqs -> Seq(Tokens)]
      /\ scheduled \in Seq(Seqs) /\ pc = "run"
  BY DEF Inv, TypeOK, Run, Forward
<1>1. PICK k \in Slots : k = b * BlockSize + o
  BY SlotIn
<1>2. PICK here : here = {w \in Inputs : SlotOf(w[1], w[2]) = k}
  OBVIOUS
<1>3. kv'[k] = IF here = {} THEN kv[k]
               ELSE LET w == CHOOSE w \in here : TRUE IN Context(w[1], w[2])
  BY <1>2 DEF Run
<1>4. CASE here = {}
  <2>1. ~Awaited(b, o)
    <3>1. SUFFICES ASSUME Awaited(b, o) PROVE FALSE
      OBVIOUS
    <3>2. PICK r \in Seqs : \E j \in 1 .. Len(table[r]) :
            table[r][j] = b /\ At(j, o) < Length(r) /\ Awaits(r, At(j, o))
      BY <3>1 DEF Awaited
    <3>3. PICK j \in 1 .. Len(table[r]) :
            table[r][j] = b /\ At(j, o) < Length(r) /\ Awaits(r, At(j, o))
      BY <3>2
    <3>4. PICK p \in Nat, i \in Nat \ {0} : p = At(j, o) /\ i = j
      <4>1. j \in Nat \ {0}
        BY <1>0
      <4> QED BY <4>1, AtNat
    <3>5. Occurs(r, scheduled) /\ ((prefill /\ p >= cached[r]) \/ (~prefill /\ p = Length(r) - 1))
      BY <1>0, <3>3, <3>4 DEF Awaits, InBatch, Prefilling, Stepping
    <3>6. Length(r) \in Nat /\ cached[r] \in Nat /\ p < Length(r)
      BY <1>0, <3>3, <3>4 DEF Length
    <3>7. p \in InputPositions(r)
      BY <3>5, <3>6 DEF InputPositions
    <3>8. <<r, p>> \in Inputs
      BY <3>5, <3>7 DEF Inputs, Scheduled, Occurs
    <3>9. SlotOf(r, p) = k
      <4>1. At(i, o) \div BlockSize + 1 = i /\ (At(i, o) % BlockSize) = o
        BY AtUnique
      <4> QED BY <1>1, <3>3, <3>4, <4>1 DEF SlotOf, SameSizes
    <3>10. <<r, p>> \in here
      BY <1>2, <3>8, <3>9
    <3> QED BY <1>4, <3>10
  <2> QED BY <1>1, <1>3, <1>4, <2>1 DEF Computed, EndsIn
<1>5. CASE here # {}
  <2>1. PICK w \in here : kv'[k] = Context(w[1], w[2])
    BY <1>3, <1>5
  <2>2. w \in Inputs /\ SlotOf(w[1], w[2]) = k
    BY <1>2
  <2>3. PICK r \in Seqs, q \in Nat :
           /\ w = <<r, q>> /\ Occurs(r, scheduled) /\ q < Length(r) /\ Length(r) \in Nat
           /\ q \div BlockSize < Len(table[r])
    BY <1>0, <2>2, InputPlace
  <2>4. PICK j \in 1 .. Len(table[r]), u \in Offsets :
           /\ At(j, u) = q /\ SlotOf(r, q) = table[r][j] * BlockSize + u /\ table[r][j] \in Blocks
    BY <1>0, <2>3, PlaceOf
  <2>5. table[r][j] = b /\ u = o
    <3>1. table[r][j] * BlockSize + u = b * BlockSize + o
      BY <1>1, <2>2, <2>3, <2>4
    <3>2. table[r][j] \in Nat /\ b \in Nat
      BY <2>4, SizesAssumption DEF Blocks
    <3> QED BY ONLY <2>4, <3>1, <3>2, o \in Offsets, SlotUnique
  <2>6. tokens[r][q + 1] = t
    BY <2>3, <2>4, <2>5
  <2>7. PICK s \in Seq(Tokens) : s = tokens[r] /\ q < Len(s)
    BY <1>0, <2>3 DEF Length
  <2>8. kv'[k] = SubSeq(s, 1, q + 1)
    BY <2>1, <2>3, <2>7 DEF Context
  <2>9. SubSeq(s, 1, q + 1) # << >> /\ Last(SubSeq(s, 1, q + 1)) = s[q + 1]
    <3>1. 1 <= q + 1 /\ q + 1 \in Int /\ \A i \in 1 .. q + 1 : s[i] \in Tokens
      BY <2>7
    <3>2. PICK v : v = SubSeq(s, 1, q + 1)
      OBVIOUS
    <3>3. /\ v \in Seq(Tokens) /\ Len(v) = q + 1 - 1 + 1
          /\ \A i \in 1 .. q + 1 - 1 + 1 : v[i] = s[1 + i - 1]
      BY <3>1, <3>2, SubSeqProperties
    <3>4. Len(v) = q + 1 /\ v[q + 1] = s[q + 1]
      BY ONLY <3>3, q \in Nat
    <3>5. v # << >>
      BY <3>4
    <3> QED BY <3>2, <3>4, <3>5 DEF Last
  <2> QED BY <1>1, <2>6, <2>7, <2>8, <2>9 DEF EndsIn
<1> QED BY <1>4, <1>5


LEMMA ComputedPass ==
  ASSUME SameSizes, Inv, Tidy, Fitting, Reuse, Matching, Ahead, PublishedComputed, OpenComputed, Run
  PROVE  PublishedComputed' /\ OpenComputed'
<1>0. /\ table \in [Seqs -> Seq(Blocks)] /\ tokens \in [Seqs -> Seq(Tokens)] /\ Alone
      /\ pc = "run" /\ pc' = "post"
      /\ UNCHANGED <<hash, toks, table, tokens, scheduled>>
  BY DEF Inv, TypeOK, Tidy, Run, Forward, managerVars, queueVars
<1>1. ASSUME NEW c \in Blocks, NEW o \in Offsets, hash'[c] # NoHash
      PROVE  Computed(c, o, toks[c][o + 1])'
  <2>1. PICK t : t = toks[c][o + 1]
    OBVIOUS
  <2>2. Computed(c, o, t)
    BY <1>0, <1>1, <2>1 DEF PublishedComputed
  <2>3. ASSUME NEW r \in Seqs, NEW j \in 1 .. Len(table[r]), table[r][j] = c
        PROVE  tokens[r][At(j, o) + 1] = t
    <3>1. Matches(r, j)
      BY <1>0, <1>1, <2>3 DEF Matching
    <3> QED BY <2>1, <2>3, <3>1 DEF Matches
  <2>4. EndsIn(c, o, t)'
    BY <2>2, <2>3, PassStores
  <2> QED BY <1>0, <2>1, <2>4 DEF Computed, EndsIn
<1>2. ASSUME NEW s \in Seqs, NEW i \in 1 .. Len(table'[s]), NEW o \in Offsets,
             hash'[table'[s][i]] = NoHash, (At(i, o) < Goal(s))'
      PROVE  Computed(table[s][i], o, tokens[s][At(i, o) + 1])'
  <2>1. PICK c \in Blocks : c = table[s][i] /\ i \in 1 .. Len(table[s]) /\ hash[c] = NoHash
    BY <1>0, <1>2
  <2>2. Goal(s)' = Goal(s)
    BY <1>0 DEF Goal, InBatch, Leaving, Length, Occurs
  <2>3. At(i, o) < Goal(s)
    BY <1>2, <2>2 DEF At
  <2>4. PICK t : t = tokens[s][At(i, o) + 1]
    OBVIOUS
  <2>5. Computed(c, o, t)
    BY <2>1, <2>3, <2>4 DEF OpenComputed
  <2>6. ASSUME NEW r \in Seqs, NEW j \in 1 .. Len(table[r]), table[r][j] = c
        PROVE  tokens[r][At(j, o) + 1] = t
    <3>1. r = s /\ j = i
      BY <1>0, <2>1, <2>6 DEF Alone
    <3> QED BY <2>4, <3>1
  <2>7. EndsIn(c, o, t)'
    BY <2>5, <2>6, PassStores
  <2> QED BY <1>0, <2>1, <2>4, <2>7 DEF Computed, EndsIn, At
<1> QED BY <1>1, <1>2 DEF PublishedComputed, OpenComputed, Offsets

LEMMA ComputedStep ==
  ASSUME SameSizes, Inv, Tidy, Fitting, Reuse, Writers, PublishedComputed, OpenComputed,
         [EngineNext]_engineVars
  PROVE  PublishedComputed' /\ OpenComputed'
<1>1. CASE Run
  BY <1>1, ComputedPass DEF Writers
<1>2. CASE Quiet /\ kv' = kv
  BY <1>2, ComputedAlloc, ComputedAppend, ComputedElsewhere DEF Writers
<1>3. Run \/ (Quiet /\ kv' = kv)
  <2>1. CASE UNCHANGED engineVars
    BY <2>1 DEF engineVars, Quiet
  <2>2. CASE EngineNext
    BY <2>2 DEF EngineNext, KeepsCache, Quiet, Prefill, Decode, Postprocess, Terminated
  <2> QED BY <2>1, <2>2
<1> QED BY <1>1, <1>2, <1>3

\* after the pass nothing is awaited
LEMMA CacheHeld ==
  ASSUME SameSizes, Inv, Tidy, Fitting, Writers, PublishedComputed, OpenComputed
  PROVE  CacheHoldsTokens
<1> SUFFICES ASSUME pc = "post", tokens[Head(scheduled)] # << >>,
                    NEW p \in 0 .. Length(Head(scheduled)) - 1
             PROVE  /\ kv[SlotOf(Head(scheduled), p)] # << >>
                    /\ Last(kv[SlotOf(Head(scheduled), p)]) = tokens[Head(scheduled)][p + 1]
  BY DEF CacheHoldsTokens
<1>0. /\ table \in [Seqs -> Seq(Blocks)] /\ tokens \in [Seqs -> Seq(Tokens)] /\ scheduled \in Seq(Seqs)
      /\ Served /\ Matching
  BY DEF Inv, TypeOK, Tidy, Writers
<1>1. PICK s \in Seqs : s = Head(scheduled) /\ Occurs(s, scheduled)
  BY <1>0, HeadsTyped, OccursHeadTail
<1>2. PICK n \in Nat : n = Length(s) /\ p \in Nat /\ p < n
  BY <1>0, <1>1 DEF Length
<1>3. status[s] = "RUNNING" /\ ~Leaving(s) /\ InBatch(s)
  BY <1>0, <1>1 DEF Served, InService, Leaving, InBatch
<1>4. Len(table[s]) = BlocksFor(n) /\ Goal(s) = n
  BY <1>1, <1>2, <1>3 DEF Fitting, Fits, Due, Goal
<1>5. p \div BlockSize < Len(table[s])
  <2>1. PICK i \in Nat \ {0}, o \in Offsets : i = p \div BlockSize + 1 /\ At(i, o) = p
    BY <1>2, AtSplit
  <2>2. i \in 1 .. BlocksFor(n)
    BY <1>2, <2>1, AtWithin
  <2>3. p \div BlockSize \in Nat /\ BlocksFor(n) \in Nat
    BY <1>2, SizesAssumption, DivMod, BlocksForNat
  <2> QED BY ONLY <1>4, <2>1, <2>2, <2>3
<1>6. PICK i \in 1 .. Len(table[s]), o \in Offsets :
           /\ At(i, o) = p /\ SlotOf(s, p) = table[s][i] * BlockSize + o /\ table[s][i] \in Blocks
  BY <1>0, <1>2, <1>5, PlaceOf
<1>7. ~Awaited(table[s][i], o)
  BY DEF Awaited, Awaits, Prefilling, Stepping
<1>8. EndsIn(table[s][i], o, tokens[s][p + 1])
  <2>1. CASE hash[table[s][i]] # NoHash
    <3>1. EndsIn(table[s][i], o, toks[table[s][i]][o + 1])
      BY <1>6, <1>7, <2>1 DEF PublishedComputed, Computed
    <3>2. toks[table[s][i]][o + 1] = tokens[s][p + 1]
      BY <1>0, <1>6, <2>1 DEF Matching, Matches
    <3> QED BY <3>1, <3>2
  <2>2. CASE hash[table[s][i]] = NoHash
    <3>1. At(i, o) < Goal(s)
      BY <1>2, <1>4, <1>6
    <3> QED BY <1>6, <1>7, <2>2, <3>1 DEF OpenComputed, Computed
  <2> QED BY <2>1, <2>2
<1> QED BY <1>1, <1>6, <1>8 DEF EndsIn

\* Theorem.  CacheHoldsTokens: after a pass each position of each sequence of
\* the batch has an entry that was computed from its token.  Nothing it shares
\* was overwritten by another request or published before a pass stored it,
\* whatever was admitted, preempted and reused before (allocate, may_append,
\* prepare_prefill, prepare_decode, store_kvcache).
THEOREM CacheComplete ==
  ASSUME SameSizes
  PROVE  EngineSpec => []CacheHoldsTokens
<1>1. ASSUME EngineInit PROVE PublishedComputed /\ OpenComputed
  <2>1. hash = [b \in Blocks |-> NoHash] /\ table = [s \in Seqs |-> << >>]
    BY <1>1 DEF EngineInit, SchedInit, BlockInit
  <2>2. \A s \in Seqs : Len(table[s]) = 0
    BY <2>1
  <2> QED BY <2>1, <2>2 DEF PublishedComputed, OpenComputed
<1>2. Inv /\ Tidy /\ Fitting /\ Reuse /\ Writers /\ PublishedComputed /\ OpenComputed
        /\ [EngineNext]_engineVars => PublishedComputed' /\ OpenComputed'
  BY ComputedStep
<1>3. Inv /\ Tidy /\ Fitting /\ Writers /\ PublishedComputed /\ OpenComputed => CacheHoldsTokens
  BY CacheHeld
<1> QED BY <1>1, <1>2, <1>3, WritersInvariant, EngineImplementsScheduler, PTL DEF EngineSpec

=============================================================================
