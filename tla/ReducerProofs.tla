--------------------------- MODULE ReducerProofs ----------------------------
(***************************************************************************)
(* Proofs about Reducer and the collectives under it.                      *)
(*                                                                         *)
(* CollectivesPromised is a refinement: what rank 0 has taken was sent,    *)
(* and what is on its way down answers the call it will meet (Exchanged),  *)
(* because a rank has at most one call under way (Calls). It is kept call  *)
(* by call: what is said of the calls up to the h-th needs the ranks to    *)
(* have made the same ones so far (Group!Agreed), and no more.             *)
(*                                                                         *)
(* ReducerTypes follows one rank: RankLocal says how far its gradients     *)
(* have grown since the iteration before, and that a gradient is put into  *)
(* the bucket of its own parameter, whatever the user does.                *)
(*                                                                         *)
(* ObjectsInv says which tensor objects the buckets hold and which of them *)
(* all-reduce has written to: ones that backward handed to a parameter of  *)
(* the bucket, in this iteration, or new ones.                             *)
(*                                                                         *)
(* UnsyncedLocal places each gradient of a no_sync iteration where it was  *)
(* added (Placing): none of its objects was written to, because a write is *)
(* to an object of a synchronised iteration.                               *)
(*                                                                         *)
(* CollectivesInOrder counts calls. The program of a rank has an order of  *)
(* its calls, by iteration and by the time at which a bucket fills; what a *)
(* rank makes as its n-th call is the one with n up to it (Labelled,       *)
(* Counted), because the pending sets say which gradients of a bucket have *)
(* arrived by the clock of backward (Clocked). Two ranks in step have the  *)
(* same calls in the same order, so the same count means the same call.    *)
(*                                                                         *)
(* AccumulatedLost and AveragesCorrect say what these calls carry. A call  *)
(* of an iteration in step is that call on every rank that gets so far,    *)
(* also on one that has left the ranks in step since (Numbering, Left), so *)
(* what it returns is the sum of all ranks' terms; the buckets hold a      *)
(* rank's own terms until then and the averages after (Held), and so does  *)
(* param.grad (Grads). That holds of the parameters whose tensor no rank   *)
(* shares (Lone): no other call writes to it (NotRewritten).               *)
(***************************************************************************)
EXTENDS Reducer, Sums, SequenceTheorems

-----------------------------------------------------------------------------
(* Sequences of no particular type                                         *)

Sequence(s) == \E S : s \in Seq(S)

LEMMA SequenceLen ==
  ASSUME NEW s, Sequence(s)
  PROVE  Len(s) \in Nat /\ DOMAIN s = 1 .. Len(s) /\ (s # << >> <=> Len(s) > 0)
<1>1. PICK S : s \in Seq(S)
  BY DEF Sequence
<1> QED BY <1>1

LEMMA SequenceEmpty == Sequence(<< >>) /\ Len(<< >>) = 0
<1>1. << >> \in Seq({})
  OBVIOUS
<1>2. Sequence(<< >>)
  BY ONLY <1>1 DEF Sequence
<1> QED BY <1>2

LEMMA SequenceAppend ==
  ASSUME NEW s, Sequence(s), NEW e
  PROVE  /\ Sequence(Append(s, e)) /\ Len(Append(s, e)) = Len(s) + 1
         /\ \A k \in 1 .. Len(s) : Append(s, e)[k] = s[k]
         /\ Append(s, e)[Len(s) + 1] = e /\ Append(s, e) # << >>
<1>1. PICK S : s \in Seq(S)
  BY DEF Sequence
<1>2. PICK T : T = S \cup {e}
  OBVIOUS
<1>3. s \in Seq(T) /\ e \in T
  BY <1>1, <1>2
<1>4. /\ Append(s, e) \in Seq(T) /\ Len(Append(s, e)) = Len(s) + 1
      /\ \A k \in 1 .. Len(s) : Append(s, e)[k] = s[k]
      /\ Append(s, e)[Len(s) + 1] = e
  BY <1>3, AppendProperties
<1>5. Append(s, e) # << >>
  BY <1>3, <1>4
<1> QED BY <1>4, <1>5 DEF Sequence

LEMMA SequenceTail ==
  ASSUME NEW s, Sequence(s), s # << >>
  PROVE  /\ Sequence(Tail(s)) /\ Len(Tail(s)) = Len(s) - 1
         /\ \A k \in 1 .. Len(s) - 1 : Tail(s)[k] = s[k + 1]
         /\ Head(s) = s[1]
<1>1. PICK S : s \in Seq(S)
  BY DEF Sequence
<1>2. Tail(s) \in Seq(S) /\ Len(Tail(s)) = Len(s) - 1 /\ Head(s) = s[1]
  BY <1>1, HeadTailProperties
<1>3. \A k \in 1 .. Len(s) - 1 : Tail(s)[k] = s[k + 1]
  BY <1>1, HeadTailProperties
<1> QED BY <1>2, <1>3 DEF Sequence

LEMMA SequenceOne ==
  ASSUME NEW e
  PROVE  /\ Append(<< >>, e) = <<e>> /\ Sequence(<<e>>) /\ <<e>> # << >>
         /\ Head(<<e>>) = e /\ Tail(<<e>>) = << >> /\ Len(<<e>>) = 1
<1>1. <<e>> \in Seq({e})
  OBVIOUS
<1>2. Sequence(<<e>>)
  BY <1>1 DEF Sequence
<1>3. Append(<< >>, e) = <<e>>
  OBVIOUS
<1>4. <<e>> # << >> /\ Head(<<e>>) = e /\ Tail(<<e>>) = << >> /\ Len(<<e>>) = 1
  OBVIOUS
<1> QED BY <1>2, <1>3, <1>4

Function(f, S) == f = [x \in S |-> f[x]]

Same(f, g, S, r) == \A q \in S : q # r => g[q] = f[q]

Sets(f, g, r, v) == g = [f EXCEPT ![r] = v]

LEMMA SetsOne ==
  ASSUME NEW S, NEW f, Function(f, S), NEW r \in S, NEW v, NEW g, Sets(f, g, r, v)
  PROVE  Function(g, S) /\ g[r] = v /\ Same(f, g, S, r)
BY DEF Function, Same, Sets

-----------------------------------------------------------------------------
(* The collectives: what is known of every state, whatever the ranks call  *)

\* the call r is in, when it is in one, and else the last
Call(r) == given[r][Len(given[r])]
Inside(r) == IF phase[r] = "idle" THEN 0 ELSE 1

\* how many results rank 0 has sent to r
Delivered(r) == Len(taken[0]) + (IF phase[0] = "scatter" /\ r < peer THEN 1 ELSE 0)

Shapes ==
  /\ Function(given, Ranks) /\ Function(taken, Ranks) /\ Function(phase, Ranks)
  /\ Function(acc, Ranks) /\ Function(up, Peers) /\ Function(down, Peers)
  /\ \A r \in Ranks : Sequence(given[r]) /\ Sequence(taken[r])
  /\ \A r \in Peers : Sequence(up[r]) /\ Sequence(down[r])
  /\ phase[0] \in {"idle", "gather", "scatter", "broken"}
  /\ \A r \in Peers : phase[r] \in {"idle", "send", "receive", "broken"}
  /\ peer \in 1 .. N

\* a rank has one result for each call it is not in, and the result of a call is on
\* its way to a rank from the moment rank 0 has sent it
Counts ==
  /\ \A r \in Ranks : Len(given[r]) = Len(taken[r]) + Inside(r)
  /\ \A r \in Peers : Len(taken[r]) + Len(down[r]) = Delivered(r)

CallsMade ==
  /\ \A r \in Ranks : \A n \in 1 .. Len(given[r]) : given[r][n].op \in Group!Ops
  /\ \A r \in Peers : phase[r] = "send" => Call(r).op = "allreduce" /\ acc[r] = Call(r).val
  /\ phase[0] \in {"gather", "broken"} => Call(0).op = "allreduce"

Calls == Shapes /\ Counts /\ CallsMade

\* Rank 0 has taken, in its n-th call, what q contributes to it; q has sent its n-th
Passed(q, n) ==
  \/ n <= Len(taken[0])
  \/ /\ n = Len(given[0])
     /\ (phase[0] = "scatter" \/ (phase[0] \in {"gather", "broken"} /\ q < peer))
Sent(q, n) == n <= Len(taken[q]) \/ (n = Len(given[q]) /\ phase[q] \in {"receive", "broken"})

OutcomeOf(g, op, n) == IF op = "allreduce" THEN UNION {g[q][n].val : q \in Ranks}
                                           ELSE g[0][n].val

\* Of ranks whose calls up to the h-th are the same: what rank 0 took was sent, what is
\* on its way up was not taken, what is on its way down is the outcome of the call it
\* answers, and so is what was returned
TakenSent(h) == \A q \in Peers : \A n \in 1 .. Len(given[0]) :
                  n <= h /\ given[0][n].op = "allreduce" /\ Passed(q, n) => Sent(q, n)
GoingUp(h) == \A q \in Peers : up[q] # << >> /\ Len(given[q]) <= h =>
                /\ phase[q] \in {"receive", "broken"} /\ Call(q).op = "allreduce"
                /\ up[q] = <<Call(q).val>> /\ ~Passed(q, Len(given[q]))
GoingDown(h) == \A q \in Peers : \A k \in 1 .. Len(down[q]) : Len(taken[q]) + k <= h =>
                  down[q][k] = OutcomeOf(given, given[0][Len(taken[q]) + k].op, Len(taken[q]) + k)
GatheredSoFar(h) == phase[0] = "gather" /\ Len(given[0]) <= h =>
  acc[0] = UNION {given[q][Len(given[0])].val : q \in 0 .. peer - 1}
Result(h) == phase[0] = "scatter" /\ Len(given[0]) <= h =>
  acc[0] = OutcomeOf(given, Call(0).op, Len(given[0]))
Returned(h) == \A r \in Ranks : \A n \in 1 .. Len(taken[r]) : n <= h =>
  taken[r][n] = OutcomeOf(given, given[0][n].op, n)

Exchanged(h) == TakenSent(h) /\ GoingUp(h) /\ GoingDown(h) /\ GatheredSoFar(h) /\ Result(h) /\ Returned(h)

GlooInv == Calls /\ \A h \in Nat : Group!Agreed(h) => Exchanged(h)

\* the connection of r breaks in a receive
Breaks(r) ==
  /\ IF r = 0 THEN phase[0] = "gather" ELSE phase[r] = "receive"
  /\ phase' = [phase EXCEPT ![r] = "broken"]
  /\ UNCHANGED <<given, taken, up, down, acc, peer>>

GlooNext ==
  \E r \in Ranks : \/ \E op \in Group!Ops : \E v, x : Begin(r, op, v, x)
                   \/ GlooStep(r) \/ Breaks(r)

LEMMA RanksPeers ==
  /\ N \in Nat \ {0} /\ 0 \in Ranks /\ 0 \notin Peers /\ Ranks \subseteq Int /\ Peers \subseteq Ranks
  /\ \A r \in Ranks : r # 0 => r \in Peers
  /\ \A r \in Peers : r \in 1 .. N - 1
  /\ \A r \in 1 .. N - 1 : r \in Peers
  /\ Group!Ranks = Ranks
BY WorldAssumption DEF Ranks, Peers, Group!Ranks

LEMMA Lengths ==
  ASSUME Shapes
  PROVE  /\ \A r \in Ranks : /\ Len(given[r]) \in Nat /\ DOMAIN given[r] = 1 .. Len(given[r])
                             /\ Len(taken[r]) \in Nat
         /\ \A r \in Peers : /\ Len(up[r]) \in Nat /\ (up[r] # << >> <=> Len(up[r]) > 0)
                             /\ Len(down[r]) \in Nat /\ (down[r] # << >> <=> Len(down[r]) > 0)
BY SequenceLen DEF Shapes

\* What the actions change, point by point

LEMMA BeginEffect ==
  ASSUME Shapes, NEW r \in Ranks, NEW op \in Group!Ops, NEW v, NEW x, Begin(r, op, v, x)
  PROVE  /\ phase[r] = "idle" /\ Function(given', Ranks) /\ Function(phase', Ranks) /\ Function(acc', Ranks)
         /\ Sequence(given'[r]) /\ Len(given'[r]) = Len(given[r]) + 1
         /\ \A n \in 1 .. Len(given[r]) : given'[r][n] = given[r][n]
         /\ given'[r][Len(given[r]) + 1].op = op /\ given'[r][Len(given[r]) + 1].val = v
         /\ given'[r][Len(given[r]) + 1].tensor = x
         /\ Same(given, given', Ranks, r)
         /\ phase'[r] = First(op, r) /\ Same(phase, phase', Ranks, r)
         /\ acc'[r] = v /\ Same(acc, acc', Ranks, r)
         /\ peer' = (IF r = 0 THEN 1 ELSE peer)
         /\ taken' = taken /\ up' = up /\ down' = down
<1>1. Function(given, Ranks) /\ Function(phase, Ranks) /\ Function(acc, Ranks) /\ Sequence(given[r])
  BY DEF Shapes
<1>2. PICK c : c = [op |-> op, val |-> v, tensor |-> x]
  OBVIOUS
<1>3. c.op = op /\ c.val = v /\ c.tensor = x
  BY <1>2
<1>4. /\ phase[r] = "idle" /\ Sets(given, given', r, Append(given[r], c))
      /\ Sets(phase, phase', r, First(op, r)) /\ Sets(acc, acc', r, v)
      /\ peer' = (IF r = 0 THEN 1 ELSE peer)
      /\ taken' = taken /\ up' = up /\ down' = down
  BY <1>2 DEF Begin, Sets
<1>5. Function(given', Ranks) /\ given'[r] = Append(given[r], c) /\ Same(given, given', Ranks, r)
  BY <1>1, <1>4, SetsOne
<1>6. Function(phase', Ranks) /\ phase'[r] = First(op, r) /\ Same(phase, phase', Ranks, r)
  BY <1>1, <1>4, SetsOne
<1>7. Function(acc', Ranks) /\ acc'[r] = v /\ Same(acc, acc', Ranks, r)
  BY <1>1, <1>4, SetsOne
<1>8. /\ Sequence(given'[r]) /\ Len(given'[r]) = Len(given[r]) + 1
      /\ \A n \in 1 .. Len(given[r]) : given'[r][n] = given[r][n]
      /\ given'[r][Len(given[r]) + 1] = c
  BY <1>1, <1>5, SequenceAppend
<1> QED BY <1>3, <1>4, <1>5, <1>6, <1>7, <1>8

LEMMA SendUpEffect ==
  ASSUME Shapes, NEW r \in Peers, SendUp(r)
  PROVE  /\ phase[r] = "send" /\ Function(phase', Ranks) /\ Function(up', Peers)
         /\ phase'[r] = "receive" /\ Same(phase, phase', Ranks, r)
         /\ up'[r] = Append(up[r], acc[r]) /\ Sequence(up'[r]) /\ Same(up, up', Peers, r)
         /\ given' = given /\ taken' = taken /\ down' = down /\ acc' = acc /\ peer' = peer
<1>1. Function(phase, Ranks) /\ Function(up, Peers) /\ Sequence(up[r]) /\ r \in Ranks
  BY RanksPeers DEF Shapes
<1>2. /\ phase[r] = "send" /\ Sets(up, up', r, Append(up[r], acc[r]))
      /\ Sets(phase, phase', r, "receive")
      /\ given' = given /\ taken' = taken /\ down' = down /\ acc' = acc /\ peer' = peer
  BY DEF SendUp, Sets
<1>3. Function(phase', Ranks) /\ phase'[r] = "receive" /\ Same(phase, phase', Ranks, r)
  BY <1>1, <1>2, SetsOne
<1>4. Function(up', Peers) /\ up'[r] = Append(up[r], acc[r]) /\ Same(up, up', Peers, r)
  BY <1>1, <1>2, SetsOne
<1>5. Sequence(up'[r])
  BY <1>1, <1>4, SequenceAppend
<1> QED BY <1>2, <1>3, <1>4, <1>5

LEMMA GatherEffect ==
  ASSUME Shapes, Gather
  PROVE  /\ phase[0] = "gather" /\ peer \in Peers /\ up[peer] # << >> /\ peer' = peer + 1 /\ peer' \in 1 .. N
         /\ Function(acc', Ranks) /\ acc'[0] = acc[0] \cup Head(up[peer]) /\ Same(acc, acc', Ranks, 0)
         /\ Function(up', Peers) /\ up'[peer] = Tail(up[peer]) /\ Sequence(up'[peer])
         /\ Same(up, up', Peers, peer)
         /\ given' = given /\ taken' = taken /\ down' = down /\ phase' = phase
<1>1. /\ phase[0] = "gather" /\ peer < N /\ up[peer] # << >>
      /\ Sets(acc, acc', 0, acc[0] \cup Head(up[peer]))
      /\ Sets(up, up', peer, Tail(up[peer])) /\ peer' = peer + 1
      /\ given' = given /\ taken' = taken /\ down' = down /\ phase' = phase
  BY DEF Gather, End, Sets
<1>2. N \in Nat \ {0} /\ peer \in 1 .. N
  BY WorldAssumption DEF Shapes
<1>3. peer \in 1 .. N - 1 /\ peer' \in 1 .. N
  BY ONLY <1>1, <1>2
<1>4. peer \in Peers
  BY <1>3, RanksPeers
<1>5. Function(acc, Ranks) /\ Function(up, Peers) /\ Sequence(up[peer]) /\ 0 \in Ranks
  BY <1>4, RanksPeers DEF Shapes
<1>6. Function(acc', Ranks) /\ acc'[0] = acc[0] \cup Head(up[peer]) /\ Same(acc, acc', Ranks, 0)
  BY <1>1, <1>5, SetsOne
<1>7. Function(up', Peers) /\ up'[peer] = Tail(up[peer]) /\ Same(up, up', Peers, peer)
  BY <1>1, <1>4, <1>5, SetsOne
<1>8. Sequence(up'[peer])
  BY <1>1, <1>5, <1>7, SequenceTail
<1> QED BY <1>1, <1>3, <1>4, <1>6, <1>7, <1>8

LEMMA GatheredEffect ==
  ASSUME Shapes, Gathered
  PROVE  /\ phase[0] = "gather" /\ peer = N /\ peer' = 1
         /\ Function(phase', Ranks) /\ phase'[0] = "scatter" /\ Same(phase, phase', Ranks, 0)
         /\ given' = given /\ taken' = taken /\ down' = down /\ up' = up /\ acc' = acc
<1>1. Function(phase, Ranks) /\ 0 \in Ranks
  BY RanksPeers DEF Shapes
<1>2. /\ phase[0] = "gather" /\ peer = N /\ peer' = 1 /\ Sets(phase, phase', 0, "scatter")
      /\ given' = given /\ taken' = taken /\ down' = down /\ up' = up /\ acc' = acc
  BY DEF Gathered, End, Sets
<1>3. Function(phase', Ranks) /\ phase'[0] = "scatter" /\ Same(phase, phase', Ranks, 0)
  BY <1>1, <1>2, SetsOne
<1> QED BY <1>2, <1>3

LEMMA ScatterEffect ==
  ASSUME Shapes, Scatter
  PROVE  /\ phase[0] = "scatter" /\ peer \in Peers /\ peer' = peer + 1 /\ peer' \in 1 .. N
         /\ Function(down', Peers) /\ Sequence(down'[peer]) /\ Len(down'[peer]) = Len(down[peer]) + 1
         /\ \A k \in 1 .. Len(down[peer]) : down'[peer][k] = down[peer][k]
         /\ down'[peer][Len(down[peer]) + 1] = acc[0] /\ Same(down, down', Peers, peer)
         /\ given' = given /\ taken' = taken /\ up' = up /\ phase' = phase /\ acc' = acc
<1>1. /\ phase[0] = "scatter" /\ peer < N
      /\ Sets(down, down', peer, Append(down[peer], acc[0])) /\ peer' = peer + 1
      /\ given' = given /\ taken' = taken /\ up' = up /\ phase' = phase /\ acc' = acc
  BY DEF Scatter, Sets
<1>2. N \in Nat \ {0} /\ peer \in 1 .. N
  BY WorldAssumption DEF Shapes
<1>3. peer \in 1 .. N - 1 /\ peer' \in 1 .. N
  BY ONLY <1>1, <1>2
<1>4. peer \in Peers
  BY <1>3, RanksPeers
<1>5. Function(down, Peers) /\ Sequence(down[peer])
  BY <1>4 DEF Shapes
<1>6. Function(down', Peers) /\ down'[peer] = Append(down[peer], acc[0]) /\ Same(down, down', Peers, peer)
  BY <1>1, <1>4, <1>5, SetsOne
<1>7. /\ Sequence(down'[peer]) /\ Len(down'[peer]) = Len(down[peer]) + 1
      /\ \A k \in 1 .. Len(down[peer]) : down'[peer][k] = down[peer][k]
      /\ down'[peer][Len(down[peer]) + 1] = acc[0]
  BY <1>5, <1>6, SequenceAppend
<1> QED BY <1>1, <1>3, <1>4, <1>6, <1>7

LEMMA ReturnsEffect ==
  ASSUME Shapes, NEW r \in Ranks, NEW v, Returns(r, v)
  PROVE  /\ Function(taken', Ranks) /\ taken'[r] = Append(taken[r], v) /\ Sequence(taken'[r])
         /\ Len(taken'[r]) = Len(taken[r]) + 1 /\ taken'[r][Len(taken[r]) + 1] = v
         /\ Same(taken, taken', Ranks, r)
         /\ Function(phase', Ranks) /\ phase'[r] = "idle" /\ Same(phase, phase', Ranks, r)
         /\ given' = given /\ up' = up /\ peer' = peer
<1>1. Function(taken, Ranks) /\ Function(phase, Ranks) /\ Sequence(taken[r])
  BY DEF Shapes
<1>2. /\ Sets(taken, taken', r, Append(taken[r], v)) /\ Sets(phase, phase', r, "idle")
      /\ given' = given /\ up' = up /\ peer' = peer
  BY DEF Returns, Sets
<1>3. Function(phase', Ranks) /\ phase'[r] = "idle" /\ Same(phase, phase', Ranks, r)
  BY <1>1, <1>2, SetsOne
<1>4. Function(taken', Ranks) /\ taken'[r] = Append(taken[r], v) /\ Same(taken, taken', Ranks, r)
  BY <1>1, <1>2, SetsOne
<1>5. Sequence(taken'[r]) /\ Len(taken'[r]) = Len(taken[r]) + 1 /\ taken'[r][Len(taken[r]) + 1] = v
  BY <1>1, <1>4, SequenceAppend
<1> QED BY <1>2, <1>3, <1>4, <1>5

LEMMA ReceiveEffect ==
  ASSUME Shapes, NEW r \in Peers, Receive(r)
  PROVE  /\ phase[r] = "receive" /\ down[r] # << >> /\ Returns(r, down[r][1])
         /\ Function(acc', Ranks) /\ Same(acc, acc', Ranks, r)
         /\ Function(down', Peers) /\ Sequence(down'[r]) /\ Len(down'[r]) = Len(down[r]) - 1
         /\ \A k \in 1 .. Len(down[r]) - 1 : down'[r][k] = down[r][k + 1]
         /\ Same(down, down', Peers, r)
<1>1. Function(acc, Ranks) /\ Function(down, Peers) /\ Sequence(down[r]) /\ r \in Ranks
  BY RanksPeers DEF Shapes
<1>2. /\ phase[r] = "receive" /\ down[r] # << >> /\ Returns(r, Head(down[r]))
      /\ Sets(acc, acc', r, Head(down[r])) /\ Sets(down, down', r, Tail(down[r]))
  BY DEF Receive, Sets
<1>3. /\ Head(down[r]) = down[r][1] /\ Sequence(Tail(down[r])) /\ Len(Tail(down[r])) = Len(down[r]) - 1
      /\ \A k \in 1 .. Len(down[r]) - 1 : Tail(down[r])[k] = down[r][k + 1]
  BY <1>1, <1>2, SequenceTail
<1>4. Function(acc', Ranks) /\ Same(acc, acc', Ranks, r)
  BY <1>1, <1>2, SetsOne
<1>5. Function(down', Peers) /\ down'[r] = Tail(down[r]) /\ Same(down, down', Peers, r)
  BY <1>1, <1>2, SetsOne
<1> QED BY <1>2, <1>3, <1>4, <1>5

LEMMA BreaksEffect ==
  ASSUME Shapes, NEW r \in Ranks, Breaks(r)
  PROVE  /\ Function(phase', Ranks) /\ phase'[r] = "broken" /\ Same(phase, phase', Ranks, r)
         /\ phase[r] = (IF r = 0 THEN "gather" ELSE "receive")
         /\ given' = given /\ taken' = taken /\ down' = down /\ up' = up /\ acc' = acc /\ peer' = peer
<1>1. Function(phase, Ranks)
  BY DEF Shapes
<1>2. /\ Sets(phase, phase', r, "broken")
      /\ given' = given /\ taken' = taken /\ down' = down /\ up' = up /\ acc' = acc /\ peer' = peer
      /\ phase[r] = (IF r = 0 THEN "gather" ELSE "receive")
  BY DEF Breaks, Sets
<1>3. Function(phase', Ranks) /\ phase'[r] = "broken" /\ Same(phase, phase', Ranks, r)
  BY <1>1, <1>2, SetsOne
<1> QED BY <1>2, <1>3

LEMMA DeliveredIs ==
  ASSUME NEW r
  PROVE  /\ phase[0] = "scatter" /\ r < peer => Delivered(r) = Len(taken[0]) + 1
         /\ ~(phase[0] = "scatter" /\ r < peer) => Delivered(r) = Len(taken[0]) + 0
BY DEF Delivered

LEMMA DeliveredNext ==
  ASSUME NEW r
  PROVE  /\ phase'[0] = "scatter" /\ r < peer' => Delivered(r)' = Len(taken'[0]) + 1
         /\ ~(phase'[0] = "scatter" /\ r < peer') => Delivered(r)' = Len(taken'[0]) + 0
BY DEF Delivered

LEMMA InsideIs ==
  ASSUME NEW r
  PROVE  /\ phase[r] = "idle" => Inside(r) = 0
         /\ phase[r] # "idle" => Inside(r) = 1
         /\ phase'[r] = "idle" => Inside(r)' = 0
         /\ phase'[r] # "idle" => Inside(r)' = 1
BY DEF Inside

LEMMA OneMoved ==
  ASSUME NEW a \in Nat, NEW b \in Nat
  PROVE  (a + 1) + (b - 1) = a + b /\ a + (b + 1) = (a + b) + 1 /\ a + 1 = a + (0 + 1)
OBVIOUS

LEMMA CallsInit == GlooInit => Calls
<1> SUFFICES ASSUME GlooInit PROVE Calls
  OBVIOUS
<1>1. \A r \in Ranks : given[r] = << >> /\ taken[r] = << >> /\ phase[r] = "idle"
  BY DEF GlooInit
<1>2. \A r \in Peers : up[r] = << >> /\ down[r] = << >>
  BY DEF GlooInit
<1>3. Shapes
  <2>1. /\ Function(given, Ranks) /\ Function(taken, Ranks) /\ Function(phase, Ranks)
        /\ Function(acc, Ranks) /\ Function(up, Peers) /\ Function(down, Peers)
    BY DEF GlooInit, Function
  <2>2. peer \in 1 .. N
    BY WorldAssumption DEF GlooInit
  <2> QED BY <1>1, <1>2, <2>1, <2>2, SequenceEmpty, RanksPeers DEF Shapes
<1>4. Counts
  <2>1. \A r \in Ranks : Len(given[r]) = 0 /\ Len(taken[r]) = 0 /\ Inside(r) = 0
    BY <1>1, SequenceEmpty, InsideIs
  <2>2. \A r \in Peers : Len(taken[r]) = 0 /\ Len(down[r]) = 0 /\ Delivered(r) = 0 + 0
    BY <1>1, <1>2, <2>1, SequenceEmpty, RanksPeers, DeliveredIs
  <2>3. \A r \in Ranks : Len(given[r]) = Len(taken[r]) + Inside(r)
    BY <2>1
  <2>4. \A r \in Peers : Len(taken[r]) + Len(down[r]) = Delivered(r)
    BY <2>2
  <2> QED BY <2>3, <2>4 DEF Counts
<1>5. CallsMade
  BY <1>1, SequenceEmpty, RanksPeers DEF CallsMade
<1> QED BY <1>3, <1>4, <1>5 DEF Calls

LEMMA BeginCalls ==
  ASSUME Calls, NEW r \in Ranks, NEW op \in Group!Ops, NEW v, NEW x, Begin(r, op, v, x)
  PROVE  Calls'
<1>0. Shapes /\ Counts /\ CallsMade
  BY DEF Calls
<1>1. /\ phase[r] = "idle" /\ Function(given', Ranks) /\ Function(phase', Ranks) /\ Function(acc', Ranks)
      /\ Sequence(given'[r]) /\ Len(given'[r]) = Len(given[r]) + 1
      /\ \A n \in 1 .. Len(given[r]) : given'[r][n] = given[r][n]
      /\ given'[r][Len(given[r]) + 1].op = op /\ given'[r][Len(given[r]) + 1].val = v
      /\ Same(given, given', Ranks, r)
      /\ phase'[r] = First(op, r) /\ Same(phase, phase', Ranks, r)
      /\ acc'[r] = v /\ Same(acc, acc', Ranks, r)
      /\ peer' = (IF r = 0 THEN 1 ELSE peer)
      /\ taken' = taken /\ up' = up /\ down' = down
  BY <1>0, BeginEffect
<1>2. \A q \in Ranks : q # r => given'[q] = given[q] /\ phase'[q] = phase[q] /\ acc'[q] = acc[q]
  BY <1>1 DEF Same
<1>3. IF r = 0 THEN phase'[r] \in {"gather", "scatter"} /\ (phase'[r] = "gather" => op = "allreduce")
               ELSE phase'[r] \in {"send", "receive"} /\ (phase'[r] = "send" => op = "allreduce")
  BY <1>1 DEF First
<1>4. Shapes'
  <2>1. peer' \in 1 .. N
    BY <1>0, <1>1, WorldAssumption DEF Shapes
  <2>2. \A q \in Ranks : Sequence(given'[q]) /\ Sequence(taken'[q])
    BY <1>0, <1>1, <1>2 DEF Shapes
  <2>3. phase'[0] \in {"idle", "gather", "scatter", "broken"}
    BY <1>0, <1>2, <1>3, RanksPeers DEF Shapes
  <2>4. \A q \in Peers : phase'[q] \in {"idle", "send", "receive", "broken"}
    BY <1>0, <1>2, <1>3, RanksPeers DEF Shapes
  <2> QED BY <1>0, <1>1, <2>1, <2>2, <2>3, <2>4 DEF Shapes
<1>5. Counts'
  <2>1. \A q \in Ranks : Len(given'[q]) = Len(taken'[q]) + Inside(q)'
    <3>1. Len(given'[r]) = Len(taken'[r]) + Inside(r)'
      <4>1. Inside(r) = 0 /\ Inside(r)' = 1
        BY <1>1, <1>3, InsideIs
      <4> QED BY <1>0, <1>1, <4>1, Lengths DEF Counts
    <3>2. \A q \in Ranks : q # r => Inside(q)' = Inside(q)
      BY <1>2, InsideIs
    <3> QED BY <1>0, <1>1, <1>2, <3>1, <3>2 DEF Counts
  <2>2. \A q \in Peers : Delivered(q)' = Delivered(q)
    <3>1. CASE r = 0
      <4>1. \A q \in Peers : ~(q < peer')
        BY <1>1, <3>1, RanksPeers
      <4> QED BY <1>1, <3>1, <4>1, DeliveredIs, DeliveredNext
    <3>2. CASE r # 0
      <4>1. phase'[0] = phase[0] /\ peer' = peer
        BY <1>1, <1>2, <3>2, RanksPeers
      <4> QED BY <1>1, <4>1, DeliveredIs, DeliveredNext
    <3> QED BY <3>1, <3>2
  <2> QED BY <1>0, <1>1, <2>1, <2>2 DEF Counts
<1>6. CallsMade'
  <2>1. \A q \in Ranks : \A n \in 1 .. Len(given'[q]) : given'[q][n].op \in Group!Ops
    BY <1>0, <1>1, <1>2, Lengths DEF CallsMade
  <2>2. \A q \in Peers : phase'[q] = "send" => Call(q)'.op = "allreduce" /\ acc'[q] = Call(q)'.val
    BY <1>0, <1>1, <1>2, <1>3, RanksPeers DEF CallsMade, Call
  <2>3. phase'[0] \in {"gather", "broken"} => Call(0)'.op = "allreduce"
    BY <1>0, <1>1, <1>2, <1>3, RanksPeers DEF CallsMade, Call
  <2> QED BY <2>1, <2>2, <2>3 DEF CallsMade
<1> QED BY <1>4, <1>5, <1>6 DEF Calls

LEMMA SendUpCalls ==
  ASSUME Calls, NEW r \in Peers, SendUp(r)
  PROVE  Calls'
<1>0. Shapes /\ Counts /\ CallsMade
  BY DEF Calls
<1>1. /\ phase[r] = "send" /\ Function(phase', Ranks) /\ Function(up', Peers)
      /\ phase'[r] = "receive" /\ Same(phase, phase', Ranks, r)
      /\ up'[r] = Append(up[r], acc[r]) /\ Sequence(up'[r]) /\ Same(up, up', Peers, r)
      /\ given' = given /\ taken' = taken /\ down' = down /\ acc' = acc /\ peer' = peer
  BY <1>0, SendUpEffect
<1>2. (\A q \in Ranks : q # r => phase'[q] = phase[q]) /\ (\A q \in Peers : q # r => up'[q] = up[q])
  BY <1>1 DEF Same
<1>3. r \in Ranks /\ r # 0 /\ 0 \in Ranks /\ \A q \in Peers : q \in Ranks
  BY RanksPeers
<1>4. Shapes'
  BY <1>0, <1>1, <1>2, <1>3 DEF Shapes
<1>5. Counts'
  BY <1>0, <1>1, <1>2, <1>3 DEF Counts, Inside, Delivered
<1>6. CallsMade'
  BY <1>0, <1>1, <1>2, <1>3 DEF CallsMade, Call
<1> QED BY <1>4, <1>5, <1>6 DEF Calls

LEMMA GatherCalls ==
  ASSUME Calls, Gather
  PROVE  Calls'
<1>0. Shapes /\ Counts /\ CallsMade
  BY DEF Calls
<1>1. /\ phase[0] = "gather" /\ peer \in Peers /\ peer' \in 1 .. N
      /\ Function(acc', Ranks) /\ Same(acc, acc', Ranks, 0)
      /\ Function(up', Peers) /\ Sequence(up'[peer]) /\ Same(up, up', Peers, peer)
      /\ given' = given /\ taken' = taken /\ down' = down /\ phase' = phase
  BY <1>0, GatherEffect
<1>2. (\A q \in Ranks : q # 0 => acc'[q] = acc[q]) /\ (\A q \in Peers : q # peer => up'[q] = up[q])
  BY <1>1 DEF Same
<1>3. 0 \notin Peers /\ 0 \in Ranks /\ \A q \in Peers : q \in Ranks
  BY RanksPeers
<1>4. Shapes'
  BY <1>0, <1>1, <1>2 DEF Shapes
<1>5. Counts'
  BY <1>0, <1>1 DEF Counts, Inside, Delivered
<1>6. CallsMade'
  BY <1>0, <1>1, <1>2, <1>3 DEF CallsMade, Call
<1> QED BY <1>4, <1>5, <1>6 DEF Calls

LEMMA GatheredCalls ==
  ASSUME Calls, Gathered
  PROVE  Calls'
<1>0. Shapes /\ Counts /\ CallsMade
  BY DEF Calls
<1>1. /\ phase[0] = "gather" /\ peer = N /\ peer' = 1
      /\ Function(phase', Ranks) /\ phase'[0] = "scatter" /\ Same(phase, phase', Ranks, 0)
      /\ given' = given /\ taken' = taken /\ down' = down /\ up' = up /\ acc' = acc
  BY <1>0, GatheredEffect
<1>2. \A q \in Ranks : q # 0 => phase'[q] = phase[q]
  BY <1>1 DEF Same
<1>3. 0 \notin Peers /\ 0 \in Ranks /\ \A q \in Peers : q \in Ranks
  BY RanksPeers
<1>4. Shapes'
  <2>1. peer' \in 1 .. N
    BY <1>1, WorldAssumption
  <2> QED BY <1>0, <1>1, <1>2, <1>3, <2>1 DEF Shapes
<1>5. Counts'
  <2>1. \A q \in Peers : q >= 1
    BY RanksPeers
  <2>2. \A q \in Peers : Delivered(q)' = Delivered(q)
    <3>1. \A q \in Peers : ~(q < peer')
      BY <1>1, RanksPeers
    <3> QED BY <1>1, <3>1, DeliveredIs, DeliveredNext
  <2>3. \A q \in Ranks : Inside(q)' = Inside(q)
    BY <1>1, <1>2 DEF Inside
  <2> QED BY <1>0, <1>1, <2>2, <2>3 DEF Counts
<1>6. CallsMade'
  BY <1>0, <1>1, <1>2, <1>3 DEF CallsMade, Call
<1> QED BY <1>4, <1>5, <1>6 DEF Calls

LEMMA ScatterCalls ==
  ASSUME Calls, Scatter
  PROVE  Calls'
<1>0. Shapes /\ Counts /\ CallsMade
  BY DEF Calls
<1>1. /\ phase[0] = "scatter" /\ peer \in Peers /\ peer' = peer + 1 /\ peer' \in 1 .. N
      /\ Function(down', Peers) /\ Sequence(down'[peer]) /\ Len(down'[peer]) = Len(down[peer]) + 1
      /\ Same(down, down', Peers, peer)
      /\ given' = given /\ taken' = taken /\ up' = up /\ phase' = phase /\ acc' = acc
  BY <1>0, ScatterEffect
<1>2. \A q \in Peers : q # peer => down'[q] = down[q]
  BY <1>1 DEF Same
<1>4. Shapes'
  BY <1>0, <1>1, <1>2 DEF Shapes
<1>5. Counts'
  <2>1. \A q \in Ranks : Inside(q)' = Inside(q)
    BY <1>1 DEF Inside
  <2>2. ASSUME NEW q \in Peers
        PROVE  Len(taken'[q]) + Len(down'[q]) = Delivered(q)'
    <3>1. q \in Int /\ peer \in Int /\ Len(taken[0]) \in Nat /\ Len(taken[q]) \in Nat /\ Len(down[q]) \in Nat
      BY <1>0, <1>1, RanksPeers, Lengths
    <3>2. CASE q = peer
      <4>1. Delivered(q) = Len(taken[0]) + 0 /\ Delivered(q)' = Len(taken'[0]) + 1
        <5>1. ~(q < peer) /\ q < peer'
          BY <1>1, <3>1, <3>2
        <5> QED BY <1>1, <5>1, DeliveredIs, DeliveredNext
      <4>2. Len(taken[q]) + Len(down[q]) = Delivered(q) /\ Len(down'[q]) = Len(down[q]) + 1 /\ taken' = taken
        BY <1>0, <1>1, <3>2 DEF Counts
      <4>3. Len(taken'[q]) = Len(taken[q]) /\ Len(taken'[0]) = Len(taken[0])
        BY <4>2
      <4>4. Len(taken[q]) + (Len(down[q]) + 1) = (Len(taken[q]) + Len(down[q])) + 1
        BY <3>1, OneMoved
      <4>5. Len(taken[q]) + Len(down[q]) = Len(taken[0])
        <5>1. Len(taken[0]) + 0 = Len(taken[0])
          BY <3>1
        <5> QED BY ONLY <4>1, <4>2, <5>1
      <4>6. Len(taken'[q]) + Len(down'[q]) = Len(taken[0]) + 1
        BY ONLY <4>2, <4>3, <4>4, <4>5
      <4> QED BY ONLY <4>1, <4>3, <4>6
    <3>3. CASE q # peer
      <4>1. Delivered(q)' = Delivered(q)
        <5>1. q < peer' <=> q < peer
          BY ONLY <1>1, <3>1, <3>3
        <5> QED BY <1>1, <5>1, DeliveredIs, DeliveredNext
      <4> QED BY <1>0, <1>1, <1>2, <3>3, <4>1 DEF Counts
    <3> QED BY <3>2, <3>3
  <2> QED BY <1>0, <1>1, <2>1, <2>2 DEF Counts
<1>6. CallsMade'
  BY <1>0, <1>1 DEF CallsMade, Call
<1> QED BY <1>4, <1>5, <1>6 DEF Calls

LEMMA ScatteredCalls ==
  ASSUME Calls, Scattered
  PROVE  Calls'
<1>0. Shapes /\ Counts /\ CallsMade
  BY DEF Calls
<1>1. 0 \in Ranks /\ 0 \notin Peers /\ \A q \in Peers : q \in Ranks
  BY RanksPeers
<1>2. phase[0] = "scatter" /\ peer = N /\ Returns(0, acc[0]) /\ down' = down /\ acc' = acc
  BY DEF Scattered, End
<1>3. /\ Function(taken', Ranks) /\ Sequence(taken'[0]) /\ Len(taken'[0]) = Len(taken[0]) + 1
      /\ Same(taken, taken', Ranks, 0)
      /\ Function(phase', Ranks) /\ phase'[0] = "idle" /\ Same(phase, phase', Ranks, 0)
      /\ given' = given /\ up' = up /\ peer' = peer
  BY <1>0, <1>1, <1>2, ReturnsEffect
<1>4. \A q \in Ranks : q # 0 => phase'[q] = phase[q] /\ taken'[q] = taken[q]
  BY <1>3 DEF Same
<1>5. Shapes'
  BY <1>0, <1>1, <1>2, <1>3, <1>4 DEF Shapes
<1>6. Counts'
  <2>1. \A q \in Peers : Delivered(q)' = Delivered(q)
    <3>1. \A q \in Peers : q < N
      BY RanksPeers
    <3>2. Len(taken[0]) \in Nat
      BY <1>0, <1>1, Lengths
    <3>3. ASSUME NEW q \in Peers PROVE Delivered(q)' = Delivered(q)
      <4>1. Delivered(q) = Len(taken[0]) + 1
        BY <1>2, <3>1, DeliveredIs
      <4>2. Delivered(q)' = (Len(taken[0]) + 1) + 0
        BY <1>3, DeliveredNext
      <4> QED BY ONLY <3>2, <4>1, <4>2
    <3> QED BY <3>3
  <2>2. Len(given'[0]) = Len(taken'[0]) + Inside(0)'
    <3>1. Len(given[0]) = Len(taken[0]) + 1 /\ Inside(0)' = 0 /\ Len(taken[0]) \in Nat
      BY <1>0, <1>1, <1>2, <1>3, Lengths DEF Counts, Inside
    <3> QED BY <1>3, <3>1
  <2>3. \A q \in Ranks : q # 0 => Len(given'[q]) = Len(taken'[q]) + Inside(q)'
    BY <1>0, <1>3, <1>4 DEF Counts, Inside
  <2> QED BY <1>0, <1>1, <1>2, <1>4, <2>1, <2>2, <2>3 DEF Counts
<1>7. CallsMade'
  BY <1>0, <1>1, <1>2, <1>3, <1>4 DEF CallsMade, Call
<1> QED BY <1>5, <1>6, <1>7 DEF Calls

LEMMA ReceiveCalls ==
  ASSUME Calls, NEW r \in Peers, Receive(r)
  PROVE  Calls'
<1>0. Shapes /\ Counts /\ CallsMade
  BY DEF Calls
<1>1. r \in Ranks /\ r # 0 /\ 0 \in Ranks /\ 0 \notin Peers /\ \A q \in Peers : q \in Ranks
  BY RanksPeers
<1>2. /\ phase[r] = "receive" /\ down[r] # << >> /\ Returns(r, down[r][1])
      /\ Function(acc', Ranks) /\ Same(acc, acc', Ranks, r)
      /\ Function(down', Peers) /\ Sequence(down'[r]) /\ Len(down'[r]) = Len(down[r]) - 1
      /\ Same(down, down', Peers, r)
  BY <1>0, ReceiveEffect
<1>3. /\ Function(taken', Ranks) /\ Sequence(taken'[r]) /\ Len(taken'[r]) = Len(taken[r]) + 1
      /\ Same(taken, taken', Ranks, r)
      /\ Function(phase', Ranks) /\ phase'[r] = "idle" /\ Same(phase, phase', Ranks, r)
      /\ given' = given /\ up' = up /\ peer' = peer
  BY <1>0, <1>1, <1>2, ReturnsEffect
<1>4. /\ \A q \in Ranks : q # r => phase'[q] = phase[q] /\ taken'[q] = taken[q] /\ acc'[q] = acc[q]
      /\ \A q \in Peers : q # r => down'[q] = down[q]
  BY <1>2, <1>3 DEF Same
<1>5. Shapes'
  BY <1>0, <1>1, <1>2, <1>3, <1>4 DEF Shapes
<1>6. Counts'
  <2>1. \A q \in Peers : Delivered(q)' = Delivered(q)
    BY <1>1, <1>3, <1>4 DEF Delivered
  <2>2. /\ Len(taken[r]) \in Nat /\ Len(down[r]) \in Nat
    BY <1>0, <1>1, Lengths
  <2>3. Len(given'[r]) = Len(taken'[r]) + Inside(r)'
    <3>1. Len(given[r]) = Len(taken[r]) + 1 /\ Inside(r)' = 0
      BY <1>0, <1>1, <1>2, <1>3 DEF Counts, Inside
    <3> QED BY <1>3, <2>2, <3>1
  <2>4. \A q \in Ranks : q # r => Len(given'[q]) = Len(taken'[q]) + Inside(q)'
    BY <1>0, <1>3, <1>4 DEF Counts, Inside
  <2>5. Len(taken'[r]) + Len(down'[r]) = Delivered(r)'
    <3>1. Len(taken[r]) + Len(down[r]) = Delivered(r) /\ Delivered(r)' = Delivered(r)
      BY <1>0, <2>1 DEF Counts
    <3>2. Len(taken'[r]) = Len(taken[r]) + 1 /\ Len(down'[r]) = Len(down[r]) - 1
      BY <1>2, <1>3
    <3>3. (Len(taken[r]) + 1) + (Len(down[r]) - 1) = Len(taken[r]) + Len(down[r])
      BY <2>2, OneMoved
    <3> QED BY ONLY <3>1, <3>2, <3>3
  <2>6. \A q \in Peers : q # r => Len(taken'[q]) + Len(down'[q]) = Delivered(q)'
    BY <1>0, <1>1, <1>4, <2>1 DEF Counts
  <2> QED BY <2>3, <2>4, <2>5, <2>6 DEF Counts
<1>7. CallsMade'
  BY <1>0, <1>1, <1>2, <1>3, <1>4 DEF CallsMade, Call
<1> QED BY <1>5, <1>6, <1>7 DEF Calls

LEMMA BreaksCalls ==
  ASSUME Calls, NEW r \in Ranks, Breaks(r)
  PROVE  Calls'
<1>0. Shapes /\ Counts /\ CallsMade
  BY DEF Calls
<1>1. /\ Function(phase', Ranks) /\ phase'[r] = "broken" /\ Same(phase, phase', Ranks, r)
      /\ phase[r] = (IF r = 0 THEN "gather" ELSE "receive")
      /\ given' = given /\ taken' = taken /\ down' = down /\ up' = up /\ acc' = acc /\ peer' = peer
  BY <1>0, BreaksEffect
<1>2. \A q \in Ranks : q # r => phase'[q] = phase[q]
  BY <1>1 DEF Same
<1>3. 0 \in Ranks /\ 0 \notin Peers /\ \A q \in Peers : q \in Ranks
  BY RanksPeers
<1>4. Shapes'
  BY <1>0, <1>1, <1>2, <1>3 DEF Shapes
<1>5. Counts'
  BY <1>0, <1>1, <1>2, <1>3 DEF Counts, Inside, Delivered
<1>6. CallsMade'
  BY <1>0, <1>1, <1>2, <1>3 DEF CallsMade, Call
<1> QED BY <1>4, <1>5, <1>6 DEF Calls

LEMMA CallBounds ==
  ASSUME Calls
  PROVE  \A r \in Ranks : /\ Len(taken[r]) \in Nat /\ Len(given[r]) \in Nat
                          /\ phase[r] = "idle" => Len(given[r]) = Len(taken[r])
                          /\ phase[r] # "idle" => Len(given[r]) = Len(taken[r]) + 1
                          /\ Len(taken[r]) <= Len(given[r])
<1>1. SUFFICES ASSUME NEW r \in Ranks
               PROVE  /\ Len(taken[r]) \in Nat /\ Len(given[r]) \in Nat
                      /\ phase[r] = "idle" => Len(given[r]) = Len(taken[r])
                      /\ phase[r] # "idle" => Len(given[r]) = Len(taken[r]) + 1
                      /\ Len(taken[r]) <= Len(given[r])
  OBVIOUS
<1>2. Len(taken[r]) \in Nat /\ Len(given[r]) \in Nat
  BY Lengths DEF Calls
<1>3. Len(given[r]) = Len(taken[r]) + Inside(r)
  BY DEF Calls, Counts
<1>4. CASE phase[r] = "idle"
  <2>1. Inside(r) = 0
    BY <1>4, InsideIs
  <2> QED BY <1>2, <1>3, <1>4, <2>1
<1>5. CASE phase[r] # "idle"
  <2>1. Inside(r) = 1
    BY <1>5, InsideIs
  <2> QED BY <1>2, <1>3, <1>5, <2>1
<1> QED BY <1>4, <1>5

\* What rank 0 has finished gathering, or answers now, every rank has called
LEMMA SettledCalled ==
  ASSUME Calls, NEW h \in Nat, TakenSent(h), NEW n \in 1 .. Len(given[0]), n <= h,
         n <= Len(taken[0]) \/ phase[0] = "scatter", given[0][n].op = "allreduce",
         NEW q \in Ranks
  PROVE  n <= Len(given[q])
<1>0. 0 \in Ranks
  BY RanksPeers
<1>1. CASE q = 0
  BY <1>0, <1>1, CallBounds
<1>2. CASE q # 0
  <2>1. q \in Peers
    BY <1>2, RanksPeers
  <2>2. Passed(q, n)
    <3>1. CASE n <= Len(taken[0])
      BY <3>1 DEF Passed
    <3>2. CASE phase[0] = "scatter" /\ ~(n <= Len(taken[0]))
      <4>1. Len(given[0]) = Len(taken[0]) + 1 /\ Len(taken[0]) \in Nat
        BY <1>0, <3>2, CallBounds
      <4>2. n = Len(given[0])
        BY <3>2, <4>1
      <4> QED BY <3>2, <4>2 DEF Passed
    <3> QED BY <3>1, <3>2
  <2>3. Sent(q, n)
    BY <2>1, <2>2 DEF TakenSent
  <2> QED BY <2>3, CallBounds DEF Sent
<1> QED BY <1>1, <1>2

LEMMA OutcomeSame ==
  ASSUME NEW g, NEW h, NEW op, NEW n,
         op = "allreduce" => \A q \in Ranks : h[q][n].val = g[q][n].val,
         op # "allreduce" => h[0][n].val = g[0][n].val
  PROVE  OutcomeOf(h, op, n) = OutcomeOf(g, op, n)
<1>1. CASE op = "allreduce"
  <2>1. {h[q][n].val : q \in Ranks} = {g[q][n].val : q \in Ranks}
    BY <1>1
  <2> QED BY <1>1, <2>1 DEF OutcomeOf
<1>2. CASE op # "allreduce"
  BY <1>2 DEF OutcomeOf
<1> QED BY <1>1, <1>2

LEMMA OutcomeIs ==
  ASSUME NEW op, NEW n
  PROVE  Group!Outcome(op, n) = OutcomeOf(given, op, n)
BY RanksPeers DEF Group!Outcome, Group!Sum, OutcomeOf

\* A call more does not make the ranks agree
LEMMA BeginAgreed ==
  ASSUME Shapes, NEW r \in Ranks, NEW op \in Group!Ops, NEW v, NEW x, Begin(r, op, v, x),
         NEW h \in Nat, Group!Agreed(h)'
  PROVE  Group!Agreed(h)
<1>1. \A q \in Ranks : Len(given[q]) \in Nat /\ DOMAIN given[q] = 1 .. Len(given[q])
  BY Lengths
<1>2. /\ Sequence(given'[r]) /\ Len(given'[r]) = Len(given[r]) + 1
      /\ \A n \in 1 .. Len(given[r]) : given'[r][n] = given[r][n]
      /\ Same(given, given', Ranks, r)
  BY BeginEffect
<1>3. DOMAIN given'[r] = 1 .. Len(given[r]) + 1
  BY <1>2, SequenceLen
<1>4. \A q \in Ranks : \A n \in DOMAIN given[q] : n \in DOMAIN given'[q] /\ given'[q][n] = given[q][n]
  BY <1>1, <1>2, <1>3 DEF Same
<1>5. ASSUME NEW p \in Ranks, NEW q \in Ranks, NEW n \in DOMAIN given[p] \cap DOMAIN given[q], n <= h
      PROVE  given[p][n].op = given[q][n].op
  <2>1. given'[p][n] = given[p][n] /\ given'[q][n] = given[q][n] /\ n \in DOMAIN given'[p] /\ n \in DOMAIN given'[q]
    BY <1>4, <1>5
  <2>2. given'[p][n].op = given'[q][n].op
    BY <1>5, <2>1, RanksPeers DEF Group!Agreed
  <2> QED BY <2>1, <2>2
<1> QED BY <1>5, RanksPeers DEF Group!Agreed

LEMMA AgreedSame ==
  ASSUME Shapes, NEW h \in Nat, Group!Agreed(h), NEW p \in Ranks, NEW q \in Ranks,
         NEW n \in 1 .. h, n <= Len(given[p]), n <= Len(given[q])
  PROVE  given[p][n].op = given[q][n].op
<1>1. n \in DOMAIN given[p] \cap DOMAIN given[q]
  BY Lengths
<1> QED BY <1>1, RanksPeers DEF Group!Agreed

LEMMA ExchangedInit ==
  ASSUME GlooInit, NEW h
  PROVE  Exchanged(h)
<1>1. /\ given[0] = << >> /\ phase[0] = "idle" /\ \A r \in Peers : up[r] = << >> /\ down[r] = << >>
      /\ \A r \in Ranks : taken[r] = << >>
  BY RanksPeers DEF GlooInit
<1> QED BY <1>1, SequenceEmpty DEF Exchanged, TakenSent, GoingUp, GoingDown, GatheredSoFar, Result, Returned

LEMMA SendUpExchanged ==
  ASSUME Calls, NEW h \in Nat, Exchanged(h), Group!Agreed(h), NEW r \in Peers, SendUp(r)
  PROVE  Exchanged(h)'
<1>0. Shapes /\ Counts /\ CallsMade
  BY DEF Calls
<1>1. /\ phase[r] = "send" /\ phase'[r] = "receive" /\ Same(phase, phase', Ranks, r)
      /\ up'[r] = Append(up[r], acc[r]) /\ Same(up, up', Peers, r)
      /\ given' = given /\ taken' = taken /\ down' = down /\ acc' = acc /\ peer' = peer
  BY <1>0, SendUpEffect
<1>2. (\A q \in Ranks : q # r => phase'[q] = phase[q]) /\ (\A q \in Peers : q # r => up'[q] = up[q])
  BY <1>1 DEF Same
<1>3. r \in Ranks /\ r # 0 /\ 0 \in Ranks /\ \A q \in Peers : q \in Ranks
  BY RanksPeers
<1>4. \A q, n : Passed(q, n)' <=> Passed(q, n)
  BY <1>1, <1>2, <1>3 DEF Passed
<1>5. \A q \in Peers : \A n : Sent(q, n) => Sent(q, n)'
  BY <1>1, <1>2, <1>3 DEF Sent
<1>6. TakenSent(h)'
  BY <1>1, <1>4, <1>5 DEF Exchanged, TakenSent
<1>7. GoingUp(h)'
  <2>1. Call(r).op = "allreduce" /\ (Len(given[r]) <= h => up[r] = << >> /\ acc[r] = Call(r).val)
    BY <1>0, <1>1 DEF Exchanged, GoingUp, CallsMade
  <2>2. Len(given[r]) <= h => up'[r] = <<Call(r).val>>
    BY <1>1, <2>1, SequenceOne
  <2>3. ASSUME Len(given[r]) <= h PROVE ~Passed(r, Len(given[r]))
    <3>1. SUFFICES ASSUME Passed(r, Len(given[r])) PROVE FALSE
      OBVIOUS
    <3>2. Len(given[r]) = Len(taken[r]) + 1 /\ Len(taken[r]) \in Nat
      BY <1>0, <1>1, <1>3, CallBounds
    <3>3. Len(given[r]) <= Len(given[0])
      BY <1>3, <3>1, CallBounds DEF Passed
    <3>4. Len(given[r]) \in 1 .. Len(given[0]) /\ Len(given[0]) \in Nat
      BY <1>3, <3>2, <3>3, CallBounds
    <3>5. given[0][Len(given[r])].op = "allreduce"
      <4>1. PICK n : n = Len(given[r])
        OBVIOUS
      <4>2. n \in 1 .. h /\ n <= Len(given[r]) /\ n <= Len(given[0])
        BY <2>3, <3>2, <3>4, <4>1
      <4>3. given[r][n].op = given[0][n].op
        BY <1>0, <1>3, <4>2, AgreedSame
      <4> QED BY <2>1, <4>1, <4>3 DEF Call
    <3>6. Sent(r, Len(given[r]))
      BY <2>3, <3>1, <3>4, <3>5 DEF Exchanged, TakenSent
    <3> QED BY <1>1, <3>2, <3>6 DEF Sent
  <2> QED BY <1>1, <1>2, <1>3, <1>4, <2>1, <2>2, <2>3 DEF Exchanged, GoingUp, Call
<1>8. GoingDown(h)' /\ GatheredSoFar(h)' /\ Result(h)' /\ Returned(h)'
  BY <1>1, <1>2, <1>3 DEF Exchanged, GoingDown, GatheredSoFar, Result, Returned, Call
<1> QED BY <1>6, <1>7, <1>8 DEF Exchanged

\* A message on its way up belongs to the call rank 0 gathers
LEMMA GathersTheSame ==
  ASSUME Calls, NEW h \in Nat, Exchanged(h), phase[0] = "gather", Len(given[0]) <= h,
         NEW q \in Peers, up[q] # << >>
  PROVE  /\ Len(given[q]) = Len(given[0]) /\ up[q] = <<given[q][Len(given[0])].val>>
         /\ phase[q] \in {"receive", "broken"}
<1>0. 0 \in Ranks /\ q \in Ranks
  BY RanksPeers
<1>1. PICK a \in Nat : a = Len(taken[0])
  BY <1>0, CallBounds
<1>2. PICK b \in Nat : b = Len(taken[q])
  BY <1>0, CallBounds
<1>3. PICK d \in Nat : d = Len(down[q])
  BY Lengths DEF Calls
<1>4. Len(given[0]) = a + 1 /\ (Len(given[q]) = b \/ Len(given[q]) = b + 1)
  BY <1>0, <1>1, <1>2, CallBounds
<1>5. b + d = a
  <2>1. Delivered(q) = a + 0
    BY <1>1, DeliveredIs
  <2>2. b + d = a + 0
    BY <1>2, <1>3, <2>1 DEF Calls, Counts
  <2> QED BY ONLY <2>2, a \in Nat, b \in Nat, d \in Nat
<1>6. Len(given[q]) <= h
  BY ONLY <1>4, <1>5, Len(given[0]) <= h, a \in Nat, b \in Nat, d \in Nat, h \in Nat
<1>7. phase[q] \in {"receive", "broken"} /\ up[q] = <<Call(q).val>> /\ ~Passed(q, Len(given[q]))
  BY <1>6 DEF Exchanged, GoingUp
<1>8. Len(given[q]) = b + 1
  BY <1>0, <1>2, <1>7, CallBounds
<1>9. ~(b + 1 <= a)
  BY <1>1, <1>7, <1>8 DEF Passed
<1>10. a = b
  BY ONLY <1>5, <1>9, a \in Nat, b \in Nat, d \in Nat
<1> QED BY <1>4, <1>7, <1>8, <1>10 DEF Call

LEMMA GatherExchanged ==
  ASSUME Calls, NEW h \in Nat, Exchanged(h), Gather
  PROVE  Exchanged(h)'
<1>0. Shapes /\ Counts /\ CallsMade
  BY DEF Calls
<1>1. /\ phase[0] = "gather" /\ peer \in Peers /\ up[peer] # << >> /\ peer' = peer + 1
      /\ acc'[0] = acc[0] \cup Head(up[peer])
      /\ up'[peer] = Tail(up[peer]) /\ Same(up, up', Peers, peer)
      /\ given' = given /\ taken' = taken /\ down' = down /\ phase' = phase
  BY <1>0, GatherEffect
<1>2. \A q \in Peers : q # peer => up'[q] = up[q]
  BY <1>1 DEF Same
<1>3. Len(given[0]) <= h => /\ Len(given[peer]) = Len(given[0]) /\ up[peer] = <<given[peer][Len(given[0])].val>>
                            /\ phase[peer] \in {"receive", "broken"}
  BY <1>1, GathersTheSame
<1>4. peer \in Int /\ \A q \in Peers : q \in Int
  BY <1>1, RanksPeers
<1>5. ASSUME NEW q \in Peers, q # peer, NEW n PROVE Passed(q, n)' <=> Passed(q, n)
  <2>1. q < peer' <=> q < peer
    <3>1. PICK a \in Int, b \in Int : a = q /\ b = peer
      BY <1>4
    <3>2. a < b + 1 <=> a < b
      BY <1>5, <3>1
    <3> QED BY <1>1, <3>1, <3>2
  <2> QED BY <1>1, <2>1 DEF Passed
<1>6. ASSUME NEW q \in Peers, NEW n, Passed(q, n)', ~Passed(q, n) PROVE n = Len(given[0])
  BY <1>1, <1>6 DEF Passed
<1>7. TakenSent(h)'
  <2>1. SUFFICES ASSUME NEW q \in Peers, NEW n \in 1 .. Len(given[0]), n <= h,
                        given[0][n].op = "allreduce", Passed(q, n)'
                 PROVE  Sent(q, n)'
    BY <1>1 DEF TakenSent
  <2>2. Sent(q, n)' <=> Sent(q, n)
    BY <1>1 DEF Sent
  <2>3. CASE Passed(q, n)
    BY <2>1, <2>2, <2>3 DEF Exchanged, TakenSent
  <2>4. CASE ~Passed(q, n)
    <3>1. q = peer
      BY <1>5, <2>1, <2>4
    <3>2. n = Len(given[0])
      BY <1>6, <2>1, <2>4, <3>1
    <3> QED BY <1>3, <2>1, <2>2, <3>1, <3>2 DEF Sent
  <2> QED BY <2>3, <2>4
<1>8. GoingUp(h)'
  <2>1. Len(given[peer]) <= h => up'[peer] = << >>
    BY <1>1, SequenceOne DEF Exchanged, GoingUp
  <2> QED BY <1>1, <1>2, <1>5, <2>1 DEF Exchanged, GoingUp, Call
<1>9. GoingDown(h)' /\ Returned(h)'
  BY <1>1 DEF Exchanged, GoingDown, Returned
<1>10. GatheredSoFar(h)'
  <2>0. SUFFICES ASSUME Len(given[0]) <= h
                 PROVE  acc'[0] = UNION {given[q][Len(given[0])].val : q \in 0 .. peer' - 1}
    BY <1>1 DEF GatheredSoFar
  <2>1. PICK n : n = Len(given[0])
    OBVIOUS
  <2>2. acc[0] = UNION {given[q][n].val : q \in 0 .. peer - 1}
    BY <1>1, <2>0, <2>1 DEF Exchanged, GatheredSoFar
  <2>3. Head(up[peer]) = given[peer][n].val
    BY <1>3, <2>0, <2>1, SequenceOne
  <2>4. 0 .. peer' - 1 = (0 .. peer - 1) \cup {peer}
    <3>1. peer \in 1 .. N - 1 /\ N \in Nat \ {0}
      BY <1>1, RanksPeers
    <3>2. peer' - 1 = peer
      BY <1>1, <1>4
    <3>3. 0 .. peer = (0 .. peer - 1) \cup {peer}
      BY ONLY <3>1
    <3> QED BY <3>2, <3>3
  <2>5. acc'[0] = UNION {given[q][n].val : q \in 0 .. peer' - 1}
    BY <1>1, <2>2, <2>3, <2>4
  <2> QED BY <2>1, <2>5
<1>11. Result(h)'
  BY <1>1 DEF Result
<1> QED BY <1>7, <1>8, <1>9, <1>10, <1>11 DEF Exchanged

LEMMA GatheredExchanged ==
  ASSUME Calls, NEW h \in Nat, Exchanged(h), Gathered
  PROVE  Exchanged(h)'
<1>0. Shapes /\ Counts /\ CallsMade
  BY DEF Calls
<1>1. /\ phase[0] = "gather" /\ peer = N /\ peer' = 1 /\ phase'[0] = "scatter" /\ Same(phase, phase', Ranks, 0)
      /\ given' = given /\ taken' = taken /\ down' = down /\ up' = up /\ acc' = acc
  BY <1>0, GatheredEffect
<1>2. \A q \in Peers : phase'[q] = phase[q]
  BY <1>1, RanksPeers DEF Same
<1>3. \A q \in Peers : q < N
  BY RanksPeers
<1>4. \A q \in Peers : \A n : Passed(q, n)' <=> Passed(q, n)
  BY <1>1, <1>3 DEF Passed
<1>5. \A q \in Peers : \A n : Sent(q, n)' <=> Sent(q, n)
  BY <1>1, <1>2 DEF Sent
<1>6. TakenSent(h)'
  BY <1>1, <1>4, <1>5 DEF Exchanged, TakenSent
<1>7. GoingUp(h)'
  BY <1>1, <1>2, <1>4 DEF Exchanged, GoingUp, Call
<1>8. GoingDown(h)' /\ GatheredSoFar(h)' /\ Returned(h)'
  BY <1>1 DEF Exchanged, GoingDown, GatheredSoFar, Returned
<1>9. Result(h)'
  <2>1. Call(0).op = "allreduce"
    BY <1>0, <1>1 DEF CallsMade
  <2>2. Len(given[0]) <= h => acc[0] = UNION {given[q][Len(given[0])].val : q \in 0 .. N - 1}
    BY <1>1 DEF Exchanged, GatheredSoFar
  <2> QED BY <1>1, <2>1, <2>2 DEF Result, OutcomeOf, Call, Ranks
<1> QED BY <1>6, <1>7, <1>8, <1>9 DEF Exchanged

LEMMA ScatterExchanged ==
  ASSUME Calls, NEW h \in Nat, Exchanged(h), Scatter
  PROVE  Exchanged(h)'
<1>0. Shapes /\ Counts /\ CallsMade
  BY DEF Calls
<1>1. /\ phase[0] = "scatter" /\ peer \in Peers /\ peer' = peer + 1
      /\ Len(down'[peer]) = Len(down[peer]) + 1
      /\ \A k \in 1 .. Len(down[peer]) : down'[peer][k] = down[peer][k]
      /\ down'[peer][Len(down[peer]) + 1] = acc[0] /\ Same(down, down', Peers, peer)
      /\ given' = given /\ taken' = taken /\ up' = up /\ phase' = phase /\ acc' = acc
  BY <1>0, ScatterEffect
<1>2. \A q \in Peers : q # peer => down'[q] = down[q]
  BY <1>1 DEF Same
<1>3. \A q, n : (Passed(q, n)' <=> Passed(q, n)) /\ (Sent(q, n)' <=> Sent(q, n))
  BY <1>1 DEF Passed, Sent
<1>4. TakenSent(h)' /\ GoingUp(h)' /\ GatheredSoFar(h)' /\ Result(h)' /\ Returned(h)'
  BY <1>1, <1>3 DEF Exchanged, TakenSent, GoingUp, GatheredSoFar, Result, Returned, Call
<1>5. GoingDown(h)'
  <2>1. PICK t \in Nat : t = Len(taken[peer])
    BY <1>0, <1>1, RanksPeers, Lengths
  <2>2. PICK d \in Nat : d = Len(down[peer])
    BY <1>0, <1>1, Lengths
  <2>3. t + (d + 1) = Len(given[0])
    <3>1. peer \in Int /\ 0 \in Ranks
      BY <1>1, RanksPeers
    <3>2. Delivered(peer) = Len(taken[0]) + 0
      BY <3>1, DeliveredIs
    <3>3. t + d = Len(taken[0]) + 0
      BY <1>0, <1>1, <2>1, <2>2, <3>2 DEF Counts
    <3>4. Len(taken[0]) \in Nat /\ Len(given[0]) = Len(taken[0]) + 1
      BY <1>1, <3>1, CallBounds
    <3> QED BY ONLY <3>3, <3>4, t \in Nat, d \in Nat
  <2>4. t + (d + 1) <= h => acc[0] = OutcomeOf(given, given[0][t + (d + 1)].op, t + (d + 1))
    BY <1>1, <2>3 DEF Exchanged, Result, Call
  <2>5. \A k \in 1 .. d : t + k <= h => down[peer][k] = OutcomeOf(given, given[0][t + k].op, t + k)
    BY <1>1, <2>1, <2>2 DEF Exchanged, GoingDown
  <2>6. \A k \in 1 .. d + 1 : t + k <= h => down'[peer][k] = OutcomeOf(given, given[0][t + k].op, t + k)
    <3>1. \A k \in 1 .. d + 1 : k \in 1 .. d \/ k = d + 1
      BY ONLY d \in Nat
    <3> QED BY <1>1, <2>2, <2>4, <2>5, <3>1
  <2>7. ASSUME NEW q \in Peers, NEW k \in 1 .. Len(down'[q]), Len(taken[q]) + k <= h
        PROVE  down'[q][k] = OutcomeOf(given, given[0][Len(taken[q]) + k].op, Len(taken[q]) + k)
    <3>1. CASE q = peer
      BY <1>1, <2>1, <2>2, <2>6, <2>7, <3>1
    <3>2. CASE q # peer
      BY <1>2, <2>7, <3>2 DEF Exchanged, GoingDown
    <3> QED BY <3>1, <3>2
  <2> QED BY <1>1, <2>7 DEF GoingDown
<1> QED BY <1>4, <1>5 DEF Exchanged

LEMMA ScatteredExchanged ==
  ASSUME Calls, NEW h \in Nat, Exchanged(h), Scattered
  PROVE  Exchanged(h)'
<1>0. Shapes /\ 0 \in Ranks /\ \A q \in Peers : q \in Ranks /\ q # 0
  BY RanksPeers DEF Calls
<1>1. phase[0] = "scatter" /\ Returns(0, acc[0]) /\ down' = down /\ acc' = acc
  BY DEF Scattered
<1>2. /\ Len(taken'[0]) = Len(taken[0]) + 1 /\ Same(taken, taken', Ranks, 0)
      /\ phase'[0] = "idle" /\ Same(phase, phase', Ranks, 0)
      /\ given' = given /\ up' = up /\ peer' = peer
  BY <1>0, <1>1, ReturnsEffect
<1>3. \A q \in Peers : taken'[q] = taken[q] /\ phase'[q] = phase[q]
  BY <1>0, <1>2 DEF Same
<1>4. Len(given[0]) = Len(taken[0]) + 1 /\ Len(taken[0]) \in Nat
  BY <1>0, <1>1, CallBounds
<1>5. \A q, n : n \in Int => (Passed(q, n)' <=> Passed(q, n))
  <2>1. SUFFICES ASSUME NEW q, NEW n \in Int PROVE Passed(q, n)' <=> Passed(q, n)
    OBVIOUS
  <2>2. PICK a \in Nat : a = Len(taken[0])
    BY <1>4
  <2>3. Passed(q, n)' <=> n <= a + 1
    BY <1>2, <2>2 DEF Passed
  <2>4. Passed(q, n) <=> (n <= a \/ n = a + 1)
    BY <1>1, <1>4, <2>2 DEF Passed
  <2> QED BY <2>2, <2>3, <2>4
<1>6. \A q \in Peers : \A n : Sent(q, n)' <=> Sent(q, n)
  BY <1>2, <1>3 DEF Sent
<1>7. TakenSent(h)'
  <2>1. SUFFICES ASSUME NEW q \in Peers, NEW n \in 1 .. Len(given[0]), n <= h,
                        given[0][n].op = "allreduce", Passed(q, n)'
                 PROVE  Sent(q, n)'
    BY <1>2 DEF TakenSent
  <2>2. n \in Int
    BY <1>4
  <2> QED BY <1>5, <1>6, <2>1, <2>2 DEF Exchanged, TakenSent
<1>8. GoingUp(h)'
  <2>1. \A q \in Peers : Len(given[q]) \in Int
    BY <1>0, CallBounds
  <2> QED BY <1>2, <1>3, <1>5, <2>1 DEF Exchanged, GoingUp, Call
<1>9. GoingDown(h)'
  BY <1>1, <1>2, <1>3 DEF Exchanged, GoingDown
<1>10. GatheredSoFar(h)' /\ Result(h)'
  BY <1>2 DEF GatheredSoFar, Result
<1>11. Returned(h)'
  <2>1. SUFFICES ASSUME NEW r \in Ranks, NEW n \in 1 .. Len(taken'[r]), n <= h
                 PROVE  taken'[r][n] = OutcomeOf(given, given[0][n].op, n)
    BY <1>2 DEF Returned
  <2>2. CASE r # 0
    BY <1>2, <2>1, <2>2 DEF Same, Exchanged, Returned
  <2>3. CASE r = 0
    <3>1. PICK a \in Nat : a = Len(taken[0])
      BY <1>4
    <3>2. /\ \A k \in 1 .. a : taken'[0][k] = taken[0][k]
          /\ taken'[0][a + 1] = acc[0] /\ Len(taken'[0]) = a + 1
      BY <1>0, <1>1, <3>1, ReturnsEffect, SequenceAppend DEF Shapes
    <3>3. n \in 1 .. a \/ n = a + 1
      BY <2>1, <2>3, <3>2
    <3>4. CASE n \in 1 .. a
      BY <1>0, <2>1, <2>3, <3>1, <3>2, <3>4 DEF Exchanged, Returned
    <3>5. CASE n = a + 1
      BY <1>1, <1>4, <2>1, <2>3, <3>1, <3>2, <3>5 DEF Exchanged, Result, Call
    <3> QED BY <3>3, <3>4, <3>5
  <2> QED BY <2>2, <2>3
<1> QED BY <1>7, <1>8, <1>9, <1>10, <1>11 DEF Exchanged

\* What rank 0 has sent to r answers the call r is in
LEMMA AnswersTheSame ==
  ASSUME Calls, NEW r \in Peers, phase[r] # "idle", down[r] # << >>
  PROVE  /\ Len(given[r]) = Len(taken[r]) + 1 /\ Len(given[r]) \in 1 .. Len(given[0])
         /\ Len(given[r]) <= Len(taken[0]) \/ (phase[0] = "scatter" /\ Len(given[r]) = Len(given[0]))
         /\ 1 \in 1 .. Len(down[r])
<1>0. 0 \in Ranks /\ r \in Ranks /\ r \in Int
  BY RanksPeers
<1>1. PICK a \in Nat : a = Len(taken[0])
  BY <1>0, CallBounds
<1>2. PICK b \in Nat : b = Len(taken[r])
  BY <1>0, CallBounds
<1>3. PICK d \in Nat : d = Len(down[r]) /\ d > 0
  BY Lengths DEF Calls
<1>4. Len(given[r]) = b + 1 /\ a <= Len(given[0])
  BY <1>0, <1>1, <1>2, CallBounds
<1>5. CASE phase[0] = "scatter" /\ r < peer
  <2>1. b + d = a + 1
    BY <1>1, <1>2, <1>3, <1>5, DeliveredIs DEF Calls, Counts
  <2>2. Len(given[0]) = a + 1
    BY <1>0, <1>1, <1>5, CallBounds
  <2>3. b + 1 <= a \/ b + 1 = a + 1
    BY ONLY <2>1, <1>3, a \in Nat, b \in Nat, d \in Nat
  <2>4. b + 1 \in 1 .. a + 1 /\ 1 \in 1 .. d
    BY ONLY <2>1, <1>3, a \in Nat, b \in Nat, d \in Nat
  <2> QED BY <1>1, <1>2, <1>3, <1>4, <1>5, <2>2, <2>3, <2>4
<1>6. CASE ~(phase[0] = "scatter" /\ r < peer)
  <2>1. b + d = a + 0
    BY <1>1, <1>2, <1>3, <1>6, DeliveredIs DEF Calls, Counts
  <2>2. b + 1 <= a
    BY ONLY <2>1, <1>3, a \in Nat, b \in Nat, d \in Nat
  <2>3. Len(given[0]) \in Nat
    BY <1>0, CallBounds
  <2>4. b + 1 \in 1 .. Len(given[0]) /\ 1 \in 1 .. d
    BY ONLY <1>3, <1>4, <2>2, <2>3, a \in Nat, b \in Nat, d \in Nat
  <2> QED BY <1>1, <1>2, <1>3, <1>4, <2>2, <2>4
<1> QED BY <1>5, <1>6

LEMMA ReceiveExchanged ==
  ASSUME Calls, NEW h \in Nat, Exchanged(h), NEW r \in Peers, Receive(r)
  PROVE  Exchanged(h)'
<1>0. Shapes /\ 0 \in Ranks /\ r \in Ranks /\ r # 0 /\ \A q \in Peers : q \in Ranks /\ q # 0
  BY RanksPeers DEF Calls
<1>1. /\ phase[r] = "receive" /\ down[r] # << >> /\ Returns(r, down[r][1])
      /\ Same(acc, acc', Ranks, r)
      /\ Len(down'[r]) = Len(down[r]) - 1 /\ \A k \in 1 .. Len(down[r]) - 1 : down'[r][k] = down[r][k + 1]
      /\ Same(down, down', Peers, r)
  BY <1>0, ReceiveEffect
<1>2. /\ Len(taken'[r]) = Len(taken[r]) + 1 /\ Same(taken, taken', Ranks, r)
      /\ phase'[r] = "idle" /\ Same(phase, phase', Ranks, r)
      /\ given' = given /\ up' = up /\ peer' = peer
  BY <1>0, <1>1, ReturnsEffect
<1>3. /\ \A q \in Ranks : q # r => phase'[q] = phase[q] /\ taken'[q] = taken[q] /\ acc'[q] = acc[q]
      /\ \A q \in Peers : q # r => down'[q] = down[q]
  BY <1>1, <1>2 DEF Same
<1>4. \A q, n : Passed(q, n)' <=> Passed(q, n)
  BY <1>0, <1>2, <1>3 DEF Passed
<1>5. ASSUME NEW q \in Peers, NEW n \in Int, Sent(q, n) PROVE Sent(q, n)'
  <2>1. CASE q = r
    <3>1. PICK b \in Nat : b = Len(taken[r]) /\ Len(given[r]) = b + 1
      BY <1>0, <1>1, CallBounds
    <3>2. n <= b \/ n = b + 1
      BY <1>5, <2>1, <3>1 DEF Sent
    <3>3. n <= b + 1
      BY ONLY <3>2, b \in Nat, n \in Int
    <3> QED BY <1>2, <2>1, <3>1, <3>3 DEF Sent
  <2>2. CASE q # r
    BY <1>0, <1>2, <1>3, <1>5, <2>2 DEF Sent
  <2> QED BY <2>1, <2>2
<1>6. TakenSent(h)'
  <2>1. SUFFICES ASSUME NEW q \in Peers, NEW n \in 1 .. Len(given[0]), n <= h,
                        given[0][n].op = "allreduce", Passed(q, n)'
                 PROVE  Sent(q, n)'
    BY <1>2 DEF TakenSent
  <2>2. n \in Int
    BY <1>0, CallBounds
  <2>3. Sent(q, n)
    BY <1>4, <2>1 DEF Exchanged, TakenSent
  <2> QED BY <1>5, <2>2, <2>3
<1>7. GoingUp(h)'
  <2>1. Len(given[r]) <= h => up[r] = << >>
    <3>1. SUFFICES ASSUME up[r] # << >>, Len(given[r]) <= h PROVE FALSE
      OBVIOUS
    <3>2. ~Passed(r, Len(given[r]))
      BY <3>1 DEF Exchanged, GoingUp
    <3>3. Len(given[r]) <= Len(taken[0]) \/ (phase[0] = "scatter" /\ Len(given[r]) = Len(given[0]))
      BY <1>1, AnswersTheSame
    <3> QED BY <3>2, <3>3 DEF Passed
  <2> QED BY <1>0, <1>2, <1>3, <1>4, <2>1 DEF Exchanged, GoingUp, Call
<1>8. GoingDown(h)'
  <2>1. PICK t \in Nat : t = Len(taken[r])
    BY <1>0, Lengths
  <2>2. PICK d \in Nat : d = Len(down[r])
    BY <1>0, Lengths
  <2>3. \A k \in 1 .. d : t + k <= h => down[r][k] = OutcomeOf(given, given[0][t + k].op, t + k)
    BY <2>1, <2>2 DEF Exchanged, GoingDown
  <2>4. ASSUME NEW k \in 1 .. d - 1, (t + 1) + k <= h
        PROVE  down'[r][k] = OutcomeOf(given, given[0][(t + 1) + k].op, (t + 1) + k)
    <3>1. k + 1 \in 1 .. d /\ t + (k + 1) = (t + 1) + k
      BY ONLY t \in Nat, d \in Nat, k \in 1 .. d - 1
    <3>2. down[r][k + 1] = OutcomeOf(given, given[0][t + (k + 1)].op, t + (k + 1))
      BY <2>3, <2>4, <3>1
    <3> QED BY <1>1, <2>2, <3>1, <3>2
  <2>5. ASSUME NEW q \in Peers, NEW k \in 1 .. Len(down'[q]), Len(taken'[q]) + k <= h
        PROVE  down'[q][k] = OutcomeOf(given, given[0][Len(taken'[q]) + k].op, Len(taken'[q]) + k)
    <3>1. CASE q = r
      BY <1>1, <1>2, <2>1, <2>2, <2>4, <2>5, <3>1
    <3>2. CASE q # r
      BY <1>0, <1>3, <2>5, <3>2 DEF Exchanged, GoingDown
    <3> QED BY <3>1, <3>2
  <2> QED BY <1>2, <2>5 DEF GoingDown
<1>9. GatheredSoFar(h)' /\ Result(h)'
  BY <1>0, <1>2, <1>3 DEF Exchanged, GatheredSoFar, Result, Call
<1>10. Returned(h)'
  <2>1. SUFFICES ASSUME NEW q \in Ranks, NEW n \in 1 .. Len(taken'[q]), n <= h
                 PROVE  taken'[q][n] = OutcomeOf(given, given[0][n].op, n)
    BY <1>2 DEF Returned
  <2>2. CASE q # r
    BY <1>3, <2>1, <2>2 DEF Exchanged, Returned
  <2>3. CASE q = r
    <3>1. PICK b \in Nat : b = Len(taken[r])
      BY <1>0, CallBounds
    <3>2. /\ \A k \in 1 .. b : taken'[r][k] = taken[r][k]
          /\ taken'[r][b + 1] = down[r][1] /\ Len(taken'[r]) = b + 1
      BY <1>0, <1>1, <3>1, ReturnsEffect, SequenceAppend DEF Shapes
    <3>3. n \in 1 .. b \/ n = b + 1
      BY <2>1, <2>3, <3>2
    <3>4. CASE n \in 1 .. b
      BY <1>0, <2>1, <2>3, <3>1, <3>2, <3>4 DEF Exchanged, Returned
    <3>5. CASE n = b + 1
      <4>1. 1 \in 1 .. Len(down[r])
        BY <1>1, AnswersTheSame
      <4> QED BY <2>1, <2>3, <3>1, <3>2, <3>5, <4>1 DEF Exchanged, GoingDown
    <3> QED BY <3>3, <3>4, <3>5
  <2> QED BY <2>2, <2>3
<1> QED BY <1>6, <1>7, <1>8, <1>9, <1>10 DEF Exchanged

LEMMA BreaksExchanged ==
  ASSUME Calls, NEW h \in Nat, Exchanged(h), NEW r \in Ranks, Breaks(r)
  PROVE  Exchanged(h)'
<1>0. Shapes /\ 0 \in Ranks /\ \A q \in Peers : q \in Ranks /\ q # 0
  BY RanksPeers DEF Calls
<1>1. /\ phase'[r] = "broken" /\ Same(phase, phase', Ranks, r)
      /\ phase[r] = (IF r = 0 THEN "gather" ELSE "receive")
      /\ given' = given /\ taken' = taken /\ down' = down /\ up' = up /\ acc' = acc /\ peer' = peer
  BY <1>0, BreaksEffect
<1>2. \A q \in Ranks : q # r => phase'[q] = phase[q]
  BY <1>1 DEF Same
<1>3. /\ (phase'[0] = "broken" /\ phase[0] = "gather") \/ phase'[0] = phase[0]
      /\ \A q \in Peers : (phase'[q] = "broken" /\ phase[q] = "receive") \/ phase'[q] = phase[q]
  BY <1>0, <1>1, <1>2
<1>4. \A q, n : Passed(q, n)' <=> Passed(q, n)
  BY <1>1, <1>3 DEF Passed
<1>5. \A q \in Peers : \A n : Sent(q, n)' <=> Sent(q, n)
  BY <1>1, <1>3 DEF Sent
<1>6. TakenSent(h)' /\ GoingUp(h)' /\ GoingDown(h)' /\ GatheredSoFar(h)' /\ Result(h)' /\ Returned(h)'
  <2>1. TakenSent(h)'
    BY <1>1, <1>4, <1>5 DEF Exchanged, TakenSent
  <2>2. GoingUp(h)'
    BY <1>1, <1>3, <1>4 DEF Exchanged, GoingUp, Call
  <2>3. GoingDown(h)' /\ Returned(h)'
    BY <1>1 DEF Exchanged, GoingDown, Returned
  <2>4. GatheredSoFar(h)' /\ Result(h)'
    BY <1>1, <1>3 DEF Exchanged, GatheredSoFar, Result, Call
  <2> QED BY <2>1, <2>2, <2>3, <2>4
<1> QED BY <1>6 DEF Exchanged

LEMMA BeginExchanged ==
  ASSUME Calls, NEW h \in Nat, Exchanged(h), NEW r \in Ranks, NEW op \in Group!Ops, NEW v, NEW x, Begin(r, op, v, x),
         Group!Agreed(h)'
  PROVE  Exchanged(h)'
<1>0. Shapes /\ CallsMade /\ 0 \in Ranks /\ \A q \in Peers : q \in Ranks /\ q # 0
  BY RanksPeers DEF Calls
<1>1. /\ phase[r] = "idle" /\ Len(given'[r]) = Len(given[r]) + 1
      /\ \A n \in 1 .. Len(given[r]) : given'[r][n] = given[r][n]
      /\ given'[r][Len(given[r]) + 1].op = op /\ given'[r][Len(given[r]) + 1].val = v
      /\ Same(given, given', Ranks, r)
      /\ phase'[r] = First(op, r) /\ Same(phase, phase', Ranks, r)
      /\ acc'[r] = v /\ Same(acc, acc', Ranks, r)
      /\ peer' = (IF r = 0 THEN 1 ELSE peer)
      /\ taken' = taken /\ up' = up /\ down' = down
  BY <1>0, BeginEffect
<1>2. \A q \in Ranks : q # r => given'[q] = given[q] /\ phase'[q] = phase[q] /\ acc'[q] = acc[q]
  BY <1>1 DEF Same
<1>3. PICK m \in Nat : m = Len(given[r]) /\ m = Len(taken[r])
  BY <1>1, CallBounds
<1>4. op \in {"allreduce", "broadcast"}
  BY DEF Group!Ops
<1>5. \A q \in Ranks : \A n \in 1 .. Len(given[q]) : given'[q][n] = given[q][n]
  BY <1>1, <1>2
<1>6. ASSUME NEW q \in Peers, NEW n \in Int, Sent(q, n) PROVE Sent(q, n)'
  <2>1. CASE q = r
    BY <1>1, <1>3, <1>6, <2>1 DEF Sent
  <2>2. CASE q # r
    BY <1>0, <1>1, <1>2, <1>6, <2>2 DEF Sent
  <2> QED BY <2>1, <2>2
\* the messages to come are outcomes of calls that have been made
<1>7. ASSUME NEW n \in 1 .. Len(given[0]), n <= h, n <= Len(taken[0]) \/ phase[0] = "scatter"
      PROVE  OutcomeOf(given', given'[0][n].op, n) = OutcomeOf(given, given[0][n].op, n)
  <2>1. given'[0][n] = given[0][n]
    BY <1>0, <1>5
  <2>2. given[0][n].op = "allreduce" => \A q \in Ranks : given'[q][n].val = given[q][n].val
    <3>1. SUFFICES ASSUME given[0][n].op = "allreduce", NEW q \in Ranks PROVE given'[q][n] = given[q][n]
      OBVIOUS
    <3>2. n <= Len(given[q])
      BY <1>7, <3>1, SettledCalled DEF Exchanged
    <3>3. n \in 1 .. Len(given[q])
      BY <1>0, <3>2, CallBounds
    <3> QED BY <1>5, <3>3
  <2> QED BY <2>1, <2>2, OutcomeSame
<1>8. GoingDown(h)'
  <2>1. ASSUME NEW q \in Peers, NEW k \in 1 .. Len(down[q]), Len(taken[q]) + k <= h
        PROVE  down[q][k] = OutcomeOf(given', given'[0][Len(taken[q]) + k].op, Len(taken[q]) + k)
    <3>1. PICK t \in Nat : t = Len(taken[q])
      BY <1>0, CallBounds
    <3>2. PICK d \in Nat : d = Len(down[q]) /\ k <= d
      BY <1>0, Lengths
    <3>3. PICK a \in Nat : a = Len(taken[0])
      BY <1>0, CallBounds
    <3>4. t + k \in 1 .. Len(given[0]) /\ (t + k <= a \/ phase[0] = "scatter")
      <4>1. CASE phase[0] = "scatter" /\ q < peer
        <5>1. t + d = a + 1
          BY <3>1, <3>2, <3>3, <4>1, DeliveredIs DEF Calls, Counts
        <5>2. Len(given[0]) = a + 1
          BY <1>0, <3>3, <4>1, CallBounds
        <5>3. k \in 1 .. d
          BY <3>2
        <5>4. t + k \in 1 .. a + 1
          BY ONLY <5>1, <5>3, t \in Nat, d \in Nat, a \in Nat
        <5> QED BY <4>1, <5>2, <5>4
      <4>2. CASE ~(phase[0] = "scatter" /\ q < peer)
        <5>1. t + d = a + 0
          BY <3>1, <3>2, <3>3, <4>2, DeliveredIs DEF Calls, Counts
        <5>2. Len(given[0]) \in Nat /\ a <= Len(given[0])
          BY <1>0, <3>3, CallBounds
        <5>3. k \in 1 .. d
          BY <3>2
        <5>4. t + k \in 1 .. Len(given[0]) /\ t + k <= a
          BY ONLY <5>1, <5>2, <5>3, t \in Nat, d \in Nat, a \in Nat
        <5> QED BY <5>4
      <4> QED BY <4>1, <4>2
    <3>5. OutcomeOf(given', given'[0][t + k].op, t + k) = OutcomeOf(given, given[0][t + k].op, t + k)
      BY <1>7, <2>1, <3>1, <3>3, <3>4
    <3> QED BY <2>1, <3>1, <3>5 DEF Exchanged, GoingDown
  <2> QED BY <1>1, <2>1 DEF GoingDown
<1>9. Returned(h)'
  <2>1. SUFFICES ASSUME NEW q \in Ranks, NEW n \in 1 .. Len(taken[q]), n <= h
                 PROVE  taken[q][n] = OutcomeOf(given', given'[0][n].op, n)
    BY <1>1 DEF Returned
  <2>2. PICK a \in Nat : a = Len(taken[0])
    BY <1>0, CallBounds
  <2>3. PICK b \in Nat : b = Len(taken[q])
    BY CallBounds
  <2>4. PICK g \in Nat : g = Len(given[0]) /\ a <= g /\ (phase[0] = "scatter" => g = a + 1)
    BY <1>0, <2>2, CallBounds
  <2>5. n \in 1 .. g /\ (n <= a \/ phase[0] = "scatter")
    <3>1. b <= a \/ (phase[0] = "scatter" /\ b <= a + 1)
      <4>1. CASE q = 0
        BY <2>2, <2>3, <4>1
      <4>2. CASE q # 0
        <5>1. PICK d \in Nat : d = Len(down[q]) /\ q \in Peers
          BY <4>2, RanksPeers, Lengths DEF Calls
        <5>2. (b + d = a + 1 /\ phase[0] = "scatter") \/ b + d = a + 0
          BY <2>2, <2>3, <5>1, DeliveredIs DEF Calls, Counts
        <5> QED BY ONLY <5>2, a \in Nat, b \in Nat, d \in Nat
      <4> QED BY <4>1, <4>2
    <3>2. n \in 1 .. b
      BY <2>1, <2>3
    <3> QED BY ONLY <2>4, <3>1, <3>2, a \in Nat, b \in Nat, g \in Nat
  <2>6. OutcomeOf(given', given'[0][n].op, n) = OutcomeOf(given, given[0][n].op, n)
    BY <1>7, <2>1, <2>2, <2>4, <2>5
  <2> QED BY <2>1, <2>6 DEF Exchanged, Returned
<1>10. CASE r = 0
  <2>1. /\ (phase'[0] = "gather" /\ op = "allreduce") \/ (phase'[0] = "scatter" /\ op = "broadcast")
        /\ peer' = 1 /\ Len(given'[0]) = m + 1 /\ given'[0][m + 1].op = op /\ given'[0][m + 1].val = v
        /\ acc'[0] = v /\ Len(taken'[0]) = m /\ Len(given[0]) = m /\ phase[0] = "idle"
    BY <1>1, <1>3, <1>4, <1>10 DEF First
  <2>2. \A q \in Peers : q > 0 /\ ~(q < 1) /\ given'[q] = given[q] /\ phase'[q] = phase[q]
    BY <1>2, <1>10, RanksPeers
  <2>3. \A q \in Peers : \A n : Sent(q, n)' <=> Sent(q, n)
    BY <1>1, <2>2 DEF Sent
  <2>4. \A q \in Peers : \A n : Passed(q, n) <=> n <= m
    BY <1>3, <1>10, <2>1 DEF Passed
  <2>5. \A q \in Peers : \A n : Passed(q, n)' <=> (n <= m \/ (n = m + 1 /\ op = "broadcast"))
    BY <2>1, <2>2 DEF Passed
  <2>6. TakenSent(h)'
    <3>1. SUFFICES ASSUME NEW q \in Peers, NEW n \in 1 .. m + 1, n <= h, given'[0][n].op = "allreduce", Passed(q, n)'
                   PROVE  Sent(q, n)'
      BY <2>1 DEF TakenSent
    <3>2. n <= m
      BY <2>1, <2>5, <3>1
    <3>3. n \in 1 .. m /\ given'[0][n] = given[0][n]
      BY <1>0, <1>5, <2>1, <3>2
    <3> QED BY <2>1, <2>3, <2>4, <3>1, <3>2, <3>3 DEF Exchanged, TakenSent
  <2>7. GoingUp(h)'
    <3>1. SUFFICES ASSUME NEW q \in Peers, up[q] # << >>, Len(given[q]) <= h
                   PROVE  /\ phase[q] \in {"receive", "broken"} /\ Call(q).op = "allreduce"
                          /\ up[q] = <<Call(q).val>> /\ ~Passed(q, Len(given[q]))'
      BY <1>1, <2>2 DEF GoingUp, Call
    <3>2. /\ phase[q] \in {"receive", "broken"} /\ Call(q).op = "allreduce"
          /\ up[q] = <<Call(q).val>> /\ ~Passed(q, Len(given[q]))
      BY <3>1 DEF Exchanged, GoingUp
    <3>3. ~(op = "broadcast" /\ Len(given[q]) = m + 1)
      <4>1. SUFFICES ASSUME op = "broadcast", Len(given[q]) = m + 1 PROVE FALSE
        OBVIOUS
      <4>2. Shapes'
        BY BeginCalls DEF Calls
      <4>3. DOMAIN given'[0] = 1 .. m + 1 /\ DOMAIN given'[q] = 1 .. m + 1
        <5>1. Sequence(given'[0]) /\ Sequence(given'[q])
          BY <1>0, <4>2 DEF Shapes
        <5>2. Len(given'[0]) = m + 1 /\ Len(given'[q]) = m + 1
          BY <1>1, <1>3, <2>1, <2>2, <4>1
        <5> QED BY ONLY <5>1, <5>2, SequenceLen
      <4>4. m + 1 \in 1 .. m + 1 /\ m + 1 <= h
        BY <3>1, <4>1
      <4>5. given'[q][m + 1].op = given'[0][m + 1].op
        BY <1>0, <4>3, <4>4, RanksPeers DEF Group!Agreed
      <4> QED BY <2>1, <2>2, <3>2, <4>1, <4>5 DEF Call
    <3>4. ~(Len(given[q]) <= m)
      BY <2>4, <3>2
    <3>5. given'[q] = given[q]
      BY <2>2
    <3>6. ~Passed(q, Len(given[q]))'
      BY <2>5, <3>3, <3>4, <3>5
    <3> QED BY <3>2, <3>6
  <2>8. GatheredSoFar(h)'
    <3>1. SUFFICES ASSUME phase'[0] = "gather"
                   PROVE  acc'[0] = UNION {given'[q][Len(given'[0])].val : q \in 0 .. peer' - 1}
      BY DEF GatheredSoFar
    <3>2. 0 .. peer' - 1 = {0}
      BY <2>1
    <3>3. UNION {given'[q][m + 1].val : q \in {0}} = given'[0][m + 1].val
      OBVIOUS
    <3> QED BY <2>1, <3>2, <3>3
  <2>9. Result(h)'
    BY <2>1 DEF Result, OutcomeOf, Call
  <2> QED BY <1>8, <1>9, <2>6, <2>7, <2>8, <2>9 DEF Exchanged
<1>11. CASE r # 0
  <2>1. r \in Peers /\ given'[0] = given[0] /\ phase'[0] = phase[0] /\ acc'[0] = acc[0] /\ peer' = peer
    BY <1>0, <1>1, <1>2, <1>11, RanksPeers
  <2>2. \A q, n : Passed(q, n)' <=> Passed(q, n)
    BY <1>1, <2>1 DEF Passed
  <2>3. TakenSent(h)'
    <3>1. SUFFICES ASSUME NEW q \in Peers, NEW n \in 1 .. Len(given[0]), n <= h, given[0][n].op = "allreduce",
                          Passed(q, n)'
                   PROVE  Sent(q, n)'
      BY <2>1 DEF TakenSent
    <3>2. n \in Int
      BY <1>0, CallBounds
    <3> QED BY <1>6, <2>2, <3>1, <3>2 DEF Exchanged, TakenSent
  <2>4. GoingUp(h)'
    <3>1. m + 1 <= h => up[r] = << >>
      <4>1. m + 1 <= h => Len(given[r]) <= h
        BY <1>3
      <4> QED BY <1>1, <2>1, <4>1 DEF Exchanged, GoingUp
    <3>2. Len(given'[r]) = m + 1
      BY <1>1, <1>3
    <3> QED BY <1>0, <1>1, <1>2, <2>2, <3>1, <3>2 DEF Exchanged, GoingUp, Call
  <2>5. GatheredSoFar(h)'
    <3>1. SUFFICES ASSUME phase[0] = "gather", Len(given[0]) <= h
                   PROVE  acc[0] = UNION {given'[q][Len(given[0])].val : q \in 0 .. peer - 1}
      BY <2>1 DEF GatheredSoFar
    <3>2. acc[0] = UNION {given[q][Len(given[0])].val : q \in 0 .. peer - 1}
      BY <3>1 DEF Exchanged, GatheredSoFar
    <3>3. ASSUME NEW q \in 0 .. peer - 1 PROVE given'[q][Len(given[0])] = given[q][Len(given[0])]
      <4>1. CASE q = 0
        BY <2>1, <4>1
      <4>2. CASE q # 0
        <5>1. peer \in 1 .. N /\ N \in Nat
          BY <1>0, WorldAssumption DEF Shapes
        <5>2. q \in 1 .. N - 1 /\ q < peer
          BY ONLY <4>2, <5>1, q \in 0 .. peer - 1
        <5>3. q \in Peers
          BY <5>2, RanksPeers
        <5>4. Passed(q, Len(given[0]))
          BY <3>1, <5>2 DEF Passed
        <5>5. Len(given[0]) = Len(taken[0]) + 1 /\ Len(taken[0]) \in Nat
          BY <1>0, <3>1, CallBounds
        <5>6. Len(given[0]) \in 1 .. Len(given[0])
          BY ONLY <5>5
        <5>7. given[0][Len(given[0])].op = "allreduce"
          BY <1>0, <3>1 DEF CallsMade, Call
        <5>8. Sent(q, Len(given[0]))
          BY <3>1, <5>3, <5>4, <5>6, <5>7 DEF Exchanged, TakenSent
        <5>9. Len(given[0]) \in 1 .. Len(given[q])
          BY <1>0, <5>3, <5>5, <5>8, CallBounds DEF Sent
        <5> QED BY <1>0, <1>5, <5>3, <5>9
      <4> QED BY <4>1, <4>2
    <3>4. {given'[q][Len(given[0])].val : q \in 0 .. peer - 1} = {given[q][Len(given[0])].val : q \in 0 .. peer - 1}
      BY <3>3
    <3> QED BY <3>2, <3>4
  <2>6. Result(h)'
    <3>1. SUFFICES ASSUME phase[0] = "scatter", Len(given[0]) <= h
                   PROVE  acc[0] = OutcomeOf(given', given'[0][Len(given[0])].op, Len(given[0]))
      BY <2>1 DEF Result, Call
    <3>2. Len(given[0]) = Len(taken[0]) + 1 /\ Len(taken[0]) \in Nat
      BY <1>0, <3>1, CallBounds
    <3>3. Len(given[0]) \in 1 .. Len(given[0])
      BY ONLY <3>2
    <3> QED BY <1>7, <3>1, <3>3 DEF Exchanged, Result, Call
  <2> QED BY <1>8, <1>9, <2>3, <2>4, <2>5, <2>6 DEF Exchanged
<1> QED BY <1>10, <1>11

LEMMA GlooInvInit == GlooInit => GlooInv
BY CallsInit, ExchangedInit DEF GlooInv

LEMMA GlooInvNext ==
  ASSUME GlooInv, GlooNext
  PROVE  GlooInv'
<1>0. Calls /\ \A h \in Nat : Group!Agreed(h) => Exchanged(h)
  BY DEF GlooInv
<1>1. PICK r \in Ranks : \/ \E op \in Group!Ops : \E v, x : Begin(r, op, v, x)
                         \/ GlooStep(r) \/ Breaks(r)
  BY DEF GlooNext
<1>2. CASE \E op \in Group!Ops : \E v, x : Begin(r, op, v, x)
  <2>1. PICK op \in Group!Ops : \E v, x : Begin(r, op, v, x)
    BY <1>2
  <2>2. PICK v, x : Begin(r, op, v, x)
    BY <2>1
  <2>3. Calls'
    BY <1>0, <2>2, BeginCalls
  <2>4. ASSUME NEW h \in Nat, Group!Agreed(h)' PROVE Exchanged(h)'
    <3>1. Group!Agreed(h)
      BY <1>0, <2>2, <2>4, BeginAgreed DEF Calls
    <3> QED BY <1>0, <2>2, <2>4, <3>1, BeginExchanged
  <2> QED BY <2>3, <2>4 DEF GlooInv
<1>3. CASE GlooStep(r) \/ Breaks(r)
  <2>1. given' = given
    BY <1>3 DEF GlooStep, Breaks, Gather, Gathered, Scatter, Scattered, SendUp, Receive, Returns
  <2>2. \A h : Group!Agreed(h)' <=> Group!Agreed(h)
    BY <2>1 DEF Group!Agreed
  <2>3. Calls' /\ \A h \in Nat : Group!Agreed(h) => Exchanged(h)'
    <3>1. CASE Breaks(r)
      BY <1>0, <3>1, BreaksCalls, BreaksExchanged
    <3>2. CASE r = 0 /\ Gather
      BY <1>0, <3>2, GatherCalls, GatherExchanged
    <3>3. CASE r = 0 /\ Gathered
      BY <1>0, <3>3, GatheredCalls, GatheredExchanged
    <3>4. CASE r = 0 /\ Scatter
      BY <1>0, <3>4, ScatterCalls, ScatterExchanged
    <3>5. CASE r = 0 /\ Scattered
      BY <1>0, <3>5, ScatteredCalls, ScatteredExchanged
    <3>6. CASE r # 0 /\ SendUp(r)
      BY <1>0, <3>6, RanksPeers, SendUpCalls, SendUpExchanged
    <3>7. CASE r # 0 /\ Receive(r)
      BY <1>0, <3>7, RanksPeers, ReceiveCalls, ReceiveExchanged
    <3> QED BY <1>3, <3>1, <3>2, <3>3, <3>4, <3>5, <3>6, <3>7 DEF GlooStep
  <2> QED BY <2>2, <2>3 DEF GlooInv
<1> QED BY <1>1, <1>2, <1>3

\* A step of the collectives is a call, a return or nothing to the group

LEMMA BeginGives ==
  ASSUME Calls, NEW r \in Ranks, NEW op \in Group!Ops, NEW v, NEW x, Begin(r, op, v, x)
  PROVE  Group!Give(r)
<1>1. /\ phase[r] = "idle" /\ Len(given'[r]) = Len(given[r]) + 1
      /\ given'[r][Len(given[r]) + 1].op = op /\ taken' = taken
  BY BeginEffect DEF Calls
<1>2. PICK c : c = [op |-> op, val |-> v, tensor |-> x]
  OBVIOUS
<1>3. given' = [given EXCEPT ![r] = Append(given[r], c)]
  BY <1>2 DEF Begin
<1>4. given'[r] = Append(given[r], c)
  BY <1>3 DEF Calls, Shapes, Function
<1>5. given'[r][Len(given[r]) + 1] = c
  BY <1>4, SequenceAppend DEF Calls, Shapes
<1>6. Group!Grows(given, r)
  BY <1>1, <1>3, <1>5 DEF Group!Grows
<1>7. Len(given[r]) = Len(taken[r])
  BY <1>1, CallBounds
<1> QED BY <1>1, <1>6, <1>7 DEF Group!Give

LEMMA ReturnsTakes ==
  ASSUME Calls, NEW r \in Ranks, NEW v, Returns(r, v), Len(given[r]) = Len(taken[r]) + 1,
         Group!Agreed(Len(given[r])) =>
           /\ Group!Settled(given[r][Len(given[r])].op, Len(given[r]))
           /\ v = Group!Outcome(given[r][Len(given[r])].op, Len(given[r]))
  PROVE  Group!Take(r)
<1>1. /\ Len(taken'[r]) = Len(taken[r]) + 1 /\ taken'[r][Len(taken[r]) + 1] = v /\ given' = given
  BY ReturnsEffect DEF Calls
<1>2. taken' = [taken EXCEPT ![r] = Append(taken[r], v)]
  BY DEF Returns
<1>3. Group!Grows(taken, r)
  BY <1>1, <1>2 DEF Group!Grows
<1>4. taken'[r][Len(given[r])] = v
  BY <1>1
<1> QED BY <1>1, <1>3, <1>4 DEF Group!Take

LEMMA SettledIs ==
  ASSUME Calls, NEW h \in Nat, TakenSent(h), NEW n \in 1 .. Len(given[0]), n <= h, n <= Len(taken[0]) \/ phase[0] = "scatter"
  PROVE  Group!Settled(given[0][n].op, n)
<1>1. given[0][n].op = "allreduce" => \A q \in Ranks : n <= Len(given[q])
  BY SettledCalled
<1>2. n <= Len(given[0]) /\ 0 \in Ranks
  BY RanksPeers, CallBounds
<1>3. CASE given[0][n].op = "allreduce"
  BY <1>1, <1>3, RanksPeers DEF Group!Settled, Group!Called
<1>4. CASE given[0][n].op # "allreduce"
  BY <1>2, <1>4, RanksPeers DEF Group!Settled, Group!Called
<1> QED BY <1>3, <1>4

LEMMA ScatteredTakes ==
  ASSUME GlooInv, Scattered
  PROVE  Group!Take(0)
<1>1. Calls /\ 0 \in Ranks
  BY RanksPeers DEF GlooInv
<1>2. phase[0] = "scatter" /\ Returns(0, acc[0])
  BY DEF Scattered
<1>3. Len(given[0]) = Len(taken[0]) + 1 /\ Len(taken[0]) \in Nat
  BY <1>1, <1>2, CallBounds
<1>4. PICK n \in Nat : n = Len(given[0]) /\ n \in 1 .. Len(given[0]) /\ n <= n
  BY <1>3
<1>5. Group!Agreed(n) => Exchanged(n)
  BY DEF GlooInv
<1>6. Group!Agreed(n) => Group!Settled(given[0][n].op, n)
  BY <1>1, <1>2, <1>4, <1>5, SettledIs DEF Exchanged
<1>7. Group!Agreed(n) => acc[0] = Group!Outcome(given[0][n].op, n)
  BY <1>1, <1>2, <1>4, <1>5, OutcomeIs DEF Exchanged, Result, Call
<1> QED BY <1>1, <1>2, <1>3, <1>4, <1>6, <1>7, ReturnsTakes

LEMMA ReceiveTakes ==
  ASSUME GlooInv, NEW r \in Peers, Receive(r)
  PROVE  Group!Take(r)
<1>1. Calls /\ 0 \in Ranks /\ r \in Ranks
  BY RanksPeers DEF GlooInv
<1>2. phase[r] = "receive" /\ down[r] # << >> /\ Returns(r, down[r][1])
  BY <1>1, ReceiveEffect DEF Calls
<1>3. PICK n \in Nat : n = Len(given[r])
  BY <1>1, CallBounds
<1>4. /\ n = Len(taken[r]) + 1 /\ n \in 1 .. Len(given[0]) /\ n <= n
      /\ n <= Len(taken[0]) \/ phase[0] = "scatter"
  BY <1>1, <1>2, <1>3, AnswersTheSame
<1>5. Group!Agreed(n) => Exchanged(n)
  BY DEF GlooInv
<1>6. ASSUME Group!Agreed(n) PROVE given[r][n].op = given[0][n].op
  <2>1. n \in 1 .. n /\ n <= Len(given[r]) /\ n <= Len(given[0])
    BY <1>1, <1>3, <1>4, CallBounds
  <2> QED BY <1>1, <1>6, <2>1, AgreedSame DEF Calls
<1>7. Group!Agreed(n) => Group!Settled(given[r][n].op, n)
  BY <1>1, <1>4, <1>5, <1>6, SettledIs DEF Exchanged
<1>8. Group!Agreed(n) => down[r][1] = Group!Outcome(given[r][n].op, n)
  <2>1. 1 \in 1 .. Len(down[r])
    BY <1>1, <1>2, AnswersTheSame
  <2> QED BY <1>1, <1>4, <1>5, <1>6, <2>1, OutcomeIs DEF Exchanged, GoingDown
<1> QED BY <1>1, <1>2, <1>3, <1>4, <1>7, <1>8, ReturnsTakes

LEMMA GlooSteps ==
  ASSUME GlooInv, GlooNext
  PROVE  [Group!CollNext]_(Group!collVars)
<1>0. Calls
  BY DEF GlooInv
<1>1. PICK r \in Ranks : \/ \E op \in Group!Ops : \E v, x : Begin(r, op, v, x)
                         \/ GlooStep(r) \/ Breaks(r)
  BY DEF GlooNext
<1>2. CASE \E op \in Group!Ops : \E v, x : Begin(r, op, v, x)
  <2>1. PICK op \in Group!Ops : \E v, x : Begin(r, op, v, x)
    BY <1>2
  <2>2. PICK v, x : Begin(r, op, v, x)
    BY <2>1
  <2>3. Group!Give(r)
    BY <1>0, <2>2, BeginGives
  <2> QED BY <2>3, RanksPeers DEF Group!CollNext
<1>3. CASE r = 0 /\ Scattered
  BY <1>3, ScatteredTakes, RanksPeers DEF Group!CollNext
<1>4. CASE r # 0 /\ Receive(r)
  BY <1>4, ReceiveTakes, RanksPeers DEF Group!CollNext
<1>5. CASE Breaks(r) \/ (r = 0 /\ (Gather \/ Gathered \/ Scatter)) \/ (r # 0 /\ SendUp(r))
  BY <1>5 DEF Breaks, Gather, Gathered, Scatter, SendUp, Group!collVars
<1> QED BY <1>1, <1>2, <1>3, <1>4, <1>5 DEF GlooStep

-----------------------------------------------------------------------------
(* The reducer over the collectives                                        *)

LEMMA ReducerCalls ==
  ASSUME [ReducerNext]_reducerVars
  PROVE  GlooNext \/ UNCHANGED glooVars
<1>1. CASE UNCHANGED reducerVars
  BY <1>1 DEF reducerVars
<1>2. CASE Terminated
  BY <1>2 DEF Terminated, reducerVars
<1>3. ASSUME NEW r \in Ranks, RankStep(r) PROVE GlooNext \/ UNCHANGED glooVars
  <2>1. CASE BroadcastBuffers(r)
    BY <2>1 DEF BroadcastBuffers, GlooNext, Group!Ops
  <2>2. CASE Reduce(r)
    BY <2>2 DEF Reduce, GlooNext, Group!Ops
  <2>3. CASE Communicate(r)
    BY <2>3 DEF Communicate, GlooNext
  <2>4. CASE ReceiveFails(r)
    <3>1. Breaks(r)
      BY <2>4 DEF ReceiveFails, Awaits, Breaks, Set
    <3> QED BY <3>1 DEF GlooNext
  <2>5. CASE Prepare(r) \/ MarkUnused(r) \/ UnusedMarked(r) \/ Hook(r) \/ Finish(r)
    BY <2>5 DEF Prepare, MarkUnused, UnusedMarked, Hook, Finish
  <2>6. CASE Raise(r) \/ Average(r) \/ Reduced(r)
    BY <2>6 DEF Raise, Average, Reduced
  <2> QED BY <1>3, <2>1, <2>2, <2>3, <2>4, <2>5, <2>6 DEF RankStep
<1> QED BY <1>1, <1>2, <1>3 DEF ReducerNext

LEMMA GlooInvariant == ReducerSpec => []GlooInv
<1>1. ReducerInit => GlooInv
  BY GlooInvInit DEF ReducerInit
<1>2. ASSUME GlooInv, [ReducerNext]_reducerVars PROVE GlooInv'
  <2>1. CASE GlooNext
    BY <1>2, <2>1, GlooInvNext
  <2>2. CASE UNCHANGED glooVars
    <3>1. /\ given' = given /\ taken' = taken /\ up' = up /\ down' = down /\ phase' = phase
          /\ acc' = acc /\ peer' = peer
      BY <2>2 DEF glooVars
    <3>2. \A q : (Call(q)' = Call(q) /\ Inside(q)' = Inside(q) /\ Delivered(q)' = Delivered(q))
      BY <3>1 DEF Call, Inside, Delivered
    <3>3. \A q, n : (Passed(q, n)' <=> Passed(q, n)) /\ (Sent(q, n)' <=> Sent(q, n))
      BY <3>1 DEF Passed, Sent
    <3>4. Calls' <=> Calls
      <4>1. (Shapes' <=> Shapes) /\ (Counts' <=> Counts)
        BY <3>1, <3>2 DEF Shapes, Counts
      <4>2. CallsMade' <=> CallsMade
        BY <3>1, <3>2 DEF CallsMade
      <4> QED BY <4>1, <4>2 DEF Calls
    <3>5. \A h : Exchanged(h)' <=> Exchanged(h)
      <4>0. SUFFICES ASSUME NEW h PROVE Exchanged(h)' <=> Exchanged(h)
        OBVIOUS
      <4>1. (TakenSent(h)' <=> TakenSent(h)) /\ (GoingUp(h)' <=> GoingUp(h))
        BY <3>1, <3>2, <3>3 DEF TakenSent, GoingUp
      <4>2. (GoingDown(h)' <=> GoingDown(h)) /\ (GatheredSoFar(h)' <=> GatheredSoFar(h)) /\ (Result(h)' <=> Result(h))
        BY <3>1, <3>2 DEF GoingDown, GatheredSoFar, Result
      <4>3. Returned(h)' <=> Returned(h)
        BY <3>1 DEF Returned
      <4> QED BY <4>1, <4>2, <4>3 DEF Exchanged
    <3>6. \A h : Group!Agreed(h)' <=> Group!Agreed(h)
      BY <3>1 DEF Group!Agreed
    <3> QED BY <1>2, <3>4, <3>5, <3>6 DEF GlooInv
  <2> QED BY <1>2, <2>1, <2>2, ReducerCalls
<1> QED BY <1>1, <1>2, PTL DEF ReducerSpec

\* GroupPromise: the gather, reduce and scatter of _gloo, whose messages carry no tag,
\* keep the promise of a process group to ranks that make the same calls, under every
\* interleaving, for any number of ranks, and also when connections break.
THEOREM CollectivesPromised == ReducerSpec => GroupPromise
<1>1. ReducerInit => Group!CollInit
  BY RanksPeers DEF ReducerInit, GlooInit, Group!CollInit
<1>2. ASSUME GlooInv, [ReducerNext]_reducerVars PROVE [Group!CollNext]_(Group!collVars)
  <2>1. CASE GlooNext
    BY <1>2, <2>1, GlooSteps
  <2>2. CASE UNCHANGED glooVars
    BY <2>2 DEF glooVars, Group!collVars
  <2> QED BY <1>2, <2>1, <2>2, ReducerCalls
<1> QED BY <1>1, <1>2, GlooInvariant, PTL DEF ReducerSpec, GroupPromise, Group!CollSpec

-----------------------------------------------------------------------------
(* What a step of one rank leaves alone                                    *)

OneRank(f, g, r) == Function(g, Ranks) /\ Same(f, g, Ranks, r)

LEMMA SetsOneRank ==
  ASSUME NEW f, Function(f, Ranks), NEW r \in Ranks, NEW v, NEW g, Sets(f, g, r, v)
  PROVE  OneRank(f, g, r) /\ g[r] = v
BY SetsOne DEF OneRank

LEMMA SameOneRank ==
  ASSUME NEW f, Function(f, Ranks), NEW r, NEW g, g = f
  PROVE  OneRank(f, g, r)
BY DEF OneRank, Same

LocalTypes ==
  /\ Function(iter, Ranks) /\ Function(pc, Ranks) /\ Function(at, Ranks) /\ Function(todo, Ranks)
  /\ Function(cache, Ranks) /\ Function(pending, Ranks) /\ Function(bgrads, Ranks)
  /\ Function(red, Ranks) /\ Function(grad, Ranks) /\ Function(summed, Ranks) /\ Function(after, Ranks)

OthersKept(r) ==
  /\ program' = program /\ config' = config /\ inStep' = inStep
  /\ OneRank(iter, iter', r) /\ OneRank(pc, pc', r) /\ OneRank(at, at', r) /\ OneRank(todo, todo', r)
  /\ OneRank(cache, cache', r) /\ OneRank(pending, pending', r) /\ OneRank(bgrads, bgrads', r)
  /\ OneRank(red, red', r) /\ OneRank(grad, grad', r) /\ OneRank(summed, summed', r)
  /\ OneRank(after, after', r)

LEMMA LocalTypesInit == ReducerInit => LocalTypes
BY DEF ReducerInit, LocalTypes, Function

LEMMA ArriveEffect ==
  ASSUME LocalTypes, NEW r \in Ranks, NEW p, NEW v, Arrive(r, p, v)
  PROVE  /\ OneRank(bgrads, bgrads', r) /\ OneRank(pending, pending', r) /\ OneRank(red, red', r)
         /\ bgrads'[r] = [bgrads[r] EXCEPT ![BucketOf(p)] = Put(bgrads[r][BucketOf(p)], p, v)]
         /\ pending'[r] = [pending[r] EXCEPT ![BucketOf(p)] = pending[r][BucketOf(p)] - 1]
         /\ red'[r] = (IF pending[r][BucketOf(p)] = 1 THEN <<BucketOf(p), 1>> ELSE red[r])
<1>1. /\ Sets(bgrads, bgrads', r, [bgrads[r] EXCEPT ![BucketOf(p)] = Put(bgrads[r][BucketOf(p)], p, v)])
      /\ Sets(pending, pending', r, [pending[r] EXCEPT ![BucketOf(p)] = pending[r][BucketOf(p)] - 1])
  BY DEF Arrive, Sets
<1>2. /\ OneRank(bgrads, bgrads', r)
      /\ bgrads'[r] = [bgrads[r] EXCEPT ![BucketOf(p)] = Put(bgrads[r][BucketOf(p)], p, v)]
  BY <1>1, SetsOneRank DEF LocalTypes
<1>3. /\ OneRank(pending, pending', r)
      /\ pending'[r] = [pending[r] EXCEPT ![BucketOf(p)] = pending[r][BucketOf(p)] - 1]
  BY <1>1, SetsOneRank DEF LocalTypes
<1>4. /\ OneRank(red, red', r)
      /\ red'[r] = (IF pending[r][BucketOf(p)] = 1 THEN <<BucketOf(p), 1>> ELSE red[r])
  <2>1. CASE pending[r][BucketOf(p)] = 1
    <3>1. Sets(red, red', r, <<BucketOf(p), 1>>)
      BY <2>1 DEF Arrive, Set, Sets
    <3> QED BY <2>1, <3>1, SetsOneRank DEF LocalTypes
  <2>2. CASE pending[r][BucketOf(p)] # 1
    <3>1. red' = red
      BY <2>2 DEF Arrive
    <3> QED BY <2>2, <3>1, SameOneRank DEF LocalTypes
  <2> QED BY <2>1, <2>2
<1> QED BY <1>2, <1>3, <1>4

LEMMA KeepsOthers ==
  ASSUME LocalTypes, NEW r \in Ranks, RankStep(r)
  PROVE  OthersKept(r)
<1> DEFINE Kept(f, g) == g = f \/ \E v : Sets(f, g, r, v)
<1>0. ASSUME NEW f, NEW g, Function(f, Ranks), Kept(f, g)
      PROVE  OneRank(f, g, r)
  BY <1>0, SetsOneRank, SameOneRank
<1>1. SUFFICES /\ program' = program /\ config' = config /\ inStep' = inStep
               /\ Kept(iter, iter') /\ Kept(pc, pc') /\ Kept(at, at') /\ Kept(todo, todo')
               /\ Kept(cache, cache') /\ Kept(grad, grad') /\ Kept(after, after')
               /\ Kept(summed, summed')
               /\ OneRank(pending, pending', r) /\ OneRank(bgrads, bgrads', r) /\ OneRank(red, red', r)
  <2> HIDE DEF Kept
  <2> QED BY <1>0 DEF OthersKept, LocalTypes
<1>2. \A f : OneRank(f, f, r) <=> Function(f, Ranks)
  BY DEF OneRank, Same
<1>3. \A f, v : Kept(f, Set(f, r, v))
  BY DEF Set, Sets
<1>4. \A f : Kept(f, f)
  OBVIOUS
<1>5. CASE BroadcastBuffers(r) \/ Reduce(r) \/ Raise(r) \/ ReceiveFails(r)
  <2> HIDE DEF Kept
  <2> QED BY <1>2, <1>3, <1>4, <1>5 DEF BroadcastBuffers, Reduce, Raise, ReceiveFails, setup, LocalTypes
<1>6. CASE Prepare(r)
  <2>1. Sets(pending, pending', r, ResetPending) /\ Sets(bgrads, bgrads', r, [b \in DOMAIN Buckets |-> << >>])
    BY <1>6 DEF Prepare, Set, Sets
  <2>2. OneRank(pending, pending', r) /\ OneRank(bgrads, bgrads', r)
    BY <2>1, SetsOneRank DEF LocalTypes
  <2> HIDE DEF Kept
  <2> QED BY <1>2, <1>3, <1>4, <1>6, <2>2 DEF Prepare, setup, LocalTypes
<1>7. CASE MarkUnused(r)
  <2>1. PICK p : Arrive(r, p, Zero) /\ todo' = Set(todo, r, todo[r] \ {p})
    BY <1>7 DEF MarkUnused
  <2>2. OneRank(bgrads, bgrads', r) /\ OneRank(pending, pending', r) /\ OneRank(red, red', r)
    BY <2>1, ArriveEffect
  <2> HIDE DEF Kept
  <2> QED BY <1>3, <1>4, <1>7, <2>1, <2>2 DEF MarkUnused, setup
<1>8. CASE UnusedMarked(r)
  <2> HIDE DEF Kept
  <2> QED BY <1>2, <1>3, <1>4, <1>8 DEF UnusedMarked, setup, LocalTypes
<1>9. CASE Hook(r)
  <2>1. OneRank(bgrads, bgrads', r) /\ OneRank(pending, pending', r) /\ OneRank(red, red', r)
    <3>1. PICK p, g : IF Syncs(r) THEN Arrive(r, p, g) ELSE UNCHANGED <<bgrads, pending, red>>
      BY <1>9 DEF Hook
    <3>2. CASE Syncs(r)
      BY <3>1, <3>2, ArriveEffect
    <3>3. CASE ~Syncs(r)
      BY <1>2, <3>1, <3>3 DEF LocalTypes
    <3> QED BY <3>2, <3>3
  <2>2. Kept(grad, grad')
    <3> HIDE DEF Kept
    <3> QED BY <1>3, <1>4, <1>9 DEF Hook
  <2> HIDE DEF Kept
  <2> QED BY <1>3, <1>4, <1>9, <2>1, <2>2 DEF Hook, setup
<1>10. CASE Finish(r)
  <2> HIDE DEF Kept
  <2> QED BY <1>2, <1>3, <1>4, <1>10 DEF Finish, setup, LocalTypes
<1>11. CASE Average(r)
  <2>1. \E v : Sets(bgrads, bgrads', r, v)
    BY <1>11 DEF Average, Set, Sets
  <2>2. \E v : Sets(red, red', r, v)
    BY <1>11 DEF Average, Sets
  <2>3. OneRank(bgrads, bgrads', r) /\ OneRank(red, red', r)
    BY <2>1, <2>2, SetsOneRank DEF LocalTypes
  <2>4. Kept(grad, grad')
    BY <1>11 DEF Average, Set, Sets
  <2>5. Kept(summed, summed')
    BY <1>11 DEF Average, Set, Sets
  <2> HIDE DEF Kept
  <2> QED BY <1>2, <1>3, <1>4, <1>11, <2>3, <2>4, <2>5 DEF Average, setup, LocalTypes
<1>12. CASE Reduced(r)
  <2>1. Sets(red, red', r, None)
    BY <1>12 DEF Reduced, Set, Sets
  <2>2. OneRank(red, red', r)
    BY <2>1, SetsOneRank DEF LocalTypes
  <2> HIDE DEF Kept
  <2> QED BY <1>2, <1>3, <1>4, <1>12, <2>2 DEF Reduced, setup, LocalTypes
<1>13. CASE Communicate(r)
  <2> HIDE DEF Kept
  <2> QED BY <1>2, <1>4, <1>13 DEF Communicate, setup, localVars, LocalTypes
<1> QED BY <1>5, <1>6, <1>7, <1>8, <1>9, <1>10, <1>11, <1>12, <1>13 DEF RankStep

LEMMA LocalTypesKept ==
  ASSUME NEW r, OthersKept(r)
  PROVE  LocalTypes'
BY DEF OthersKept, OneRank, LocalTypes

-----------------------------------------------------------------------------
(* The gradients of one rank from iteration to iteration                   *)

Times(u, p, k) == {j \in 1 .. k : u[j] = p}

\* param.grad as iteration i - 1 left it
Was(r, i) == IF i = 1 THEN [p \in Params |-> None] ELSE after[r][i - 1]

\* g is had with n more after it
Grown(had, g, n) ==
  /\ Len(g) = Len(had) + n
  /\ \A j \in 1 .. Len(had) : g[j] = had[j]

GrownBy(r, i, g, k) ==
  \A p \in Params : Grown(Before(r, i)[p], g[p], Cardinality(Times(Plan(r, i).uses, p, k)))

Stepping(r) ==
  /\ iter[r] \in Nat \ {0} /\ at[r] \in Nat
  /\ pc[r] \in {"forward", "prepare", "unused", "unused-reduce", "backward", "backward-reduce", "raised"}
  /\ Sequence(after[r]) /\ Len(after[r]) + 1 = iter[r]
  /\ pc[r] \notin {"forward", "raised"} => iter[r] <= Len(program[r])
  /\ pc[r] \in {"forward", "prepare"} => red[r] = None /\ at[r] = 0 /\ grad[r] = Was(r, iter[r])
GradSequences(r) ==
  /\ Function(grad[r], Params) /\ \A p \in Params : Sequence(grad[r][p])
  /\ \A i \in 1 .. Len(after[r]) : \A p \in Params : Sequence(after[r][i][p])
Unsynced(r) == iter[r] <= Len(program[r]) /\ ~Now(r).sync =>
  /\ pc[r] \in {"forward", "prepare", "backward", "raised"} /\ red[r] = None
  /\ at[r] <= Len(Now(r).uses)
  /\ pc[r] = "backward" => GrownBy(r, iter[r], grad[r], at[r])
Journal(r) == \A i \in 1 .. Len(after[r]) :
  i <= Len(program[r]) /\ (~Plan(r, i).sync => GrownBy(r, i, after[r][i], Len(Plan(r, i).uses)))

RankLocal(r) == Stepping(r) /\ GradSequences(r) /\ Unsynced(r) /\ Journal(r)

LocalInv == LocalTypes /\ program \in Programs /\ \A r \in Ranks : RankLocal(r)

\* an iteration of a program
Iterations == [uses : Seq(Params), tensors : Seq(Tensors), sync : BOOLEAN, zero : BOOLEAN]

LEMMA PlanType ==
  ASSUME program \in Programs, NEW r \in Ranks, NEW i \in 1 .. Len(program[r])
  PROVE  /\ Plan(r, i).uses \in Seq(Params) /\ Plan(r, i).sync \in BOOLEAN /\ Plan(r, i).zero \in BOOLEAN
         /\ Plan(r, i).tensors \in Seq(Tensors) /\ Len(Plan(r, i).tensors) = Len(Plan(r, i).uses)
<1>0. program \in ProgramType
  BY ReducerAssumption
<1>1. program[r] \in Seq(Iterations)
  BY ONLY <1>0, r \in Ranks DEF ProgramType, Iterations
<1>2. program[r][i] \in Iterations
  BY <1>1
<1>3. i \in DOMAIN program[r]
  BY <1>1
<1>4. Len(program[r][i].tensors) = Len(program[r][i].uses)
  BY <1>3, ReducerAssumption
<1> QED BY <1>2, <1>4 DEF Plan, Iterations

LEMMA ProgramLength ==
  ASSUME program \in Programs, NEW r \in Ranks
  PROVE  Len(program[r]) \in Nat
<1>0. program \in ProgramType
  BY ReducerAssumption
<1>1. program[r] \in Seq(Iterations)
  BY ONLY <1>0, r \in Ranks DEF ProgramType, Iterations
<1> QED BY <1>1

LEMMA TimesFinite ==
  ASSUME NEW u, NEW p, NEW k \in Nat
  PROVE  /\ IsFiniteSet(Times(u, p, k)) /\ Cardinality(Times(u, p, k)) \in Nat
         /\ Cardinality(Times(u, p, 0)) = 0
         /\ Cardinality(Times(u, p, k + 1)) = Cardinality(Times(u, p, k)) + (IF u[k + 1] = p THEN 1 ELSE 0)
<1>1. IsFiniteSet(1 .. k)
  BY FS_Interval
<1>2. Times(u, p, k) \subseteq 1 .. k
  BY DEF Times
<1>3. IsFiniteSet(Times(u, p, k)) /\ Cardinality(Times(u, p, k)) \in Nat
  BY <1>1, <1>2, FS_Subset, FS_CardinalityType
<1>4. Times(u, p, 0) = {}
  BY DEF Times
<1>5. Cardinality(Times(u, p, 0)) = 0
  BY <1>4, FS_EmptySet
<1>6. 1 .. k + 1 = (1 .. k) \cup {k + 1} /\ k + 1 \notin 1 .. k
  OBVIOUS
<1>7. CASE u[k + 1] = p
  <2>1. Times(u, p, k + 1) = Times(u, p, k) \cup {k + 1} /\ k + 1 \notin Times(u, p, k)
    BY <1>6, <1>7 DEF Times
  <2>2. Cardinality(Times(u, p, k + 1)) = Cardinality(Times(u, p, k)) + 1
    BY <1>3, <2>1, FS_AddElement
  <2> QED BY <1>3, <1>5, <1>7, <2>2
<1>8. CASE u[k + 1] # p
  <2>1. Times(u, p, k + 1) = Times(u, p, k)
    BY <1>6, <1>8 DEF Times
  <2> QED BY <1>3, <1>5, <1>8, <2>1
<1> QED BY <1>7, <1>8

LEMMA NothingGrown ==
  ASSUME NEW had, Sequence(had)
  PROVE  Grown(had, had, 0)
BY SequenceLen DEF Grown

LEMMA OneGrown ==
  ASSUME NEW had, Sequence(had), NEW g, Sequence(g), NEW e, NEW n \in Nat, Grown(had, g, n)
  PROVE  Grown(had, Append(g, e), n + 1)
<1>1. PICK a \in Nat : a = Len(had)
  BY SequenceLen
<1>2. Len(g) = a + n
  BY <1>1 DEF Grown
<1>3. /\ Len(Append(g, e)) = (a + n) + 1
      /\ \A k \in 1 .. a + n : Append(g, e)[k] = g[k]
  BY <1>2, SequenceAppend
<1>4. \A j \in 1 .. a : Append(g, e)[j] = had[j]
  <2>1. \A j \in 1 .. a : j \in 1 .. a + n
    OBVIOUS
  <2> QED BY <1>1, <1>3, <2>1 DEF Grown
<1>5. (a + n) + 1 = a + (n + 1)
  OBVIOUS
<1> QED BY <1>1, <1>3, <1>4, <1>5 DEF Grown

LEMMA BeforeIs ==
  ASSUME NEW r, RankLocal(r), NEW i \in 1 .. Len(after[r]) + 1
  PROVE  \A p \in Params : Sequence(Before(r, i)[p])
<1>1. PICK n \in Nat : n = Len(after[r])
  BY SequenceLen DEF RankLocal, Stepping
<1>2. CASE Starts(r, i)
  BY <1>2, SequenceEmpty DEF Before, None
<1>3. CASE ~Starts(r, i)
  <2>1. i # 1
    BY <1>3 DEF Starts
  <2>2. i - 1 \in 1 .. n
    BY <1>1, <2>1
  <2> QED BY <1>1, <1>3, <2>2 DEF Before, RankLocal, GradSequences
<1> QED BY <1>2, <1>3

\* the values RankLocal is about
Unmoved(r) == /\ iter'[r] = iter[r] /\ at'[r] = at[r] /\ grad'[r] = grad[r] /\ after'[r] = after[r]
              /\ program' = program

\* those that end an iteration
Standing(r) == iter'[r] = iter[r] /\ after'[r] = after[r] /\ program' = program

LEMMA StandingKept ==
  ASSUME NEW r, Standing(r), RankLocal(r)
  PROVE  /\ Journal(r)'
         /\ \A i : Before(r, i)' = Before(r, i) /\ Was(r, i)' = Was(r, i)
         /\ \A i, g, k : GrownBy(r, i, g, k)' <=> GrownBy(r, i, g, k)
<1>1. \A i : Plan(r, i)' = Plan(r, i)
  BY DEF Standing, Plan
<1>2. \A i : Before(r, i)' = Before(r, i) /\ Was(r, i)' = Was(r, i)
  BY <1>1 DEF Standing, Before, Starts, Was
<1>3. \A i, g, k : GrownBy(r, i, g, k)' <=> GrownBy(r, i, g, k)
  BY <1>1, <1>2 DEF GrownBy
<1>4. Journal(r)'
  BY <1>1, <1>3 DEF Standing, RankLocal, Journal
<1> QED BY <1>2, <1>3, <1>4

Places == {"forward", "prepare", "unused", "unused-reduce", "backward", "backward-reduce", "raised"}

LEMMA QuietLocal ==
  ASSUME NEW r \in Ranks, RankLocal(r), Unmoved(r), pc'[r] \in Places,
         pc'[r] \notin {"forward", "raised"} => iter[r] <= Len(program[r]),
         pc'[r] \in {"forward", "prepare"} => pc[r] \in {"forward", "prepare"} /\ red'[r] = red[r],
         iter[r] <= Len(program[r]) /\ ~Now(r).sync =>
           /\ pc'[r] \in {"forward", "prepare", "backward", "raised"} /\ red'[r] = None
           /\ pc'[r] = "backward" => pc[r] = "backward"
  PROVE  RankLocal(r)'
<1>1. /\ iter'[r] = iter[r] /\ at'[r] = at[r] /\ grad'[r] = grad[r] /\ after'[r] = after[r]
      /\ program' = program
  BY DEF Unmoved
<1>2. Standing(r)
  BY <1>1 DEF Standing
<1>3. GradSequences(r)' /\ Journal(r)'
  <2>1. GradSequences(r)'
    BY <1>1 DEF RankLocal, GradSequences
  <2> QED BY <1>2, <2>1, StandingKept
<1>4. Stepping(r)'
  <2>1. Was(r, iter[r])' = Was(r, iter[r])
    <3>1. \A i : Was(r, i)' = Was(r, i)
      BY <1>2, StandingKept
    <3> QED BY <1>1, <3>1
  <2> QED BY <1>1, <2>1 DEF RankLocal, Stepping, Places
<1>5. Unsynced(r)'
  <2>1. Now(r)' = Now(r)
    BY <1>1 DEF Now, Plan
  <2>2. GrownBy(r, iter[r], grad[r], at[r])' <=> GrownBy(r, iter[r], grad[r], at[r])
    <3>1. \A i, g, k : GrownBy(r, i, g, k)' <=> GrownBy(r, i, g, k)
      BY <1>2, StandingKept
    <3> QED BY <1>1, <3>1
  <2> QED BY <1>1, <2>1, <2>2 DEF RankLocal, Unsynced
<1> QED BY <1>3, <1>4, <1>5 DEF RankLocal

LEMMA AccumulateIs ==
  ASSUME NEW g, Function(g, Params), \A q \in Params : Sequence(g[q]), NEW p, NEW e
  PROVE  /\ Function(Accumulate(g, p, e), Params)
         /\ \A q \in Params : /\ Sequence(Accumulate(g, p, e)[q])
                              /\ Accumulate(g, p, e)[q] = IF q = p THEN Append(g[q], e) ELSE g[q]
<1>1. Function(Accumulate(g, p, e), Params)
  BY DEF Accumulate, Function
<1>2. ASSUME NEW q \in Params
      PROVE  /\ Sequence(Accumulate(g, p, e)[q])
             /\ Accumulate(g, p, e)[q] = IF q = p THEN Append(g[q], e) ELSE g[q]
  <2>1. CASE q = p
    <3>1. Accumulate(g, p, e)[q] = Append(g[q], e)
      BY <2>1 DEF Accumulate, Function
    <3> QED BY <2>1, <3>1, SequenceAppend
  <2>2. CASE q # p
    <3>1. Accumulate(g, p, e)[q] = g[q]
      BY <2>2 DEF Accumulate, Function
    <3> QED BY <2>2, <3>1
  <2> QED BY <2>1, <2>2
<1> QED BY <1>1, <1>2

LEMMA HookGrad ==
  ASSUME LocalTypes, NEW r \in Ranks, Hook(r)
  PROVE  /\ pc[r] = "backward" /\ red[r] = None /\ at[r] < Len(Now(r).uses)
         /\ at'[r] = at[r] + 1 /\ pc' = pc /\ iter' = iter /\ after' = after /\ program' = program
         /\ LET p == Now(r).uses[at[r] + 1]
            IN  grad'[r] = IF red'[r] = None THEN Accumulate(grad[r], p, Local(r, at[r] + 1)) ELSE grad[r]
         /\ ~Syncs(r) => red'[r] = None
<1>1. PICK p : p = Now(r).uses[at[r] + 1]
  OBVIOUS
<1>2. /\ pc[r] = "backward" /\ red[r] = None /\ at[r] < Len(Now(r).uses)
      /\ pc' = pc /\ iter' = iter /\ after' = after /\ program' = program
      /\ Sets(at, at', r, at[r] + 1)
  BY DEF Hook, setup, Set, Sets
<1>3. at'[r] = at[r] + 1
  BY <1>2, SetsOneRank DEF LocalTypes
<1>4. grad' = IF red'[r] = None THEN Set(grad, r, Accumulate(grad[r], p, Local(r, at[r] + 1))) ELSE grad
  BY <1>1 DEF Hook
<1>5. CASE red'[r] = None
  <2>1. Sets(grad, grad', r, Accumulate(grad[r], p, Local(r, at[r] + 1)))
    BY <1>4, <1>5 DEF Set, Sets
  <2>2. grad'[r] = Accumulate(grad[r], p, Local(r, at[r] + 1))
    BY <2>1, SetsOneRank DEF LocalTypes
  <2> QED BY <1>1, <1>2, <1>3, <1>5, <2>2
<1>6. CASE red'[r] # None
  <2>1. grad'[r] = grad[r]
    BY <1>4, <1>6
  <2>2. Syncs(r)
    BY <1>2, <1>6 DEF Hook
  <2> QED BY <1>1, <1>2, <1>3, <1>6, <2>1, <2>2
<1> QED BY <1>5, <1>6

LEMMA HookLocal ==
  ASSUME LocalInv, NEW r \in Ranks, Hook(r)
  PROVE  RankLocal(r)'
<1>0. LocalTypes /\ RankLocal(r) /\ program \in Programs
  BY DEF LocalInv
<1>1. PICK p : p = Now(r).uses[at[r] + 1]
  OBVIOUS
<1>2. PICK e : e = Local(r, at[r] + 1)
  OBVIOUS
<1>3. /\ pc[r] = "backward" /\ red[r] = None /\ at[r] < Len(Now(r).uses)
      /\ at'[r] = at[r] + 1 /\ pc' = pc /\ Standing(r)
      /\ grad'[r] = IF red'[r] = None THEN Accumulate(grad[r], p, e) ELSE grad[r]
      /\ ~Syncs(r) => red'[r] = None
  BY <1>0, <1>1, <1>2, HookGrad DEF Standing
<1>4. /\ Function(grad[r], Params) /\ \A q \in Params : Sequence(grad[r][q])
      /\ at[r] \in Nat /\ iter[r] \in Nat \ {0}
  BY <1>0 DEF RankLocal, GradSequences, Stepping
<1>5. GradSequences(r)'
  <2>1. Function(grad'[r], Params) /\ \A q \in Params : Sequence(grad'[r][q])
    BY <1>3, <1>4, AccumulateIs
  <2> QED BY <1>0, <1>3, <2>1 DEF RankLocal, GradSequences, Standing
<1>6. /\ Journal(r)' /\ (\A i, g, k : GrownBy(r, i, g, k)' <=> GrownBy(r, i, g, k))
  BY <1>0, <1>3, StandingKept
<1>7. Now(r)' = Now(r)
  BY <1>3 DEF Standing, Plan, Now
<1>8. Stepping(r)'
  BY <1>0, <1>3, <1>4 DEF RankLocal, Stepping, Standing
<1>9. Unsynced(r)'
  <2>1. SUFFICES ASSUME iter[r] <= Len(program[r]), ~Now(r).sync
                 PROVE  /\ red'[r] = None /\ at[r] + 1 <= Len(Now(r).uses)
                        /\ GrownBy(r, iter[r], grad'[r], at[r] + 1)
    BY <1>3, <1>6, <1>7 DEF Unsynced, Standing
  <2>2. red'[r] = None
    BY <1>3, <2>1 DEF Syncs
  <2>3. at[r] + 1 <= Len(Now(r).uses)
    <3>1. iter[r] \in 1 .. Len(program[r])
      BY <1>0, <1>4, <2>1, ProgramLength
    <3>2. Now(r).uses \in Seq(Params)
      BY <1>0, <3>1, PlanType DEF Now
    <3>3. Len(Now(r).uses) \in Nat
      BY <3>2
    <3> QED BY <1>3, <1>4, <3>3
  <2>4. GrownBy(r, iter[r], grad[r], at[r])
    BY <1>0, <1>3, <2>1 DEF RankLocal, Unsynced
  <2>5. ASSUME NEW q \in Params
        PROVE  Grown(Before(r, iter[r])[q], grad'[r][q], Cardinality(Times(Plan(r, iter[r]).uses, q, at[r] + 1)))
    <3>1. PICK c : c = Cardinality(Times(Plan(r, iter[r]).uses, q, at[r]))
      OBVIOUS
    <3>2. /\ c \in Nat
          /\ Cardinality(Times(Plan(r, iter[r]).uses, q, at[r] + 1)) = c + (IF p = q THEN 1 ELSE 0)
      BY <1>1, <1>4, <3>1, TimesFinite DEF Now
    <3>3. Grown(Before(r, iter[r])[q], grad[r][q], c)
      BY <2>4, <3>1 DEF GrownBy
    <3>4. Sequence(Before(r, iter[r])[q])
      <4>1. iter[r] \in 1 .. Len(after[r]) + 1
        BY <1>0, <1>4 DEF RankLocal, Stepping
      <4> QED BY <1>0, <4>1, BeforeIs
    <3>5. CASE q = p
      <4>1. grad'[r][q] = Append(grad[r][q], e)
        <5>1. grad'[r] = Accumulate(grad[r], q, e)
          BY <1>3, <2>2, <3>5
        <5>2. Accumulate(grad[r], q, e)[q] = Append(grad[r][q], e)
          BY <1>4 DEF Accumulate, Function
        <5> QED BY <5>1, <5>2
      <4>2. Grown(Before(r, iter[r])[q], Append(grad[r][q], e), c + 1)
        BY <1>4, <3>2, <3>3, <3>4, OneGrown
      <4> QED BY <3>2, <3>5, <4>1, <4>2
    <3>6. CASE q # p
      <4>1. grad'[r][q] = grad[r][q]
        BY <1>3, <1>4, <2>2, <3>6, AccumulateIs
      <4>2. Cardinality(Times(Plan(r, iter[r]).uses, q, at[r] + 1)) = c
        BY <3>2, <3>6
      <4> QED BY <3>3, <4>1, <4>2
    <3> QED BY <3>5, <3>6
  <2> QED BY <2>2, <2>3, <2>5 DEF GrownBy
<1> QED BY <1>5, <1>6, <1>8, <1>9 DEF RankLocal

LEMMA PrepareGrad ==
  ASSUME LocalTypes, NEW r \in Ranks, RankLocal(r), Prepare(r)
  PROVE  /\ pc[r] \in {"forward", "prepare"} /\ iter[r] <= Len(program[r]) /\ red[r] = None /\ at[r] = 0
         /\ Standing(r) /\ at' = at /\ red' = red /\ grad'[r] = Before(r, iter[r])
         /\ pc'[r] \in {"unused", "backward"} /\ (pc'[r] = "backward" \/ Now(r).sync)
<1>1. /\ pc[r] \in {"forward", "prepare"} /\ iter[r] <= Len(program[r]) /\ Standing(r) /\ at' = at /\ red' = red
      /\ grad' = IF Now(r).zero THEN Set(grad, r, [p \in Params |-> None]) ELSE grad
      /\ pc' = Set(pc, r, "unused") \/ pc' = Set(pc, r, "backward")
      /\ pc' = Set(pc, r, "backward") \/ Syncs(r)
  BY DEF Prepare, setup, RankLocal, Stepping, Standing
<1>2. red[r] = None /\ at[r] = 0 /\ grad[r] = Was(r, iter[r])
  BY <1>1 DEF RankLocal, Stepping
<1>3. grad'[r] = Before(r, iter[r])
  <2>1. CASE Now(r).zero
    <3>1. Sets(grad, grad', r, [p \in Params |-> None])
      BY <1>1, <2>1 DEF Set, Sets
    <3>2. grad'[r] = [p \in Params |-> None]
      BY <3>1, SetsOneRank DEF LocalTypes
    <3> QED BY <2>1, <3>2 DEF Before, Starts, Now
  <2>2. CASE ~Now(r).zero
    BY <1>1, <1>2, <2>2 DEF Before, Starts, Now, Was
  <2> QED BY <2>1, <2>2
<1>4. pc'[r] \in {"unused", "backward"} /\ (pc'[r] = "backward" \/ Now(r).sync)
  <2>1. CASE pc' = Set(pc, r, "backward")
    <3>1. Sets(pc, pc', r, "backward")
      BY <2>1 DEF Set, Sets
    <3> QED BY <3>1, SetsOneRank DEF LocalTypes
  <2>2. CASE pc' = Set(pc, r, "unused") /\ Syncs(r)
    <3>1. Sets(pc, pc', r, "unused")
      BY <2>2 DEF Set, Sets
    <3> QED BY <2>2, <3>1, SetsOneRank DEF LocalTypes, Syncs
  <2> QED BY <1>1, <2>1, <2>2
<1> QED BY <1>1, <1>2, <1>3, <1>4

LEMMA PrepareLocal ==
  ASSUME LocalInv, NEW r \in Ranks, Prepare(r)
  PROVE  RankLocal(r)'
<1>0. LocalTypes /\ RankLocal(r) /\ program \in Programs
  BY DEF LocalInv
<1>1. /\ iter[r] <= Len(program[r]) /\ red[r] = None /\ at[r] = 0
      /\ Standing(r) /\ at' = at /\ red' = red /\ grad'[r] = Before(r, iter[r])
      /\ pc'[r] \in {"unused", "backward"} /\ (pc'[r] = "backward" \/ Now(r).sync)
  BY <1>0, PrepareGrad
<1>2. iter[r] \in 1 .. Len(after[r]) + 1 /\ iter[r] \in 1 .. Len(program[r])
  BY <1>0, <1>1, ProgramLength DEF RankLocal, Stepping
<1>3. \A p \in Params : Sequence(Before(r, iter[r])[p])
  BY <1>0, <1>2, BeforeIs
<1>4. Function(Before(r, iter[r]), Params)
  <2>1. CASE Starts(r, iter[r])
    BY <2>1 DEF Before, Function
  <2>2. CASE ~Starts(r, iter[r])
    <3>1. grad' = grad
      BY <2>2 DEF Prepare, Starts, Now
    <3> QED BY <1>0, <1>1, <3>1 DEF RankLocal, GradSequences
  <2> QED BY <2>1, <2>2
<1>5. GradSequences(r)'
  BY <1>0, <1>1, <1>3, <1>4 DEF RankLocal, GradSequences, Standing
<1>6. /\ Journal(r)' /\ (\A i, g, k : GrownBy(r, i, g, k)' <=> GrownBy(r, i, g, k))
  BY <1>0, <1>1, StandingKept
<1>7. Stepping(r)'
  BY <1>0, <1>1 DEF RankLocal, Stepping, Standing
<1>8. Unsynced(r)'
  <2>1. SUFFICES ASSUME ~Now(r).sync
                 PROVE  0 <= Len(Now(r).uses) /\ GrownBy(r, iter[r], Before(r, iter[r]), 0)
    BY <1>1, <1>6 DEF Unsynced, Standing, Now, Plan
  <2>2. 0 <= Len(Now(r).uses)
    <3>1. Now(r).uses \in Seq(Params)
      BY <1>0, <1>2, PlanType DEF Now
    <3> QED BY <3>1
  <2> QED BY <1>3, <2>2, TimesFinite, NothingGrown DEF GrownBy
<1> QED BY <1>5, <1>6, <1>7, <1>8 DEF RankLocal

\* what the last call returned, and the average it makes
Answer(r) == taken[r][Len(taken[r])]
Mean(v) == [val |-> v, over |-> N, object |-> None]

LEMMA AverageGrad ==
  ASSUME LocalTypes, NEW r \in Ranks, RankLocal(r), Average(r)
  PROVE  grad'[r] = [p \in Params |-> IF Len(grad[r][p]) = 1 THEN <<Rewritten(r, grad[r][p][1], Answer(r))>>
                                                            ELSE grad[r][p]]
<1>1. PICK g : g = [p \in Params |-> IF Len(grad[r][p]) = 1 THEN <<Rewritten(r, grad[r][p][1], Answer(r))>>
                                                           ELSE grad[r][p]]
  OBVIOUS
<1>2. Sets(grad, grad', r, g)
  BY <1>1 DEF Average, Answer, Set, Sets
<1>3. grad'[r] = g
  BY <1>2, SetsOneRank DEF LocalTypes
<1> QED BY <1>1, <1>3

LEMMA AverageLocal ==
  ASSUME LocalInv, NEW r \in Ranks, Average(r)
  PROVE  RankLocal(r)'
<1>0. LocalTypes /\ RankLocal(r)
  BY DEF LocalInv
<1>1. /\ Standing(r) /\ at' = at /\ pc[r] \in {"unused-reduce", "backward-reduce"}
      /\ pc' = Set(pc, r, "unused") \/ pc' = Set(pc, r, "backward")
  BY DEF Average, setup, Standing
<1>2. pc'[r] \in {"unused", "backward"}
  <2>1. ASSUME NEW v, pc' = Set(pc, r, v) PROVE pc'[r] = v
    <3>1. Sets(pc, pc', r, v)
      BY <2>1 DEF Set, Sets
    <3> QED BY <1>0, <3>1, SetsOneRank DEF LocalTypes
  <2> QED BY <1>1, <2>1
<1>3. PICK v : v = Answer(r)
  OBVIOUS
<1>4. grad'[r] = [p \in Params |-> IF Len(grad[r][p]) = 1 THEN <<Rewritten(r, grad[r][p][1], v)>> ELSE grad[r][p]]
  BY <1>0, <1>3, AverageGrad
<1>5. GradSequences(r)'
  <2>1. Function(grad'[r], Params)
    BY <1>4 DEF Function
  <2>2. \A p \in Params : Sequence(grad'[r][p])
    BY <1>0, <1>4, SequenceOne DEF RankLocal, GradSequences
  <2> QED BY <1>0, <1>1, <2>1, <2>2 DEF RankLocal, GradSequences, Standing
<1>6. Journal(r)'
  BY <1>0, <1>1, StandingKept
<1>7. Stepping(r)'
  BY <1>0, <1>1, <1>2 DEF RankLocal, Stepping, Standing
<1>8. Unsynced(r)'
  BY <1>0, <1>1 DEF RankLocal, Unsynced, Standing, Now, Plan
<1> QED BY <1>5, <1>6, <1>7, <1>8 DEF RankLocal

LEMMA ReducedLocal ==
  ASSUME LocalInv, NEW r \in Ranks, Reduced(r)
  PROVE  RankLocal(r)'
<1>0. LocalTypes /\ RankLocal(r)
  BY DEF LocalInv
<1>1. PICK p : p = Now(r).uses[at[r]]
  OBVIOUS
<1>2. PICK v : v = bgrads[r][red[r][1]][p]
  OBVIOUS
<1>3. /\ red[r] # None /\ pc[r] \in {"unused", "backward"}
      /\ pc' = pc /\ Standing(r) /\ at' = at
      /\ Sets(grad, grad', r, IF pc[r] = "unused" THEN Overwritten(r) ELSE Accumulate(Overwritten(r), p, v))
  BY <1>1, <1>2 DEF Reduced, Reducing, setup, Standing, Set, Sets
<1>4. grad'[r] = IF pc[r] = "unused" THEN Overwritten(r) ELSE Accumulate(Overwritten(r), p, v)
  BY <1>0, <1>3, SetsOneRank DEF LocalTypes
<1>5. Function(grad[r], Params) /\ \A q \in Params : Sequence(grad[r][q])
  BY <1>0 DEF RankLocal, GradSequences
<1>6. Function(Overwritten(r), Params) /\ \A q \in Params : Sequence(Overwritten(r)[q])
  <2>1. \A q \in Params : Overwritten(r)[q] = IF q \in Range(Buckets[red[r][1]])
                                              THEN <<bgrads[r][red[r][1]][q]>> ELSE grad[r][q]
    BY DEF Overwritten
  <2>2. Function(Overwritten(r), Params)
    BY DEF Overwritten, Function
  <2> QED BY <1>5, <2>1, <2>2, SequenceOne
<1>7. GradSequences(r)'
  <2>1. Function(grad'[r], Params) /\ \A q \in Params : Sequence(grad'[r][q])
    BY <1>4, <1>6, AccumulateIs
  <2> QED BY <1>0, <1>3, <2>1 DEF RankLocal, GradSequences, Standing
<1>8. Journal(r)'
  BY <1>0, <1>3, StandingKept
<1>9. Stepping(r)'
  BY <1>0, <1>3 DEF RankLocal, Stepping, Standing
<1>10. Unsynced(r)'
  BY <1>0, <1>3 DEF RankLocal, Unsynced, Standing, Now, Plan
<1> QED BY <1>7, <1>8, <1>9, <1>10 DEF RankLocal

LEMMA FinishAfter ==
  ASSUME LocalTypes, NEW r \in Ranks, RankLocal(r), Finish(r), NEW n \in Nat, n = Len(after[r])
  PROVE  /\ pc[r] = "backward" /\ red[r] = None /\ at[r] = Len(Now(r).uses) /\ iter[r] = n + 1
         /\ grad' = grad /\ red' = red /\ program' = program
         /\ iter'[r] = (n + 1) + 1 /\ at'[r] = 0 /\ pc'[r] = "forward"
         /\ Sequence(after'[r]) /\ Len(after'[r]) = n + 1 /\ after'[r][n + 1] = grad[r]
         /\ \A i \in 1 .. n : after'[r][i] = after[r][i]
         /\ \A i \in 1 .. n + 1 : Before(r, i)' = Before(r, i)
<1>1. /\ pc[r] = "backward" /\ red[r] = None /\ at[r] = Len(Now(r).uses)
      /\ grad' = grad /\ red' = red /\ program' = program
      /\ Sets(after, after', r, Append(after[r], grad[r])) /\ Sets(iter, iter', r, iter[r] + 1)
      /\ Sets(at, at', r, 0) /\ Sets(pc, pc', r, "forward")
  BY DEF Finish, setup, Set, Sets
<1>2. Function(after, Ranks) /\ Function(iter, Ranks) /\ Function(at, Ranks) /\ Function(pc, Ranks)
  BY DEF LocalTypes
<1>3. after'[r] = Append(after[r], grad[r])
  <2>1. PICK v : v = Append(after[r], grad[r])
    OBVIOUS
  <2>2. Sets(after, after', r, v)
    BY <1>1, <2>1
  <2>3. after'[r] = v
    BY <1>2, <2>2, SetsOneRank
  <2> QED BY <2>1, <2>3
<1>4. iter'[r] = iter[r] + 1
  BY <1>1, <1>2, SetsOneRank
<1>5. at'[r] = 0
  BY <1>1, <1>2, SetsOneRank
<1>6. pc'[r] = "forward"
  BY <1>1, <1>2, SetsOneRank
<1>7. iter[r] = n + 1
  BY DEF RankLocal, Stepping
<1>8. /\ Sequence(after'[r]) /\ Len(after'[r]) = n + 1 /\ after'[r][n + 1] = grad[r]
      /\ \A i \in 1 .. n : after'[r][i] = after[r][i]
  BY <1>3, SequenceAppend DEF RankLocal, Stepping
<1>9. ASSUME NEW i \in 1 .. n + 1 PROVE Before(r, i)' = Before(r, i)
  <2>1. Starts(r, i)' <=> Starts(r, i)
    BY <1>1 DEF Starts, Plan
  <2>2. CASE Starts(r, i)
    BY <2>1, <2>2 DEF Before
  <2>3. CASE ~Starts(r, i)
    <3>1. i # 1
      BY <2>3 DEF Starts
    <3>2. i - 1 \in 1 .. n
      BY <3>1
    <3> QED BY <1>8, <2>1, <2>3, <3>2 DEF Before
  <2> QED BY <2>2, <2>3
<1> QED BY <1>1, <1>4, <1>5, <1>6, <1>7, <1>8, <1>9

LEMMA FinishLocal ==
  ASSUME LocalInv, NEW r \in Ranks, Finish(r)
  PROVE  RankLocal(r)'
<1>0. LocalTypes /\ RankLocal(r) /\ program \in Programs
  BY DEF LocalInv
<1>1. PICK n \in Nat : n = Len(after[r])
  BY <1>0, SequenceLen DEF RankLocal, Stepping
<1>2. /\ pc[r] = "backward" /\ red[r] = None /\ at[r] = Len(Now(r).uses) /\ iter[r] = n + 1
      /\ grad' = grad /\ red' = red /\ program' = program
      /\ iter'[r] = (n + 1) + 1 /\ at'[r] = 0 /\ pc'[r] = "forward"
      /\ Sequence(after'[r]) /\ Len(after'[r]) = n + 1 /\ after'[r][n + 1] = grad[r]
      /\ \A i \in 1 .. n : after'[r][i] = after[r][i]
      /\ \A i \in 1 .. n + 1 : Before(r, i)' = Before(r, i)
  BY <1>0, <1>1, FinishAfter
<1>3. iter[r] = n + 1 /\ n + 1 <= Len(program[r])
  BY <1>0, <1>2 DEF RankLocal, Stepping
<1>4. (n + 1) + 1 # 1 /\ ((n + 1) + 1) - 1 = n + 1
  OBVIOUS
<1>5. Was(r, (n + 1) + 1)' = grad[r]
  BY <1>2, <1>4 DEF Was
<1>6. \A i : Plan(r, i)' = Plan(r, i)
  BY <1>2 DEF Plan
<1>7. \A i \in 1 .. n + 1 : \A g, k : GrownBy(r, i, g, k)' <=> GrownBy(r, i, g, k)
  BY <1>2, <1>6 DEF GrownBy
<1>8. Function(grad[r], Params) /\ \A p \in Params : Sequence(grad[r][p])
  BY <1>0 DEF RankLocal, GradSequences
<1>9. \A i \in 1 .. n + 1 : i \in 1 .. n \/ i = n + 1
  OBVIOUS
<1>10. Stepping(r)'
  <2>1. (n + 1) + 1 \in Nat \ {0} /\ 0 \in Nat
    OBVIOUS
  <2> QED BY <1>2, <1>5, <2>1 DEF Stepping
<1>11. GradSequences(r)'
  <2>1. \A i \in 1 .. n + 1 : \A p \in Params : Sequence(after'[r][i][p])
    BY <1>0, <1>1, <1>2, <1>8, <1>9 DEF RankLocal, GradSequences
  <2> QED BY <1>2, <1>8, <2>1 DEF GradSequences
<1>12. Journal(r)'
  <2>1. ASSUME NEW i \in 1 .. n + 1
        PROVE  i <= Len(program[r]) /\ (~Plan(r, i).sync => GrownBy(r, i, after'[r][i], Len(Plan(r, i).uses)))
    <3>1. CASE i \in 1 .. n
      BY <1>0, <1>1, <1>2, <3>1 DEF RankLocal, Journal
    <3>2. CASE i = n + 1
      <4>1. Plan(r, i) = Now(r)
        BY <1>3, <3>2 DEF Now
      <4> QED BY <1>0, <1>2, <1>3, <3>2, <4>1 DEF RankLocal, Unsynced
    <3> QED BY <1>9, <3>1, <3>2
  <2> QED BY <1>2, <1>6, <1>7, <2>1 DEF Journal
<1>13. Unsynced(r)'
  <2>1. SUFFICES ASSUME (n + 1) + 1 <= Len(program[r])
                 PROVE  0 <= Len(Plan(r, (n + 1) + 1).uses)
    BY <1>2, <1>6 DEF Unsynced, Now
  <2>2. (n + 1) + 1 \in 1 .. Len(program[r])
    BY <1>0, <2>1, ProgramLength
  <2>3. Plan(r, (n + 1) + 1).uses \in Seq(Params)
    BY <1>0, <2>2, PlanType
  <2> QED BY <2>3
<1> QED BY <1>10, <1>11, <1>12, <1>13 DEF RankLocal

LEMMA LocalInvInit == ReducerInit => LocalInv
<1> SUFFICES ASSUME ReducerInit PROVE LocalInv
  OBVIOUS
<1>1. LocalTypes /\ program \in Programs
  BY LocalTypesInit DEF ReducerInit
<1>2. ASSUME NEW r \in Ranks PROVE RankLocal(r)
  <2>1. /\ iter[r] = 1 /\ pc[r] = "forward" /\ at[r] = 0 /\ red[r] = None
        /\ grad[r] = [p \in Params |-> None] /\ after[r] = << >>
    BY DEF ReducerInit
  <2>2. Was(r, 1) = grad[r]
    BY <2>1 DEF Was
  <2>3. Stepping(r)
    BY <2>1, <2>2, SequenceEmpty DEF Stepping
  <2>4. GradSequences(r)
    BY <2>1, SequenceEmpty DEF GradSequences, Function, None
  <2>5. Journal(r)
    BY <2>1, SequenceEmpty DEF Journal
  <2>6. ASSUME 1 <= Len(program[r]) PROVE 0 <= Len(Now(r).uses)
    <3>1. 1 \in 1 .. Len(program[r])
      BY <1>1, <2>6, ProgramLength
    <3>2. Now(r).uses \in Seq(Params)
      BY <1>1, <2>1, <3>1, PlanType DEF Now
    <3> QED BY <3>2
  <2>7. Unsynced(r)
    BY <2>1, <2>6 DEF Unsynced
  <2> QED BY <2>3, <2>4, <2>5, <2>7 DEF RankLocal
<1> QED BY <1>1, <1>2 DEF LocalInv

LEMMA PcIs ==
  ASSUME LocalTypes, NEW r \in Ranks, NEW v, pc' = Set(pc, r, v)
  PROVE  pc'[r] = v
<1>1. Sets(pc, pc', r, v)
  BY DEF Set, Sets
<1> QED BY <1>1, SetsOneRank DEF LocalTypes

LEMMA ActorLocal ==
  ASSUME LocalInv, NEW r \in Ranks, RankStep(r)
  PROVE  RankLocal(r)'
<1>0. LocalTypes /\ program \in Programs /\ RankLocal(r) /\ OthersKept(r)
  BY KeepsOthers DEF LocalInv
<1>1. Stepping(r) /\ Unsynced(r) /\ program' = program
  BY <1>0 DEF RankLocal, OthersKept
<1>2. /\ pc[r] \in Places /\ (pc[r] \notin {"forward", "raised"} => iter[r] <= Len(program[r]))
      /\ iter[r] <= Len(program[r]) /\ ~Now(r).sync =>
           pc[r] \in {"forward", "prepare", "backward", "raised"} /\ red[r] = None
  BY <1>1 DEF Stepping, Unsynced, Places
<1>3. CASE Hook(r)
  BY <1>3, HookLocal
<1>4. CASE Reduced(r)
  BY <1>4, ReducedLocal
<1>5. CASE Finish(r)
  BY <1>5, FinishLocal
<1>6. CASE BroadcastBuffers(r)
  <2>1. Unmoved(r) /\ red' = red /\ pc' = Set(pc, r, "prepare") /\ pc[r] = "forward" /\ iter[r] <= Len(program[r])
    BY <1>1, <1>6 DEF BroadcastBuffers, Unmoved
  <2>2. pc'[r] = "prepare"
    BY <1>0, <2>1, PcIs
  <2> QED BY <1>0, <1>2, <2>1, <2>2, QuietLocal DEF Places
<1>7. CASE Prepare(r)
  BY <1>7, PrepareLocal
<1>8. CASE MarkUnused(r)
  <2>1. Unmoved(r) /\ pc' = pc /\ pc[r] = "unused"
    BY <1>1, <1>8 DEF MarkUnused, Unmoved
  <2> QED BY <1>0, <1>2, <2>1, QuietLocal
<1>9. CASE UnusedMarked(r)
  <2>1. Unmoved(r) /\ red' = red /\ pc[r] = "unused" /\ pc' = Set(pc, r, "backward")
    BY <1>1, <1>9 DEF UnusedMarked, Unmoved
  <2>2. pc'[r] = "backward"
    BY <1>0, <2>1, PcIs
  <2> QED BY <1>0, <1>2, <2>1, <2>2, QuietLocal DEF Places
<1>10. CASE Reduce(r)
  <2>1. /\ Unmoved(r) /\ red' = red /\ red[r] # None /\ pc[r] \in {"unused", "backward"}
        /\ pc' = Set(pc, r, "unused-reduce") \/ pc' = Set(pc, r, "backward-reduce")
    BY <1>1, <1>10 DEF Reduce, Reducing, Unmoved
  <2>2. pc'[r] \in {"unused-reduce", "backward-reduce"}
    BY <1>0, <2>1, PcIs
  <2> QED BY <1>0, <1>2, <2>1, <2>2, QuietLocal DEF Places
<1>11. CASE Raise(r) \/ ReceiveFails(r)
  <2>1. Unmoved(r) /\ red' = red /\ pc' = Set(pc, r, "raised")
    BY <1>1, <1>11 DEF Raise, ReceiveFails, setup, Unmoved
  <2>2. pc'[r] = "raised"
    BY <1>0, <2>1, PcIs
  <2> QED BY <1>0, <1>2, <2>1, <2>2, QuietLocal DEF Places
<1>12. CASE Average(r)
  BY <1>12, AverageLocal
<1>13. CASE Communicate(r)
  <2>1. Unmoved(r) /\ red' = red /\ pc' = pc
    BY <1>1, <1>13 DEF Communicate, localVars, Unmoved
  <2> QED BY <1>0, <1>2, <2>1, QuietLocal
<1> QED BY <1>3, <1>4, <1>5, <1>6, <1>7, <1>8, <1>9, <1>10, <1>11, <1>12, <1>13 DEF RankStep

LEMMA IdleLocal ==
  ASSUME NEW q \in Ranks, RankLocal(q), Unmoved(q), pc'[q] = pc[q], red'[q] = red[q]
  PROVE  RankLocal(q)'
<1>1. Stepping(q) /\ Unsynced(q)
  BY DEF RankLocal
<1> QED BY <1>1, QuietLocal DEF Stepping, Unsynced, Places

LEMMA LocalInvariant == ReducerSpec => []LocalInv
<1>1. ASSUME LocalInv, [ReducerNext]_reducerVars PROVE LocalInv'
  <2>1. CASE UNCHANGED reducerVars
    <3>1. /\ UNCHANGED <<program, iter, pc, at, todo, cache, pending, bgrads, red, grad, summed, after>>
      BY <2>1 DEF reducerVars, setup, localVars
    <3>2. LocalTypes'
      BY <1>1, <3>1 DEF LocalInv, LocalTypes
    <3>3. \A q \in Ranks : RankLocal(q)'
      BY <1>1, <3>1, IdleLocal DEF LocalInv, Unmoved
    <3> QED BY <1>1, <3>1, <3>2, <3>3 DEF LocalInv
  <2>2. ASSUME NEW r \in Ranks, RankStep(r) PROVE LocalInv'
    <3>1. OthersKept(r)
      BY <1>1, <2>2, KeepsOthers DEF LocalInv
    <3>2. RankLocal(r)'
      BY <1>1, <2>2, ActorLocal
    <3>3. ASSUME NEW q \in Ranks, q # r PROVE RankLocal(q)'
      <4>1. Unmoved(q) /\ pc'[q] = pc[q] /\ red'[q] = red[q]
        BY <3>1, <3>3 DEF OthersKept, OneRank, Same, Unmoved
      <4> QED BY <1>1, <4>1, IdleLocal DEF LocalInv
    <3>4. LocalTypes' /\ program' = program
      BY <3>1, LocalTypesKept DEF OthersKept
    <3> QED BY <1>1, <3>2, <3>3, <3>4 DEF LocalInv
  <2> QED BY <1>1, <2>1, <2>2 DEF ReducerNext, Terminated
<1> QED BY <1>1, LocalInvInit, PTL DEF ReducerSpec

-----------------------------------------------------------------------------
(* Types                                                                   *)

LEMMA BucketFacts ==
  /\ Len(Buckets) \in Nat /\ DOMAIN Buckets = 1 .. Len(Buckets)
  /\ \A b \in DOMAIN Buckets : /\ Buckets[b] \in Seq(Params) /\ Len(Buckets[b]) \in Nat \ {0}
                               /\ DOMAIN Buckets[b] = 1 .. Len(Buckets[b])
                               /\ Range(Buckets[b]) \subseteq Params
<1>1. PICK S : S = Seq(Params) \ {<< >>}
  OBVIOUS
<1>2. Buckets \in Seq(S)
  BY <1>1, ReducerAssumption
<1>3. Len(Buckets) \in Nat /\ DOMAIN Buckets = 1 .. Len(Buckets) /\ \A b \in DOMAIN Buckets : Buckets[b] \in S
  BY ONLY <1>2
<1>4. ASSUME NEW b \in DOMAIN Buckets
      PROVE  /\ Buckets[b] \in Seq(Params) /\ Len(Buckets[b]) \in Nat \ {0}
             /\ DOMAIN Buckets[b] = 1 .. Len(Buckets[b]) /\ Range(Buckets[b]) \subseteq Params
  <2>1. Buckets[b] \in Seq(Params) /\ Buckets[b] # << >>
    BY ONLY <1>1, <1>3, <1>4
  <2>2. PICK s : s = Buckets[b]
    OBVIOUS
  <2>3. /\ Len(s) \in Nat \ {0} /\ DOMAIN s = 1 .. Len(s) /\ \A k \in DOMAIN s : s[k] \in Params
    BY ONLY <2>1, <2>2
  <2> QED BY <2>1, <2>2, <2>3 DEF Range
<1> QED BY <1>3, <1>4

LEMMA BucketOfIs ==
  ASSUME NEW p \in Params
  PROVE  /\ BucketOf(p) \in DOMAIN Buckets /\ p \in Range(Buckets[BucketOf(p)])
         /\ \A b \in DOMAIN Buckets : p \in Range(Buckets[b]) => b = BucketOf(p)
<1>1. PICK b \in DOMAIN Buckets : \E k \in DOMAIN Buckets[b] :
        /\ Buckets[b][k] = p
        /\ \A c \in DOMAIN Buckets : \A l \in DOMAIN Buckets[c] : Buckets[c][l] = p => c = b /\ l = k
  BY ReducerAssumption
<1>2. p \in Range(Buckets[b]) /\ \A c \in DOMAIN Buckets : p \in Range(Buckets[c]) => c = b
  BY <1>1 DEF Range
<1>3. \E c \in DOMAIN Buckets : p \in Range(Buckets[c])
  BY <1>2
<1>4. BucketOf(p) \in DOMAIN Buckets /\ p \in Range(Buckets[BucketOf(p)])
  BY <1>3 DEF BucketOf
<1> QED BY <1>2, <1>4

LEMMA PutIs ==
  ASSUME NEW f, NEW p, NEW v
  PROVE  /\ Function(Put(f, p, v), DOMAIN f \cup {p}) /\ DOMAIN Put(f, p, v) = DOMAIN f \cup {p}
         /\ Put(f, p, v)[p] = v
         /\ \A q \in DOMAIN f : q # p => Put(f, p, v)[q] = f[q]
BY DEF Put, Function

Midcall == {"unused-reduce", "backward-reduce"}

BucketTypes(r) ==
  /\ Function(pending[r], DOMAIN Buckets) /\ \A b \in DOMAIN Buckets : pending[r][b] \in Int
  /\ Function(bgrads[r], DOMAIN Buckets)
  /\ \A b \in DOMAIN Buckets : /\ Function(bgrads[r][b], DOMAIN bgrads[r][b])
                               /\ DOMAIN bgrads[r][b] \subseteq Range(Buckets[b])
ListTypes(r) ==
  /\ todo[r] \subseteq Params
  /\ cache[r] # None => cache[r][1] \subseteq Params
RedTypes(r) ==
  /\ red[r] # None => \E b \in DOMAIN Buckets : \E k \in 1 .. Len(Buckets[b]) + 1 : red[r] = <<b, k>>
  /\ pc[r] \in Midcall => red[r] # None /\ red[r][2] \in DOMAIN Buckets[red[r][1]]

RankTypes(r) == BucketTypes(r) /\ ListTypes(r) /\ RedTypes(r)

LEMMA RankTypesInit == ReducerInit => \A r \in Ranks : RankTypes(r)
<1> SUFFICES ASSUME ReducerInit, NEW r \in Ranks PROVE RankTypes(r)
  OBVIOUS
<1>1. /\ pc[r] = "forward" /\ todo[r] = {} /\ cache[r] = None /\ red[r] = None
      /\ pending[r] = [b \in DOMAIN Buckets |-> 0] /\ bgrads[r] = [b \in DOMAIN Buckets |-> << >>]
  BY DEF ReducerInit
<1> QED BY <1>1 DEF RankTypes, BucketTypes, ListTypes, RedTypes, Function, Midcall

\* the steps that change a bucket
LEMMA ArriveBuckets ==
  ASSUME LocalTypes, NEW r \in Ranks, NEW p \in Params, NEW v, Arrive(r, p, v), BucketTypes(r),
         NEW b, b = BucketOf(p)
  PROVE  /\ Function(pending'[r], DOMAIN Buckets) /\ pending'[r][b] = pending[r][b] - 1
         /\ \A c \in DOMAIN Buckets : c # b => pending'[r][c] = pending[r][c]
         /\ Function(bgrads'[r], DOMAIN Buckets) /\ bgrads'[r][b] = Put(bgrads[r][b], p, v)
         /\ \A c \in DOMAIN Buckets : c # b => bgrads'[r][c] = bgrads[r][c]
         /\ red'[r] = (IF pending[r][b] = 1 THEN <<b, 1>> ELSE red[r])
<1>1. b \in DOMAIN Buckets
  BY BucketOfIs
<1>2. /\ bgrads'[r] = [bgrads[r] EXCEPT ![b] = Put(bgrads[r][b], p, v)]
      /\ pending'[r] = [pending[r] EXCEPT ![b] = pending[r][b] - 1]
      /\ red'[r] = (IF pending[r][b] = 1 THEN <<b, 1>> ELSE red[r])
  BY ArriveEffect
<1>3. Sets(pending[r], pending'[r], b, pending[r][b] - 1) /\ Sets(bgrads[r], bgrads'[r], b, Put(bgrads[r][b], p, v))
  BY <1>2 DEF Sets
<1>4. Function(pending[r], DOMAIN Buckets) /\ Function(bgrads[r], DOMAIN Buckets)
  BY DEF BucketTypes
<1>5. /\ Function(pending'[r], DOMAIN Buckets) /\ pending'[r][b] = pending[r][b] - 1
      /\ \A c \in DOMAIN Buckets : c # b => pending'[r][c] = pending[r][c]
  BY <1>1, <1>3, <1>4, SetsOne DEF Same
<1>6. /\ Function(bgrads'[r], DOMAIN Buckets) /\ bgrads'[r][b] = Put(bgrads[r][b], p, v)
      /\ \A c \in DOMAIN Buckets : c # b => bgrads'[r][c] = bgrads[r][c]
  BY <1>1, <1>3, <1>4, SetsOne DEF Same
<1> QED BY <1>2, <1>5, <1>6

LEMMA ArriveTypes ==
  ASSUME LocalTypes, NEW r \in Ranks, NEW p \in Params, NEW v, Arrive(r, p, v), RankTypes(r), red[r] = None
  PROVE  /\ BucketTypes(r)'
         /\ red'[r] # None => \E b \in DOMAIN Buckets : \E k \in 1 .. Len(Buckets[b]) + 1 : red'[r] = <<b, k>>
<1>1. PICK b \in DOMAIN Buckets : b = BucketOf(p) /\ p \in Range(Buckets[b])
  BY BucketOfIs
<1>2. BucketTypes(r)
  BY DEF RankTypes
<1>3. /\ Function(pending'[r], DOMAIN Buckets) /\ pending'[r][b] = pending[r][b] - 1
      /\ \A c \in DOMAIN Buckets : c # b => pending'[r][c] = pending[r][c]
      /\ Function(bgrads'[r], DOMAIN Buckets) /\ bgrads'[r][b] = Put(bgrads[r][b], p, v)
      /\ \A c \in DOMAIN Buckets : c # b => bgrads'[r][c] = bgrads[r][c]
      /\ red'[r] = (IF pending[r][b] = 1 THEN <<b, 1>> ELSE red[r])
  BY <1>1, <1>2, ArriveBuckets
<1>4. PICK f : f = Put(bgrads[r][b], p, v)
  OBVIOUS
<1>5. Function(f, DOMAIN bgrads[r][b] \cup {p}) /\ DOMAIN f = DOMAIN bgrads[r][b] \cup {p}
  BY <1>4, PutIs
<1>6. \A c \in DOMAIN Buckets : pending'[r][c] \in Int
  BY <1>2, <1>3 DEF BucketTypes
<1>7. ASSUME NEW c \in DOMAIN Buckets
      PROVE  Function(bgrads'[r][c], DOMAIN bgrads'[r][c]) /\ DOMAIN bgrads'[r][c] \subseteq Range(Buckets[c])
  <2>1. CASE c = b
    BY <1>1, <1>2, <1>3, <1>4, <1>5, <2>1 DEF BucketTypes
  <2>2. CASE c # b
    BY <1>2, <1>3, <2>2 DEF BucketTypes
  <2> QED BY <2>1, <2>2
<1>8. 1 \in 1 .. Len(Buckets[b]) + 1
  BY BucketFacts
<1> QED BY <1>3, <1>6, <1>7, <1>8 DEF BucketTypes

LEMMA AverageBuckets ==
  ASSUME LocalTypes, NEW r \in Ranks, Average(r), RankTypes(r)
  PROVE  \E b \in DOMAIN Buckets : \E k \in DOMAIN Buckets[b] :
           /\ red[r] = <<b, k>> /\ red'[r] = <<b, k + 1>> /\ pending' = pending
           /\ Slot(r) = Buckets[b][k] /\ InSlot(r) = bgrads[r][b][Buckets[b][k]]
           /\ Function(bgrads'[r], DOMAIN Buckets)
           /\ \A c \in DOMAIN Buckets : Function(bgrads'[r][c], DOMAIN bgrads[r][c])
           /\ \A c \in DOMAIN Buckets : \A p \in DOMAIN bgrads[r][c] :
                bgrads'[r][c][p] = IF c = b /\ p = Buckets[b][k] THEN Mean(Answer(r))
                                                             ELSE Rewritten(r, bgrads[r][c][p], Answer(r))
           /\ pc[r] \in Midcall /\ phase[r] = "idle"
           /\ pc' = Set(pc, r, IF pc[r] = "unused-reduce" THEN "unused" ELSE "backward")
           /\ UNCHANGED <<glooVars, setup, iter, at, todo, cache, after>>
<1>1. pc[r] \in Midcall
  BY DEF Average, Midcall
<1>2. red[r] # None /\ red[r][2] \in DOMAIN Buckets[red[r][1]]
  BY <1>1 DEF RankTypes, RedTypes
<1>3. PICK b \in DOMAIN Buckets : \E k \in 1 .. Len(Buckets[b]) + 1 : red[r] = <<b, k>>
  BY <1>2 DEF RankTypes, RedTypes
<1>4. PICK k \in 1 .. Len(Buckets[b]) + 1 : red[r] = <<b, k>>
  BY <1>3
<1>5. k \in DOMAIN Buckets[b] /\ red[r][1] = b /\ red[r][2] = k
  BY <1>2, <1>4
<1>6. Slot(r) = Buckets[b][k] /\ InSlot(r) = bgrads[r][b][Buckets[b][k]]
  BY <1>5 DEF Slot, InSlot
<1>7. PICK v : v = Answer(r)
  OBVIOUS
<1>8. PICK f : f = [c \in DOMAIN Buckets |-> [p \in DOMAIN bgrads[r][c] |->
                      IF c = b /\ p = Buckets[b][k] THEN Mean(v) ELSE Rewritten(r, bgrads[r][c][p], v)]]
  OBVIOUS
<1>9. Sets(bgrads, bgrads', r, f) /\ Sets(red, red', r, [red[r] EXCEPT ![2] = red[r][2] + 1])
  BY <1>5, <1>6, <1>7, <1>8 DEF Average, Answer, Mean, Set, Sets
<1>10. red'[r] = <<b, k + 1>>
  <2>1. red'[r] = [red[r] EXCEPT ![2] = red[r][2] + 1]
    BY <1>9, SetsOneRank DEF LocalTypes
  <2> QED BY <1>4, <1>5, <2>1
<1>11. bgrads'[r] = f
  BY <1>9, SetsOneRank DEF LocalTypes
<1>12. /\ Function(f, DOMAIN Buckets)
       /\ \A c \in DOMAIN Buckets : Function(f[c], DOMAIN bgrads[r][c])
       /\ \A c \in DOMAIN Buckets : \A p \in DOMAIN bgrads[r][c] :
            f[c][p] = IF c = b /\ p = Buckets[b][k] THEN Mean(v) ELSE Rewritten(r, bgrads[r][c][p], v)
  BY <1>8 DEF Function
<1>13. /\ pending' = pending /\ phase[r] = "idle"
       /\ pc' = Set(pc, r, IF pc[r] = "unused-reduce" THEN "unused" ELSE "backward")
       /\ UNCHANGED <<glooVars, setup, iter, at, todo, cache, after>>
  BY DEF Average
<1> QED BY <1>1, <1>4, <1>5, <1>6, <1>7, <1>10, <1>11, <1>12, <1>13

\* the parameter whose gradient arrives
LEMMA ArrivingParam ==
  ASSUME program \in Programs, NEW r \in Ranks, RankLocal(r), Hook(r)
  PROVE  Now(r).uses[at[r] + 1] \in Params /\ Now(r).uses \in Seq(Params) /\ at[r] + 1 \in 1 .. Len(Now(r).uses)
<1>1. /\ pc[r] = "backward" /\ at[r] < Len(Now(r).uses) /\ at[r] \in Nat
      /\ iter[r] \in Nat \ {0} /\ iter[r] <= Len(program[r])
  BY DEF Hook, RankLocal, Stepping
<1>2. Len(program[r]) \in Nat
  BY ProgramLength
<1>3. iter[r] \in 1 .. Len(program[r])
  BY ONLY <1>1, <1>2
<1>4. Now(r).uses \in Seq(Params)
  BY <1>3, PlanType DEF Now
<1>5. PICK u \in Seq(Params) : u = Now(r).uses
  BY <1>4
<1>6. at[r] + 1 \in 1 .. Len(u)
  BY ONLY <1>1, <1>5, u \in Seq(Params)
<1>7. u[at[r] + 1] \in Params
  BY ONLY <1>6, u \in Seq(Params)
<1> QED BY <1>5, <1>6, <1>7


LEMMA QuietTypes ==
  ASSUME NEW r \in Ranks, RankTypes(r), UNCHANGED <<pending, bgrads, todo, cache, red>>,
         pc'[r] \in Midcall => pc'[r] = pc[r]
  PROVE  RankTypes(r)'
BY DEF RankTypes, BucketTypes, ListTypes, RedTypes

LEMMA ActorTypes ==
  ASSUME LocalInv, NEW r \in Ranks, RankTypes(r), RankStep(r)
  PROVE  RankTypes(r)'
<1>0. LocalTypes /\ program \in Programs /\ RankLocal(r) /\ Stepping(r)
  BY DEF LocalInv, RankLocal
<1>1. BucketTypes(r) /\ ListTypes(r) /\ RedTypes(r)
  BY DEF RankTypes
<1>2. CASE BroadcastBuffers(r) \/ Raise(r) \/ ReceiveFails(r) \/ Finish(r) \/ Communicate(r)
  <2>1. UNCHANGED <<pending, bgrads, todo, cache, red>>
    BY <1>2 DEF BroadcastBuffers, Raise, ReceiveFails, Finish, Communicate, localVars
  <2>2. pc' = pc \/ \E v \in {"prepare", "raised", "forward"} : pc' = Set(pc, r, v)
    BY <1>2 DEF BroadcastBuffers, Raise, ReceiveFails, Finish, Communicate, localVars
  <2>3. pc'[r] \in Midcall => pc'[r] = pc[r]
    <3>1. CASE pc' = pc
      BY <3>1
    <3>2. CASE \E v \in {"prepare", "raised", "forward"} : pc' = Set(pc, r, v)
      <4>1. pc'[r] \in {"prepare", "raised", "forward"}
        BY <1>0, <3>2, PcIs
      <4> QED BY <4>1 DEF Midcall
    <3> QED BY <2>2, <3>1, <3>2
  <2> QED BY <2>1, <2>3, QuietTypes
<1>3. CASE Prepare(r)
  <2>1. /\ Sets(pending, pending', r, ResetPending)
        /\ Sets(bgrads, bgrads', r, [b \in DOMAIN Buckets |-> << >>])
        /\ red' = red /\ cache' = cache
        /\ pc' = Set(pc, r, "unused") \/ pc' = Set(pc, r, "backward")
        /\ \/ todo' = todo
           \/ Sets(todo, todo', r, IF config.static /\ cache[r] # None THEN cache[r][1] ELSE Idle(r, iter[r]))
    BY <1>3 DEF Prepare, Set, Sets
  <2>2. pending'[r] = ResetPending /\ bgrads'[r] = [b \in DOMAIN Buckets |-> << >>]
    BY <1>0, <2>1, SetsOneRank DEF LocalTypes
  <2>3. BucketTypes(r)'
    <3>1. \A b \in DOMAIN Buckets : Len(Buckets[b]) \in Int
      BY BucketFacts
    <3> QED BY <2>2, <3>1 DEF BucketTypes, ResetPending, Function
  <2>4. todo'[r] \in {todo[r], cache[r][1], Idle(r, iter[r])} /\ (todo'[r] = cache[r][1] => cache[r] # None \/ todo'[r] \in {todo[r], Idle(r, iter[r])})
    <3>1. CASE todo' = todo
      BY <3>1
    <3>2. CASE Sets(todo, todo', r, IF config.static /\ cache[r] # None THEN cache[r][1] ELSE Idle(r, iter[r]))
      <4>1. todo'[r] = IF config.static /\ cache[r] # None THEN cache[r][1] ELSE Idle(r, iter[r])
        BY <1>0, <3>2, SetsOneRank DEF LocalTypes
      <4> QED BY <4>1
    <3> QED BY <2>1, <3>1, <3>2
  <2>5. ListTypes(r)'
    BY <1>1, <2>1, <2>4 DEF ListTypes, Idle
  <2>6. pc'[r] \in {"unused", "backward"}
    BY <1>0, <2>1, PcIs
  <2> QED BY <1>1, <2>1, <2>3, <2>5, <2>6 DEF RankTypes, RedTypes, Midcall
<1>4. CASE MarkUnused(r)
  <2>1. PICK p \in todo[r] : Arrive(r, p, Zero) /\ Sets(todo, todo', r, todo[r] \ {p})
    BY <1>4 DEF MarkUnused, Set, Sets
  <2>2. pc' = pc /\ cache' = cache /\ red[r] = None /\ pc[r] = "unused"
    BY <1>4 DEF MarkUnused
  <2>3. p \in Params
    BY <1>1, <2>1 DEF ListTypes
  <2>4. /\ BucketTypes(r)'
        /\ red'[r] # None => \E b \in DOMAIN Buckets : \E k \in 1 .. Len(Buckets[b]) + 1 : red'[r] = <<b, k>>
    BY <1>0, <2>1, <2>2, <2>3, ArriveTypes
  <2>5. todo'[r] = todo[r] \ {p}
    BY <1>0, <2>1, SetsOneRank DEF LocalTypes
  <2> QED BY <1>1, <2>2, <2>4, <2>5 DEF RankTypes, ListTypes, RedTypes, Midcall
<1>5. CASE UnusedMarked(r)
  <2>1. /\ UNCHANGED <<pending, bgrads, todo, red>> /\ pc' = Set(pc, r, "backward")
        /\ cache' = cache \/ Sets(cache, cache', r, <<Idle(r, iter[r])>>)
    BY <1>5 DEF UnusedMarked, Set, Sets
  <2>2. pc'[r] = "backward"
    BY <1>0, <2>1, PcIs
  <2>3. cache'[r] = cache[r] \/ cache'[r] = <<Idle(r, iter[r])>>
    BY <1>0, <2>1, SetsOneRank DEF LocalTypes
  <2>4. ListTypes(r)'
    BY <1>1, <2>1, <2>3 DEF ListTypes, Idle
  <2> QED BY <1>1, <2>1, <2>2, <2>4 DEF RankTypes, BucketTypes, RedTypes, Midcall
<1>6. CASE Hook(r)
  <2>1. PICK p : p = Now(r).uses[at[r] + 1]
    OBVIOUS
  <2>2. p \in Params
    BY <1>0, <1>6, <2>1, ArrivingParam
  <2>3. /\ pc' = pc /\ cache' = cache /\ todo' = todo /\ red[r] = None /\ pc[r] = "backward"
        /\ Arrive(r, p, Local(r, at[r] + 1)) \/ UNCHANGED <<bgrads, pending, red>>
    BY <1>6, <2>1 DEF Hook
  <2>4. CASE UNCHANGED <<bgrads, pending, red>>
    BY <2>3, <2>4, QuietTypes
  <2>5. CASE Arrive(r, p, Local(r, at[r] + 1))
    <3>1. /\ BucketTypes(r)'
          /\ red'[r] # None => \E b \in DOMAIN Buckets : \E k \in 1 .. Len(Buckets[b]) + 1 : red'[r] = <<b, k>>
      <4>1. PICK v : v = Local(r, at[r] + 1)
        OBVIOUS
      <4> QED BY <1>0, <2>2, <2>3, <2>5, <4>1, ArriveTypes
    <3> QED BY <1>1, <2>3, <3>1 DEF RankTypes, ListTypes, RedTypes, Midcall
  <2> QED BY <2>3, <2>4, <2>5
<1>7. CASE Reduce(r)
  <2>1. /\ UNCHANGED <<pending, bgrads, todo, cache, red>>
        /\ red[r] # None /\ red[r][2] \in DOMAIN Buckets[red[r][1]]
    BY <1>7 DEF Reduce, Reducing
  <2> QED BY <1>1, <2>1 DEF RankTypes, BucketTypes, ListTypes, RedTypes
<1>8. CASE Average(r)
  <2>1. PICK b \in DOMAIN Buckets : \E k \in DOMAIN Buckets[b] :
           /\ red'[r] = <<b, k + 1>> /\ pending' = pending
           /\ Function(bgrads'[r], DOMAIN Buckets)
           /\ \A c \in DOMAIN Buckets : Function(bgrads'[r][c], DOMAIN bgrads[r][c])
           /\ pc' = Set(pc, r, IF pc[r] = "unused-reduce" THEN "unused" ELSE "backward")
           /\ UNCHANGED <<todo, cache>>
    BY <1>0, <1>8, AverageBuckets
  <2>2. PICK k \in DOMAIN Buckets[b] : red'[r] = <<b, k + 1>>
    BY <2>1
  <2>3. BucketTypes(r)'
    <3>1. \A c \in DOMAIN Buckets : DOMAIN bgrads'[r][c] = DOMAIN bgrads[r][c]
      BY <2>1 DEF Function
    <3>2. \A c \in DOMAIN Buckets :
            Function(bgrads'[r][c], DOMAIN bgrads'[r][c]) /\ DOMAIN bgrads'[r][c] \subseteq Range(Buckets[c])
      BY <1>1, <2>1, <3>1 DEF BucketTypes
    <3> QED BY <1>1, <2>1, <3>2 DEF BucketTypes
  <2>4. pc'[r] \in {"unused", "backward"}
    BY <1>0, <2>1, PcIs
  <2>5. k + 1 \in 1 .. Len(Buckets[b]) + 1
    BY <2>2, BucketFacts
  <2> QED BY <1>1, <2>1, <2>2, <2>3, <2>4, <2>5 DEF RankTypes, ListTypes, RedTypes, Midcall
<1>9. CASE Reduced(r)
  <2>1. UNCHANGED <<pending, bgrads, todo, cache, pc>> /\ Sets(red, red', r, None) /\ pc[r] \in {"unused", "backward"}
    BY <1>9 DEF Reduced, Reducing, Set, Sets
  <2>2. red'[r] = None
    BY <1>0, <2>1, SetsOneRank DEF LocalTypes
  <2> QED BY <1>1, <2>1, <2>2 DEF RankTypes, BucketTypes, ListTypes, RedTypes, Midcall
<1> QED BY <1>2, <1>3, <1>4, <1>5, <1>6, <1>7, <1>8, <1>9 DEF RankStep

TypesInv == LocalInv /\ config \in Configs /\ \A r \in Ranks : RankTypes(r)

LEMMA TypesInvariant == ReducerSpec => []TypesInv
<1>1. ReducerInit => TypesInv
  BY LocalInvInit, RankTypesInit DEF ReducerInit, TypesInv
<1>2. ASSUME TypesInv, LocalInv', [ReducerNext]_reducerVars PROVE TypesInv'
  <2>1. CASE UNCHANGED reducerVars
    <3>1. config' = config /\ UNCHANGED <<pc, pending, bgrads, todo, cache, red>>
      BY <2>1 DEF reducerVars, setup, localVars
    <3> QED BY <1>2, <3>1, QuietTypes DEF TypesInv
  <2>2. ASSUME NEW r \in Ranks, RankStep(r) PROVE TypesInv'
    <3>1. OthersKept(r)
      BY <1>2, <2>2, KeepsOthers DEF TypesInv, LocalInv
    <3>2. RankTypes(r)'
      BY <1>2, <2>2, ActorTypes DEF TypesInv
    <3>3. ASSUME NEW q \in Ranks, q # r PROVE RankTypes(q)'
      <4>1. /\ pending'[q] = pending[q] /\ bgrads'[q] = bgrads[q] /\ todo'[q] = todo[q]
            /\ cache'[q] = cache[q] /\ red'[q] = red[q] /\ pc'[q] = pc[q]
        BY <3>1, <3>3 DEF OthersKept, OneRank, Same
      <4> QED BY <1>2, <4>1 DEF TypesInv, RankTypes, BucketTypes, ListTypes, RedTypes
    <3> QED BY <1>2, <3>1, <3>2, <3>3 DEF TypesInv, OthersKept
  <2> QED BY <1>2, <2>1, <2>2 DEF ReducerNext, Terminated
<1> QED BY <1>1, <1>2, LocalInvariant, PTL DEF ReducerSpec

\* ReducerTypeOK, for every world size, every partition of the parameters into
\* buckets and every program, whether or not the ranks are in step.
THEOREM ReducerTypes == ReducerSpec => []ReducerTypeOK
<1>1. ASSUME TypesInv, GlooInv PROVE ReducerTypeOK
  <2>1. program \in Programs /\ config \in Configs
    BY <1>1 DEF TypesInv, LocalInv
  <2>2. ASSUME NEW r \in Ranks
        PROVE  /\ iter[r] \in 1 .. Len(program[r]) + 1 /\ at[r] \in Nat
               /\ pc[r] \in {"forward", "prepare", "unused", "unused-reduce", "backward",
                             "backward-reduce", "raised"}
               /\ phase[r] \in {"idle", "send", "gather", "scatter", "receive", "broken"}
               /\ todo[r] \subseteq Params
               /\ \A b \in DOMAIN Buckets : pending[r][b] \in Int
                                            /\ DOMAIN bgrads[r][b] \subseteq Range(Buckets[b])
    <3>1. Stepping(r) /\ Journal(r) /\ RankTypes(r)
      BY <1>1 DEF TypesInv, LocalInv, RankLocal
    <3>2. iter[r] \in 1 .. Len(program[r]) + 1
      <4>1. PICK n \in Nat : n = Len(after[r])
        BY <3>1, SequenceLen DEF Stepping
      <4>2. Len(program[r]) \in Nat
        BY <2>1, ProgramLength
      <4>3. n + 1 = iter[r] /\ (n # 0 => n <= Len(program[r]))
        BY <3>1, <4>1 DEF Stepping, Journal
      <4> QED BY ONLY <4>1, <4>2, <4>3
    <3>3. phase[r] \in {"idle", "send", "gather", "scatter", "receive", "broken"}
      <4>1. r = 0 \/ r \in Peers
        BY DEF Peers
      <4> QED BY <1>1, <4>1 DEF GlooInv, Calls, Shapes
    <3> QED BY <3>1, <3>2, <3>3 DEF Stepping, RankTypes, BucketTypes, ListTypes
  <2> QED BY <2>1, <2>2 DEF ReducerTypeOK
<1> QED BY <1>1, TypesInvariant, GlooInvariant, PTL

-----------------------------------------------------------------------------
(* The objects all-reduce writes to                                        *)

\* in an iteration, after forward
Busy(r) == pc[r] \in {"unused", "unused-reduce", "backward", "backward-reduce"}

Slotted(r) == pc[r] \in Midcall => Slot(r) \in DOMAIN bgrads[r][red[r][1]]

Gradient(g) == g = [val |-> g.val, over |-> g.over, object |-> g.object]

\* a bucket holds what backward has handed to its parameters, or new tensors
Objects(r) == Busy(r) => \A b \in DOMAIN Buckets : \A p \in DOMAIN bgrads[r][b] :
  /\ Gradient(bgrads[r][b][p])
  /\ \/ bgrads[r][b][p].object = None
     \/ \E k \in 1 .. at[r] : /\ k \in DOMAIN Now(r).uses /\ Now(r).uses[k] = p
                              /\ bgrads[r][b][p].object = Object(Name(r, iter[r], k), iter[r])

\* only such objects of synchronised iterations were summed
Summing(r) == \A z \in DOMAIN summed[r] : \E j \in 1 .. iter[r] : \E x :
  /\ z = Object(x, j) /\ j <= Len(program[r]) /\ Plan(r, j).sync
  /\ j = iter[r] => \E k \in 1 .. at[r] : k \in DOMAIN Now(r).uses /\ x = Name(r, iter[r], k)

LEMMA ActorSlotted ==
  ASSUME LocalTypes, NEW r \in Ranks, RankTypes(r), RankStep(r), Slotted(r)
  PROVE  Slotted(r)'
<1>1. CASE Reduce(r)
  <2>1. red' = red /\ bgrads' = bgrads /\ Arrived(r, Slot(r)) /\ red[r] # None /\ red[r][2] \in DOMAIN Buckets[red[r][1]]
    BY <1>1 DEF Reduce, Reducing
  <2>2. PICK b \in DOMAIN Buckets : red[r][1] = b
    BY <2>1 DEF RankTypes, RedTypes
  <2>3. Slot(r) \in Range(Buckets[b])
    BY <2>1, <2>2 DEF Slot, Range
  <2>4. BucketOf(Slot(r)) = b
    BY <2>3, BucketFacts, BucketOfIs
  <2>5. Slot(r) \in DOMAIN bgrads[r][b]
    BY <2>1, <2>4 DEF Arrived
  <2>6. Slot(r)' = Slot(r)
    BY <2>1 DEF Slot
  <2> QED BY <2>1, <2>2, <2>5, <2>6 DEF Slotted
<1>2. CASE Communicate(r)
  BY <1>2 DEF Communicate, localVars, Slotted, Slot
<1>3. CASE MarkUnused(r) \/ Hook(r) \/ Reduced(r)
  <2>1. pc' = pc /\ pc[r] \notin Midcall
    BY <1>3 DEF MarkUnused, Hook, Reduced, Reducing, Midcall
  <2> QED BY <2>1 DEF Slotted
<1>4. CASE BroadcastBuffers(r) \/ Prepare(r) \/ UnusedMarked(r) \/ Finish(r) \/ Raise(r) \/ Average(r) \/ ReceiveFails(r)
  <2>1. \E v : v \notin Midcall /\ pc' = Set(pc, r, v)
    <3>1. \E v \in {"prepare", "unused", "backward", "forward", "raised"} : pc' = Set(pc, r, v)
      BY <1>4 DEF BroadcastBuffers, Prepare, UnusedMarked, Finish, Raise, Average, ReceiveFails
    <3> QED BY <3>1 DEF Midcall
  <2>2. pc'[r] \notin Midcall
    BY <2>1, PcIs
  <2> QED BY <2>2 DEF Slotted
<1> QED BY <1>1, <1>2, <1>3, <1>4 DEF RankStep

LEMMA RewrittenIs ==
  ASSUME NEW r, NEW g, NEW v, Gradient(g)
  PROVE  /\ Gradient(Rewritten(r, g, v)) /\ Rewritten(r, g, v).object = g.object
         /\ g.object = None \/ g.object # InSlot(r).object => Rewritten(r, g, v) = g
<1>1. CASE g.object # None /\ g.object = InSlot(r).object
  <2>1. Rewritten(r, g, v) = [g EXCEPT !.val = v]
    BY <1>1 DEF Rewritten
  <2>2. [g EXCEPT !.val = v] = [val |-> v, over |-> g.over, object |-> g.object]
    BY DEF Gradient
  <2> QED BY <1>1, <2>1, <2>2 DEF Gradient
<1>2. CASE g.object = None \/ g.object # InSlot(r).object
  BY <1>2 DEF Rewritten
<1> QED BY <1>1, <1>2

\* what a step does to the variables these are about
LEMMA ArriveObjects ==
  ASSUME LocalTypes, NEW r \in Ranks, RankTypes(r), Objects(r), Busy(r), NEW p \in Params, NEW g, Arrive(r, p, g),
         program' = program, iter' = iter, at'[r] \in {at[r], at[r] + 1}, at[r] \in Nat, Gradient(g),
         \/ g.object = None
         \/ \E k \in 1 .. at'[r] : /\ k \in DOMAIN Now(r).uses /\ Now(r).uses[k] = p
                                   /\ g.object = Object(Name(r, iter[r], k), iter[r])
  PROVE  Objects(r)'
<1>1. PICK b \in DOMAIN Buckets : b = BucketOf(p)
  BY BucketOfIs
<1>2. BucketTypes(r)
  BY DEF RankTypes
<1>3. /\ Function(pending'[r], DOMAIN Buckets) /\ pending'[r][b] = pending[r][b] - 1
      /\ \A c \in DOMAIN Buckets : c # b => pending'[r][c] = pending[r][c]
      /\ Function(bgrads'[r], DOMAIN Buckets) /\ bgrads'[r][b] = Put(bgrads[r][b], p, g)
      /\ \A c \in DOMAIN Buckets : c # b => bgrads'[r][c] = bgrads[r][c]
      /\ red'[r] = (IF pending[r][b] = 1 THEN <<b, 1>> ELSE red[r])
  BY <1>1, <1>2, ArriveBuckets
<1>4. PICK f : f = Put(bgrads[r][b], p, g)
  OBVIOUS
<1>5. DOMAIN f = DOMAIN bgrads[r][b] \cup {p} /\ f[p] = g /\ \A q \in DOMAIN bgrads[r][b] : q # p => f[q] = bgrads[r][b][q]
  BY <1>4 DEF Put
<1>6. (\A k : Name(r, iter[r], k)' = Name(r, iter[r], k)) /\ Now(r)' = Now(r)
  BY DEF Name, Plan, Now
<1>7. SUFFICES ASSUME NEW c \in DOMAIN Buckets, NEW q \in DOMAIN bgrads'[r][c]
               PROVE  /\ Gradient(bgrads'[r][c][q])
                      /\ \/ bgrads'[r][c][q].object = None
                         \/ \E k \in 1 .. at'[r] : /\ k \in DOMAIN Now(r).uses /\ Now(r).uses[k] = q
                              /\ bgrads'[r][c][q].object = Object(Name(r, iter[r], k), iter[r])
  BY <1>6 DEF Objects, Object, Gradient
<1>8. CASE c = b /\ q = p
  BY <1>3, <1>4, <1>5, <1>8
<1>9. CASE ~(c = b /\ q = p)
  <2>1. q \in DOMAIN bgrads[r][c] /\ bgrads'[r][c][q] = bgrads[r][c][q]
    BY <1>3, <1>4, <1>5, <1>7, <1>9
  <2>2. 1 .. at[r] \subseteq 1 .. at'[r]
    OBVIOUS
  <2> QED BY <2>1, <2>2 DEF Objects
<1> QED BY <1>8, <1>9

\* the object a call writes to
LEMMA SlotObject ==
  ASSUME LocalInv, NEW r \in Ranks, RankTypes(r), Slotted(r), Objects(r), pc[r] \in Midcall
  PROVE  /\ iter[r] \in 1 .. Len(program[r]) /\ Now(r).sync
         /\ \/ InSlot(r).object = None
            \/ \E k \in 1 .. at[r] : /\ k \in DOMAIN Now(r).uses /\ Now(r).uses[k] = Slot(r)
                                     /\ InSlot(r).object = Object(Name(r, iter[r], k), iter[r])
<1>1. Stepping(r) /\ Unsynced(r) /\ program \in Programs
  BY DEF LocalInv, RankLocal
<1>2. iter[r] \in Nat \ {0} /\ iter[r] <= Len(program[r]) /\ Len(program[r]) \in Nat
  BY <1>1, ProgramLength DEF Stepping, Midcall
<1>3. Now(r).sync
  BY <1>1, <1>2 DEF Unsynced, Midcall
<1>4. red[r] # None
  BY DEF RankTypes, RedTypes
<1>5. PICK b \in DOMAIN Buckets : red[r][1] = b
  BY <1>4 DEF RankTypes, RedTypes
<1>6. Slot(r) \in DOMAIN bgrads[r][b] /\ InSlot(r) = bgrads[r][b][Slot(r)]
  BY <1>5 DEF Slotted, InSlot
<1>7. Busy(r)
  BY DEF Busy, Midcall
<1> QED BY <1>2, <1>3, <1>6, <1>7 DEF Objects

LEMMA QuietObjects ==
  ASSUME NEW r, Objects(r), Busy(r)' => Busy(r), iter'[r] = iter[r], at'[r] = at[r], program' = program,
         bgrads'[r] = bgrads[r]
  PROVE  Objects(r)'
<1>1. (\A k : Name(r, iter[r], k)' = Name(r, iter[r], k)) /\ Now(r)' = Now(r)
  BY DEF Name, Plan, Now
<1> QED BY <1>1 DEF Objects, Object, Gradient

LEMMA AverageObjects ==
  ASSUME LocalInv, NEW r \in Ranks, RankTypes(r), Objects(r), Average(r)
  PROVE  Objects(r)'
<1>0. LocalTypes
  BY DEF LocalInv
<1>1. PICK b \in DOMAIN Buckets : \E k \in DOMAIN Buckets[b] :
           /\ \A c \in DOMAIN Buckets : Function(bgrads'[r][c], DOMAIN bgrads[r][c])
           /\ \A c \in DOMAIN Buckets : \A p \in DOMAIN bgrads[r][c] :
                bgrads'[r][c][p] = IF c = b /\ p = Buckets[b][k] THEN Mean(Answer(r))
                                                             ELSE Rewritten(r, bgrads[r][c][p], Answer(r))
           /\ pc[r] \in Midcall /\ UNCHANGED <<setup, iter, at>>
  BY <1>0, AverageBuckets
<1>2. PICK m \in DOMAIN Buckets[b] : \A c \in DOMAIN Buckets : \A p \in DOMAIN bgrads[r][c] :
                bgrads'[r][c][p] = IF c = b /\ p = Buckets[b][m] THEN Mean(Answer(r))
                                                             ELSE Rewritten(r, bgrads[r][c][p], Answer(r))
  BY <1>1
<1>3. iter' = iter /\ at' = at /\ program' = program /\ Busy(r)
  BY <1>1 DEF setup, Busy, Midcall
<1>4. (\A k : Name(r, iter[r], k)' = Name(r, iter[r], k)) /\ Now(r)' = Now(r)
  BY <1>3 DEF Name, Plan, Now
<1>5. SUFFICES ASSUME NEW c \in DOMAIN Buckets, NEW p \in DOMAIN bgrads'[r][c]
               PROVE  /\ Gradient(bgrads'[r][c][p])
                      /\ \/ bgrads'[r][c][p].object = None
                         \/ \E k \in 1 .. at[r] : /\ k \in DOMAIN Now(r).uses /\ Now(r).uses[k] = p
                              /\ bgrads'[r][c][p].object = Object(Name(r, iter[r], k), iter[r])
  BY <1>3, <1>4 DEF Objects, Object, Gradient
<1>6. p \in DOMAIN bgrads[r][c]
  BY <1>1, <1>5 DEF Function
<1>7. CASE c = b /\ p = Buckets[b][m]
  BY <1>2, <1>6, <1>7 DEF Mean, Gradient
<1>8. CASE ~(c = b /\ p = Buckets[b][m])
  <2>1. bgrads'[r][c][p] = Rewritten(r, bgrads[r][c][p], Answer(r))
    BY <1>2, <1>6, <1>8
  <2>2. Gradient(bgrads[r][c][p])
    BY <1>3, <1>6 DEF Objects
  <2>3. PICK g : g = bgrads[r][c][p]
    OBVIOUS
  <2>4. Gradient(Rewritten(r, g, Answer(r))) /\ Rewritten(r, g, Answer(r)).object = g.object
    BY <2>2, <2>3, RewrittenIs
  <2> QED BY <1>3, <1>6, <2>1, <2>3, <2>4 DEF Objects
<1> QED BY <1>7, <1>8

\* the gradient that a hook is given
LEMMA LocalObject ==
  ASSUME program \in Programs, NEW r \in Ranks, RankLocal(r), Hook(r)
  PROVE  /\ Gradient(Local(r, at[r] + 1)) /\ Local(r, at[r] + 1).over = 1
         /\ Local(r, at[r] + 1).object = Object(Name(r, iter[r], at[r] + 1), iter[r])
         /\ Local(r, at[r] + 1).val = Value(r, Now(r).tensors[at[r] + 1])
BY DEF Local, Gradient, Name, Plan, Now

LEMMA ActorObjects ==
  ASSUME LocalInv, NEW r \in Ranks, RankTypes(r), Objects(r), RankStep(r)
  PROVE  Objects(r)'
<1>0. LocalTypes /\ program \in Programs /\ RankLocal(r) /\ program' = program /\ at[r] \in Nat
  BY KeepsOthers DEF LocalInv, RankLocal, Stepping, OthersKept
<1>1. CASE Prepare(r)
  <2>1. Sets(bgrads, bgrads', r, [b \in DOMAIN Buckets |-> << >>])
    BY <1>1 DEF Prepare, Set, Sets
  <2>2. bgrads'[r] = [b \in DOMAIN Buckets |-> << >>]
    BY <1>0, <2>1, SetsOneRank DEF LocalTypes
  <2>3. \A b \in DOMAIN Buckets : DOMAIN bgrads'[r][b] = {}
    BY <2>2
  <2> QED BY <2>3 DEF Objects
<1>2. CASE MarkUnused(r)
  <2>1. PICK p \in todo[r] : Arrive(r, p, Zero)
    BY <1>2 DEF MarkUnused
  <2>2. p \in Params
    BY <2>1 DEF RankTypes, ListTypes
  <2>3. iter' = iter /\ at' = at /\ Busy(r)
    BY <1>2 DEF MarkUnused, Busy
  <2>4. PICK g : g = Zero
    OBVIOUS
  <2>5. Gradient(g) /\ g.object = None
    BY <2>4 DEF Zero, Gradient
  <2> QED BY <1>0, <2>1, <2>2, <2>3, <2>4, <2>5, ArriveObjects
<1>3. CASE Hook(r)
  <2>1. PICK p, g : p = Now(r).uses[at[r] + 1] /\ g = Local(r, at[r] + 1)
    OBVIOUS
  <2>2. p \in Params /\ at[r] + 1 \in DOMAIN Now(r).uses
    <3>1. p \in Params /\ Now(r).uses \in Seq(Params) /\ at[r] + 1 \in 1 .. Len(Now(r).uses)
      BY <1>0, <1>3, <2>1, ArrivingParam
    <3> QED BY <3>1
  <2>3. iter' = iter /\ at'[r] = at[r] + 1 /\ pc' = pc /\ Busy(r)
    <3>1. /\ pc[r] = "backward" /\ at'[r] = at[r] + 1 /\ pc' = pc /\ iter' = iter
      BY <1>0, <1>3, HookGrad
    <3> QED BY <3>1 DEF Busy
  <2>4. CASE Syncs(r)
    <3>1. Arrive(r, p, g)
      BY <1>3, <2>1, <2>4 DEF Hook
    <3>2. Gradient(g) /\ g.object = Object(Name(r, iter[r], at[r] + 1), iter[r])
      BY <1>0, <1>3, <2>1, LocalObject
    <3>3. at[r] + 1 \in 1 .. at'[r]
      BY <1>0, <2>3
    <3> QED BY <1>0, <2>1, <2>2, <2>3, <3>1, <3>2, <3>3, ArriveObjects
  <2>5. CASE ~Syncs(r)
    <3>1. bgrads' = bgrads
      BY <1>3, <2>5 DEF Hook
    <3>2. (\A k : Name(r, iter[r], k)' = Name(r, iter[r], k)) /\ Now(r)' = Now(r)
      BY <1>0, <2>3 DEF Name, Plan, Now
    <3>3. 1 .. at[r] \subseteq 1 .. at'[r]
      BY <1>0, <2>3
    <3> QED BY <2>3, <3>1, <3>2, <3>3 DEF Objects, Object, Gradient
  <2> QED BY <2>4, <2>5
<1>4. CASE Average(r)
  BY <1>4, AverageObjects
<1>5. CASE UnusedMarked(r) \/ Reduce(r) \/ Reduced(r) \/ Communicate(r)
  <2>1. UNCHANGED <<iter, at, bgrads>>
    BY <1>5 DEF UnusedMarked, Reduce, Reduced, Communicate, localVars
  <2>2. Busy(r)' => Busy(r)
    <3>1. CASE UnusedMarked(r) \/ Reduce(r) \/ Reduced(r)
      BY <3>1 DEF UnusedMarked, Reduce, Reduced, Reducing, Busy
    <3>2. CASE Communicate(r)
      BY <3>2 DEF Communicate, localVars, Busy
    <3> QED BY <1>5, <3>1, <3>2
  <2> QED BY <1>0, <2>1, <2>2, QuietObjects
<1>6. CASE BroadcastBuffers(r) \/ Finish(r) \/ Raise(r) \/ ReceiveFails(r)
  <2>1. \E v \in {"prepare", "forward", "raised"} : pc' = Set(pc, r, v)
    BY <1>6 DEF BroadcastBuffers, Finish, Raise, ReceiveFails
  <2>2. ~Busy(r)'
    BY <1>0, <2>1, PcIs DEF Busy
  <2> QED BY <2>2 DEF Objects
<1> QED BY <1>1, <1>2, <1>3, <1>4, <1>5, <1>6 DEF RankStep

LEMMA QuietSumming ==
  ASSUME NEW r, Summing(r), iter'[r] = iter[r], at[r] \in Nat, at'[r] \in {at[r], at[r] + 1}, program' = program,
         summed'[r] = summed[r]
  PROVE  Summing(r)'
<1>1. (\A i, k : Name(r, i, k)' = Name(r, i, k)) /\ (\A i : Plan(r, i)' = Plan(r, i)) /\ Now(r)' = Now(r)
  BY DEF Name, Plan, Now
<1>2. 1 .. at[r] \subseteq 1 .. at'[r]
  OBVIOUS
<1> QED BY <1>1, <1>2 DEF Summing, Object

LEMMA AverageSumming ==
  ASSUME LocalInv, NEW r \in Ranks, RankTypes(r), Slotted(r), Objects(r), Summing(r), Average(r)
  PROVE  Summing(r)'
<1>0. LocalTypes /\ at[r] \in Nat
  BY DEF LocalInv, RankLocal, Stepping
<1>1. pc[r] \in Midcall /\ iter' = iter /\ at' = at /\ program' = program
  BY DEF Average, setup, Midcall
<1>2. CASE InSlot(r).object = None
  <2>1. summed' = summed
    BY <1>2 DEF Average
  <2> QED BY <1>0, <1>1, <2>1, QuietSumming
<1>3. CASE InSlot(r).object # None
  <2>1. /\ iter[r] \in 1 .. Len(program[r]) /\ Now(r).sync
        /\ \E k \in 1 .. at[r] : /\ k \in DOMAIN Now(r).uses
                                 /\ InSlot(r).object = Object(Name(r, iter[r], k), iter[r])
    BY <1>1, <1>3, SlotObject
  <2>2. PICK f : f = Put(summed[r], InSlot(r).object, Answer(r))
    OBVIOUS
  <2>3. Sets(summed, summed', r, f)
    BY <1>3, <2>2 DEF Average, Answer, Set, Sets
  <2>4. summed'[r] = f
    BY <1>0, <2>3, SetsOneRank DEF LocalTypes
  <2>5. DOMAIN f = DOMAIN summed[r] \cup {InSlot(r).object}
    BY <2>2 DEF Put
  <2>6. (\A i, k : Name(r, i, k)' = Name(r, i, k)) /\ (\A i : Plan(r, i)' = Plan(r, i)) /\ Now(r)' = Now(r)
    BY <1>1 DEF Name, Plan, Now
  <2>7. SUFFICES ASSUME NEW z \in DOMAIN f
                 PROVE  \E j \in 1 .. iter[r] : \E x :
                          /\ z = Object(x, j) /\ j <= Len(program[r]) /\ Plan(r, j).sync
                          /\ j = iter[r] => \E k \in 1 .. at[r] : k \in DOMAIN Now(r).uses /\ x = Name(r, iter[r], k)
    BY <1>1, <2>4, <2>6 DEF Summing, Object
  <2>8. CASE z \in DOMAIN summed[r]
    BY <2>8 DEF Summing
  <2>9. CASE z = InSlot(r).object
    <3>1. PICK k \in 1 .. at[r] : k \in DOMAIN Now(r).uses /\ z = Object(Name(r, iter[r], k), iter[r])
      BY <2>1, <2>9
    <3>2. iter[r] \in 1 .. iter[r] /\ iter[r] <= Len(program[r]) /\ Plan(r, iter[r]).sync
      BY <2>1 DEF Now
    <3> QED BY <3>1, <3>2
  <2> QED BY <2>5, <2>7, <2>8, <2>9
<1> QED BY <1>2, <1>3

LEMMA ActorSumming ==
  ASSUME LocalInv, NEW r \in Ranks, RankTypes(r), Slotted(r), Objects(r), Summing(r), RankStep(r)
  PROVE  Summing(r)'
<1>0. LocalTypes /\ program' = program /\ at[r] \in Nat /\ RankLocal(r)
  BY KeepsOthers DEF LocalInv, RankLocal, Stepping, OthersKept
<1>1. CASE Average(r)
  BY <1>1, AverageSumming
<1>2. CASE Hook(r)
  <2>1. iter' = iter /\ at'[r] = at[r] + 1
    BY <1>0, <1>2, HookGrad
  <2>2. summed' = summed
    BY <1>2 DEF Hook
  <2> QED BY <1>0, <2>1, <2>2, QuietSumming
<1>3. CASE Finish(r)
  <2>1. PICK n \in Nat : n = Len(after[r])
    BY <1>0, SequenceLen DEF RankLocal, Stepping
  <2>2. iter[r] = n + 1 /\ iter'[r] = (n + 1) + 1
    BY <1>0, <1>3, <2>1, FinishAfter
  <2>3. summed' = summed
    BY <1>3 DEF Finish
  <2>4. (\A i : Plan(r, i)' = Plan(r, i))
    BY <1>0 DEF Plan
  <2>5. \A j \in 1 .. n + 1 : j \in 1 .. (n + 1) + 1 /\ j # (n + 1) + 1
    OBVIOUS
  <2> QED BY <1>0, <2>2, <2>3, <2>4, <2>5 DEF Summing, Object
<1>4. CASE \/ BroadcastBuffers(r) \/ Prepare(r) \/ MarkUnused(r) \/ UnusedMarked(r)
           \/ Reduce(r) \/ Raise(r) \/ Reduced(r) \/ Communicate(r) \/ ReceiveFails(r)
  <2>1. iter' = iter /\ at' = at /\ summed' = summed
    BY <1>4 DEF BroadcastBuffers, Prepare, MarkUnused, UnusedMarked, Reduce, Raise, Reduced, Communicate,
                localVars, ReceiveFails
  <2> QED BY <1>0, <2>1, QuietSumming
<1> QED BY <1>1, <1>2, <1>3, <1>4 DEF RankStep

ObjectsInv == TypesInv /\ \A r \in Ranks : Slotted(r) /\ Objects(r) /\ Summing(r)

LEMMA ObjectsInvariant == ReducerSpec => []ObjectsInv
<1>1. ReducerInit => ObjectsInv
  <2> SUFFICES ASSUME ReducerInit PROVE ObjectsInv
    OBVIOUS
  <2>1. TypesInv
    BY LocalInvInit, RankTypesInit DEF ReducerInit, TypesInv
  <2>2. ASSUME NEW r \in Ranks PROVE Slotted(r) /\ Objects(r) /\ Summing(r)
    <3>1. pc[r] = "forward" /\ summed[r] = << >>
      BY DEF ReducerInit
    <3>2. DOMAIN summed[r] = {}
      BY <3>1
    <3> QED BY <3>1, <3>2 DEF Slotted, Objects, Summing, Midcall, Busy
  <2> QED BY <2>1, <2>2 DEF ObjectsInv
<1>2. ASSUME ObjectsInv, TypesInv', [ReducerNext]_reducerVars PROVE ObjectsInv'
  <2>0. TypesInv /\ LocalInv
    BY <1>2 DEF ObjectsInv, TypesInv
  <2>1. ASSUME NEW q \in Ranks, iter'[q] = iter[q], at'[q] = at[q], pc'[q] = pc[q], program' = program,
               bgrads'[q] = bgrads[q], red'[q] = red[q], summed'[q] = summed[q]
        PROVE  Slotted(q)' /\ Objects(q)' /\ Summing(q)'
    <3>0. Slotted(q) /\ Objects(q) /\ Summing(q) /\ at[q] \in Nat
      BY <1>2, <2>0 DEF ObjectsInv, LocalInv, RankLocal, Stepping
    <3>1. Slotted(q)'
      BY <2>1, <3>0 DEF Slotted, Slot
    <3>2. Busy(q)' => Busy(q)
      BY <2>1 DEF Busy
    <3> QED BY <2>1, <3>0, <3>1, <3>2, QuietObjects, QuietSumming
  <2>2. CASE UNCHANGED reducerVars
    <3>1. UNCHANGED <<program, iter, at, pc, bgrads, red, summed>>
      BY <2>2 DEF reducerVars, setup, localVars
    <3> QED BY <1>2, <2>1, <3>1 DEF ObjectsInv
  <2>3. ASSUME NEW r \in Ranks, RankStep(r) PROVE ObjectsInv'
    <3>1. OthersKept(r) /\ LocalTypes /\ RankTypes(r) /\ Slotted(r) /\ Objects(r) /\ Summing(r)
      BY <1>2, <2>0, <2>3, KeepsOthers DEF ObjectsInv, TypesInv, LocalInv
    <3>2. Slotted(r)' /\ Objects(r)' /\ Summing(r)'
      BY <2>0, <2>3, <3>1, ActorSlotted, ActorObjects, ActorSumming
    <3>3. ASSUME NEW q \in Ranks, q # r PROVE Slotted(q)' /\ Objects(q)' /\ Summing(q)'
      BY <2>1, <3>1, <3>3 DEF OthersKept, OneRank, Same
    <3> QED BY <1>2, <3>2, <3>3 DEF ObjectsInv
  <2> QED BY <1>2, <2>2, <2>3 DEF ReducerNext, Terminated
<1> QED BY <1>1, <1>2, TypesInvariant, PTL DEF ReducerSpec

-----------------------------------------------------------------------------
(* What a rank accumulates on its own                                      *)

Upto(r, i, p, k) == Len(Before(r, i)[p]) + Cardinality(Times(Plan(r, i).uses, p, k))

\* the first n arrivals of iteration i are at their places in g
PlacedBy(r, i, g, n) == \A k \in 1 .. n : \A p \in Params :
  p = Plan(r, i).uses[k] => g[p][Upto(r, i, p, k)] = Own(r, i, k)

Placing(r) == iter[r] <= Len(program[r]) /\ ~Now(r).sync /\ pc[r] = "backward"
                => PlacedBy(r, iter[r], grad[r], at[r])
Placements(r) == \A i \in 1 .. Len(after[r]) :
  ~Plan(r, i).sync => PlacedBy(r, i, after[r][i], Len(Plan(r, i).uses))

LEMMA TimesGrow ==
  ASSUME NEW u, NEW p, NEW n \in Nat, NEW k \in 1 .. n, u[k] = p
  PROVE  Cardinality(Times(u, p, k)) \in 1 .. Cardinality(Times(u, p, n)) /\ Cardinality(Times(u, p, n)) \in Nat
<1>1. /\ IsFiniteSet(Times(u, p, k)) /\ Cardinality(Times(u, p, k)) \in Nat
      /\ IsFiniteSet(Times(u, p, n)) /\ Cardinality(Times(u, p, n)) \in Nat
  BY TimesFinite
<1>2. Times(u, p, k) \subseteq Times(u, p, n) /\ k \in Times(u, p, k)
  BY DEF Times
<1>3. Cardinality(Times(u, p, k)) <= Cardinality(Times(u, p, n))
  BY <1>1, <1>2, FS_Subset
<1>4. Cardinality(Times(u, p, k)) # 0
  BY <1>1, <1>2, FS_EmptySet
<1> QED BY <1>1, <1>3, <1>4

LEMMA LocalIsOwn ==
  ASSUME NEW r, Summing(r), ~Now(r).sync, NEW k
  PROVE  Local(r, k) = Own(r, iter[r], k)
<1>1. \A x : ~Summed(r, x)
  <2>1. SUFFICES ASSUME NEW x, Object(x, iter[r]) \in DOMAIN summed[r] PROVE FALSE
    BY DEF Summed
  <2>2. PICK j, y : Object(x, iter[r]) = Object(y, j) /\ Plan(r, j).sync
    BY <2>1 DEF Summing
  <2>3. j = iter[r]
    BY <2>2 DEF Object
  <2> QED BY <2>2, <2>3 DEF Now
<1>2. Value(r, Now(r).tensors[k]) = {<<r, Now(r).tensors[k].name, iter[r]>>}
  BY <1>1 DEF Value
<1> QED BY <1>2 DEF Local, Own, Name, Now

LEMMA HookPlaced ==
  ASSUME LocalInv, NEW r \in Ranks, Summing(r), Placing(r), Hook(r), ~Now(r).sync
  PROVE  PlacedBy(r, iter[r], grad'[r], at[r] + 1)
<1>0. LocalTypes /\ RankLocal(r) /\ program \in Programs
  BY DEF LocalInv
<1>1. PICK p : p = Now(r).uses[at[r] + 1]
  OBVIOUS
<1>2. PICK e : e = Own(r, iter[r], at[r] + 1)
  OBVIOUS
<1>3. Local(r, at[r] + 1) = e
  BY <1>2, LocalIsOwn
<1>4. pc[r] = "backward" /\ grad'[r] = Accumulate(grad[r], p, e)
  BY <1>0, <1>1, <1>3, HookGrad DEF Syncs
<1>5. /\ Function(grad[r], Params) /\ \A q \in Params : Sequence(grad[r][q])
      /\ at[r] \in Nat /\ iter[r] \in 1 .. Len(after[r]) + 1 /\ iter[r] <= Len(program[r])
  BY <1>0, <1>4 DEF RankLocal, GradSequences, Stepping
<1>6. GrownBy(r, iter[r], grad[r], at[r]) /\ PlacedBy(r, iter[r], grad[r], at[r])
  BY <1>0, <1>4, <1>5 DEF RankLocal, Unsynced, Placing
<1>7. PICK u : u = Plan(r, iter[r]).uses
  OBVIOUS
<1>8. SUFFICES ASSUME NEW k \in 1 .. at[r] + 1, NEW q \in Params, q = u[k]
               PROVE  grad'[r][q][Upto(r, iter[r], q, k)] = Own(r, iter[r], k)
  BY <1>7 DEF PlacedBy
<1>9. PICK had \in Nat : had = Len(Before(r, iter[r])[q])
  <2>1. Sequence(Before(r, iter[r])[q])
    BY <1>0, <1>5, BeforeIs
  <2> QED BY <2>1, SequenceLen
<1>10. PICK c : c = Cardinality(Times(u, q, at[r]))
  OBVIOUS
<1>11. c \in Nat /\ Cardinality(Times(u, q, at[r] + 1)) = c + (IF u[at[r] + 1] = q THEN 1 ELSE 0)
  BY <1>5, <1>10, TimesFinite
<1>12. Len(grad[r][q]) = had + c
  BY <1>6, <1>7, <1>9, <1>10 DEF GrownBy, Grown
<1>13. PICK s : s = grad[r][q]
  OBVIOUS
<1>14. Sequence(s) /\ Len(s) = had + c
  BY <1>5, <1>12, <1>13
<1>15. grad'[r][q] = IF q = p THEN Append(s, e) ELSE s
  <2>1. CASE q = p
    <3>1. Accumulate(grad[r], q, e)[q] = Append(grad[r][q], e)
      BY <1>5 DEF Accumulate, Function
    <3> QED BY <1>4, <1>13, <2>1, <3>1
  <2>2. CASE q # p
    BY <1>4, <1>5, <1>13, <2>2, AccumulateIs
  <2> QED BY <2>1, <2>2
<1>16. /\ Append(s, e)[(had + c) + 1] = e /\ \A j \in 1 .. had + c : Append(s, e)[j] = s[j]
  BY <1>14, SequenceAppend
<1>17. CASE k = at[r] + 1
  <2>1. q = p
    BY <1>1, <1>7, <1>8, <1>17 DEF Now
  <2>2. Upto(r, iter[r], q, k) = (had + c) + 1
    <3>1. Cardinality(Times(u, q, k)) = c + 1
      BY <1>8, <1>11, <1>17
    <3>2. Upto(r, iter[r], q, k) = had + (c + 1)
      BY <1>7, <1>9, <3>1 DEF Upto
    <3> QED BY <1>11, <3>2
  <2> QED BY <1>2, <1>15, <1>16, <1>17, <2>1, <2>2
<1>18. CASE k # at[r] + 1
  <2>1. k \in 1 .. at[r]
    BY <1>5, <1>18
  <2>2. PICK d : d = Cardinality(Times(u, q, k))
    OBVIOUS
  <2>3. d \in 1 .. c
    BY <1>5, <1>8, <1>10, <2>1, <2>2, TimesGrow
  <2>4. Upto(r, iter[r], q, k) = had + d
    BY <1>7, <1>9, <2>2 DEF Upto
  <2>5. had + d \in 1 .. had + c
    BY <1>11, <2>3
  <2>6. s[had + d] = Own(r, iter[r], k)
    BY <1>6, <1>7, <1>8, <1>13, <2>1, <2>4 DEF PlacedBy
  <2> QED BY <1>15, <1>16, <2>4, <2>5, <2>6
<1> QED BY <1>17, <1>18

LEMMA PlacedSame ==
  ASSUME NEW r, Standing(r)
  PROVE  \A i, g, n : PlacedBy(r, i, g, n)' <=> PlacedBy(r, i, g, n)
<1>1. \A i : Plan(r, i)' = Plan(r, i)
  BY DEF Standing, Plan
<1>2. \A i : Before(r, i)' = Before(r, i)
  BY <1>1 DEF Standing, Before, Starts
<1>3. \A i, k : Own(r, i, k)' = Own(r, i, k)
  BY <1>1 DEF Own, Name, Object
<1> QED BY <1>1, <1>2, <1>3 DEF PlacedBy, Upto

LEMMA QuietPlaced ==
  ASSUME NEW r, Standing(r), Placing(r), Placements(r),
         iter[r] <= Len(program[r]) /\ ~Now(r).sync /\ pc'[r] = "backward" =>
           pc[r] = "backward" /\ at'[r] = at[r] /\ grad'[r] = grad[r]
  PROVE  Placing(r)' /\ Placements(r)'
<1>1. \A i, g, n : PlacedBy(r, i, g, n)' <=> PlacedBy(r, i, g, n)
  BY PlacedSame
<1>2. (\A i : Plan(r, i)' = Plan(r, i)) /\ Now(r)' = Now(r)
  BY DEF Standing, Plan, Now
<1>3. Placements(r)'
  BY <1>1, <1>2 DEF Placements, Standing
<1>4. Placing(r)'
  BY <1>1, <1>2 DEF Placing, Standing
<1> QED BY <1>3, <1>4

LEMMA FinishPlaced ==
  ASSUME LocalInv, NEW r \in Ranks, Placing(r), Placements(r), Finish(r)
  PROVE  Placing(r)' /\ Placements(r)'
<1>0. LocalTypes /\ RankLocal(r)
  BY DEF LocalInv
<1>1. PICK n \in Nat : n = Len(after[r])
  BY <1>0, SequenceLen DEF RankLocal, Stepping
<1>2. /\ pc[r] = "backward" /\ at[r] = Len(Now(r).uses) /\ iter[r] = n + 1 /\ program' = program
      /\ pc'[r] = "forward" /\ Len(after'[r]) = n + 1 /\ after'[r][n + 1] = grad[r]
      /\ \A i \in 1 .. n : after'[r][i] = after[r][i]
      /\ \A i \in 1 .. n + 1 : Before(r, i)' = Before(r, i)
  BY <1>0, <1>1, FinishAfter
<1>3. \A i : Plan(r, i)' = Plan(r, i)
  BY <1>2 DEF Plan
<1>4. \A i, k : Own(r, i, k)' = Own(r, i, k)
  BY <1>3 DEF Own, Name, Object
<1>5. \A i \in 1 .. n + 1 : \A g, m : PlacedBy(r, i, g, m)' <=> PlacedBy(r, i, g, m)
  BY <1>2, <1>3, <1>4 DEF PlacedBy, Upto
<1>6. n + 1 <= Len(program[r])
  BY <1>0, <1>2 DEF RankLocal, Stepping
<1>7. ASSUME NEW i \in 1 .. n + 1, ~Plan(r, i).sync
      PROVE  PlacedBy(r, i, after'[r][i], Len(Plan(r, i).uses))
  <2>1. CASE i = n + 1
    <3>1. Plan(r, i) = Now(r)
      BY <1>2, <2>1 DEF Now
    <3> QED BY <1>2, <1>6, <1>7, <2>1, <3>1 DEF Placing
  <2>2. CASE i # n + 1
    <3>1. i \in 1 .. n
      BY <2>2
    <3> QED BY <1>1, <1>2, <1>7, <3>1 DEF Placements
  <2> QED BY <2>1, <2>2
<1>8. Placements(r)'
  BY <1>2, <1>3, <1>5, <1>7 DEF Placements
<1> QED BY <1>2, <1>8 DEF Placing

LEMMA ActorPlaced ==
  ASSUME LocalInv, NEW r \in Ranks, Summing(r), Placing(r), Placements(r), RankStep(r)
  PROVE  Placing(r)' /\ Placements(r)'
<1>0. LocalTypes /\ RankLocal(r) /\ Unsynced(r) /\ program' = program
  BY KeepsOthers DEF LocalInv, RankLocal, OthersKept
<1>1. CASE Hook(r)
  <2>1. Standing(r) /\ pc' = pc /\ at'[r] = at[r] + 1
    BY <1>0, <1>1, HookGrad DEF Standing
  <2>2. CASE Now(r).sync
    BY <2>1, <2>2, QuietPlaced
  <2>3. CASE ~Now(r).sync
    <3>1. PlacedBy(r, iter[r], grad'[r], at[r] + 1)
      BY <1>1, <2>3, HookPlaced
    <3>2. \A i, g, n : PlacedBy(r, i, g, n)' <=> PlacedBy(r, i, g, n)
      BY <2>1, PlacedSame
    <3>3. Placing(r)'
      BY <2>1, <3>1, <3>2 DEF Placing, Standing
    <3>4. \A i : Plan(r, i)' = Plan(r, i)
      BY <1>0 DEF Plan
    <3> QED BY <2>1, <3>2, <3>3, <3>4 DEF Placements, Standing
  <2> QED BY <2>2, <2>3
<1>2. CASE Finish(r)
  BY <1>2, FinishPlaced
<1>3. CASE Prepare(r)
  <2>1. Standing(r) /\ at' = at /\ at[r] = 0 /\ grad'[r] = Before(r, iter[r])
    BY <1>0, <1>3, PrepareGrad
  <2>2. \A i, g, n : PlacedBy(r, i, g, n)' <=> PlacedBy(r, i, g, n)
    BY <2>1, PlacedSame
  <2>3. \A i, g : PlacedBy(r, i, g, 0)
    BY DEF PlacedBy
  <2>4. \A i : Plan(r, i)' = Plan(r, i)
    BY <1>0 DEF Plan
  <2>5. Placing(r)'
    BY <2>1, <2>2, <2>3 DEF Placing, Standing
  <2> QED BY <2>1, <2>2, <2>4, <2>5 DEF Placements, Standing
<1>4. CASE MarkUnused(r) \/ UnusedMarked(r) \/ Average(r) \/ Reduced(r) \/ Reduce(r)
  <2>1. Standing(r)
    BY <1>0, <1>4 DEF MarkUnused, UnusedMarked, Average, Reduced, Reduce, Standing
  <2>2. iter[r] <= Len(program[r]) => Now(r).sync
    BY <1>0, <1>4 DEF Unsynced, MarkUnused, UnusedMarked, Average, Reduced, Reduce, Reducing
  <2> QED BY <2>1, <2>2, QuietPlaced
<1>5. CASE BroadcastBuffers(r) \/ Raise(r) \/ ReceiveFails(r)
  <2>1. Standing(r)
    BY <1>0, <1>5 DEF BroadcastBuffers, Raise, ReceiveFails, Standing
  <2>2. \E v \in {"prepare", "raised"} : pc' = Set(pc, r, v)
    BY <1>5 DEF BroadcastBuffers, Raise, ReceiveFails
  <2>3. pc'[r] # "backward"
    BY <1>0, <2>2, PcIs
  <2> QED BY <2>1, <2>3, QuietPlaced
<1>6. CASE Communicate(r)
  <2>1. Standing(r) /\ UNCHANGED <<pc, at, grad>>
    BY <1>0, <1>6 DEF Communicate, localVars, Standing
  <2> QED BY <2>1, QuietPlaced
<1> QED BY <1>1, <1>2, <1>3, <1>4, <1>5, <1>6 DEF RankStep

PlacedInv == ObjectsInv /\ \A r \in Ranks : Placing(r) /\ Placements(r)

LEMMA PlacedInvariant == ReducerSpec => []PlacedInv
<1>1. ReducerInit /\ ObjectsInv => PlacedInv
  <2> SUFFICES ASSUME ReducerInit, ObjectsInv PROVE PlacedInv
    OBVIOUS
  <2>1. ASSUME NEW r \in Ranks PROVE Placing(r) /\ Placements(r)
    <3>1. pc[r] = "forward" /\ after[r] = << >>
      BY DEF ReducerInit
    <3> QED BY <3>1, SequenceEmpty DEF Placing, Placements
  <2> QED BY <2>1 DEF PlacedInv
<1>2. ASSUME PlacedInv, ObjectsInv', [ReducerNext]_reducerVars PROVE PlacedInv'
  <2>0. LocalInv /\ \A r \in Ranks : Summing(r) /\ Placing(r) /\ Placements(r)
    BY <1>2 DEF PlacedInv, ObjectsInv, TypesInv
  <2>1. ASSUME NEW q \in Ranks, Standing(q), at'[q] = at[q], pc'[q] = pc[q], grad'[q] = grad[q]
        PROVE  Placing(q)' /\ Placements(q)'
    BY <2>0, <2>1, QuietPlaced
  <2>2. CASE UNCHANGED reducerVars
    <3>1. UNCHANGED <<program, iter, at, pc, grad, after>>
      BY <2>2 DEF reducerVars, setup, localVars
    <3> QED BY <1>2, <2>1, <3>1 DEF PlacedInv, Standing
  <2>3. ASSUME NEW r \in Ranks, RankStep(r) PROVE PlacedInv'
    <3>1. OthersKept(r)
      BY <2>0, <2>3, KeepsOthers DEF LocalInv
    <3>2. Placing(r)' /\ Placements(r)'
      BY <2>0, <2>3, ActorPlaced
    <3>3. ASSUME NEW q \in Ranks, q # r PROVE Placing(q)' /\ Placements(q)'
      BY <2>1, <3>1, <3>3 DEF OthersKept, OneRank, Same, Standing
    <3> QED BY <1>2, <3>2, <3>3 DEF PlacedInv
  <2> QED BY <1>2, <2>2, <2>3 DEF ReducerNext, Terminated
<1> QED BY <1>1, <1>2, ObjectsInvariant, PTL DEF ReducerSpec

\* UnsyncedStaysLocal: an iteration under no_sync adds to each gradient of a rank its own
\* terms, one for each use and in their order, takes nothing away, and adds nothing of
\* another rank, whatever objects backward hands out and whatever was summed before.
THEOREM UnsyncedLocal == ReducerSpec => []UnsyncedStaysLocal
<1>1. ASSUME PlacedInv PROVE UnsyncedStaysLocal
  <2>1. SUFFICES ASSUME NEW r \in Ranks, NEW i \in DOMAIN after[r], ~Plan(r, i).sync
                 PROVE  /\ \A p \in Params :
                             /\ Len(after[r][i][p]) = Upto(r, i, p, Len(Plan(r, i).uses))
                             /\ \A n \in DOMAIN Before(r, i)[p] : after[r][i][p][n] = Before(r, i)[p][n]
                        /\ \A k \in DOMAIN Plan(r, i).uses :
                             after[r][i][Plan(r, i).uses[k]][Upto(r, i, Plan(r, i).uses[k], k)] = Own(r, i, k)
    BY DEF UnsyncedStaysLocal, Upto, Times
  <2>2. RankLocal(r) /\ Placements(r) /\ program \in Programs
    BY <1>1 DEF PlacedInv, ObjectsInv, TypesInv, LocalInv
  <2>3. DOMAIN after[r] = 1 .. Len(after[r]) /\ Len(after[r]) \in Nat
    BY <2>2, SequenceLen DEF RankLocal, Stepping
  <2>4. i \in 1 .. Len(after[r]) /\ i \in 1 .. Len(program[r])
    BY <2>2, <2>3, ProgramLength DEF RankLocal, Journal
  <2>5. PICK u : u = Plan(r, i).uses
    OBVIOUS
  <2>6. u \in Seq(Params) /\ Len(u) \in Nat /\ DOMAIN u = 1 .. Len(u) /\ \A k \in DOMAIN u : u[k] \in Params
    <3>1. u \in Seq(Params)
      BY <2>2, <2>4, <2>5, PlanType
    <3> QED BY <3>1
  <2>7. ASSUME NEW p \in Params
        PROVE  /\ Len(after[r][i][p]) = Upto(r, i, p, Len(u))
               /\ \A n \in DOMAIN Before(r, i)[p] : after[r][i][p][n] = Before(r, i)[p][n]
    <3>1. Grown(Before(r, i)[p], after[r][i][p], Cardinality(Times(u, p, Len(u))))
      BY <2>1, <2>2, <2>4, <2>5 DEF RankLocal, Journal, GrownBy
    <3>2. Sequence(Before(r, i)[p])
      BY <2>2, <2>3, <2>4, BeforeIs
    <3>3. DOMAIN Before(r, i)[p] = 1 .. Len(Before(r, i)[p])
      BY <3>2, SequenceLen
    <3> QED BY <2>5, <3>1, <3>3 DEF Grown, Upto
  <2>8. ASSUME NEW k \in DOMAIN u PROVE after[r][i][u[k]][Upto(r, i, u[k], k)] = Own(r, i, k)
    <3>1. PlacedBy(r, i, after[r][i], Len(u))
      BY <2>1, <2>2, <2>4, <2>5 DEF Placements
    <3> QED BY <2>5, <2>6, <2>8, <3>1 DEF PlacedBy
  <2> QED BY <2>5, <2>7, <2>8
<1> QED BY <1>1, PlacedInvariant, PTL

-----------------------------------------------------------------------------
(* The order in which the buckets of an iteration fill                     *)

LEMMA FiniteMax ==
  ASSUME NEW S, IsFiniteSet(S), S \subseteq Int, S # {}
  PROVE  Max(S) \in S /\ \A x \in S : x <= Max(S)
<1> DEFINE B == {T \in SUBSET S : T # {} /\ ~ \E x \in T : \A y \in T : x >= y}
<1>1. B = {}
  <2>1. SUFFICES ASSUME B # {} PROVE FALSE
    OBVIOUS
  <2>2. B \subseteq SUBSET S
    OBVIOUS
  <2>3. PICK T \in B : \A U \in SUBSET T : U # T => U \notin B
    <3> HIDE DEF B
    <3> QED BY <2>1, <2>2, SmallestSubset
  <2>4. PICK x \in T : TRUE
    OBVIOUS
  <2>5. PICK U : U = T \ {x}
    OBVIOUS
  <2>6. U \in SUBSET T /\ U # T /\ x \in Int
    BY <2>4, <2>5
  <2>7. CASE U = {}
    BY <2>3, <2>5, <2>6, <2>7
  <2>8. CASE U # {}
    <3>1. PICK m \in U : \A y \in U : m >= y
      BY <2>3, <2>6, <2>8
    <3>2. m \in Int /\ \A y \in U : y \in Int
      BY <2>6, <3>1
    <3>3. \A y \in T : y \in U \/ y = x
      BY <2>5
    <3>4. \E z \in T : \A y \in T : z >= y
      <4>1. CASE x >= m
        <5>1. \A y \in T : x >= y
          BY ONLY <2>6, <3>1, <3>2, <3>3, <4>1
        <5> QED BY <2>4, <5>1
      <4>2. CASE ~(x >= m)
        <5>1. \A y \in T : m >= y
          BY ONLY <2>6, <3>1, <3>2, <3>3, <4>2
        <5> QED BY <2>6, <3>1, <5>1
      <4> QED BY <4>1, <4>2
    <3> QED BY <2>3, <3>4
  <2> QED BY <2>7, <2>8
<1>2. \E x \in S : \A y \in S : x >= y
  BY <1>1
<1>3. Max(S) \in S /\ \A y \in S : Max(S) >= y
  BY <1>2 DEF Max
<1> QED BY <1>3

Again(r, i) == config.static /\ \E j \in 1 .. i - 1 : Plan(r, j).sync
TurnAt(r, i, p) == IF Again(r, i) THEN SetOrder[Idle(r, i)][p] ELSE p

\* when the gradient of p arrives: unused ones have their turns before the first
ArrivesAt(r, i, p) ==
  IF p \in Idle(r, i) THEN TurnAt(r, i, p) - Max(Params) - 1
                      ELSE CHOOSE k \in DOMAIN Plan(r, i).uses : Plan(r, i).uses[k] = p

LEMMA TurnFacts ==
  ASSUME NEW r, NEW i, NEW p \in Params
  PROVE  /\ TurnAt(r, i, p) \in Nat /\ Max(Params) \in Nat /\ TurnAt(r, i, p) <= Max(Params)
         /\ \A q \in Params : TurnAt(r, i, p) = TurnAt(r, i, q) => p = q
<1>1. Params \subseteq Nat /\ IsFiniteSet(Params)
  BY ReducerAssumption
<1>2. /\ SetOrder[Idle(r, i)] \in [Params -> Params]
      /\ \A x, y \in Params : SetOrder[Idle(r, i)][x] = SetOrder[Idle(r, i)][y] => x = y
  <2>1. Idle(r, i) \in SUBSET Params
    BY DEF Idle
  <2>2. SetOrder \in [SUBSET Params -> [Params -> Params]]
    BY ReducerAssumption
  <2>3. \A S \in SUBSET Params : \A x, y \in Params : SetOrder[S][x] = SetOrder[S][y] => x = y
    BY ReducerAssumption
  <2> QED BY ONLY <2>1, <2>2, <2>3
<1>3. Max(Params) \in Params /\ \A x \in Params : x <= Max(Params)
  <2>1. Params \subseteq Int /\ Params # {}
    BY <1>1
  <2> QED BY <1>1, <2>1, FiniteMax
<1>4. \A x \in Params : TurnAt(r, i, x) \in Params
  BY <1>2 DEF TurnAt
<1>5. \A q \in Params : TurnAt(r, i, p) = TurnAt(r, i, q) => p = q
  BY <1>2 DEF TurnAt
<1> QED BY <1>1, <1>3, <1>4, <1>5

\* every use is of another parameter
Once(u) == \A k, l \in DOMAIN u : u[k] = u[l] => k = l

LEMMA ArrivalFacts ==
  ASSUME NEW r, NEW i, Plan(r, i).uses \in Seq(Params), Once(Plan(r, i).uses)
  PROVE  /\ \A p \in Params : ArrivesAt(r, i, p) \in Int
         /\ \A p \in Params : p \in Idle(r, i) => /\ ArrivesAt(r, i, p) = TurnAt(r, i, p) - Max(Params) - 1
                                                 /\ ArrivesAt(r, i, p) < 0 /\ ArrivesAt(r, i, p) > -2 - Max(Params)
         /\ \A p \in Params : p \notin Idle(r, i) =>
              ArrivesAt(r, i, p) \in 1 .. Len(Plan(r, i).uses) /\ Plan(r, i).uses[ArrivesAt(r, i, p)] = p
         /\ \A k \in 1 .. Len(Plan(r, i).uses) :
              ArrivesAt(r, i, Plan(r, i).uses[k]) = k /\ Plan(r, i).uses[k] \in Params \ Idle(r, i)
         /\ \A p, q \in Params : ArrivesAt(r, i, p) = ArrivesAt(r, i, q) => p = q
<1>1. PICK u \in Seq(Params) : u = Plan(r, i).uses
  OBVIOUS
<1>2. Len(u) \in Nat /\ DOMAIN u = 1 .. Len(u) /\ \A k \in 1 .. Len(u) : u[k] \in Params
  OBVIOUS
<1>3. \A p \in Params : p \in Idle(r, i) <=> p \notin Range(u)
  BY <1>1 DEF Idle
<1>4. ASSUME NEW p \in Params, p \in Idle(r, i)
      PROVE  /\ ArrivesAt(r, i, p) = TurnAt(r, i, p) - Max(Params) - 1
             /\ ArrivesAt(r, i, p) < 0 /\ ArrivesAt(r, i, p) > -2 - Max(Params) /\ ArrivesAt(r, i, p) \in Int
  <2>1. ArrivesAt(r, i, p) = TurnAt(r, i, p) - Max(Params) - 1
    BY <1>4 DEF ArrivesAt
  <2>2. TurnAt(r, i, p) \in Nat /\ Max(Params) \in Nat /\ TurnAt(r, i, p) <= Max(Params)
    BY TurnFacts
  <2>3. PICK t \in Nat, m \in Nat : t = TurnAt(r, i, p) /\ m = Max(Params)
    BY <2>2
  <2> QED BY ONLY <2>1, <2>2, <2>3
<1>5. ASSUME NEW p \in Params, p \notin Idle(r, i)
      PROVE  ArrivesAt(r, i, p) \in 1 .. Len(u) /\ u[ArrivesAt(r, i, p)] = p
  <2>1. p \in Range(u)
    BY <1>3, <1>5
  <2>2. \E k \in DOMAIN u : u[k] = p
    BY <2>1 DEF Range
  <2>3. ArrivesAt(r, i, p) = CHOOSE k \in DOMAIN u : u[k] = p
    BY <1>1, <1>5 DEF ArrivesAt
  <2> QED BY <1>2, <2>2, <2>3
<1>6. ASSUME NEW k \in 1 .. Len(u)
      PROVE  ArrivesAt(r, i, u[k]) = k /\ u[k] \in Params \ Idle(r, i)
  <2>1. u[k] \in Range(u) /\ u[k] \in Params
    BY <1>2 DEF Range
  <2>2. u[k] \notin Idle(r, i)
    BY <1>3, <2>1
  <2>3. ArrivesAt(r, i, u[k]) \in 1 .. Len(u) /\ u[ArrivesAt(r, i, u[k])] = u[k]
    BY <1>5, <2>1, <2>2
  <2> QED BY <1>1, <1>2, <2>1, <2>2, <2>3 DEF Once
<1>7. ASSUME NEW p \in Params, NEW q \in Params, ArrivesAt(r, i, p) = ArrivesAt(r, i, q)
      PROVE  p = q
  <2>1. CASE p \in Idle(r, i) /\ q \in Idle(r, i)
    <3>1. PICK t \in Nat, w \in Nat, m \in Nat : t = TurnAt(r, i, p) /\ w = TurnAt(r, i, q) /\ m = Max(Params)
      BY TurnFacts
    <3>2. t - m - 1 = w - m - 1
      BY <1>4, <1>7, <2>1, <3>1
    <3>3. t = w
      BY ONLY <3>2, t \in Nat, w \in Nat, m \in Nat
    <3> QED BY <3>1, <3>3, TurnFacts
  <2>2. CASE p \notin Idle(r, i) /\ q \notin Idle(r, i)
    BY <1>5, <1>7, <2>2
  <2>3. CASE p \in Idle(r, i) /\ q \notin Idle(r, i)
    <3>1. ArrivesAt(r, i, p) < 0 /\ ArrivesAt(r, i, q) \in 1 .. Len(u)
      BY <1>4, <1>5, <2>3
    <3> QED BY ONLY <1>2, <1>7, <3>1
  <2>4. CASE p \notin Idle(r, i) /\ q \in Idle(r, i)
    <3>1. ArrivesAt(r, i, q) < 0 /\ ArrivesAt(r, i, p) \in 1 .. Len(u)
      BY <1>4, <1>5, <2>4
    <3> QED BY ONLY <1>2, <1>7, <3>1
  <2> QED BY <2>1, <2>2, <2>3, <2>4
<1>8. \A p \in Params : ArrivesAt(r, i, p) \in Int
  <2>1. SUFFICES ASSUME NEW p \in Params PROVE ArrivesAt(r, i, p) \in Int
    OBVIOUS
  <2>2. CASE p \in Idle(r, i)
    BY <1>4, <2>2
  <2>3. CASE p \notin Idle(r, i)
    BY <1>2, <1>5, <2>3
  <2> QED BY <2>2, <2>3
<1> QED BY <1>1, <1>4, <1>5, <1>6, <1>7, <1>8

LEMMA FilledFacts ==
  ASSUME NEW r, NEW i, Plan(r, i).uses \in Seq(Params), Once(Plan(r, i).uses), NEW b \in DOMAIN Buckets
  PROVE  /\ \E p \in Range(Buckets[b]) : ArrivesAt(r, i, p) = FilledAt(r, i, b)
         /\ \A p \in Range(Buckets[b]) : ArrivesAt(r, i, p) <= FilledAt(r, i, b)
         /\ FilledAt(r, i, b) \in Int /\ FilledAt(r, i, b) > -2 - Max(Params)
<1>1. PICK u \in Seq(Params) : u = Plan(r, i).uses
  OBVIOUS
<1>2. Len(u) \in Nat /\ DOMAIN u = 1 .. Len(u)
  OBVIOUS
<1>3. PICK R : R = Range(Buckets[b])
  OBVIOUS
<1>4. R \subseteq Params /\ R # {}
  <2>1. 1 \in DOMAIN Buckets[b]
    BY BucketFacts
  <2> QED BY <1>3, <2>1, BucketFacts DEF Range
<1>5. \A p \in R : p \in Idle(r, i) <=> p \notin Range(u)
  BY <1>1, <1>4 DEF Idle
<1>6. PICK used : used = {k \in DOMAIN u : u[k] \in R}
  OBVIOUS
<1>7. PICK turns : turns = {TurnAt(r, i, p) : p \in R \ Range(u)}
  OBVIOUS
<1>8. FilledAt(r, i, b) = IF used = {} THEN Max(turns) - Max(Params) - 1 ELSE Max(used)
  BY <1>1, <1>3, <1>6, <1>7 DEF FilledAt, TurnAt, Again
<1>9. PICK m \in Nat : m = Max(Params)
  <2>1. \E p \in Params : TRUE
    BY <1>4
  <2> QED BY <2>1, TurnFacts
<1>10. \A p \in R : /\ ArrivesAt(r, i, p) \in Int
                    /\ p \notin Range(u) => ArrivesAt(r, i, p) = TurnAt(r, i, p) - m - 1 /\ ArrivesAt(r, i, p) < 0
                    /\ p \in Range(u) => ArrivesAt(r, i, p) \in 1 .. Len(u) /\ u[ArrivesAt(r, i, p)] = p
  BY <1>1, <1>4, <1>5, <1>9, ArrivalFacts
<1>11. CASE used = {}
  <2>1. \A p \in R : p \notin Range(u)
    <3>1. SUFFICES ASSUME NEW p \in R, p \in Range(u) PROVE FALSE
      OBVIOUS
    <3>2. PICK k \in DOMAIN u : u[k] = p
      BY <3>1 DEF Range
    <3> QED BY <1>6, <1>11, <3>1, <3>2
  <2>2. turns # {} /\ turns \subseteq Int /\ turns \subseteq 0 .. m
    <3>1. \A p \in R : TurnAt(r, i, p) \in Nat /\ TurnAt(r, i, p) <= m
      BY <1>4, <1>9, TurnFacts
    <3> QED BY <1>4, <1>7, <2>1, <3>1
  <2>3. IsFiniteSet(turns)
    <3>1. IsFiniteSet(0 .. m)
      BY FS_Interval
    <3> QED BY <2>2, <3>1, FS_Subset
  <2>4. Max(turns) \in turns /\ \A x \in turns : x <= Max(turns)
    BY <2>2, <2>3, FiniteMax
  <2>5. PICK p \in R : Max(turns) = TurnAt(r, i, p)
    BY <1>7, <2>4
  <2>6. PICK M \in Int : M = Max(turns)
    BY <2>2, <2>4
  <2>7. FilledAt(r, i, b) = M - m - 1 /\ ArrivesAt(r, i, p) = M - m - 1 /\ M >= 0
    BY <1>8, <1>9, <1>10, <1>11, <2>1, <2>2, <2>4, <2>5, <2>6
  <2>8. ASSUME NEW q \in R PROVE ArrivesAt(r, i, q) <= M - m - 1
    <3>1. TurnAt(r, i, q) \in turns /\ TurnAt(r, i, q) \in Int
      BY <1>7, <2>1, <2>2
    <3>2. TurnAt(r, i, q) <= M /\ ArrivesAt(r, i, q) = TurnAt(r, i, q) - m - 1
      BY <1>10, <2>1, <2>4, <2>6, <3>1
    <3> QED BY ONLY <3>1, <3>2, M \in Int, m \in Nat
  <2>9. M - m - 1 \in Int /\ M - m - 1 > -2 - m
    BY ONLY <2>7, M \in Int, m \in Nat
  <2> QED BY <1>3, <1>9, <2>7, <2>8, <2>9
<1>12. CASE used # {}
  <2>1. used \subseteq Int /\ used \subseteq 1 .. Len(u)
    BY <1>2, <1>6
  <2>2. IsFiniteSet(used)
    <3>1. IsFiniteSet(1 .. Len(u))
      BY <1>2, FS_Interval
    <3> QED BY <2>1, <3>1, FS_Subset
  <2>3. Max(used) \in used /\ \A x \in used : x <= Max(used)
    BY <1>12, <2>1, <2>2, FiniteMax
  <2>4. PICK M \in 1 .. Len(u) : M = Max(used)
    BY <2>1, <2>3
  <2>5. FilledAt(r, i, b) = M /\ u[M] \in R
    BY <1>6, <1>8, <1>12, <2>3, <2>4
  <2>6. ArrivesAt(r, i, u[M]) = M
    BY <1>1, <2>4, ArrivalFacts
  <2>7. ASSUME NEW q \in R PROVE ArrivesAt(r, i, q) <= M
    <3>1. CASE q \in Range(u)
      <4>1. ArrivesAt(r, i, q) \in used
        BY <1>2, <1>6, <1>10, <3>1
      <4> QED BY <2>3, <2>4, <4>1
    <3>2. CASE q \notin Range(u)
      <4>1. ArrivesAt(r, i, q) < 0 /\ ArrivesAt(r, i, q) \in Int
        BY <1>10, <3>2
      <4> QED BY ONLY <4>1, <1>2, M \in 1 .. Len(u)
    <3> QED BY <3>1, <3>2
  <2>8. M \in Int /\ M > -2 - m
    BY ONLY <1>2, M \in 1 .. Len(u), m \in Nat
  <2> QED BY <1>3, <1>9, <2>5, <2>6, <2>7, <2>8
<1> QED BY <1>11, <1>12

LEMMA FilledApart ==
  ASSUME NEW r, NEW i, Plan(r, i).uses \in Seq(Params), Once(Plan(r, i).uses),
         NEW b \in DOMAIN Buckets, NEW c \in DOMAIN Buckets, b # c
  PROVE  FilledAt(r, i, b) # FilledAt(r, i, c)
<1>1. PICK p \in Range(Buckets[b]) : ArrivesAt(r, i, p) = FilledAt(r, i, b)
  BY FilledFacts
<1>2. PICK q \in Range(Buckets[c]) : ArrivesAt(r, i, q) = FilledAt(r, i, c)
  BY FilledFacts
<1>3. p \in Params /\ q \in Params
  BY BucketFacts
<1>4. BucketOf(p) = b /\ BucketOf(q) = c
  BY <1>3, BucketOfIs
<1> QED BY <1>1, <1>2, <1>3, <1>4, ArrivalFacts

-----------------------------------------------------------------------------
(* The collectives of a rank in the order in which its program makes them  *)

\* Iteration i makes call k of bucket b, its k-th parameter; the broadcast of the
\* buffers stands for a bucket 0.
IsCall(r, i, b, k) ==
  /\ i \in 1 .. Len(program[r])
  /\ \/ b = 0 /\ k = 1 /\ config.buffers /\ N > 1
     \/ b \in DOMAIN Buckets /\ k \in DOMAIN Buckets[b] /\ Plan(r, i).sync

Earlier(r, i, b, c) == c # 0 /\ (b = 0 \/ FilledAt(r, i, b) < FilledAt(r, i, c))

\* <<i, b, k>> is <<j, c, l>> or comes before it
UpToCall(r, i, b, k, j, c, l) ==
  i < j \/ (i = j /\ (Earlier(r, i, b, c) \/ (b = c /\ k <= l)))

Triples == Nat \X Nat \X Nat
UpTo(r, j, c, l) == {a \in Triples : IsCall(r, a[1], a[2], a[3]) /\ UpToCall(r, a[1], a[2], a[3], j, c, l)}

Begins(r) == Begun(r) \subseteq inStep

\* the calls made so far
CallMade(r, b, k) ==
  IF b = 0 THEN pc[r] # "forward"
  ELSE /\ Busy(r) /\ pending[r][b] = 0
       /\ red[r] = None \/ red[r][1] # b \/ k < red[r][2] \/ (k = red[r][2] /\ pc[r] \in Midcall)
Made(r) == {a \in Triples : /\ IsCall(r, a[1], a[2], a[3])
                            /\ a[1] < iter[r] \/ (a[1] = iter[r] /\ CallMade(r, a[2], a[3]))}

Names(c, b, k) == IF b = 0 THEN c.op = "broadcast" /\ c.tensor = Buffers
                           ELSE c.op = "allreduce" /\ c.tensor = Buckets[b][k]

\* the n-th call is the one that has n up to it
Numbered(r, n, i, b, k) ==
  IsCall(r, i, b, k) /\ IsFiniteSet(UpTo(r, i, b, k)) /\ n = Cardinality(UpTo(r, i, b, k))
Label(r, n, i, b, k) == Numbered(r, n, i, b, k) /\ i <= iter[r] /\ Names(given[r][n], b, k)
Labelled(r) == \A n \in 1 .. Len(given[r]) : \E i, b, k : Label(r, n, i, b, k)
Counted(r) == pc[r] # "raised" => IsFiniteSet(Made(r)) /\ Len(given[r]) = Cardinality(Made(r))

\* t is the time in backward: what has arrived by then is no longer pending
Clock(r, t) ==
  /\ \A b \in DOMAIN Buckets :
       pending[r][b] = Cardinality({p \in Range(Buckets[b]) : ArrivesAt(r, iter[r], p) > t})
  /\ pc[r] \in {"backward", "backward-reduce"} => t = at[r]
  /\ pc[r] \in {"unused", "unused-reduce"} =>
       t < 0 /\ at[r] = 0 /\ \A p \in Params : p \in todo[r] <=> t < ArrivesAt(r, iter[r], p) /\ ArrivesAt(r, iter[r], p) < 0
  /\ red[r] # None => FilledAt(r, iter[r], red[r][1]) = t
Clocked(r) == Busy(r) /\ Now(r).sync => \E t \in Int : Clock(r, t)

\* the iterations whose unused parameters were looked for
Scanned(r, j) == /\ j \in 1 .. Len(program[r]) /\ Plan(r, j).sync
                 /\ j < iter[r] \/ (j = iter[r] /\ pc[r] \in {"backward", "backward-reduce"})
Cached(r) == pc[r] # "raised" =>
  IF cache[r] = None THEN config.static => \A j \in Nat : ~Scanned(r, j)
  ELSE config.static /\ \E j \in Nat : Scanned(r, j) /\ cache[r][1] = Idle(r, j)

Scripted(r) == Labelled(r) /\ Counted(r) /\ Clocked(r)

LEMMA CallTypes ==
  ASSUME NEW r, NEW i, NEW b, NEW k, program \in Programs, r \in Ranks, IsCall(r, i, b, k)
  PROVE  i \in Nat /\ b \in Nat /\ k \in Nat /\ <<i, b, k>> \in Triples
<1>1. Len(program[r]) \in Nat
  BY ProgramLength
<1>2. i \in Nat
  BY <1>1 DEF IsCall
<1>3. b \in Nat /\ k \in Nat
  <2>1. CASE b = 0 /\ k = 1
    BY <2>1
  <2>2. CASE b \in DOMAIN Buckets /\ k \in DOMAIN Buckets[b]
    BY <2>2, BucketFacts
  <2> QED BY <2>1, <2>2 DEF IsCall
<1> QED BY <1>2, <1>3 DEF Triples

\* what the ranks' being in step says of an iteration
LEMMA InStep ==
  ASSUME program \in Programs, NEW j \in inStep, StaysInStep(j), j \in Nat \ {0},
         NEW q \in Ranks, NEW r \in Ranks
  PROVE  /\ \A i \in 1 .. j : /\ i \in 1 .. Len(program[q]) <=> i \in 1 .. Len(program[r])
                              /\ i \in 1 .. Len(program[r]) => (Plan(q, i).sync <=> Plan(r, i).sync)
                              /\ i \in 1 .. Len(program[r]) /\ Plan(r, i).sync => Orderly(i)
<1>1. SUFFICES ASSUME NEW i \in 1 .. j
               PROVE  /\ i \in 1 .. Len(program[q]) <=> i \in 1 .. Len(program[r])
                      /\ i \in 1 .. Len(program[r]) => (Plan(q, i).sync <=> Plan(r, i).sync)
                      /\ i \in 1 .. Len(program[r]) /\ Plan(r, i).sync => Orderly(i)
  OBVIOUS
<1>2. \A x \in Ranks : DOMAIN program[x] = 1 .. Len(program[x])
  <2>1. program \in ProgramType
    BY ReducerAssumption
  <2> QED BY ONLY <2>1 DEF ProgramType
<1>3. \A x \in Ranks : i \in DOMAIN program[x] =>
         (\A y \in Ranks : i \in DOMAIN program[y]) /\ (Orderly(i) \/ \A y \in Ranks : ~Plan(y, i).sync)
  BY <1>1 DEF StaysInStep
<1>4. Orderly(i) => \A x \in Ranks : Plan(x, i).sync
  BY DEF Orderly
<1> QED BY <1>2, <1>3, <1>4

\* no parameter is used twice where the rank synchronizes
Clean(r, i) == i \in 1 .. Len(program[r]) /\ Plan(r, i).sync => Once(Plan(r, i).uses)

LEMMA FillTimes ==
  ASSUME program \in Programs, NEW r \in Ranks, NEW i, Clean(r, i)
  PROVE  /\ \A b, k : IsCall(r, i, b, k) /\ b # 0 => FilledAt(r, i, b) \in Int
         /\ \A b, k, c, l : IsCall(r, i, b, k) /\ IsCall(r, i, c, l) /\ b # 0 /\ c # 0 /\ b # c =>
                              FilledAt(r, i, b) # FilledAt(r, i, c)
<1>1. ASSUME NEW b, NEW k, IsCall(r, i, b, k), b # 0
      PROVE  /\ b \in DOMAIN Buckets /\ Plan(r, i).uses \in Seq(Params) /\ Once(Plan(r, i).uses)
  <2>1. i \in 1 .. Len(program[r]) /\ b \in DOMAIN Buckets /\ Plan(r, i).sync
    BY <1>1 DEF IsCall
  <2>2. Plan(r, i).uses \in Seq(Params)
    BY <2>1, PlanType
  <2> QED BY <2>1, <2>2 DEF Clean
<1>2. ASSUME NEW b, NEW k, IsCall(r, i, b, k), b # 0 PROVE FilledAt(r, i, b) \in Int
  BY <1>1, <1>2, FilledFacts
<1>3. ASSUME NEW b, NEW k, NEW c, NEW l, IsCall(r, i, b, k), IsCall(r, i, c, l), b # 0, c # 0, b # c
      PROVE  FilledAt(r, i, b) # FilledAt(r, i, c)
  <2>1. b \in DOMAIN Buckets /\ Plan(r, i).uses \in Seq(Params) /\ Once(Plan(r, i).uses)
    BY <1>1, <1>3
  <2>2. c \in DOMAIN Buckets
    BY <1>1, <1>3
  <2> QED BY <1>3, <2>1, <2>2, FilledApart
<1> QED BY <1>2, <1>3

\* UpToCall is a linear order on the calls of a rank

LEMMA CallOrder ==
  ASSUME program \in Programs, NEW r \in Ranks, NEW i, NEW b, NEW k, NEW j, NEW c, NEW l,
         IsCall(r, i, b, k), IsCall(r, j, c, l), Clean(r, i)
  PROVE  /\ UpToCall(r, i, b, k, j, c, l) \/ UpToCall(r, j, c, l, i, b, k)
         /\ UpToCall(r, i, b, k, j, c, l) /\ UpToCall(r, j, c, l, i, b, k) => i = j /\ b = c /\ k = l
<1>1. i \in Nat /\ j \in Nat /\ k \in Nat /\ l \in Nat
  BY CallTypes
<1>2. CASE i # j
  BY ONLY <1>1, <1>2 DEF UpToCall
<1>3. CASE i = j /\ b = c
  <2>1. ~Earlier(r, i, b, b)
    <3>1. b # 0 => FilledAt(r, i, b) \in Int
      BY FillTimes
    <3> QED BY ONLY <3>1 DEF Earlier
  <2> QED BY ONLY <1>1, <1>3, <2>1 DEF UpToCall
<1>4. CASE i = j /\ b # c
  <2>1. b # 0 => FilledAt(r, i, b) \in Int
    BY FillTimes
  <2>2. c # 0 => FilledAt(r, i, c) \in Int
    BY <1>4, FillTimes
  <2>3. b # 0 /\ c # 0 => FilledAt(r, i, b) # FilledAt(r, i, c)
    BY <1>4, FillTimes
  <2> QED BY ONLY <1>1, <1>4, <2>1, <2>2, <2>3 DEF UpToCall, Earlier
<1> QED BY <1>2, <1>3, <1>4

LEMMA CallsBefore ==
  ASSUME program \in Programs, NEW r \in Ranks, NEW i, NEW b, NEW k, NEW j, NEW c, NEW l,
         IsCall(r, i, b, k), IsCall(r, j, c, l), Clean(r, j), UpToCall(r, i, b, k, j, c, l)
  PROVE  UpTo(r, i, b, k) \subseteq UpTo(r, j, c, l) /\ <<i, b, k>> \in UpTo(r, j, c, l)
<1>1. <<i, b, k>> \in UpTo(r, j, c, l)
  BY CallTypes DEF UpTo
<1>2. ASSUME NEW a \in UpTo(r, i, b, k) PROVE a \in UpTo(r, j, c, l)
  <2>1. PICK x, y, z : x = a[1] /\ y = a[2] /\ z = a[3]
    OBVIOUS
  <2>2. a \in Triples /\ IsCall(r, x, y, z) /\ UpToCall(r, x, y, z, i, b, k)
    BY <2>1 DEF UpTo
  <2>3. x \in Nat /\ i \in Nat /\ j \in Nat /\ k \in Nat /\ l \in Nat /\ z \in Nat
    BY <2>2, CallTypes
  <2>4. UpToCall(r, x, y, z, j, c, l)
    <3>1. CASE x < i \/ i < j
      BY ONLY <2>2, <2>3, <3>1, UpToCall(r, i, b, k, j, c, l) DEF UpToCall
    <3>2. CASE ~(x < i) /\ ~(i < j)
      <4>1. x = i /\ i = j /\ (Earlier(r, i, y, b) \/ (y = b /\ z <= k)) /\ (Earlier(r, i, b, c) \/ (b = c /\ k <= l))
        BY ONLY <2>2, <2>3, <3>2, UpToCall(r, i, b, k, j, c, l) DEF UpToCall
      <4>2. /\ b # 0 => FilledAt(r, i, b) \in Int
            /\ c # 0 => FilledAt(r, i, c) \in Int
            /\ y # 0 => FilledAt(r, i, y) \in Int
        BY <2>2, <4>1, FillTimes
      <4>3. Earlier(r, i, y, c) \/ (y = c /\ z <= l)
        BY ONLY <2>3, <4>1, <4>2 DEF Earlier
      <4> QED BY ONLY <4>1, <4>3 DEF UpToCall
    <3> QED BY <3>1, <3>2
  <2> QED BY <2>1, <2>2, <2>4 DEF UpTo
<1> QED BY <1>1, <1>2

\* a call is known by how many there are up to it
LEMMA SameCount ==
  ASSUME program \in Programs, NEW r \in Ranks, NEW i, NEW b, NEW k, NEW j, NEW c, NEW l,
         IsCall(r, i, b, k), IsCall(r, j, c, l), Clean(r, i), Clean(r, j),
         IsFiniteSet(UpTo(r, i, b, k)), IsFiniteSet(UpTo(r, j, c, l)),
         Cardinality(UpTo(r, i, b, k)) = Cardinality(UpTo(r, j, c, l))
  PROVE  i = j /\ b = c /\ k = l
<1>1. UpToCall(r, i, b, k, i, b, k) /\ UpToCall(r, j, c, l, j, c, l)
  BY CallOrder
<1>2. <<i, b, k>> \in UpTo(r, i, b, k) /\ <<j, c, l>> \in UpTo(r, j, c, l)
  BY <1>1, CallsBefore
<1>3. CASE UpToCall(r, i, b, k, j, c, l)
  <2>1. UpTo(r, i, b, k) \subseteq UpTo(r, j, c, l)
    BY <1>3, CallsBefore
  <2>2. UpTo(r, i, b, k) = UpTo(r, j, c, l)
    BY <2>1, FS_Subset
  <2>3. UpToCall(r, j, c, l, i, b, k)
    BY <1>2, <2>2 DEF UpTo
  <2> QED BY <1>3, <2>3, CallOrder
<1>4. CASE UpToCall(r, j, c, l, i, b, k)
  <2>1. UpTo(r, j, c, l) \subseteq UpTo(r, i, b, k)
    BY <1>4, CallsBefore
  <2>2. UpTo(r, j, c, l) = UpTo(r, i, b, k)
    BY <2>1, FS_Subset
  <2>3. UpToCall(r, i, b, k, j, c, l)
    BY <1>2, <2>2 DEF UpTo
  <2> QED BY <1>4, <2>3, CallOrder
<1> QED BY <1>3, <1>4, CallOrder

\* ranks in step have the same calls in the same order
LEMMA SameCalls ==
  ASSUME program \in Programs, NEW j \in inStep, StaysInStep(j), j \in Nat \ {0},
         NEW q \in Ranks, NEW r \in Ranks, NEW c, NEW l, IsCall(r, j, c, l)
  PROVE  IsCall(q, j, c, l) /\ UpTo(q, j, c, l) = UpTo(r, j, c, l)
<1>1. \A i \in 1 .. j : \A b, k : IsCall(q, i, b, k) <=> IsCall(r, i, b, k)
  BY InStep DEF IsCall
<1>2. j \in 1 .. j
  OBVIOUS
<1>3. ASSUME NEW a \in Triples
      PROVE  IsCall(q, a[1], a[2], a[3]) /\ UpToCall(q, a[1], a[2], a[3], j, c, l)
               <=> IsCall(r, a[1], a[2], a[3]) /\ UpToCall(r, a[1], a[2], a[3], j, c, l)
  <2>1. PICK x, y, z : x = a[1] /\ y = a[2] /\ z = a[3]
    OBVIOUS
  <2>2. x \in Nat
    BY <2>1 DEF Triples
  <2>3. CASE x < j
    <3>1. IsCall(q, x, y, z) <=> IsCall(r, x, y, z)
      <4>1. CASE x \in 1 .. j
        BY <1>1, <4>1
      <4>2. CASE x \notin 1 .. j
        <5>1. x = 0
          BY ONLY <2>2, <2>3, <4>2, j \in Nat \ {0}
        <5>2. Len(program[q]) \in Nat /\ Len(program[r]) \in Nat
          BY ProgramLength
        <5> QED BY ONLY <5>1, <5>2 DEF IsCall
      <4> QED BY <4>1, <4>2
    <3> QED BY <2>1, <2>3, <3>1 DEF UpToCall
  <2>4. CASE x = j
    <3>1. IsCall(q, j, y, z) <=> IsCall(r, j, y, z)
      BY <1>1, <1>2
    <3>2. IsCall(r, j, y, z) => (Earlier(q, j, y, c) <=> Earlier(r, j, y, c))
      <4>1. CASE c = 0 \/ y = 0
        BY <4>1 DEF Earlier
      <4>2. CASE c # 0 /\ y # 0
        <5>1. SUFFICES ASSUME IsCall(r, j, y, z) PROVE FilledAt(q, j, y) < FilledAt(q, j, c) <=> FilledAt(r, j, y) < FilledAt(r, j, c)
          BY <4>2 DEF Earlier
        <5>2. y \in DOMAIN Buckets /\ c \in DOMAIN Buckets /\ Plan(r, j).sync /\ j \in 1 .. Len(program[r])
          BY <4>2, <5>1 DEF IsCall
        <5>3. Orderly(j)
          BY <1>2, <5>2, InStep
        <5> QED BY <5>2, <5>3 DEF Orderly
      <4> QED BY <4>1, <4>2
    <3> QED BY <2>1, <2>4, <3>1, <3>2 DEF UpToCall
  <2>5. CASE x > j
    BY <2>1, <2>2, <2>5 DEF UpToCall
  <2> QED BY <2>2, <2>3, <2>4, <2>5
<1> QED BY <1>1, <1>2, <1>3 DEF UpTo

InStepSound == \A i \in inStep : i \in Nat \ {0} /\ StaysInStep(i)

LEMMA MatchFromLabels ==
  ASSUME program \in Programs, InStepSound, NEW q \in Ranks, NEW r \in Ranks,
         Begins(q), Begins(r), Labelled(q), Labelled(r),
         NEW n, n \in 1 .. Len(given[q]), n \in 1 .. Len(given[r])
  PROVE  given[q][n].op = given[r][n].op /\ given[q][n].tensor = given[r][n].tensor
<1>1. PICK i, b, k : Label(q, n, i, b, k)
  BY DEF Labelled
<1>2. PICK j, c, l : Label(r, n, j, c, l)
  BY DEF Labelled
<1>3. ASSUME NEW x \in Ranks, Begins(x), NEW y, y \in 1 .. Len(program[x]), y <= iter[x] PROVE y \in inStep
  <2>1. program \in ProgramType
    BY ReducerAssumption
  <2>2. DOMAIN program[x] = 1 .. Len(program[x])
    BY ONLY <2>1, x \in Ranks DEF ProgramType
  <2> QED BY <1>3, <2>2 DEF Begins, Begun
<1>4. i \in inStep /\ j \in inStep
  BY <1>1, <1>2, <1>3 DEF Label, Numbered, IsCall
<1>5. ASSUME NEW x \in Ranks, NEW y \in inStep PROVE Clean(x, y)
  <2>1. SUFFICES ASSUME y \in 1 .. Len(program[x]), Plan(x, y).sync PROVE Once(Plan(x, y).uses)
    BY DEF Clean
  <2>2. StaysInStep(y) /\ y \in Nat \ {0} /\ y \in 1 .. y
    BY DEF InStepSound
  <2>3. Orderly(y)
    BY <2>1, <2>2, InStep
  <2> QED BY <2>3 DEF Orderly, Once
<1>6. StaysInStep(j) /\ j \in Nat \ {0}
  BY <1>4 DEF InStepSound
<1>7. IsCall(q, j, c, l) /\ UpTo(q, j, c, l) = UpTo(r, j, c, l)
  BY <1>2, <1>4, <1>6, SameCalls DEF Label, Numbered
<1>8. i = j /\ b = c /\ k = l
  <2>1. /\ IsCall(q, i, b, k) /\ IsFiniteSet(UpTo(q, i, b, k)) /\ IsFiniteSet(UpTo(q, j, c, l))
        /\ Cardinality(UpTo(q, i, b, k)) = Cardinality(UpTo(q, j, c, l))
    BY <1>1, <1>2, <1>7 DEF Label, Numbered
  <2>2. Clean(q, i) /\ Clean(q, j)
    BY <1>4, <1>5
  <2> QED BY <1>7, <2>1, <2>2, SameCount
<1> QED BY <1>1, <1>2, <1>8 DEF Label, Numbered, Names

\* what is said of programs does not change
LEMMA ScriptKept ==
  ASSUME program' = program, config' = config
  PROVE  /\ \A r, i : Plan(r, i)' = Plan(r, i) /\ Idle(r, i)' = Idle(r, i)
         /\ \A r, i, p : ArrivesAt(r, i, p)' = ArrivesAt(r, i, p)
         /\ \A r, i, p : TurnAt(r, i, p)' = TurnAt(r, i, p)
         /\ \A r, i, b : FilledAt(r, i, b)' = FilledAt(r, i, b)
         /\ \A r, i, b, k : IsCall(r, i, b, k)' <=> IsCall(r, i, b, k)
         /\ \A r, i, b, k : UpTo(r, i, b, k)' = UpTo(r, i, b, k)
         /\ \A i : StaysInStep(i)' <=> StaysInStep(i)
<1>1. \A r, i : Plan(r, i)' = Plan(r, i)
  BY DEF Plan
<1>2. \A r, i : Idle(r, i)' = Idle(r, i)
  BY <1>1 DEF Idle
<1>3. \A r, i : Again(r, i)' <=> Again(r, i)
  BY <1>1 DEF Again
<1>4. \A r, i, p : TurnAt(r, i, p)' = TurnAt(r, i, p)
  BY <1>2, <1>3 DEF TurnAt
<1>5. \A r, i, p : ArrivesAt(r, i, p)' = ArrivesAt(r, i, p)
  <2>1. SUFFICES ASSUME NEW r, NEW i, NEW p PROVE ArrivesAt(r, i, p)' = ArrivesAt(r, i, p)
    OBVIOUS
  <2>2. Plan(r, i)' = Plan(r, i) /\ Idle(r, i)' = Idle(r, i) /\ TurnAt(r, i, p)' = TurnAt(r, i, p)
    BY <1>1, <1>2, <1>4
  <2> QED BY <2>2 DEF ArrivesAt
<1>6. \A r, i, b : FilledAt(r, i, b)' = FilledAt(r, i, b)
  BY <1>1, <1>2 DEF FilledAt
<1>7. \A r, i, b, k : IsCall(r, i, b, k)' <=> IsCall(r, i, b, k)
  BY <1>1 DEF IsCall
<1>8. \A r, i, b, k : UpTo(r, i, b, k)' = UpTo(r, i, b, k)
  BY <1>6, <1>7 DEF UpTo, UpToCall, Earlier
<1>9. \A i : StaysInStep(i)' <=> StaysInStep(i)
  <2>1. \A i : Orderly(i)' <=> Orderly(i)
    BY <1>1, <1>6 DEF Orderly, Scans
  <2> QED BY <1>1, <2>1 DEF StaysInStep
<1> QED BY <1>1, <1>2, <1>4, <1>5, <1>6, <1>7, <1>8, <1>9

LEMMA LabelledKept ==
  ASSUME program \in Programs, program' = program, config' = config, NEW r \in Ranks, given'[r] = given[r],
         \A i \in Nat : i <= iter[r] => i <= iter'[r], Labelled(r)
  PROVE  Labelled(r)'
<1>1. SUFFICES ASSUME NEW n \in 1 .. Len(given[r]) PROVE \E i, b, k : Label(r, n, i, b, k)'
  BY DEF Labelled
<1>2. PICK i, b, k : Label(r, n, i, b, k)
  BY DEF Labelled
<1>3. IsCall(r, i, b, k)' /\ UpTo(r, i, b, k)' = UpTo(r, i, b, k)
  BY <1>2, ScriptKept DEF Label, Numbered
<1>4. i \in Nat
  BY <1>2, CallTypes DEF Label, Numbered
<1>5. Label(r, n, i, b, k)'
  BY <1>2, <1>3, <1>4 DEF Label, Numbered, Names
<1> QED BY <1>5

LEMMA MadeKept ==
  ASSUME program' = program, config' = config, NEW r, given'[r] = given[r], pc[r] # "raised", Counted(r),
         \A i, b, k : IsCall(r, i, b, k) => (i < iter[r] \/ (i = iter[r] /\ CallMade(r, b, k))
                                              <=> i < iter'[r] \/ (i = iter'[r] /\ CallMade(r, b, k)'))
  PROVE  Counted(r)'
<1>1. Made(r)' = Made(r)
  BY ScriptKept DEF Made
<1> QED BY <1>1 DEF Counted

\* one more call, the next one in order
LEMMA MadeMore ==
  ASSUME program \in Programs, program' = program, config' = config, NEW r \in Ranks, Sequence(given[r]),
         iter'[r] = iter[r], pc[r] # "raised", Counted(r), Labelled(r), NEW b, NEW k, NEW c,
         IsCall(r, iter[r], b, k), Names(c, b, k),
         Len(given'[r]) = Len(given[r]) + 1, given'[r][Len(given[r]) + 1] = c,
         \A n \in 1 .. Len(given[r]) : given'[r][n] = given[r][n],
         ~CallMade(r, b, k),
         \A d, l : IsCall(r, iter[r], d, l) =>
                     /\ CallMade(r, d, l)' <=> CallMade(r, d, l) \/ (d = b /\ l = k)
                     /\ CallMade(r, d, l)' <=> UpToCall(r, iter[r], d, l, iter[r], b, k),
         iter[r] \in Nat
  PROVE  Labelled(r)' /\ Counted(r)' /\ Numbered(r, Len(given'[r]), iter[r], b, k)
<1>1. PICK i : i = iter[r]
  OBVIOUS
<1>2. <<i, b, k>> \in Triples
  BY <1>1, CallTypes
<1>3. ASSUME NEW a \in Triples
      PROVE  /\ a \in Made(r)' <=> a \in Made(r) \/ a = <<i, b, k>>
             /\ a \in Made(r)' <=> a \in UpTo(r, i, b, k)
  <2>1. PICK x, y, z : x = a[1] /\ y = a[2] /\ z = a[3]
    OBVIOUS
  <2>2. a = <<x, y, z>> /\ x \in Nat
    BY <2>1 DEF Triples
  <2>3. IsCall(r, x, y, z)' <=> IsCall(r, x, y, z)
    BY ScriptKept
  <2>4. /\ a \in Made(r) <=> IsCall(r, x, y, z) /\ (x < i \/ (x = i /\ CallMade(r, y, z)))
        /\ a \in Made(r)' <=> IsCall(r, x, y, z) /\ (x < i \/ (x = i /\ CallMade(r, y, z)'))
        /\ a \in UpTo(r, i, b, k) <=> IsCall(r, x, y, z) /\ UpToCall(r, x, y, z, i, b, k)
    BY <1>1, <2>1, <2>3 DEF Made, UpTo
  <2>5. CASE x = i
    BY <1>1, <2>2, <2>4, <2>5
  <2>6. CASE x # i
    BY <1>1, <2>2, <2>4, <2>6 DEF UpToCall
  <2> QED BY <2>5, <2>6
<1>4. Made(r)' = Made(r) \cup {<<i, b, k>>} /\ Made(r)' = UpTo(r, i, b, k) /\ <<i, b, k>> \notin Made(r)
  <2>1. Made(r) \subseteq Triples /\ Made(r)' \subseteq Triples /\ UpTo(r, i, b, k) \subseteq Triples
    BY DEF Made, UpTo
  <2>2. <<i, b, k>> \notin Made(r)
    BY <1>1 DEF Made
  <2> QED BY <1>2, <1>3, <2>1, <2>2
<1>5. IsFiniteSet(Made(r)) /\ Len(given[r]) = Cardinality(Made(r))
  BY DEF Counted
<1>6. IsFiniteSet(Made(r)') /\ Cardinality(Made(r)') = Len(given'[r])
  BY <1>4, <1>5, FS_AddElement
<1>7. Counted(r)'
  BY <1>6 DEF Counted
<1>8. Len(given[r]) \in Nat
  BY SequenceLen
<1>9. ASSUME NEW n \in 1 .. Len(given'[r]) PROVE \E x, y, z : Label(r, n, x, y, z)'
  <2>1. CASE n = Len(given[r]) + 1
    <3>1. IsCall(r, i, b, k)' /\ UpTo(r, i, b, k)' = UpTo(r, i, b, k)
      BY <1>1, ScriptKept
    <3>2. i <= iter'[r] /\ given'[r][n] = c
      BY <1>1, <2>1
    <3>3. Label(r, n, i, b, k)'
      BY <1>4, <1>6, <2>1, <3>1, <3>2 DEF Label, Numbered, Names
    <3> QED BY <3>3
  <2>2. CASE n # Len(given[r]) + 1
    <3>1. n \in 1 .. Len(given[r])
      BY <1>8, <2>2
    <3>2. PICK x, y, z : Label(r, n, x, y, z)
      BY <3>1 DEF Labelled
    <3>3. IsCall(r, x, y, z)' /\ UpTo(r, x, y, z)' = UpTo(r, x, y, z) /\ given'[r][n] = given[r][n]
      BY <3>1, <3>2, ScriptKept DEF Label, Numbered
    <3>4. Label(r, n, x, y, z)'
      BY <3>2, <3>3 DEF Label, Numbered, Names
    <3> QED BY <3>4
  <2> QED BY <2>1, <2>2
<1>10. Numbered(r, Len(given'[r]), iter[r], b, k)
  BY <1>1, <1>4, <1>6 DEF Numbered
<1> QED BY <1>7, <1>9, <1>10 DEF Labelled

Waiting(r, i, b, t) == {p \in Range(Buckets[b]) : ArrivesAt(r, i, p) > t}

LEMMA WaitingFacts ==
  ASSUME NEW r, NEW i, Plan(r, i).uses \in Seq(Params), Once(Plan(r, i).uses), NEW b \in DOMAIN Buckets, NEW t \in Int
  PROVE  /\ IsFiniteSet(Waiting(r, i, b, t)) /\ Cardinality(Waiting(r, i, b, t)) \in Nat
         /\ Cardinality(Waiting(r, i, b, t)) = 0 <=> FilledAt(r, i, b) <= t
<1>1. Range(Buckets[b]) \subseteq Params /\ IsFiniteSet(Params)
  BY BucketFacts, ReducerAssumption
<1>2. IsFiniteSet(Waiting(r, i, b, t)) /\ Cardinality(Waiting(r, i, b, t)) \in Nat
  BY <1>1, FS_Subset, FS_CardinalityType DEF Waiting
<1>3. Cardinality(Waiting(r, i, b, t)) = 0 <=> Waiting(r, i, b, t) = {}
  BY <1>2, FS_EmptySet
<1>4. PICK f \in Int : f = FilledAt(r, i, b)
  BY FilledFacts
<1>5. PICK q \in Range(Buckets[b]) : ArrivesAt(r, i, q) = f
  BY <1>4, FilledFacts
<1>6. \A p \in Range(Buckets[b]) : ArrivesAt(r, i, p) <= f /\ ArrivesAt(r, i, p) \in Int
  BY <1>1, <1>4, FilledFacts, ArrivalFacts
<1>7. Waiting(r, i, b, t) = {} <=> f <= t
  <2>1. CASE f <= t
    <3>1. \A p \in Range(Buckets[b]) : ~(ArrivesAt(r, i, p) > t)
      BY ONLY <1>6, <2>1, t \in Int, f \in Int
    <3> QED BY <2>1, <3>1 DEF Waiting
  <2>2. CASE ~(f <= t)
    <3>1. ArrivesAt(r, i, q) > t
      BY <1>5, <2>2
    <3> QED BY <2>2, <3>1 DEF Waiting
  <2> QED BY <2>1, <2>2
<1> QED BY <1>2, <1>3, <1>4, <1>7

\* the next arrival is at s
LEMMA NextWaiting ==
  ASSUME NEW r, NEW i, Plan(r, i).uses \in Seq(Params), Once(Plan(r, i).uses), NEW b \in DOMAIN Buckets,
         NEW t \in Int, NEW s \in Int, NEW p \in Params, ArrivesAt(r, i, p) = s, t < s,
         \A x \in Params : t < ArrivesAt(r, i, x) => s <= ArrivesAt(r, i, x)
  PROVE  /\ p \in Range(Buckets[b]) => Cardinality(Waiting(r, i, b, s)) = Cardinality(Waiting(r, i, b, t)) - 1
         /\ p \notin Range(Buckets[b]) => Waiting(r, i, b, s) = Waiting(r, i, b, t)
         /\ p \in Range(Buckets[b]) /\ Cardinality(Waiting(r, i, b, s)) = 0 => FilledAt(r, i, b) = s
<1>1. Range(Buckets[b]) \subseteq Params
  BY BucketFacts
<1>2. ASSUME NEW x \in Range(Buckets[b])
      PROVE  ArrivesAt(r, i, x) > s <=> ArrivesAt(r, i, x) > t /\ x # p
  <2>1. ArrivesAt(r, i, x) \in Int /\ (ArrivesAt(r, i, x) = s => x = p) /\ (t < ArrivesAt(r, i, x) => s <= ArrivesAt(r, i, x))
    BY <1>1, ArrivalFacts
  <2>2. x = p => ArrivesAt(r, i, x) = s
    OBVIOUS
  <2> QED BY ONLY <2>1, <2>2, s \in Int, t \in Int, t < s
<1>3. Waiting(r, i, b, s) = Waiting(r, i, b, t) \ {p}
  BY <1>2 DEF Waiting
<1>4. CASE p \in Range(Buckets[b])
  <2>1. p \in Waiting(r, i, b, t)
    BY <1>4 DEF Waiting
  <2>2. Cardinality(Waiting(r, i, b, s)) = Cardinality(Waiting(r, i, b, t)) - 1
    BY <1>3, <2>1, WaitingFacts, FS_RemoveElement
  <2>3. ASSUME Cardinality(Waiting(r, i, b, s)) = 0 PROVE FilledAt(r, i, b) = s
    <3>1. PICK f \in Int : f = FilledAt(r, i, b)
      BY FilledFacts
    <3>2. f <= s
      BY <2>3, <3>1, WaitingFacts
    <3>3. s <= f
      BY <1>4, <3>1, FilledFacts
    <3> QED BY ONLY <3>1, <3>2, <3>3, s \in Int
  <2> QED BY <1>4, <2>2, <2>3
<1>5. CASE p \notin Range(Buckets[b])
  BY <1>3, <1>5 DEF Waiting
<1> QED BY <1>4, <1>5

\* An arrival fills the bucket of its parameter when it is the last, and makes no call.
LEMMA ArriveClock ==
  ASSUME LocalTypes, NEW r \in Ranks, RankTypes(r), NEW i, i = iter[r],
         Plan(r, i).uses \in Seq(Params), Once(Plan(r, i).uses), NEW t \in Int, Clock(r, t), red[r] = None,
         NEW p \in Params, NEW v, Arrive(r, p, v), NEW s \in Int, ArrivesAt(r, i, p) = s, t < s,
         \A x \in Params : t < ArrivesAt(r, i, x) => s <= ArrivesAt(r, i, x), pc'[r] = pc[r]
  PROVE  /\ \A b \in DOMAIN Buckets : pending'[r][b] = Cardinality(Waiting(r, i, b, s))
         /\ red'[r] # None => FilledAt(r, i, red'[r][1]) = s
         /\ \A b, k : b # 0 /\ b \in DOMAIN Buckets /\ k \in DOMAIN Buckets[b] => (CallMade(r, b, k)' <=> CallMade(r, b, k))
<1>1. PICK d \in DOMAIN Buckets : d = BucketOf(p) /\ p \in Range(Buckets[d]) /\ \A b \in DOMAIN Buckets : p \in Range(Buckets[b]) => b = d
  BY BucketOfIs
<1>2. /\ pending'[r][d] = pending[r][d] - 1 /\ \A c \in DOMAIN Buckets : c # d => pending'[r][c] = pending[r][c]
      /\ red'[r] = (IF pending[r][d] = 1 THEN <<d, 1>> ELSE red[r])
  BY <1>1, ArriveBuckets DEF RankTypes
<1>3. \A b \in DOMAIN Buckets : pending[r][b] = Cardinality(Waiting(r, i, b, t))
  BY DEF Clock, Waiting
<1>4. ASSUME NEW b \in DOMAIN Buckets PROVE pending'[r][b] = Cardinality(Waiting(r, i, b, s))
  <2>1. CASE b = d
    BY <1>1, <1>2, <1>3, <2>1, NextWaiting
  <2>2. CASE b # d
    <3>1. Waiting(r, i, b, s) = Waiting(r, i, b, t)
      BY <1>1, <2>2, NextWaiting
    <3> QED BY <1>2, <1>3, <2>2, <3>1
  <2> QED BY <2>1, <2>2
<1>5. ASSUME red'[r] # None PROVE FilledAt(r, i, red'[r][1]) = s
  <2>1. pending[r][d] = 1 /\ red'[r][1] = d
    BY <1>2, <1>5
  <2>2. Cardinality(Waiting(r, i, d, s)) = 0
    BY <1>2, <1>4, <2>1
  <2> QED BY <1>1, <2>1, <2>2, NextWaiting
<1>6. ASSUME NEW b \in DOMAIN Buckets, NEW k \in DOMAIN Buckets[b], b # 0
      PROVE  CallMade(r, b, k)' <=> CallMade(r, b, k)
  <2>1. pc[r] \notin Midcall
    BY DEF RankTypes, RedTypes
  <2>2. k \in Nat \ {0}
    BY BucketFacts
  <2>3. pending[r][d] # 0
    <3>1. Cardinality(Waiting(r, i, d, s)) = Cardinality(Waiting(r, i, d, t)) - 1
      BY <1>1, NextWaiting
    <3>2. Cardinality(Waiting(r, i, d, s)) \in Nat /\ Cardinality(Waiting(r, i, d, t)) \in Nat
      BY WaitingFacts
    <3> QED BY <1>3, <3>1, <3>2
  <2>4. CASE b = d
    <3>1. ~CallMade(r, b, k)
      BY <1>6, <2>3, <2>4 DEF CallMade
    <3>2. ~CallMade(r, b, k)'
      <4>1. CASE pending[r][d] = 1
        <5>1. red'[r] # None /\ red'[r][1] = b /\ red'[r][2] = 1
          BY <1>2, <2>4, <4>1 DEF None
        <5> QED BY <1>6, <2>1, <2>2, <5>1 DEF CallMade
      <4>2. CASE pending[r][d] # 1
        <5>1. pending'[r][b] # 0
          <6>1. pending[r][d] \in Int
            BY DEF RankTypes, BucketTypes
          <6> QED BY <1>2, <2>4, <4>2, <6>1
        <5> QED BY <1>6, <5>1 DEF CallMade
      <4> QED BY <4>1, <4>2
    <3> QED BY <3>1, <3>2
  <2>5. CASE b # d
    <3>1. pending'[r][b] = pending[r][b] /\ (red'[r] = None \/ red'[r][1] # b)
      BY <1>2, <2>5
    <3> QED BY <1>6, <3>1 DEF CallMade, Busy
  <2> QED BY <2>4, <2>5
<1> QED BY <1>4, <1>5, <1>6

Backward == {"backward", "backward-reduce"}

LEMMA CachedKept ==
  ASSUME NEW r, Cached(r), pc'[r] # "raised" => pc[r] # "raised" /\ cache'[r] = cache[r] /\ \A j : Scanned(r, j)' <=> Scanned(r, j),
         program' = program, config' = config
  PROVE  Cached(r)'
<1>1. CASE pc'[r] = "raised"
  BY <1>1 DEF Cached
<1>2. CASE pc'[r] # "raised"
  <2>1. \A j : Idle(r, j)' = Idle(r, j)
    BY ScriptKept
  <2> QED BY <1>2, <2>1 DEF Cached
<1> QED BY <1>1, <1>2

\* a step within an iteration, of another kind than those that follow
LEMMA CachedQuiet ==
  ASSUME NEW r, Cached(r), program' = program, config' = config, iter'[r] = iter[r], cache'[r] = cache[r],
         pc'[r] = "raised" \/ (pc[r] # "raised" /\ (pc'[r] \in Backward <=> pc[r] \in Backward))
  PROVE  Cached(r)'
<1>1. \A j : Plan(r, j)' = Plan(r, j)
  BY ScriptKept
<1>2. pc'[r] # "raised" => \A j : Scanned(r, j)' <=> Scanned(r, j)
  BY <1>1 DEF Scanned, Backward
<1> QED BY <1>2, CachedKept

LEMMA CachedStep ==
  ASSUME TypesInv, NEW r \in Ranks, Cached(r), RankStep(r)
  PROVE  Cached(r)'
<1>0. LocalTypes /\ program \in Programs /\ RankLocal(r) /\ Stepping(r) /\ OthersKept(r)
  BY KeepsOthers DEF TypesInv, LocalInv, RankLocal
<1>1. program' = program /\ config' = config
  BY <1>0 DEF OthersKept
<1>2. CASE BroadcastBuffers(r)
  <2>1. pc[r] = "forward" /\ pc' = Set(pc, r, "prepare") /\ iter' = iter /\ cache' = cache
    BY <1>2 DEF BroadcastBuffers
  <2>2. pc'[r] = "prepare"
    BY <1>0, <2>1, PcIs
  <2> QED BY <1>1, <2>1, <2>2, CachedQuiet DEF Backward
<1>3. CASE Raise(r) \/ ReceiveFails(r)
  <2>1. pc' = Set(pc, r, "raised") /\ iter' = iter /\ cache' = cache
    BY <1>3 DEF Raise, ReceiveFails, setup
  <2>2. pc'[r] = "raised"
    BY <1>0, <2>1, PcIs
  <2> QED BY <1>1, <2>1, <2>2, CachedQuiet
<1>4. CASE MarkUnused(r) \/ Hook(r) \/ Reduced(r) \/ Communicate(r)
  <2>1. pc' = pc /\ iter' = iter /\ cache' = cache
    BY <1>4 DEF MarkUnused, Hook, Reduced, Communicate, localVars
  <2> QED BY <1>1, <2>1, CachedQuiet
<1>5. CASE Reduce(r)
  <2>1. /\ pc[r] \in {"unused", "backward"} /\ iter' = iter /\ cache' = cache
        /\ pc' = Set(pc, r, IF pc[r] = "unused" THEN "unused-reduce" ELSE "backward-reduce")
    BY <1>5 DEF Reduce, Reducing
  <2>2. pc'[r] = IF pc[r] = "unused" THEN "unused-reduce" ELSE "backward-reduce"
    BY <1>0, <2>1, PcIs
  <2> QED BY <1>1, <2>1, <2>2, CachedQuiet DEF Backward
<1>6. CASE Average(r)
  <2>1. /\ pc[r] \in {"unused-reduce", "backward-reduce"} /\ iter' = iter /\ cache' = cache
        /\ pc' = Set(pc, r, IF pc[r] = "unused-reduce" THEN "unused" ELSE "backward")
    BY <1>6 DEF Average
  <2>2. pc'[r] = IF pc[r] = "unused-reduce" THEN "unused" ELSE "backward"
    BY <1>0, <2>1, PcIs
  <2> QED BY <1>1, <2>1, <2>2, CachedQuiet DEF Backward
<1>7. CASE Prepare(r)
  <2>1. /\ pc[r] \in {"forward", "prepare"} /\ iter' = iter /\ cache' = cache
        /\ IF Syncs(r) /\ Scans THEN pc' = Set(pc, r, "unused") ELSE pc' = Set(pc, r, "backward")
    BY <1>7 DEF Prepare
  <2>2. pc'[r] = IF Syncs(r) /\ Scans THEN "unused" ELSE "backward"
    <3>1. CASE Syncs(r) /\ Scans
      BY <1>0, <2>1, <3>1, PcIs
    <3>2. CASE ~(Syncs(r) /\ Scans)
      BY <1>0, <2>1, <3>2, PcIs
    <3> QED BY <3>1, <3>2
  <2>3. CASE Syncs(r) /\ Scans
    BY <1>1, <2>1, <2>2, <2>3, CachedQuiet DEF Backward
  <2>4. CASE ~Syncs(r)
    <3>1. \A j : Plan(r, j)' = Plan(r, j)
      BY <1>1, ScriptKept
    <3>2. \A j : Scanned(r, j)' <=> Scanned(r, j)
      <4>1. ~Plan(r, iter[r]).sync
        BY <2>4 DEF Syncs, Now
      <4>2. SUFFICES ASSUME NEW j PROVE Scanned(r, j)' <=> Scanned(r, j)
        OBVIOUS
      <4>3. CASE j = iter[r]
        BY <1>1, <2>1, <3>1, <4>1, <4>3 DEF Scanned
      <4>4. CASE j # iter[r]
        BY <1>1, <2>1, <3>1, <4>4 DEF Scanned
      <4> QED BY <4>3, <4>4
    <3> QED BY <1>1, <2>1, <3>2, CachedKept
  <2>5. CASE Syncs(r) /\ ~Scans
    <3>1. ~config.static
      BY <2>5 DEF Scans
    <3>2. cache[r] = None
      BY <2>1, <3>1 DEF Cached
    <3> QED BY <1>1, <2>1, <3>1, <3>2 DEF Cached
  <2> QED BY <2>3, <2>4, <2>5
<1>8. CASE Finish(r)
  <2>1. /\ pc[r] = "backward" /\ cache' = cache /\ pc' = Set(pc, r, "forward")
        /\ Sets(iter, iter', r, iter[r] + 1)
    BY <1>8 DEF Finish, Set, Sets
  <2>2. pc'[r] = "forward" /\ iter'[r] = iter[r] + 1
    BY <1>0, <2>1, PcIs, SetsOneRank DEF LocalTypes
  <2>3. \A j : Plan(r, j)' = Plan(r, j)
    BY <1>1, ScriptKept
  <2>4. iter[r] \in Nat /\ Len(program[r]) \in Nat
    BY <1>0, ProgramLength DEF Stepping
  <2>5. ASSUME NEW j PROVE Scanned(r, j)' <=> Scanned(r, j)
    <3>1. CASE j \in 1 .. Len(program[r])
      <4>1. j \in Nat
        BY ONLY <2>4, <3>1
      <4>2. j < iter[r] + 1 <=> j < iter[r] \/ j = iter[r]
        BY ONLY <2>4, <4>1
      <4> QED BY <1>1, <2>1, <2>2, <2>3, <4>2 DEF Scanned
    <3>2. CASE j \notin 1 .. Len(program[r])
      BY <1>1, <3>2 DEF Scanned
    <3> QED BY <3>1, <3>2
  <2> QED BY <1>1, <2>1, <2>5, CachedKept
<1>9. CASE UnusedMarked(r)
  <2>1. /\ pc[r] = "unused" /\ pc' = Set(pc, r, "backward") /\ iter' = iter
        /\ IF config.static /\ cache[r] = None THEN Sets(cache, cache', r, <<Idle(r, iter[r])>>) ELSE cache' = cache
    BY <1>9 DEF UnusedMarked, Set, Sets
  <2>2. pc'[r] = "backward"
    BY <1>0, <2>1, PcIs
  <2>3. \A j : Plan(r, j)' = Plan(r, j) /\ Idle(r, j)' = Idle(r, j)
    BY <1>1, ScriptKept
  <2>4. \A j : Scanned(r, j) => Scanned(r, j)'
    BY <1>1, <2>1, <2>3 DEF Scanned
  <2>5. CASE config.static /\ cache[r] = None
    <3>1. cache'[r] = <<Idle(r, iter[r])>>
      BY <1>0, <2>1, <2>5, SetsOneRank DEF LocalTypes
    <3>2. Now(r).sync /\ iter[r] \in 1 .. Len(program[r]) /\ iter[r] \in Nat
      <4>1. Unsynced(r) /\ iter[r] <= Len(program[r]) /\ iter[r] \in Nat \ {0}
        BY <1>0, <2>1 DEF RankLocal, Stepping
      <4>2. Now(r).sync
        BY <2>1, <4>1 DEF Unsynced
      <4>3. Len(program[r]) \in Nat
        BY <1>0, ProgramLength
      <4> QED BY <4>1, <4>2, <4>3
    <3>3. Scanned(r, iter[r])'
      BY <1>1, <2>1, <2>2, <2>3, <3>2 DEF Scanned, Now
    <3>4. cache'[r] # None /\ cache'[r][1] = Idle(r, iter[r])'
      BY <2>1, <2>3, <3>1 DEF None
    <3> QED BY <1>1, <2>1, <2>5, <3>2, <3>3, <3>4 DEF Cached
  <2>6. CASE ~(config.static /\ cache[r] = None)
    <3>1. cache' = cache
      BY <2>1, <2>6
    <3>2. CASE cache[r] = None
      BY <1>1, <2>6, <3>1, <3>2 DEF Cached
    <3>3. CASE cache[r] # None
      BY <1>1, <2>1, <2>3, <2>4, <3>1, <3>3 DEF Cached
    <3> QED BY <3>2, <3>3
  <2> QED BY <2>5, <2>6
<1> QED BY <1>2, <1>3, <1>4, <1>5, <1>6, <1>7, <1>8, <1>9 DEF RankStep

Marking == {"unused", "unused-reduce"}

LEMMA CurrentPlan ==
  ASSUME TypesInv, InStepSound, NEW r \in Ranks, Begins(r), iter[r] <= Len(program[r])
  PROVE  /\ iter[r] \in 1 .. Len(program[r]) /\ iter[r] \in Nat \ {0} /\ iter[r] \in inStep
         /\ Plan(r, iter[r]).uses \in Seq(Params) /\ Clean(r, iter[r])
         /\ Now(r).sync => Orderly(iter[r]) /\ Once(Plan(r, iter[r]).uses)
<1>1. program \in Programs /\ iter[r] \in Nat \ {0}
  BY DEF TypesInv, LocalInv, RankLocal, Stepping
<1>2. Len(program[r]) \in Nat
  BY <1>1, ProgramLength
<1>3. PICK i : i = iter[r]
  OBVIOUS
<1>4. i \in 1 .. Len(program[r]) /\ i \in Nat \ {0}
  BY ONLY <1>1, <1>2, <1>3, iter[r] <= Len(program[r])
<1>5. DOMAIN program[r] = 1 .. Len(program[r])
  <2>1. program \in ProgramType
    BY <1>1, ReducerAssumption
  <2> QED BY ONLY <2>1, r \in Ranks DEF ProgramType
<1>6. i \in inStep
  BY <1>1, <1>3, <1>4, <1>5 DEF Begins, Begun
<1>7. StaysInStep(i) /\ i \in 1 .. i
  BY <1>4, <1>6 DEF InStepSound
<1>8. Plan(r, i).sync => Orderly(i)
  BY <1>1, <1>4, <1>6, <1>7, InStep
<1>9. Plan(r, i).sync => Once(Plan(r, i).uses)
  BY <1>8 DEF Orderly, Once
<1> QED BY <1>1, <1>3, <1>4, <1>6, <1>8, <1>9, PlanType DEF Clean, Now

LEMMA ClockedKept ==
  ASSUME NEW r, program' = program, config' = config, iter'[r] = iter[r], at'[r] = at[r], todo'[r] = todo[r],
         pending'[r] = pending[r], red'[r] = None \/ (red[r] # None /\ red'[r][1] = red[r][1]),
         pc'[r] \in Marking => pc[r] \in Marking, pc'[r] \in Backward => pc[r] \in Backward, Clocked(r)
  PROVE  Clocked(r)'
<1>1. SUFFICES ASSUME Busy(r)', Now(r).sync' PROVE \E t \in Int : Clock(r, t)'
  BY DEF Clocked
<1>2. Now(r)' = Now(r)
  BY ScriptKept DEF Now
<1>3. Busy(r)
  BY <1>1 DEF Busy, Marking, Backward
<1>4. PICK t \in Int : Clock(r, t)
  BY <1>1, <1>2, <1>3 DEF Clocked
<1>5. PICK i : i = iter[r]
  OBVIOUS
<1>6. /\ \A p : ArrivesAt(r, i, p)' = ArrivesAt(r, i, p)
      /\ \A b : FilledAt(r, i, b)' = FilledAt(r, i, b)
  BY ScriptKept
<1>7. Clock(r, t)'
  BY <1>4, <1>5, <1>6 DEF Clock, Marking, Backward
<1> QED BY <1>7

Locked == TypesInv /\ Calls /\ InStepSound

\* steps that make no call and move no clock
LEMMA QuietScripted ==
  ASSUME Locked, NEW r \in Ranks, Scripted(r), RankStep(r),
         Raise(r) \/ ReceiveFails(r) \/ Communicate(r) \/ Average(r) \/ Reduced(r)
  PROVE  Scripted(r)'
<1>0. LocalTypes /\ program \in Programs /\ RankTypes(r) /\ Stepping(r) /\ program' = program /\ config' = config
  BY KeepsOthers DEF Locked, TypesInv, LocalInv, RankLocal, OthersKept
<1>1. given' = given /\ iter' = iter
  <2>1. GlooStep(r) => given' = given
    BY DEF GlooStep, SendUp, Gather, Gathered, Scatter, Scattered, Receive, Returns
  <2>2. CASE Communicate(r)
    BY <2>1, <2>2 DEF Communicate, localVars
  <2>3. CASE Raise(r) \/ ReceiveFails(r) \/ Average(r) \/ Reduced(r)
    BY <2>3 DEF Raise, ReceiveFails, Average, Reduced, glooVars, setup
  <2> QED BY <2>2, <2>3
<1>2. Labelled(r) /\ Counted(r) /\ Clocked(r)
  BY DEF Scripted
<1>3. Labelled(r)'
  BY <1>0, <1>1, <1>2, LabelledKept
<1>4. CASE Raise(r) \/ ReceiveFails(r)
  <2>1. pc' = Set(pc, r, "raised")
    BY <1>4 DEF Raise, ReceiveFails
  <2>2. pc'[r] = "raised"
    BY <1>0, <2>1, PcIs
  <2> QED BY <1>3, <2>2 DEF Scripted, Counted, Clocked, Busy
<1>5. CASE Communicate(r)
  <2>1. UNCHANGED <<at, todo, pending, red, pc>>
    BY <1>5 DEF Communicate, localVars
  <2>2. Clocked(r)'
    BY <1>0, <1>1, <1>2, <2>1, ClockedKept
  <2>3. Made(r)' = Made(r)
    BY <1>0, <1>1, <2>1, ScriptKept DEF Made, CallMade, Busy
  <2> QED BY <1>1, <1>2, <1>3, <2>1, <2>2, <2>3 DEF Scripted, Counted
<1>6. CASE Average(r)
  <2>1. PICK b \in DOMAIN Buckets : \E k \in DOMAIN Buckets[b] :
           /\ red[r] = <<b, k>> /\ red'[r] = <<b, k + 1>> /\ pending' = pending
           /\ pc[r] \in Midcall
           /\ pc' = Set(pc, r, IF pc[r] = "unused-reduce" THEN "unused" ELSE "backward")
           /\ UNCHANGED <<at, todo>>
    BY <1>0, <1>6, AverageBuckets
  <2>2. PICK k \in DOMAIN Buckets[b] :
           /\ red[r] = <<b, k>> /\ red'[r] = <<b, k + 1>> /\ pending' = pending
           /\ pc[r] \in Midcall
           /\ pc' = Set(pc, r, IF pc[r] = "unused-reduce" THEN "unused" ELSE "backward")
           /\ UNCHANGED <<at, todo>>
    BY <2>1
  <2>3. pc'[r] = IF pc[r] = "unused-reduce" THEN "unused" ELSE "backward"
    BY <1>0, <2>2, PcIs
  <2>4. red[r] # None /\ red[r][1] = b /\ red[r][2] = k /\ red'[r] # None /\ red'[r][1] = b /\ red'[r][2] = k + 1
    BY <2>2 DEF None
  <2>5. Clocked(r)'
    BY <1>0, <1>1, <1>2, <2>2, <2>3, <2>4, ClockedKept DEF Marking, Backward, Midcall
  <2>6. k \in Nat
    BY BucketFacts
  <2>7. ASSUME NEW i, NEW d, NEW l, IsCall(r, i, d, l) PROVE CallMade(r, d, l)' <=> CallMade(r, d, l)
    <3>1. d # 0 => l \in Nat
      BY <1>0, <2>7, CallTypes
    <3>2. d # 0 => (l < k + 1 <=> l < k \/ l = k)
      BY ONLY <2>6, <3>1
    <3>3. Busy(r) /\ Busy(r)' /\ pc[r] # "forward" /\ pc'[r] # "forward" /\ pc'[r] \notin Midcall
      BY <2>2, <2>3 DEF Busy, Midcall
    <3> QED BY <2>2, <2>4, <3>2, <3>3 DEF CallMade
  <2>8. pc[r] # "raised"
    BY <2>2 DEF Midcall
  <2>9. Counted(r)'
    <3>1. \A i, d, l : IsCall(r, i, d, l) => (i < iter[r] \/ (i = iter[r] /\ CallMade(r, d, l))
                                              <=> i < iter'[r] \/ (i = iter'[r] /\ CallMade(r, d, l)'))
      BY <1>1, <2>7
    <3> QED BY <1>0, <1>1, <1>2, <2>8, <3>1, MadeKept
  <2> QED BY <1>3, <2>5, <2>9 DEF Scripted
<1>7. CASE Reduced(r)
  <2>1. /\ pc[r] \in {"unused", "backward"} /\ red[r] # None /\ red[r][2] \notin DOMAIN Buckets[red[r][1]]
        /\ UNCHANGED <<at, todo, pending, pc>> /\ Sets(red, red', r, None)
    BY <1>7 DEF Reduced, Reducing, Set, Sets
  <2>2. red'[r] = None
    BY <1>0, <2>1, SetsOneRank DEF LocalTypes
  <2>3. Clocked(r)'
    BY <1>0, <1>1, <1>2, <2>1, <2>2, ClockedKept
  <2>4. PICK b \in DOMAIN Buckets : \E k \in 1 .. Len(Buckets[b]) + 1 : red[r] = <<b, k>>
    BY <1>0, <2>1 DEF RankTypes, RedTypes
  <2>5. PICK k \in 1 .. Len(Buckets[b]) + 1 : red[r] = <<b, k>>
    BY <2>4
  <2>6. red[r][1] = b /\ red[r][2] = k /\ \A l \in DOMAIN Buckets[b] : l < k
    <3>1. red[r][1] = b /\ red[r][2] = k /\ k \notin DOMAIN Buckets[b]
      BY <2>1, <2>5
    <3>2. DOMAIN Buckets[b] = 1 .. Len(Buckets[b]) /\ Len(Buckets[b]) \in Nat
      BY BucketFacts
    <3> QED BY <3>1, <3>2
  <2>7. ASSUME NEW i, NEW d, NEW l, IsCall(r, i, d, l) PROVE CallMade(r, d, l)' <=> CallMade(r, d, l)
    <3>1. d = b /\ d # 0 => l < k
      BY <2>6, <2>7 DEF IsCall
    <3> QED BY <2>1, <2>2, <2>6, <3>1 DEF CallMade, Busy
  <2>8. pc[r] # "raised"
    BY <2>1
  <2>9. Counted(r)'
    <3>1. \A i, d, l : IsCall(r, i, d, l) => (i < iter[r] \/ (i = iter[r] /\ CallMade(r, d, l))
                                              <=> i < iter'[r] \/ (i = iter'[r] /\ CallMade(r, d, l)'))
      BY <1>1, <2>7
    <3> QED BY <1>0, <1>1, <1>2, <2>8, <3>1, MadeKept
  <2> QED BY <1>3, <2>3, <2>9 DEF Scripted
<1> QED BY <1>4, <1>5, <1>6, <1>7

LEMMA BroadcastScripted ==
  ASSUME Locked, NEW r \in Ranks, Begins(r), Scripted(r), BroadcastBuffers(r)
  PROVE  Scripted(r)'
<1>0. /\ LocalTypes /\ program \in Programs /\ RankTypes(r) /\ Stepping(r) /\ program' = program /\ config' = config
      /\ Shapes /\ Sequence(given[r]) /\ RankStep(r)
  BY KeepsOthers DEF Locked, TypesInv, LocalInv, RankLocal, OthersKept, RankStep, Calls, Shapes
<1>1. Labelled(r) /\ Counted(r) /\ iter[r] \in Nat
  BY <1>0 DEF Scripted, Stepping
<1>2. /\ pc[r] = "forward" /\ iter[r] <= Len(program[r]) /\ config.buffers /\ N > 1
      /\ Begin(r, "broadcast", {<<r, Buffers, iter[r]>>}, Buffers)
      /\ pc' = Set(pc, r, "prepare") /\ iter' = iter
  BY DEF BroadcastBuffers
<1>3. pc'[r] = "prepare"
  BY <1>0, <1>2, PcIs
<1>4. PICK i : i = iter[r]
  OBVIOUS
<1>5. IsCall(r, i, 0, 1)
  <2>1. i \in 1 .. Len(program[r])
    BY <1>2, <1>4, CurrentPlan DEF Locked
  <2> QED BY <1>2, <2>1 DEF IsCall
<1>6. PICK c : c = given'[r][Len(given[r]) + 1]
  OBVIOUS
<1>7. /\ Len(given'[r]) = Len(given[r]) + 1 /\ \A n \in 1 .. Len(given[r]) : given'[r][n] = given[r][n]
      /\ c.op = "broadcast" /\ c.tensor = Buffers
  <2>1. "broadcast" \in Group!Ops
    BY DEF Group!Ops
  <2>2. PICK v : v = {<<r, Buffers, iter[r]>>}
    OBVIOUS
  <2> QED BY <1>0, <1>2, <1>6, <2>1, <2>2, BeginEffect
<1>8. Names(c, 0, 1)
  BY <1>7 DEF Names
<1>9. ASSUME NEW d, NEW l, IsCall(r, i, d, l)
      PROVE  /\ CallMade(r, d, l)' <=> CallMade(r, d, l) \/ (d = 0 /\ l = 1)
             /\ CallMade(r, d, l)' <=> UpToCall(r, i, d, l, i, 0, 1)
  <2>1. CASE d = 0
    <3>1. l = 1
      <4>1. 0 \notin DOMAIN Buckets
        BY BucketFacts
      <4> QED BY <1>9, <2>1, <4>1 DEF IsCall
    <3> QED BY <1>2, <1>3, <2>1, <3>1 DEF CallMade, UpToCall
  <2>2. CASE d # 0
    <3>1. ~(i < i)
      BY <1>1, <1>4
    <3> QED BY <1>2, <1>3, <2>2, <3>1 DEF CallMade, Busy, UpToCall, Earlier
  <2> QED BY <2>1, <2>2
<1>10. ~CallMade(r, 0, 1)
  BY <1>2 DEF CallMade
<1>11. Labelled(r)' /\ Counted(r)'
  BY <1>0, <1>1, <1>2, <1>4, <1>5, <1>6, <1>7, <1>8, <1>9, <1>10, MadeMore
<1> QED BY <1>3, <1>11 DEF Scripted, Clocked, Busy

LEMMA ReduceScripted ==
  ASSUME Locked, NEW r \in Ranks, Begins(r), Scripted(r), Reduce(r)
  PROVE  Scripted(r)' /\ Numbered(r, Len(given'[r]), iter[r], red[r][1], red[r][2])
<1>0. /\ LocalTypes /\ program \in Programs /\ RankTypes(r) /\ Stepping(r) /\ Unsynced(r)
      /\ program' = program /\ config' = config
      /\ Shapes /\ Sequence(given[r]) /\ RankStep(r)
  BY KeepsOthers DEF Locked, TypesInv, LocalInv, RankLocal, OthersKept, RankStep, Calls, Shapes
<1>1. Labelled(r) /\ Counted(r) /\ Clocked(r) /\ iter[r] \in Nat
  BY <1>0 DEF Scripted, Stepping
<1>2. /\ pc[r] \in {"unused", "backward"} /\ red[r] # None /\ red[r][2] \in DOMAIN Buckets[red[r][1]]
      /\ UNCHANGED <<iter, at, todo, pending, red>>
      /\ pc' = Set(pc, r, IF pc[r] = "unused" THEN "unused-reduce" ELSE "backward-reduce")
      /\ \E v : Begin(r, "allreduce", v, Slot(r))
  BY DEF Reduce, Reducing
<1>3. pc'[r] = IF pc[r] = "unused" THEN "unused-reduce" ELSE "backward-reduce"
  BY <1>0, <1>2, PcIs
<1>4. PICK i : i = iter[r]
  OBVIOUS
<1>5. i <= Len(program[r]) /\ Now(r).sync
  BY <1>0, <1>2, <1>4 DEF Stepping, Unsynced
<1>6. /\ i \in 1 .. Len(program[r]) /\ Plan(r, i).uses \in Seq(Params) /\ Once(Plan(r, i).uses) /\ Plan(r, i).sync /\ Clean(r, i)
  BY <1>4, <1>5, CurrentPlan DEF Locked, Now
<1>7. PICK b \in DOMAIN Buckets : \E k \in 1 .. Len(Buckets[b]) + 1 : red[r] = <<b, k>>
  BY <1>0, <1>2 DEF RankTypes, RedTypes
<1>8. PICK k \in DOMAIN Buckets[b] : red[r] = <<b, k>> /\ red[r][1] = b /\ red[r][2] = k
  BY <1>2, <1>7
<1>9. b # 0
  BY BucketFacts
<1>10. IsCall(r, i, b, k)
  BY <1>6 DEF IsCall
<1>11. PICK t \in Int : Clock(r, t)
  BY <1>1, <1>2, <1>5 DEF Clocked, Busy
<1>12. /\ FilledAt(r, i, b) = t
       /\ \A d \in DOMAIN Buckets : pending[r][d] = 0 <=> FilledAt(r, i, d) <= t
  <2>1. \A d \in DOMAIN Buckets : pending[r][d] = Cardinality(Waiting(r, i, d, t))
    BY <1>4, <1>11 DEF Clock, Waiting
  <2> QED BY <1>2, <1>4, <1>6, <1>8, <1>11, <2>1, WaitingFacts DEF Clock
<1>13. PICK c : c = given'[r][Len(given[r]) + 1]
  OBVIOUS
<1>14. /\ Len(given'[r]) = Len(given[r]) + 1 /\ \A n \in 1 .. Len(given[r]) : given'[r][n] = given[r][n]
       /\ c.op = "allreduce" /\ c.tensor = Buckets[b][k]
  <2>1. "allreduce" \in Group!Ops
    BY DEF Group!Ops
  <2>2. PICK v : Begin(r, "allreduce", v, Slot(r))
    BY <1>2
  <2>3. Slot(r) = Buckets[b][k]
    BY <1>8 DEF Slot
  <2> QED BY <1>0, <1>13, <2>1, <2>2, <2>3, BeginEffect
<1>15. Names(c, b, k)
  BY <1>9, <1>14 DEF Names
<1>16. pc[r] \notin Midcall /\ pc'[r] \in Midcall /\ Busy(r) /\ Busy(r)' /\ pc[r] # "forward" /\ pc'[r] # "forward"
  BY <1>2, <1>3 DEF Busy, Midcall
<1>17. ASSUME NEW d, NEW l, IsCall(r, i, d, l)
       PROVE  /\ CallMade(r, d, l)' <=> CallMade(r, d, l) \/ (d = b /\ l = k)
              /\ CallMade(r, d, l)' <=> UpToCall(r, i, d, l, i, b, k)
  <2>0. ~(i < i)
    BY <1>1, <1>4
  <2>1. CASE d = 0
    BY <1>9, <1>16, <2>1 DEF CallMade, UpToCall, Earlier
  <2>2. CASE d = b
    <3>1. pending[r][b] = 0 /\ ~Earlier(r, i, b, b)
      BY <1>12, <1>9 DEF Earlier
    <3>2. k \in Nat /\ l \in Nat
      BY <1>10, <1>17, CallTypes, <1>0
    <3>3. CallMade(r, d, l) <=> l < k
      BY <1>2, <1>8, <1>9, <1>16, <2>2, <3>1 DEF CallMade
    <3>4. CallMade(r, d, l)' <=> l < k \/ l = k
      BY <1>2, <1>8, <1>9, <1>16, <2>2, <3>1 DEF CallMade
    <3>5. UpToCall(r, i, d, l, i, b, k) <=> l <= k
      BY <2>0, <2>2, <3>1 DEF UpToCall
    <3> QED BY ONLY <2>2, <3>2, <3>3, <3>4, <3>5
  <2>3. CASE d # 0 /\ d # b
    <3>1. d \in DOMAIN Buckets
      BY <1>17, <2>3 DEF IsCall
    <3>2. CallMade(r, d, l) <=> pending[r][d] = 0
      BY <1>2, <1>8, <1>16, <2>3 DEF CallMade
    <3>3. CallMade(r, d, l)' <=> pending[r][d] = 0
      BY <1>2, <1>8, <1>16, <2>3 DEF CallMade
    <3>4. FilledAt(r, i, d) \in Int /\ FilledAt(r, i, d) # FilledAt(r, i, b)
      BY <1>0, <1>6, <1>9, <1>10, <1>17, <2>3, FillTimes
    <3>5. pending[r][d] = 0 <=> FilledAt(r, i, d) < FilledAt(r, i, b)
      BY <1>12, <3>1, <3>4
    <3>6. UpToCall(r, i, d, l, i, b, k) <=> FilledAt(r, i, d) < FilledAt(r, i, b)
      BY <1>9, <2>0, <2>3 DEF UpToCall, Earlier
    <3> QED BY <2>3, <3>2, <3>3, <3>5, <3>6
  <2> QED BY <2>1, <2>2, <2>3
<1>18. ~CallMade(r, b, k)
  <2>1. k \in Nat
    BY BucketFacts
  <2> QED BY <1>2, <1>8, <1>9, <1>16, <2>1 DEF CallMade
<1>19. pc[r] # "raised" /\ iter'[r] = iter[r]
  BY <1>2
<1>20. Labelled(r)' /\ Counted(r)' /\ Numbered(r, Len(given'[r]), iter[r], b, k)
  BY <1>0, <1>1, <1>4, <1>10, <1>13, <1>14, <1>15, <1>17, <1>18, <1>19, MadeMore
<1>21. Clocked(r)'
  BY <1>0, <1>1, <1>2, <1>3, ClockedKept DEF Marking, Backward
<1> QED BY <1>8, <1>20, <1>21 DEF Scripted

LEMMA BucketSize ==
  ASSUME NEW b \in DOMAIN Buckets
  PROVE  Cardinality(Range(Buckets[b])) = Len(Buckets[b])
<1>1. PICK s \in Seq(Params) : s = Buckets[b]
  BY BucketFacts
<1>2. \A k, l \in DOMAIN s : s[k] = s[l] => k = l
  <2>1. SUFFICES ASSUME NEW k \in DOMAIN s, NEW l \in DOMAIN s, s[k] = s[l] PROVE k = l
    OBVIOUS
  <2>2. s[k] \in Params
    OBVIOUS
  <2>3. PICK c \in DOMAIN Buckets : \E m \in DOMAIN Buckets[c] : \A d \in DOMAIN Buckets : \A n \in DOMAIN Buckets[d] :
          Buckets[d][n] = s[k] => d = c /\ n = m
    BY <2>2, ReducerAssumption
  <2> QED BY <1>1, <2>1, <2>3
<1>3. IsFiniteSet(1 .. Len(s)) /\ Cardinality(1 .. Len(s)) = Len(s)
  <2>1. PICK n \in Nat : n = Len(s)
    OBVIOUS
  <2>2. IsFiniteSet(1 .. n) /\ Cardinality(1 .. n) = n
    BY FS_Interval
  <2> QED BY <2>1, <2>2
<1>4. PICK T : T = Range(Buckets[b])
  OBVIOUS
<1>5. s \in [1 .. Len(s) -> T] /\ DOMAIN s = 1 .. Len(s)
  BY <1>1, <1>4 DEF Range
<1>6. \A x \in T : \E k \in 1 .. Len(s) : s[k] = x
  BY <1>1, <1>4, <1>5 DEF Range
<1>7. s \in Injection(1 .. Len(s), T) /\ s \in Surjection(1 .. Len(s), T)
  BY <1>2, <1>5, <1>6 DEF Injection, IsInjective, Surjection
<1> QED BY <1>1, <1>3, <1>4, <1>7, FS_Surjection

\* when backward is over, all buckets are filled
LEMMA FinishFilled ==
  ASSUME Locked, NEW r \in Ranks, Begins(r), Clocked(r), Finish(r), NEW d \in DOMAIN Buckets, Now(r).sync
  PROVE  pending[r][d] = 0
<1>1. pc[r] = "backward" /\ at[r] = Len(Now(r).uses) /\ Stepping(r)
  BY DEF Finish, Locked, TypesInv, LocalInv, RankLocal
<1>2. PICK i : i = iter[r]
  OBVIOUS
<1>3. Plan(r, i).uses \in Seq(Params) /\ Once(Plan(r, i).uses)
  BY <1>1, <1>2, CurrentPlan DEF Locked, Stepping
<1>4. PICK t \in Int : Clock(r, t)
  BY <1>1 DEF Clocked, Busy
<1>5. t = Len(Plan(r, i).uses) /\ pending[r][d] = Cardinality(Waiting(r, i, d, t))
  BY <1>1, <1>2, <1>4 DEF Clock, Waiting, Now
<1>6. FilledAt(r, i, d) <= t
  <2>1. PICK p \in Range(Buckets[d]) : ArrivesAt(r, i, p) = FilledAt(r, i, d)
    BY <1>3, FilledFacts
  <2>2. p \in Params
    BY BucketFacts
  <2>3. t \in Nat
    BY <1>3, <1>5
  <2>4. ArrivesAt(r, i, p) < 0 \/ ArrivesAt(r, i, p) \in 1 .. t
    BY <1>3, <1>5, <2>2, ArrivalFacts
  <2>5. ArrivesAt(r, i, p) \in Int
    BY <1>3, <2>2, ArrivalFacts
  <2> QED BY ONLY <2>1, <2>3, <2>4, <2>5
<1> QED BY <1>3, <1>5, <1>6, WaitingFacts

LEMMA FinishScripted ==
  ASSUME Locked, NEW r \in Ranks, Begins(r), Scripted(r), Finish(r)
  PROVE  Scripted(r)'
<1>0. /\ LocalTypes /\ program \in Programs /\ RankTypes(r) /\ Stepping(r)
      /\ program' = program /\ config' = config /\ RankStep(r)
  BY KeepsOthers DEF Locked, TypesInv, LocalInv, RankLocal, OthersKept, RankStep
<1>1. Labelled(r) /\ Counted(r) /\ Clocked(r) /\ iter[r] \in Nat
  BY <1>0 DEF Scripted, Stepping
<1>2. /\ pc[r] = "backward" /\ red[r] = None /\ at[r] = Len(Now(r).uses)
      /\ Sets(iter, iter', r, iter[r] + 1) /\ pc' = Set(pc, r, "forward") /\ given' = given
  BY DEF Finish, Set, Sets, glooVars
<1>3. pc'[r] = "forward" /\ iter'[r] = iter[r] + 1
  BY <1>0, <1>2, PcIs, SetsOneRank DEF LocalTypes
<1>4. PICK i \in Nat : i = iter[r]
  BY <1>1
<1>5. \A x \in Nat : x <= iter[r] => x <= iter'[r]
  <2>1. SUFFICES ASSUME NEW x \in Nat, x <= i PROVE x <= i + 1
    BY <1>3, <1>4
  <2> QED BY <2>1
<1>6. ASSUME NEW d, NEW l, IsCall(r, i, d, l) PROVE CallMade(r, d, l)
  <2>1. CASE d = 0
    BY <1>2, <2>1 DEF CallMade
  <2>2. CASE d # 0
    <3>1. d \in DOMAIN Buckets /\ Plan(r, i).sync
      BY <1>6, <2>2 DEF IsCall
    <3>2. pending[r][d] = 0
      BY <1>1, <1>4, <3>1, FinishFilled DEF Now
    <3> QED BY <1>2, <2>2, <3>2 DEF CallMade, Busy
  <2> QED BY <2>1, <2>2
<1>7. ASSUME NEW j, NEW d, NEW l, IsCall(r, j, d, l)
      PROVE  j < iter[r] \/ (j = iter[r] /\ CallMade(r, d, l))
               <=> j < iter'[r] \/ (j = iter'[r] /\ CallMade(r, d, l)')
  <2>1. j \in Nat
    BY <1>0, <1>7, CallTypes
  <2>2. ~CallMade(r, d, l)'
    BY <1>3 DEF CallMade, Busy
  <2>3. j = i => CallMade(r, d, l)
    BY <1>6, <1>7
  <2>4. j < i \/ (j = i /\ CallMade(r, d, l)) <=> j < i + 1
    BY ONLY <2>1, <2>3, i \in Nat
  <2> QED BY <1>3, <1>4, <2>2, <2>4
<1>8. Counted(r)'
  <2>1. pc[r] # "raised" /\ given'[r] = given[r]
    BY <1>2
  <2> QED BY <1>0, <1>1, <1>7, <2>1, MadeKept
<1>9. Labelled(r)'
  BY <1>0, <1>1, <1>2, <1>5, LabelledKept
<1> QED BY <1>3, <1>8, <1>9 DEF Scripted, Clocked, Busy

\* steps that make no call and stay in the iteration
LEMMA NoCall ==
  ASSUME program \in Programs, NEW r \in Ranks, program' = program, config' = config, given' = given, iter' = iter, pc[r] # "raised",
         Labelled(r), Counted(r), Clocked(r)',
         \A d, l : IsCall(r, iter[r], d, l) => (CallMade(r, d, l)' <=> CallMade(r, d, l)),
         iter[r] \in Nat
  PROVE  Scripted(r)'
<1>1. Labelled(r)'
  BY LabelledKept
<1>2. Counted(r)'
  BY MadeKept
<1> QED BY <1>1, <1>2 DEF Scripted

LEMMA PrepareScripted ==
  ASSUME Locked, NEW r \in Ranks, Begins(r), Scripted(r), Cached(r), Prepare(r)
  PROVE  Scripted(r)'
<1>0. /\ LocalTypes /\ program \in Programs /\ RankTypes(r) /\ Stepping(r)
      /\ program' = program /\ config' = config /\ RankStep(r)
  BY KeepsOthers DEF Locked, TypesInv, LocalInv, RankLocal, OthersKept, RankStep
<1>1. Labelled(r) /\ Counted(r) /\ iter[r] \in Nat
  BY <1>0 DEF Scripted, Stepping
<1>2. /\ pc[r] = "prepare" \/ (pc[r] = "forward" /\ iter[r] <= Len(program[r]) /\ ~(config.buffers /\ N > 1))
      /\ Sets(pending, pending', r, ResetPending)
      /\ UNCHANGED <<given, iter, at, red>>
      /\ IF Syncs(r) /\ Scans
         THEN pc' = Set(pc, r, "unused") /\
              Sets(todo, todo', r, IF config.static /\ cache[r] # None THEN cache[r][1] ELSE Idle(r, iter[r]))
         ELSE pc' = Set(pc, r, "backward")
  BY DEF Prepare, Set, Sets, glooVars
<1>3. pending'[r] = ResetPending
  BY <1>0, <1>2, SetsOneRank DEF LocalTypes
<1>4. /\ Syncs(r) /\ Scans => /\ pc'[r] = "unused"
                              /\ todo'[r] = IF config.static /\ cache[r] # None THEN cache[r][1] ELSE Idle(r, iter[r])
      /\ ~(Syncs(r) /\ Scans) => pc'[r] = "backward"
  <2>1. CASE Syncs(r) /\ Scans
    <3>1. todo'[r] = IF config.static /\ cache[r] # None THEN cache[r][1] ELSE Idle(r, iter[r])
      <4>1. PICK v : v = IF config.static /\ cache[r] # None THEN cache[r][1] ELSE Idle(r, iter[r])
        OBVIOUS
      <4>2. Sets(todo, todo', r, v)
        BY <1>2, <2>1, <4>1
      <4> QED BY <1>0, <4>1, <4>2, SetsOneRank DEF LocalTypes
    <3> QED BY <1>0, <1>2, <2>1, <3>1, PcIs
  <2>2. CASE ~(Syncs(r) /\ Scans)
    BY <1>0, <1>2, <2>2, PcIs
  <2> QED BY <2>1, <2>2
<1>5. PICK i \in Nat : i = iter[r]
  BY <1>1
<1>6. i <= Len(program[r]) /\ at[r] = 0 /\ red[r] = None
  BY <1>0, <1>2, <1>5 DEF Stepping
<1>7. ASSUME NEW d, NEW l, IsCall(r, iter[r], d, l) PROVE CallMade(r, d, l)' <=> CallMade(r, d, l)
  <2>1. pc'[r] # "forward"
    BY <1>4
  <2>2. CASE d = 0
    <3>1. pc[r] # "forward"
      <4>1. 0 \notin DOMAIN Buckets
        BY BucketFacts
      <4> QED BY <1>2, <1>7, <2>2, <4>1 DEF IsCall
    <3> QED BY <2>1, <2>2, <3>1 DEF CallMade
  <2>3. CASE d # 0
    <3>1. d \in DOMAIN Buckets
      BY <1>7, <2>3 DEF IsCall
    <3>2. pending'[r][d] # 0
      BY <1>3, <3>1, BucketFacts DEF ResetPending
    <3> QED BY <1>2, <2>3, <3>2 DEF CallMade, Busy
  <2> QED BY <2>2, <2>3
<1>8. Clocked(r)'
  <2>1. SUFFICES ASSUME Now(r).sync' PROVE \E t \in Int : Clock(r, t)'
    BY DEF Clocked
  <2>2. Now(r)' = Now(r)
    BY <1>0, <1>2, ScriptKept DEF Now
  <2>3. Syncs(r)
    BY <2>1, <2>2 DEF Syncs
  <2>4. /\ i \in 1 .. Len(program[r]) /\ Plan(r, i).uses \in Seq(Params) /\ Once(Plan(r, i).uses)
        /\ Orderly(i)
    BY <1>5, <1>6, <2>3, CurrentPlan DEF Locked, Syncs
  <2>5. \A p : ArrivesAt(r, i, p)' = ArrivesAt(r, i, p)
    BY <1>0, ScriptKept
  <2>6. ASSUME NEW t \in Int, NEW b \in DOMAIN Buckets, \A p \in Params : ArrivesAt(r, i, p) > t
        PROVE  pending'[r][b] = Cardinality({p \in Range(Buckets[b]) : ArrivesAt(r, i, p) > t})
    <3>1. {p \in Range(Buckets[b]) : ArrivesAt(r, i, p) > t} = Range(Buckets[b])
      BY <2>6, BucketFacts
    <3>2. Cardinality(Range(Buckets[b])) = Len(Buckets[b])
      BY BucketSize
    <3> QED BY <1>3, <3>1, <3>2 DEF ResetPending
  <2>7. red'[r] = None /\ at'[r] = 0 /\ iter'[r] = i
    BY <1>2, <1>5, <1>6
  <2>8. CASE Scans
    <3>1. PICK m \in Nat : Params # {} => m = Max(Params)
      <4>1. CASE Params = {}
        <5>1. 0 \in Nat
          OBVIOUS
        <5> QED BY <4>1, <5>1
      <4>2. CASE Params # {}
        BY <4>2, TurnFacts
      <4> QED BY <4>1, <4>2
    <3>2. PICK t \in Int : t = 0 - m - 2
      OBVIOUS
    <3>3. \A p \in Params : ArrivesAt(r, i, p) > t /\ (ArrivesAt(r, i, p) < 0 <=> p \in Idle(r, i))
      <4>1. SUFFICES ASSUME NEW p \in Params PROVE ArrivesAt(r, i, p) > t /\ (ArrivesAt(r, i, p) < 0 <=> p \in Idle(r, i))
        OBVIOUS
      <4>2. /\ ArrivesAt(r, i, p) \in Int
            /\ p \in Idle(r, i) => ArrivesAt(r, i, p) < 0 /\ ArrivesAt(r, i, p) > -2 - m
            /\ p \notin Idle(r, i) => ArrivesAt(r, i, p) \in 1 .. Len(Plan(r, i).uses)
        BY <2>4, <3>1, ArrivalFacts
      <4>3. Len(Plan(r, i).uses) \in Nat
        BY <2>4
      <4> QED BY ONLY <3>1, <3>2, <4>2, <4>3
    <3>4. todo'[r] = Idle(r, i)
      <4>1. CASE config.static /\ cache[r] # None
        <5>1. PICK j \in Nat : Scanned(r, j) /\ cache[r][1] = Idle(r, j)
          BY <1>2, <4>1 DEF Cached
        <5>2. j \in 1 .. i /\ Plan(r, j).sync
          BY <1>5, <5>1 DEF Scanned
        <5>3. Range(Plan(r, j).uses) = Range(Plan(r, i).uses)
          BY <2>4, <4>1, <5>2 DEF Orderly
        <5> QED BY <1>4, <2>3, <2>8, <4>1, <5>1, <5>3 DEF Idle
      <4>2. CASE ~(config.static /\ cache[r] # None)
        BY <1>4, <1>5, <2>3, <2>8, <4>2
      <4> QED BY <4>1, <4>2
    <3>5. t < 0 /\ \A p \in Params : p \in todo'[r] <=> t < ArrivesAt(r, i, p) /\ ArrivesAt(r, i, p) < 0
      BY <3>1, <3>2, <3>3, <3>4
    <3>6. pc'[r] = "unused"
      BY <1>4, <2>3, <2>8
    <3>7. \A b \in DOMAIN Buckets : pending'[r][b] = Cardinality({p \in Range(Buckets[b]) : ArrivesAt(r, i, p) > t})
      BY <2>6, <3>3
    <3>8. Clock(r, t)'
      BY <2>5, <2>7, <3>5, <3>6, <3>7 DEF Clock
    <3> QED BY <3>8
  <2>9. CASE ~Scans
    <3>1. Range(Plan(r, i).uses) = Params
      BY <2>4, <2>9 DEF Orderly
    <3>2. \A p \in Params : ArrivesAt(r, i, p) > 0
      <4>1. \A p \in Params : ArrivesAt(r, i, p) \in 1 .. Len(Plan(r, i).uses)
        BY <2>4, <3>1, ArrivalFacts DEF Idle
      <4>2. Len(Plan(r, i).uses) \in Nat
        BY <2>4
      <4> QED BY <4>1, <4>2
    <3>3. pc'[r] = "backward"
      BY <1>4, <2>9
    <3>4. \A b \in DOMAIN Buckets : pending'[r][b] = Cardinality({p \in Range(Buckets[b]) : ArrivesAt(r, i, p) > 0})
      BY <2>6, <3>2
    <3>5. Clock(r, 0)'
      BY <2>5, <2>7, <3>3, <3>4 DEF Clock
    <3> QED BY <3>5
  <2> QED BY <2>8, <2>9
<1> QED BY <1>0, <1>1, <1>2, <1>7, <1>8, NoCall

\* the plan of an iteration in which arrivals count
LEMMA ArrivalPlan ==
  ASSUME Locked, NEW r \in Ranks, Begins(r), Clocked(r), pc[r] \in {"unused", "backward"},
         Now(r).sync \/ pc[r] = "unused"
  PROVE  /\ iter[r] \in Nat \ {0} /\ iter[r] \in 1 .. Len(program[r]) /\ Plan(r, iter[r]).sync /\ Now(r).sync
         /\ Plan(r, iter[r]).uses \in Seq(Params) /\ Once(Plan(r, iter[r]).uses) /\ Orderly(iter[r])
         /\ \E t \in Int : Clock(r, t)
<1>1. Stepping(r) /\ Unsynced(r)
  BY DEF Locked, TypesInv, LocalInv, RankLocal
<1>2. iter[r] <= Len(program[r])
  BY <1>1 DEF Stepping
<1>3. Now(r).sync
  BY <1>1, <1>2 DEF Unsynced
<1>4. \E t \in Int : Clock(r, t)
  BY <1>3 DEF Clocked, Busy
<1> QED BY <1>2, <1>3, <1>4, CurrentPlan DEF Locked, Now

\* after an arrival, before the next
LEMMA ArrivedScripted ==
  ASSUME Locked, NEW r \in Ranks, Scripted(r), RankStep(r), NEW i \in Nat \ {0}, i = iter[r],
         Plan(r, i).uses \in Seq(Params), Once(Plan(r, i).uses), NEW t \in Int, Clock(r, t), red[r] = None,
         NEW p \in Params, NEW v, Arrive(r, p, v), NEW s \in Int, ArrivesAt(r, i, p) = s, t < s,
         \A x \in Params : t < ArrivesAt(r, i, x) => s <= ArrivesAt(r, i, x),
         pc' = pc, iter' = iter, given' = given, pc[r] \in {"unused", "backward"},
         pc[r] = "backward" => s = at'[r],
         pc[r] = "unused" =>
           s < 0 /\ at'[r] = 0 /\ \A x \in Params : x \in todo'[r] <=> s < ArrivesAt(r, i, x) /\ ArrivesAt(r, i, x) < 0
  PROVE  Scripted(r)'
<1>0. LocalTypes /\ program \in Programs /\ RankTypes(r) /\ program' = program /\ config' = config
  BY KeepsOthers DEF Locked, TypesInv, LocalInv, RankLocal, OthersKept
<1>1. /\ \A b \in DOMAIN Buckets : pending'[r][b] = Cardinality(Waiting(r, i, b, s))
      /\ red'[r] # None => FilledAt(r, i, red'[r][1]) = s
      /\ \A b, k : b # 0 /\ b \in DOMAIN Buckets /\ k \in DOMAIN Buckets[b] => (CallMade(r, b, k)' <=> CallMade(r, b, k))
  BY <1>0, ArriveClock
<1>2. /\ \A x : ArrivesAt(r, i, x)' = ArrivesAt(r, i, x)
      /\ \A b : FilledAt(r, i, b)' = FilledAt(r, i, b)
  BY <1>0, ScriptKept
<1>3. Clock(r, s)'
  BY <1>1, <1>2 DEF Clock, Waiting
<1>4. Clocked(r)'
  BY <1>3 DEF Clocked
<1>5. \A d, l : IsCall(r, iter[r], d, l) => (CallMade(r, d, l)' <=> CallMade(r, d, l))
  <2>1. SUFFICES ASSUME NEW d, NEW l, IsCall(r, i, d, l) PROVE CallMade(r, d, l)' <=> CallMade(r, d, l)
    OBVIOUS
  <2>2. CASE d = 0
    BY <2>2 DEF CallMade
  <2>3. CASE d # 0
    BY <1>1, <2>1, <2>3 DEF IsCall
  <2> QED BY <2>2, <2>3
<1>6. Labelled(r) /\ Counted(r) /\ pc[r] # "raised" /\ iter[r] \in Nat
  BY DEF Scripted
<1> QED BY <1>0, <1>4, <1>5, <1>6, NoCall

LEMMA MarkScripted ==
  ASSUME Locked, NEW r \in Ranks, Begins(r), Scripted(r), Cached(r), MarkUnused(r)
  PROVE  Scripted(r)'
<1>0. /\ LocalTypes /\ RankStep(r) /\ todo[r] \subseteq Params
  BY DEF Locked, TypesInv, LocalInv, RankStep, RankTypes, ListTypes
<1>1. pc[r] = "unused" /\ red[r] = None /\ UNCHANGED <<given, iter, pc, at>>
  BY DEF MarkUnused, glooVars
<1>2. PICK p \in todo[r] : /\ \A q \in todo[r] : Turn(r, p) <= Turn(r, q)
                           /\ Arrive(r, p, Zero) /\ Sets(todo, todo', r, todo[r] \ {p})
  BY DEF MarkUnused, Set, Sets
<1>3. todo'[r] = todo[r] \ {p}
  BY <1>0, <1>2, SetsOneRank DEF LocalTypes
<1>4. PICK i \in Nat \ {0} : /\ i = iter[r] /\ i \in 1 .. Len(program[r]) /\ Plan(r, i).sync
                             /\ Plan(r, i).uses \in Seq(Params) /\ Once(Plan(r, i).uses) /\ Orderly(i)
  BY <1>1, ArrivalPlan DEF Scripted
<1>5. PICK t \in Int : Clock(r, t)
  BY <1>1, ArrivalPlan DEF Scripted
<1>6. t < 0 /\ at[r] = 0 /\ \A x \in Params : x \in todo[r] <=> t < ArrivesAt(r, i, x) /\ ArrivesAt(r, i, x) < 0
  BY <1>1, <1>4, <1>5 DEF Clock
<1>7. ASSUME NEW x \in todo[r] PROVE Turn(r, x) = TurnAt(r, i, x)
  <2>1. CASE cache[r] = None
    <3>1. ~Again(r, i)
      <4>1. SUFFICES ASSUME config.static, NEW j \in 1 .. i - 1, Plan(r, j).sync PROVE FALSE
        BY DEF Again
      <4>2. PICK n \in Nat : n = Len(program[r])
        BY ProgramLength DEF Locked, TypesInv, LocalInv
      <4>3. j \in Nat /\ j < i /\ j \in 1 .. n
        BY <1>4, <4>2
      <4> QED BY <1>1, <1>4, <2>1, <4>1, <4>2, <4>3 DEF Cached, Scanned
    <3> QED BY <2>1, <3>1 DEF Turn, TurnAt
  <2>2. CASE cache[r] # None
    <3>1. config.static
      BY <1>1, <2>2 DEF Cached
    <3>2. PICK j \in Nat : Scanned(r, j) /\ cache[r][1] = Idle(r, j)
      BY <1>1, <2>2 DEF Cached
    <3>3. j \in 1 .. i - 1 /\ j \in 1 .. i /\ Plan(r, j).sync
      BY <1>1, <1>4, <3>2 DEF Scanned
    <3>4. Again(r, i) /\ Range(Plan(r, j).uses) = Range(Plan(r, i).uses)
      BY <1>4, <3>1, <3>3 DEF Again, Orderly
    <3> QED BY <2>2, <3>2, <3>4 DEF Turn, TurnAt, Idle
  <2> QED BY <2>1, <2>2
<1>8. \A x \in Params : /\ ArrivesAt(r, i, x) \in Int
                        /\ ArrivesAt(r, i, x) < 0 => ArrivesAt(r, i, x) = TurnAt(r, i, x) - Max(Params) - 1
                        /\ TurnAt(r, i, x) \in Nat /\ Max(Params) \in Nat
                        /\ ArrivesAt(r, i, x) = ArrivesAt(r, i, p) => x = p
  <2>1. SUFFICES ASSUME NEW x \in Params
                 PROVE  /\ ArrivesAt(r, i, x) \in Int
                        /\ ArrivesAt(r, i, x) < 0 => ArrivesAt(r, i, x) = TurnAt(r, i, x) - Max(Params) - 1
                        /\ TurnAt(r, i, x) \in Nat /\ Max(Params) \in Nat
                        /\ ArrivesAt(r, i, x) = ArrivesAt(r, i, p) => x = p
    OBVIOUS
  <2>2. p \in Params
    BY <1>0
  <2>3. ArrivesAt(r, i, x) < 0 => x \in Idle(r, i)
    <3>1. x \notin Idle(r, i) => ArrivesAt(r, i, x) \in 1 .. Len(Plan(r, i).uses)
      BY <1>4, ArrivalFacts
    <3> QED BY <3>1
  <2> QED BY <1>4, <2>2, <2>3, ArrivalFacts, TurnFacts
<1>9. PICK s \in Int : s = ArrivesAt(r, i, p)
  BY <1>0, <1>8
<1>10. t < s /\ s < 0
  BY <1>0, <1>6, <1>9
<1>11. ASSUME NEW x \in Params, t < ArrivesAt(r, i, x) PROVE s <= ArrivesAt(r, i, x)
  <2>1. CASE ArrivesAt(r, i, x) < 0
    <3>1. x \in todo[r]
      BY <1>6, <1>11, <2>1
    <3>2. TurnAt(r, i, p) <= TurnAt(r, i, x)
      BY <1>2, <1>7, <3>1
    <3>3. PICK a \in Nat, c \in Nat, m \in Nat : a = TurnAt(r, i, p) /\ c = TurnAt(r, i, x) /\ m = Max(Params)
      BY <1>0, <1>8
    <3>4. s = a - m - 1 /\ ArrivesAt(r, i, x) = c - m - 1
      BY <1>0, <1>8, <1>9, <1>10, <2>1, <3>3
    <3> QED BY ONLY <3>2, <3>3, <3>4
  <2>2. CASE ~(ArrivesAt(r, i, x) < 0)
    <3>1. ArrivesAt(r, i, x) \in Int
      BY <1>8
    <3> QED BY ONLY <1>9, <1>10, <2>2, <3>1
  <2> QED BY <2>1, <2>2
<1>12. \A x \in Params : x \in todo'[r] <=> s < ArrivesAt(r, i, x) /\ ArrivesAt(r, i, x) < 0
  <2>1. SUFFICES ASSUME NEW x \in Params PROVE x \in todo'[r] <=> s < ArrivesAt(r, i, x) /\ ArrivesAt(r, i, x) < 0
    OBVIOUS
  <2>2. PICK a \in Int : a = ArrivesAt(r, i, x)
    BY <1>8
  <2>3. /\ x \in todo[r] <=> t < a /\ a < 0
        /\ t < a => s <= a
        /\ a = s <=> x = p
    BY <1>6, <1>8, <1>9, <1>11, <2>2
  <2>4. x \in todo'[r] <=> x \in todo[r] /\ x # p
    BY <1>3
  <2>5. x \in todo'[r] <=> s < a /\ a < 0
    BY ONLY <1>10, <2>3, <2>4, a \in Int, s \in Int, t \in Int
  <2> QED BY <2>2, <2>5
<1>13. PICK v : v = Zero
  OBVIOUS
<1> QED BY <1>0, <1>1, <1>2, <1>4, <1>5, <1>6, <1>9, <1>10, <1>11, <1>12, <1>13, ArrivedScripted

LEMMA MarkedScripted ==
  ASSUME Locked, NEW r \in Ranks, Begins(r), Scripted(r), UnusedMarked(r)
  PROVE  Scripted(r)'
<1>0. /\ LocalTypes /\ program \in Programs /\ program' = program /\ config' = config /\ RankStep(r)
  BY KeepsOthers DEF Locked, TypesInv, LocalInv, RankLocal, OthersKept, RankStep
<1>1. /\ pc[r] = "unused" /\ red[r] = None /\ todo[r] = {} /\ pc' = Set(pc, r, "backward")
      /\ UNCHANGED <<given, iter, at, todo, pending, red>>
  BY DEF UnusedMarked, glooVars
<1>2. pc'[r] = "backward"
  BY <1>0, <1>1, PcIs
<1>3. PICK i \in Nat \ {0} : /\ i = iter[r] /\ Plan(r, i).uses \in Seq(Params) /\ Once(Plan(r, i).uses)
  BY <1>1, ArrivalPlan DEF Scripted
<1>4. PICK t \in Int : Clock(r, t)
  BY <1>1, ArrivalPlan DEF Scripted
<1>5. t < 0 /\ at[r] = 0 /\ \A x \in Params : ~(t < ArrivesAt(r, i, x) /\ ArrivesAt(r, i, x) < 0)
  BY <1>1, <1>3, <1>4 DEF Clock
<1>6. ASSUME NEW x \in Params PROVE ArrivesAt(r, i, x) > t <=> ArrivesAt(r, i, x) > 0
  <2>1. ArrivesAt(r, i, x) \in Int /\ (ArrivesAt(r, i, x) < 0 \/ ArrivesAt(r, i, x) \in 1 .. Len(Plan(r, i).uses))
    BY <1>3, ArrivalFacts
  <2>2. Len(Plan(r, i).uses) \in Nat
    BY <1>3
  <2> QED BY ONLY <1>5, <2>1, <2>2, t \in Int, x \in Params
<1>7. ASSUME NEW b \in DOMAIN Buckets
      PROVE  pending[r][b] = Cardinality({p \in Range(Buckets[b]) : ArrivesAt(r, i, p) > 0})
  <2>1. {p \in Range(Buckets[b]) : ArrivesAt(r, i, p) > t} = {p \in Range(Buckets[b]) : ArrivesAt(r, i, p) > 0}
    BY <1>6, BucketFacts
  <2> QED BY <1>3, <1>4, <2>1 DEF Clock
<1>8. \A p : ArrivesAt(r, i, p)' = ArrivesAt(r, i, p)
  BY <1>0, ScriptKept
<1>9. Clock(r, 0)'
  BY <1>1, <1>2, <1>3, <1>5, <1>7, <1>8 DEF Clock
<1>10. Clocked(r)'
  BY <1>9 DEF Clocked
<1>11. \A d, l : IsCall(r, iter[r], d, l) => (CallMade(r, d, l)' <=> CallMade(r, d, l))
  BY <1>1, <1>2 DEF CallMade, Busy
<1> QED BY <1>0, <1>1, <1>3, <1>10, <1>11, NoCall DEF Scripted

LEMMA HookScripted ==
  ASSUME Locked, NEW r \in Ranks, Begins(r), Scripted(r), Hook(r)
  PROVE  Scripted(r)'
<1>0. /\ LocalTypes /\ program \in Programs /\ RankLocal(r) /\ program' = program /\ config' = config /\ RankStep(r)
      /\ iter[r] \in Nat /\ at[r] \in Nat
  BY KeepsOthers DEF Locked, TypesInv, LocalInv, RankLocal, OthersKept, RankStep, Stepping
<1>1. /\ pc[r] = "backward" /\ red[r] = None /\ Sets(at, at', r, at[r] + 1)
      /\ UNCHANGED <<given, iter, pc>>
  BY DEF Hook, Set, Sets, glooVars
<1>2. PICK p \in Params : p = Now(r).uses[at[r] + 1]
  BY <1>0, ArrivingParam
<1>3. IF Now(r).sync THEN Arrive(r, p, Local(r, at[r] + 1)) ELSE UNCHANGED <<bgrads, pending, red>>
  BY <1>2 DEF Hook, Syncs
<1>4. at'[r] = at[r] + 1
  BY <1>0, <1>1, SetsOneRank DEF LocalTypes
<1>5. CASE Now(r).sync
  <2>1. PICK i \in Nat \ {0} : /\ i = iter[r] /\ Plan(r, i).uses \in Seq(Params) /\ Once(Plan(r, i).uses)
    BY <1>1, <1>5, ArrivalPlan DEF Scripted
  <2>2. PICK t \in Int : Clock(r, t)
    BY <1>1, <1>5, ArrivalPlan DEF Scripted
  <2>3. t = at[r]
    BY <1>1, <2>2 DEF Clock
  <2>4. PICK s \in Int : s = t + 1
    OBVIOUS
  <2>5. ArrivesAt(r, i, p) = s
    <3>1. s \in 1 .. Len(Plan(r, i).uses) /\ p = Plan(r, i).uses[s]
      BY <1>0, <1>2, <2>1, <2>3, <2>4, ArrivingParam DEF Now
    <3> QED BY <2>1, <3>1, ArrivalFacts
  <2>6. ASSUME NEW x \in Params, t < ArrivesAt(r, i, x) PROVE s <= ArrivesAt(r, i, x)
    <3>1. ArrivesAt(r, i, x) \in Int
      BY <2>1, ArrivalFacts
    <3> QED BY ONLY <2>4, <2>6, <3>1, t \in Int
  <2>7. PICK v : v = Local(r, at[r] + 1)
    OBVIOUS
  <2>8. pc[r] \in {"unused", "backward"} /\ t < s /\ at'[r] = s
    BY <1>1, <1>4, <2>3, <2>4
  <2> QED BY <1>0, <1>1, <1>3, <1>5, <2>1, <2>2, <2>5, <2>6, <2>7, <2>8, ArrivedScripted
<1>6. CASE ~Now(r).sync
  <2>1. UNCHANGED <<pending, red>>
    BY <1>3, <1>6
  <2>2. Now(r)' = Now(r)
    BY <1>0, <1>1, ScriptKept DEF Now
  <2>3. Clocked(r)'
    BY <1>6, <2>2 DEF Clocked
  <2>4. \A d, l : IsCall(r, iter[r], d, l) => (CallMade(r, d, l)' <=> CallMade(r, d, l))
    BY <1>1, <2>1 DEF CallMade, Busy
  <2> QED BY <1>0, <1>1, <2>3, <2>4, NoCall DEF Scripted
<1> QED BY <1>5, <1>6

LEMMA ActorScripted ==
  ASSUME Locked, NEW r \in Ranks, Begins(r), Scripted(r), Cached(r), RankStep(r)
  PROVE  Scripted(r)'
BY BroadcastScripted, PrepareScripted, MarkScripted, MarkedScripted, HookScripted, FinishScripted,
   ReduceScripted, QuietScripted DEF RankStep

\* a rank that does nothing
Rests(q) ==
  /\ program' = program /\ config' = config /\ given'[q] = given[q] /\ iter'[q] = iter[q] /\ pc'[q] = pc[q]
  /\ at'[q] = at[q] /\ todo'[q] = todo[q] /\ cache'[q] = cache[q] /\ pending'[q] = pending[q] /\ red'[q] = red[q]

LEMMA IdleScripted ==
  ASSUME program \in Programs, NEW q \in Ranks, Rests(q), Scripted(q)
  PROVE  Scripted(q)'
<1>1. Labelled(q) /\ Counted(q) /\ Clocked(q)
  BY DEF Scripted
<1>2. Labelled(q)'
  BY <1>1, LabelledKept DEF Rests
<1>3. Made(q)' = Made(q)
  BY ScriptKept DEF Made, CallMade, Busy, Rests
<1>4. Counted(q)'
  BY <1>1, <1>3 DEF Counted, Rests
<1>5. Clocked(q)'
  BY <1>1, ClockedKept DEF Rests
<1> QED BY <1>2, <1>4, <1>5 DEF Scripted

LEMMA IdleCached ==
  ASSUME NEW q, Rests(q), Cached(q)
  PROVE  Cached(q)'
<1>1. \A j : Scanned(q, j)' <=> Scanned(q, j)
  BY ScriptKept DEF Scanned, Rests
<1>2. pc[q] = "raised" => Cached(q)'
  BY DEF Cached, Rests
<1> QED BY <1>1, <1>2, CachedKept DEF Rests

LEMMA OthersRest ==
  ASSUME Locked, NEW r \in Ranks, RankStep(r), NEW q \in Ranks, q # r
  PROVE  Rests(q)
<1>1. OthersKept(r)
  BY KeepsOthers DEF Locked, TypesInv, LocalInv
<1>2. given'[q] = given[q]
  <2>1. CASE BroadcastBuffers(r) \/ Reduce(r)
    <3>1. \E op \in Group!Ops : \E v, x : Begin(r, op, v, x)
      BY <2>1 DEF BroadcastBuffers, Reduce, Group!Ops
    <3>2. PICK op \in Group!Ops : \E v, x : Begin(r, op, v, x)
      BY <3>1
    <3>3. PICK v, x : Begin(r, op, v, x)
      BY <3>2
    <3> QED BY <3>3, BeginEffect DEF Locked, Calls, Same
  <2>2. CASE Communicate(r)
    <3>1. GlooStep(r)
      BY <2>2 DEF Communicate
    <3> QED BY <3>1 DEF GlooStep, SendUp, Gather, Gathered, Scatter, Scattered, Receive, Returns
  <2>3. CASE ~(BroadcastBuffers(r) \/ Reduce(r) \/ Communicate(r))
    <3>1. given' = given
      BY <2>3 DEF RankStep, Prepare, MarkUnused, UnusedMarked, Hook, Finish, Raise, Average, Reduced, ReceiveFails, glooVars
    <3> QED BY <3>1
  <2> QED BY <2>1, <2>2, <2>3
<1> QED BY <1>1, <1>2 DEF OthersKept, OneRank, Same, Rests

LEMMA BeginsBefore ==
  ASSUME Locked, NEW r \in Ranks, RankStep(r), NEW q \in Ranks, Begins(q)'
  PROVE  Begins(q)
<1>1. program' = program /\ inStep' = inStep /\ LocalTypes /\ iter[r] \in Nat
  BY KeepsOthers DEF Locked, TypesInv, LocalInv, OthersKept, RankLocal, Stepping
<1>2. iter'[q] = iter[q] \/ (q = r /\ iter'[r] = iter[r] + 1)
  <2>1. CASE Finish(r)
    <3>1. Sets(iter, iter', r, iter[r] + 1)
      BY <2>1 DEF Finish, Set, Sets
    <3> QED BY <1>1, <3>1, SetsOneRank DEF LocalTypes, OneRank, Same
  <2>2. CASE ~Finish(r)
    <3>1. iter' = iter
      BY <2>2 DEF RankStep, BroadcastBuffers, Prepare, MarkUnused, UnusedMarked, Hook, Reduce, Raise, Average,
           Reduced, Communicate, ReceiveFails, setup, localVars
    <3> QED BY <3>1
  <2> QED BY <2>1, <2>2
<1>3. ASSUME NEW i \in DOMAIN program[q], i <= iter[q] PROVE i \in inStep
  <2>1. program \in ProgramType
    BY ReducerAssumption DEF Locked, TypesInv, LocalInv
  <2>2. DOMAIN program[q] = 1 .. Len(program[q])
    BY ONLY <2>1, q \in Ranks DEF ProgramType
  <2>3. Len(program[q]) \in Nat
    BY ProgramLength DEF Locked, TypesInv, LocalInv
  <2>4. i \in Int
    BY <2>2, <2>3
  <2>5. i <= iter'[q]
    <3>1. CASE iter'[q] = iter[q]
      BY <1>3, <3>1
    <3>2. CASE q = r /\ iter'[r] = iter[r] + 1
      BY <1>1, <1>3, <2>4, <3>2
    <3> QED BY <1>2, <3>1, <3>2
  <2> QED BY <1>1, <2>5 DEF Begins, Begun
<1> QED BY <1>3 DEF Begins, Begun

LEMMA LongestProgram ==
  ASSUME program \in Programs
  PROVE  Max({Len(program[r]) : r \in Ranks}) \in Nat
<1>1. PICK L : L = {Len(program[r]) : r \in Ranks}
  OBVIOUS
<1>2. L \subseteq Nat /\ L # {}
  BY <1>1, ProgramLength, RanksPeers
<1>3. IsFiniteSet(Ranks)
  BY WorldAssumption, FS_Interval DEF Ranks
<1>4. IsFiniteSet(L)
  <2>1. PICK lengths : lengths = [r \in Ranks |-> Len(program[r])]
    OBVIOUS
  <2>2. lengths \in Surjection(Ranks, L)
    BY <1>1, <2>1 DEF Surjection
  <2> QED BY <1>3, <2>2, FS_Surjection
<1>5. Max(L) \in L
  <2>1. L \subseteq Int
    BY <1>2
  <2> QED BY <1>2, <1>4, <2>1, FiniteMax
<1> QED BY <1>1, <1>2, <1>5

LEMMA InStepInit == ReducerInit => InStepSound
<1>1. SUFFICES ASSUME ReducerInit, NEW i \in inStep PROVE i \in Nat \ {0} /\ StaysInStep(i)
  BY DEF InStepSound
<1>2. PICK M \in Nat : M = Max({Len(program[r]) : r \in Ranks})
  BY <1>1, LongestProgram DEF ReducerInit
<1>3. i \in 1 .. M /\ StaysInStep(i)
  BY <1>1, <1>2 DEF ReducerInit
<1> QED BY <1>3

LEMMA ScriptedInit ==
  ASSUME ReducerInit, TypesInv, GlooInv, NEW r \in Ranks
  PROVE  Scripted(r) /\ Cached(r)
<1>1. /\ given[r] = << >> /\ pc[r] = "forward" /\ iter[r] = 1 /\ cache[r] = None
  BY DEF ReducerInit, GlooInit
<1>2. program \in Programs
  BY DEF ReducerInit
<1>3. Len(given[r]) = 0
  BY <1>1, SequenceEmpty
<1>4. Made(r) = {}
  <2>1. SUFFICES ASSUME NEW a \in Made(r) PROVE FALSE
    OBVIOUS
  <2>2. PICK x, y, z : x = a[1] /\ y = a[2] /\ z = a[3]
    OBVIOUS
  <2>3. IsCall(r, x, y, z) /\ (x < 1 \/ CallMade(r, y, z))
    BY <1>1, <2>2 DEF Made
  <2>4. Len(program[r]) \in Nat
    BY <1>2, ProgramLength
  <2>5. ~(x < 1)
    BY <2>3, <2>4 DEF IsCall
  <2> QED BY <1>1, <2>3, <2>5 DEF CallMade, Busy
<1>5. IsFiniteSet({}) /\ Cardinality({}) = 0
  BY FS_EmptySet
<1>6. Scripted(r)
  BY <1>1, <1>3, <1>4, <1>5 DEF Scripted, Labelled, Counted, Clocked, Busy
<1>7. Cached(r)
  <2>1. Len(program[r]) \in Nat
    BY <1>2, ProgramLength
  <2>2. \A j \in Nat : ~Scanned(r, j)
    BY <1>1, <2>1 DEF Scanned
  <2> QED BY <1>1, <2>2 DEF Cached
<1> QED BY <1>6, <1>7

ScriptInv == InStepSound /\ \A r \in Ranks : Cached(r) /\ (Begins(r) => Scripted(r))

LEMMA ScriptInvariant == ReducerSpec => []ScriptInv
<1>1. ReducerInit /\ TypesInv /\ GlooInv => ScriptInv
  BY InStepInit, ScriptedInit DEF ScriptInv
<1>2. ASSUME ScriptInv, TypesInv, GlooInv, [ReducerNext]_reducerVars PROVE ScriptInv'
  <2>0. Locked
    BY <1>2 DEF Locked, ScriptInv, GlooInv
  <2>1. CASE UNCHANGED reducerVars
    <3>1. /\ UNCHANGED <<given, iter, pc, at, todo, cache, pending, red>>
          /\ program' = program /\ config' = config /\ inStep' = inStep
      BY <2>1 DEF reducerVars, glooVars, setup, localVars
    <3>2. \A q \in Ranks : Rests(q) /\ (Begins(q)' <=> Begins(q))
      BY <3>1 DEF Rests, Begins, Begun
    <3>3. InStepSound'
      BY <1>2, <3>1, ScriptKept DEF ScriptInv, InStepSound
    <3> QED BY <1>2, <2>0, <3>2, <3>3, IdleScripted, IdleCached DEF ScriptInv, Locked, TypesInv, LocalInv
  <2>2. ASSUME NEW r \in Ranks, RankStep(r) PROVE ScriptInv'
    <3>1. program' = program /\ config' = config /\ inStep' = inStep
      BY <2>0, <2>2, KeepsOthers DEF Locked, TypesInv, LocalInv, OthersKept
    <3>2. InStepSound'
      BY <1>2, <3>1, ScriptKept DEF ScriptInv, InStepSound
    <3>3. ASSUME NEW q \in Ranks PROVE Cached(q)' /\ (Begins(q)' => Scripted(q)')
      <4>1. Cached(q) /\ (Begins(q)' => Begins(q) /\ Scripted(q))
        BY <1>2, <2>0, <2>2, BeginsBefore DEF ScriptInv
      <4>2. CASE q = r
        BY <1>2, <2>0, <2>2, <4>1, <4>2, CachedStep, ActorScripted
      <4>3. CASE q # r
        <5>1. Rests(q) /\ program \in Programs
          BY <2>0, <2>2, <4>3, OthersRest DEF Locked, TypesInv, LocalInv
        <5> QED BY <4>1, <5>1, IdleScripted, IdleCached
      <4> QED BY <4>2, <4>3
    <3> QED BY <3>2, <3>3 DEF ScriptInv
  <2> QED BY <1>2, <2>1, <2>2 DEF ReducerNext, Terminated
<1> QED BY <1>1, <1>2, TypesInvariant, GlooInvariant, PTL DEF ReducerSpec

\* CollectivesMatch: as long as two ranks have begun only iterations in step, their n-th
\* collectives are the same operation on the same tensor.
THEOREM CollectivesInOrder == ReducerSpec => []CollectivesMatch
<1>1. ASSUME ScriptInv, TypesInv, GlooInv PROVE CollectivesMatch
  <2>1. SUFFICES ASSUME NEW q \in Ranks, NEW r \in Ranks, Begun(q) \cup Begun(r) \subseteq inStep,
                        NEW n \in DOMAIN given[q] \cap DOMAIN given[r]
                 PROVE  given[q][n].op = given[r][n].op /\ given[q][n].tensor = given[r][n].tensor
    BY DEF CollectivesMatch
  <2>2. Begins(q) /\ Begins(r)
    BY <2>1 DEF Begins
  <2>3. Labelled(q) /\ Labelled(r) /\ InStepSound
    BY <1>1, <2>2 DEF ScriptInv, Scripted
  <2>4. n \in 1 .. Len(given[q]) /\ n \in 1 .. Len(given[r])
    BY <1>1, <2>1, Lengths DEF GlooInv, Calls
  <2>5. program \in Programs
    BY <1>1 DEF TypesInv, LocalInv
  <2> QED BY <2>2, <2>3, <2>4, <2>5, MatchFromLabels
<1> QED BY <1>1, ScriptInvariant, TypesInvariant, GlooInvariant, PTL

-----------------------------------------------------------------------------
(* What the collectives of the iterations in step carry                    *)

\* the parameters whose tensor no rank shares
Lone(i) == {p \in Params : \A q \in Ranks : Alone(q, p, i)}

Gives(r, c, i, b, k) ==
  Names(c, b, k) /\ (b # 0 /\ Buckets[b][k] \in Lone(i) => c.val = {<<r, Term(r, Buckets[b][k], i)>>})

\* The n-th call of r, if its program numbers a call of an iteration in step so, is that
\* call. A rank that has begun an iteration out of step has made all of those.
Numbering(r) == \A n \in 1 .. Len(given[r]) : \A i \in inStep : \A b, k :
                  Numbered(r, n, i, b, k) => Gives(r, given[r][n], i, b, k)
Left(r) == ~Begins(r) => \A i \in inStep : \A n, b, k : Numbered(r, n, i, b, k) => n <= Len(given[r])
Current(r) == pc[r] \in Midcall => Numbered(r, Len(given[r]), iter[r], red[r][1], red[r][2])

Closed == \A i \in inStep : \A j \in 1 .. i : j \in inStep

LEMMA BegunInStep ==
  ASSUME program \in Programs, NEW r \in Ranks, Begins(r), NEW i \in 1 .. Len(program[r]), i <= iter[r]
  PROVE  i \in inStep
<1>1. program \in ProgramType
  BY ReducerAssumption
<1>2. DOMAIN program[r] = 1 .. Len(program[r])
  BY ONLY <1>1, r \in Ranks DEF ProgramType
<1> QED BY <1>2 DEF Begins, Begun

LEMMA InStepClean ==
  ASSUME program \in Programs, InStepSound, NEW r \in Ranks, NEW i \in inStep
  PROVE  Clean(r, i)
<1>1. SUFFICES ASSUME i \in 1 .. Len(program[r]), Plan(r, i).sync PROVE Once(Plan(r, i).uses)
  BY DEF Clean
<1>2. StaysInStep(i) /\ i \in Nat \ {0} /\ i \in 1 .. i
  BY DEF InStepSound
<1>3. Orderly(i)
  BY <1>1, <1>2, InStep
<1> QED BY <1>3 DEF Orderly, Once

LEMMA NumberedSame ==
  ASSUME program \in Programs, InStepSound, NEW i \in inStep, NEW q \in Ranks, NEW r \in Ranks,
         NEW n, NEW b, NEW k, Numbered(r, n, i, b, k)
  PROVE  Numbered(q, n, i, b, k)
<1>1. StaysInStep(i) /\ i \in Nat \ {0}
  BY DEF InStepSound
<1>2. IsCall(q, i, b, k) /\ UpTo(q, i, b, k) = UpTo(r, i, b, k)
  BY <1>1, SameCalls DEF Numbered
<1> QED BY <1>2 DEF Numbered

LEMMA NumberedOnce ==
  ASSUME program \in Programs, InStepSound, NEW r \in Ranks, NEW i \in inStep, NEW j \in inStep,
         NEW n, NEW b, NEW k, NEW c, NEW l, Numbered(r, n, i, b, k), Numbered(r, n, j, c, l)
  PROVE  i = j /\ b = c /\ k = l
<1>1. Clean(r, i) /\ Clean(r, j)
  BY InStepClean
<1>2. /\ IsCall(r, i, b, k) /\ IsFiniteSet(UpTo(r, i, b, k)) /\ IsCall(r, j, c, l) /\ IsFiniteSet(UpTo(r, j, c, l))
      /\ Cardinality(UpTo(r, i, b, k)) = Cardinality(UpTo(r, j, c, l))
  BY DEF Numbered
<1> QED BY <1>1, <1>2, SameCount

\* Calls up to one that a rank has made while it was in step are the same on all ranks.
LEMMA LabelsAgree ==
  ASSUME program \in Programs, InStepSound, Shapes, \A q \in Ranks : Numbering(q),
         NEW r \in Ranks, Begins(r), Labelled(r), NEW h \in Nat, h <= Len(given[r])
  PROVE  Group!Agreed(h)
<1>1. SUFFICES ASSUME NEW p \in Ranks, NEW q \in Ranks, NEW n \in DOMAIN given[p] \cap DOMAIN given[q], n <= h
               PROVE  given[p][n].op = given[q][n].op
  BY RanksPeers DEF Group!Agreed
<1>2. n \in 1 .. Len(given[p]) /\ n \in 1 .. Len(given[q])
  BY <1>1, Lengths
<1>3. Len(given[r]) \in Nat /\ Len(given[p]) \in Nat
  BY Lengths
<1>4. n \in 1 .. Len(given[r])
  BY ONLY <1>1, <1>2, <1>3, h \in Nat, h <= Len(given[r])
<1>5. PICK i, b, k : Label(r, n, i, b, k)
  BY <1>4 DEF Labelled
<1>6. Numbered(r, n, i, b, k) /\ i \in inStep
  BY <1>5, BegunInStep DEF Label, Numbered, IsCall
<1>7. Numbered(p, n, i, b, k) /\ Numbered(q, n, i, b, k)
  BY <1>6, NumberedSame
<1>8. Names(given[p][n], b, k) /\ Names(given[q][n], b, k)
  BY <1>2, <1>6, <1>7 DEF Numbering, Gives
<1> QED BY <1>8 DEF Names

LEMMA SumOfTerms ==
  ASSUME NEW p, NEW i
  PROVE  Contributions(p, i) = Mean(UNION {{<<q, Term(q, p, i)>>} : q \in Ranks})
<1>1. {<<q, Term(q, p, i)>> : q \in Ranks} = UNION {{<<q, Term(q, p, i)>>} : q \in Ranks}
  OBVIOUS
<1> QED BY <1>1 DEF Contributions, Mean

\* a call that has returned was answered by rank 0
LEMMA AnsweredCall ==
  ASSUME Calls, NEW r \in Ranks, NEW n \in 1 .. Len(taken[r])
  PROVE  n \in 1 .. Len(given[0]) /\ (n <= Len(taken[0]) \/ phase[0] = "scatter")
<1>0. 0 \in Ranks
  BY RanksPeers
<1>1. PICK a \in Nat, b \in Nat, g \in Nat : a = Len(taken[0]) /\ b = Len(taken[r]) /\ g = Len(given[0])
  BY <1>0, CallBounds
<1>2. a <= g /\ n \in 1 .. b
  BY <1>0, <1>1, CallBounds
<1>3. CASE r = 0
  BY <1>1, <1>2, <1>3
<1>4. CASE r # 0
  <2>1. r \in Peers
    BY <1>4, RanksPeers
  <2>2. PICK d \in Nat : d = Len(down[r])
    BY <2>1, Lengths DEF Calls
  <2>3. CASE phase[0] = "scatter" /\ r < peer
    <3>1. b + d = a + 1
      BY <1>1, <2>1, <2>2, <2>3, DeliveredIs DEF Calls, Counts
    <3>2. g = a + 1
      BY <1>0, <1>1, <2>3, CallBounds
    <3>3. n \in 1 .. g
      BY ONLY <1>2, <3>1, <3>2, a \in Nat, b \in Nat, d \in Nat
    <3> QED BY <1>1, <2>3, <3>3
  <2>4. CASE ~(phase[0] = "scatter" /\ r < peer)
    <3>1. b + d = a + 0
      BY <1>1, <2>1, <2>2, <2>4, DeliveredIs DEF Calls, Counts
    <3>2. n \in 1 .. g /\ n <= a
      BY ONLY <1>2, <3>1, a \in Nat, b \in Nat, d \in Nat, g \in Nat
    <3> QED BY <1>1, <3>2
  <2> QED BY <2>3, <2>4
<1> QED BY <1>3, <1>4

\* What an all-reduce returned to a rank in step is the sum of its parameter's terms.
LEMMA ReturnedSum ==
  ASSUME program \in Programs, InStepSound, GlooInv, \A q \in Ranks : Numbering(q),
         NEW r \in Ranks, Begins(r), Labelled(r), phase[r] = "idle", given[r] # << >>,
         NEW i \in inStep, NEW b, NEW k, Numbered(r, Len(given[r]), i, b, k), b # 0, Buckets[b][k] \in Lone(i)
  PROVE  Answer(r) = UNION {{<<q, Term(q, Buckets[b][k], i)>>} : q \in Ranks}
<1>0. Calls /\ Shapes /\ 0 \in Ranks
  BY RanksPeers DEF GlooInv, Calls
<1>1. PICK n \in Nat : n = Len(given[r]) /\ n = Len(taken[r]) /\ n # 0
  BY <1>0, CallBounds, SequenceLen DEF Shapes
<1>2. Group!Agreed(n)
  <2>1. n <= Len(given[r])
    BY <1>1
  <2> QED BY <1>0, <2>1, LabelsAgree
<1>3. Exchanged(n)
  BY <1>2 DEF GlooInv
<1>4. n \in 1 .. Len(taken[r]) /\ n <= n
  BY <1>1
<1>5. n \in 1 .. Len(given[0]) /\ (n <= Len(taken[0]) \/ phase[0] = "scatter")
  BY <1>0, <1>4, AnsweredCall
<1>6. \A q \in Ranks : Numbered(q, n, i, b, k)
  BY <1>1, NumberedSame
<1>7. given[0][n].op = "allreduce"
  BY <1>0, <1>5, <1>6 DEF Numbering, Gives, Names
<1>8. taken[r][n] = OutcomeOf(given, "allreduce", n)
  BY <1>3, <1>4, <1>7 DEF Exchanged, Returned
<1>9. ASSUME NEW q \in Ranks PROVE given[q][n].val = {<<q, Term(q, Buckets[b][k], i)>>}
  <2>1. n <= Len(given[q])
    BY <1>0, <1>3, <1>4, <1>5, <1>7, SettledCalled DEF Exchanged
  <2>2. Len(given[q]) \in Nat
    BY <1>0, Lengths
  <2>3. n \in 1 .. Len(given[q])
    BY ONLY <1>1, <2>1, <2>2
  <2> QED BY <1>6, <2>3 DEF Numbering, Gives
<1>10. {given[q][n].val : q \in Ranks} = {{<<q, Term(q, Buckets[b][k], i)>>} : q \in Ranks}
  BY <1>9
<1> QED BY <1>1, <1>8, <1>10 DEF OutcomeOf, Answer

\* What a bucket holds: its averages up to the one under way, and before that what
\* has arrived from the rank itself
Averaged(r, b, k) == pending[r][b] = 0 /\ (red[r] = None \/ red[r][1] # b \/ k < red[r][2])
Held(r) == Busy(r) /\ Now(r).sync => \A b \in DOMAIN Buckets : \A k \in DOMAIN Buckets[b] :
  LET p == Buckets[b][k]
  IN  p \in Lone(iter[r]) =>
        /\ Averaged(r, b, k) => p \in DOMAIN bgrads[r][b] /\ bgrads[r][b][p] = Contributions(p, iter[r])
        /\ ~Averaged(r, b, k) /\ p \in DOMAIN bgrads[r][b] => bgrads[r][b][p].val = Term(r, p, iter[r])

\* the buckets whose averages are in param.grad
Written(r, b) == pending[r][b] = 0 /\ (red[r] = None \/ red[r][1] # b)
Grads(r) == Busy(r) /\ Now(r).sync => \A b \in DOMAIN Buckets : Written(r, b) => \A p \in Range(Buckets[b]) :
  p \in Lone(iter[r]) => grad[r][p] \in {<<Contributions(p, iter[r])>>, <<Contributions(p, iter[r]), Contributions(p, iter[r])>>}

Valued(r) == Held(r) /\ Grads(r)

LEMMA TermsKept ==
  ASSUME program' = program
  PROVE  /\ \A r, p, i : Term(r, p, i)' = Term(r, p, i)
         /\ \A p, i : Contributions(p, i)' = Contributions(p, i)
         /\ \A i : Lone(i)' = Lone(i)
<1>1. \A r, i : Plan(r, i)' = Plan(r, i)
  BY DEF Plan
<1>2. (\A r, i, p : Arrivals(r, i, p)' = Arrivals(r, i, p)) /\ (\A r, i, k : Name(r, i, k)' = Name(r, i, k))
  BY <1>1 DEF Arrivals, Name
<1>3. \A r, p, i : Term(r, p, i)' = Term(r, p, i)
  BY <1>2 DEF Term
<1>4. \A p, i : Contributions(p, i)' = Contributions(p, i)
  BY <1>3 DEF Contributions
<1>5. \A q, p, i : Alone(q, p, i)' <=> Alone(q, p, i)
  BY <1>1, <1>2 DEF Alone
<1> QED BY <1>3, <1>4, <1>5 DEF Lone

LEMMA ValuedKept ==
  ASSUME NEW r, program' = program, iter'[r] = iter[r], bgrads'[r] = bgrads[r], pending'[r] = pending[r],
         red'[r] = red[r], grad'[r] = grad[r], Busy(r)' => Busy(r), Valued(r)
  PROVE  Valued(r)'
<1>1. Now(r)' = Now(r) /\ (\A b, k : Averaged(r, b, k)' <=> Averaged(r, b, k)) /\ (\A b : Written(r, b)' <=> Written(r, b))
  BY DEF Now, Plan, Averaged, Written
<1>2. \A p : /\ Term(r, p, iter[r])' = Term(r, p, iter[r]) /\ Contributions(p, iter[r])' = Contributions(p, iter[r])
             /\ Lone(iter[r])' = Lone(iter[r])
  BY TermsKept
<1>3. Held(r)'
  BY <1>1, <1>2 DEF Valued, Held
<1>4. Grads(r)'
  BY <1>1, <1>2 DEF Valued, Grads
<1> QED BY <1>3, <1>4 DEF Valued

LEMMA PrepareValued ==
  ASSUME LocalTypes, NEW r \in Ranks, Prepare(r)
  PROVE  Valued(r)'
<1>1. Sets(pending, pending', r, ResetPending) /\ Sets(bgrads, bgrads', r, [b \in DOMAIN Buckets |-> << >>])
  BY DEF Prepare, Set, Sets
<1>2. pending'[r] = ResetPending
  BY <1>1, SetsOneRank DEF LocalTypes
<1>3. bgrads'[r] = [b \in DOMAIN Buckets |-> << >>]
  BY <1>1, SetsOneRank DEF LocalTypes
<1>4. \A b \in DOMAIN Buckets : pending'[r][b] # 0 /\ DOMAIN bgrads'[r][b] = {}
  BY <1>2, <1>3, BucketFacts DEF ResetPending
<1> QED BY <1>4 DEF Valued, Held, Grads, Averaged, Written

\* a bucket that is being reduced is full, and the gradient that filled it is its own
LEMMA RedFilled ==
  ASSUME Locked, NEW r \in Ranks, Begins(r), Clocked(r), Busy(r), red[r] # None
  PROVE  /\ iter[r] \in inStep /\ Now(r).sync /\ red[r][1] \in DOMAIN Buckets /\ pending[r][red[r][1]] = 0
         /\ pc[r] \in Backward => Now(r).uses[at[r]] \in Range(Buckets[red[r][1]])
<1>0. RankTypes(r) /\ Stepping(r) /\ Unsynced(r)
  BY DEF Locked, TypesInv, LocalInv, RankLocal
<1>1. iter[r] <= Len(program[r])
  BY <1>0 DEF Stepping, Busy
<1>2. Now(r).sync
  BY <1>0, <1>1 DEF Unsynced
<1>3. PICK i : i = iter[r]
  OBVIOUS
<1>4. i \in inStep /\ Plan(r, i).uses \in Seq(Params) /\ Once(Plan(r, i).uses)
  BY <1>1, <1>2, <1>3, CurrentPlan DEF Locked
<1>5. PICK b \in DOMAIN Buckets : red[r][1] = b
  BY <1>0 DEF RankTypes, RedTypes
<1>6. PICK t \in Int : Clock(r, t)
  BY <1>2 DEF Clocked
<1>7. FilledAt(r, i, b) = t /\ pending[r][b] = Cardinality(Waiting(r, i, b, t))
  BY <1>3, <1>5, <1>6 DEF Clock, Waiting
<1>8. pending[r][b] = 0
  BY <1>4, <1>7, WaitingFacts
<1>9. ASSUME pc[r] \in Backward PROVE Now(r).uses[at[r]] \in Range(Buckets[b])
  <2>1. t = at[r] /\ at[r] \in Nat
    BY <1>0, <1>6, <1>9 DEF Clock, Backward, Stepping
  <2>2. PICK p \in Range(Buckets[b]) : ArrivesAt(r, i, p) = t
    BY <1>4, <1>7, FilledFacts
  <2>3. p \in Params
    BY BucketFacts
  <2>4. p \notin Idle(r, i)
    <3>1. p \in Idle(r, i) => ArrivesAt(r, i, p) < 0
      BY <1>4, <2>3, ArrivalFacts
    <3> QED BY ONLY <2>1, <2>2, <3>1
  <2>5. Plan(r, i).uses[ArrivesAt(r, i, p)] = p
    BY <1>4, <2>3, <2>4, ArrivalFacts
  <2> QED BY <1>3, <2>1, <2>2, <2>5 DEF Now
<1> QED BY <1>2, <1>3, <1>4, <1>5, <1>8, <1>9

\* a bucket has a parameter at one position, and no other bucket has it
LEMMA OnePlace ==
  ASSUME NEW b \in DOMAIN Buckets, NEW c \in DOMAIN Buckets
  PROVE  /\ \A k \in DOMAIN Buckets[b], l \in DOMAIN Buckets[c] : Buckets[b][k] = Buckets[c][l] => b = c /\ k = l
         /\ \A p \in Range(Buckets[b]) : p \in Range(Buckets[c]) => b = c
<1>1. ASSUME NEW k \in DOMAIN Buckets[b], NEW l \in DOMAIN Buckets[c], Buckets[b][k] = Buckets[c][l] PROVE b = c /\ k = l
  <2>1. PICK x \in Params : x = Buckets[b][k]
    BY BucketFacts DEF Range
  <2>2. PICK d \in DOMAIN Buckets : \E m \in DOMAIN Buckets[d] :
          /\ Buckets[d][m] = x
          /\ \A e \in DOMAIN Buckets : \A n \in DOMAIN Buckets[e] : Buckets[e][n] = x => e = d /\ n = m
    BY ReducerAssumption
  <2> QED BY <1>1, <2>1, <2>2
<1>2. \A p \in Range(Buckets[b]) : p \in Range(Buckets[c]) => b = c
  BY <1>1 DEF Range
<1> QED BY <1>1, <1>2

LEMMA ArriveValued ==
  ASSUME LocalTypes, NEW r \in Ranks, RankTypes(r), Valued(r), Busy(r), red[r] = None, Now(r).sync,
         program' = program, iter' = iter, NEW p \in Params, NEW v, Arrive(r, p, v),
         p \in Lone(iter[r]) => v.val = Term(r, p, iter[r]), pending[r][BucketOf(p)] # 0,
         \A q \in Params : grad'[r][q] = grad[r][q] \/ q = p
  PROVE  Valued(r)'
<1>1. PICK b \in DOMAIN Buckets : b = BucketOf(p) /\ p \in Range(Buckets[b])
  BY BucketOfIs
<1>2. /\ pending'[r][b] = pending[r][b] - 1
      /\ \A c \in DOMAIN Buckets : c # b => pending'[r][c] = pending[r][c]
      /\ bgrads'[r][b] = Put(bgrads[r][b], p, v)
      /\ \A c \in DOMAIN Buckets : c # b => bgrads'[r][c] = bgrads[r][c]
      /\ red'[r] = (IF pending[r][b] = 1 THEN <<b, 1>> ELSE red[r])
  BY <1>1, ArriveBuckets DEF RankTypes
<1>3. PICK f, g : f = Put(bgrads[r][b], p, v) /\ g = bgrads[r][b]
  OBVIOUS
<1>4. /\ DOMAIN f = DOMAIN bgrads[r][b] \cup {p} /\ f[p] = v /\ \A q \in DOMAIN bgrads[r][b] : q # p => f[q] = bgrads[r][b][q]
  <2>1. f = Put(g, p, v)
    BY <1>3
  <2>2. /\ DOMAIN f = DOMAIN g \cup {p} /\ f[p] = v /\ \A q \in DOMAIN g : q # p => f[q] = g[q]
    BY ONLY <2>1 DEF Put
  <2> QED BY ONLY <1>3, <2>2
<1>5. pending[r][b] \in Int
  BY DEF RankTypes, BucketTypes
<1>6. \A k \in DOMAIN Buckets[b] : ~Averaged(r, b, k) /\ ~Averaged(r, b, k)'
  <2>1. SUFFICES ASSUME NEW k \in DOMAIN Buckets[b], pending'[r][b] = 0, red'[r] = None \/ red'[r][1] # b \/ k < red'[r][2]
                 PROVE  FALSE
    BY <1>1 DEF Averaged
  <2>2. red'[r] = <<b, 1>>
    BY <1>2, <1>5, <2>1
  <2>3. red'[r] # None /\ red'[r][1] = b /\ red'[r][2] = 1
    BY <2>2 DEF None
  <2>4. k \in Nat \ {0}
    BY BucketFacts
  <2> QED BY <2>1, <2>3, <2>4
<1>7. ~Written(r, b)'
  <2>1. CASE pending'[r][b] = 0
    <3>1. red'[r] = <<b, 1>>
      BY <1>2, <1>5, <2>1
    <3> QED BY <3>1 DEF Written, None
  <2> QED BY <2>1 DEF Written
<1>8. ASSUME NEW c \in DOMAIN Buckets, c # b
      PROVE  (\A k : Averaged(r, c, k)' <=> Averaged(r, c, k)) /\ (Written(r, c)' <=> Written(r, c))
  <2>1. pending'[r][c] = pending[r][c] /\ (red'[r] = None \/ red'[r][1] # c)
    BY <1>2, <1>8
  <2> QED BY <2>1 DEF Averaged, Written
<1>9. /\ \A q : /\ Term(r, q, iter[r])' = Term(r, q, iter[r]) /\ Contributions(q, iter[r])' = Contributions(q, iter[r])
               /\ Lone(iter[r])' = Lone(iter[r])
      /\ iter'[r] = iter[r]
  BY TermsKept
<1>10. Held(r)'
  <2>1. SUFFICES ASSUME NEW c \in DOMAIN Buckets, NEW k \in DOMAIN Buckets[c], NEW q, q = Buckets[c][k],
                        q \in Lone(iter[r])
                 PROVE  /\ Averaged(r, c, k)' => q \in DOMAIN bgrads'[r][c] /\ bgrads'[r][c][q] = Contributions(q, iter[r])
                        /\ ~Averaged(r, c, k)' /\ q \in DOMAIN bgrads'[r][c] =>
                             bgrads'[r][c][q].val = Term(r, q, iter[r])
    BY <1>9 DEF Held
  <2>2. /\ Averaged(r, c, k) => q \in DOMAIN bgrads[r][c] /\ bgrads[r][c][q] = Contributions(q, iter[r])
        /\ ~Averaged(r, c, k) /\ q \in DOMAIN bgrads[r][c] =>
             bgrads[r][c][q].val = Term(r, q, iter[r])
    BY <2>1 DEF Valued, Held
  <2>3. CASE c # b
    BY <1>2, <1>8, <2>2, <2>3
  <2>4. CASE c = b /\ q = p
    BY <1>2, <1>3, <1>4, <1>6, <2>1, <2>4
  <2>5. CASE c = b /\ q # p
    BY <1>2, <1>3, <1>4, <1>6, <2>2, <2>5
  <2> QED BY <2>3, <2>4, <2>5
<1>11. Grads(r)'
  <2>1. SUFFICES ASSUME NEW c \in DOMAIN Buckets, Written(r, c)', NEW q \in Range(Buckets[c]),
                        q \in Lone(iter[r])
                 PROVE  grad'[r][q] \in {<<Contributions(q, iter[r])>>, <<Contributions(q, iter[r]), Contributions(q, iter[r])>>}
    BY <1>9 DEF Grads
  <2>2. c # b
    BY <1>7, <2>1
  <2>3. Written(r, c)
    BY <1>8, <2>1, <2>2
  <2>4. q \in Params /\ q # p
    BY <1>1, <2>2, BucketFacts, OnePlace
  <2>5. grad'[r][q] = grad[r][q]
    BY <2>4
  <2> QED BY <2>1, <2>3, <2>5 DEF Valued, Grads
<1> QED BY <1>10, <1>11 DEF Valued

\* before an arrival the bucket is not full
LEMMA ArrivingPending ==
  ASSUME NEW r, NEW i, i = iter[r], Plan(r, i).uses \in Seq(Params), Once(Plan(r, i).uses),
         NEW t \in Int, Clock(r, t), NEW p \in Params, t < ArrivesAt(r, i, p)
  PROVE  pending[r][BucketOf(p)] # 0
<1>1. PICK b \in DOMAIN Buckets : b = BucketOf(p) /\ p \in Range(Buckets[b])
  BY BucketOfIs
<1>2. pending[r][b] = Cardinality(Waiting(r, i, b, t))
  BY DEF Clock, Waiting
<1>3. ArrivesAt(r, i, p) <= FilledAt(r, i, b) /\ FilledAt(r, i, b) \in Int /\ ArrivesAt(r, i, p) \in Int
  BY <1>1, FilledFacts, ArrivalFacts
<1>4. ~(FilledAt(r, i, b) <= t)
  BY ONLY <1>3, t \in Int, t < ArrivesAt(r, i, p)
<1> QED BY <1>1, <1>2, <1>4, WaitingFacts

LEMMA MarkValued ==
  ASSUME Locked, NEW r \in Ranks, Begins(r), Clocked(r), Valued(r), MarkUnused(r)
  PROVE  Valued(r)'
<1>0. LocalTypes /\ RankTypes(r) /\ todo[r] \subseteq Params
  BY DEF Locked, TypesInv, LocalInv, RankTypes, ListTypes
<1>1. pc[r] = "unused" /\ red[r] = None /\ UNCHANGED <<program, iter, grad>>
  BY DEF MarkUnused, setup
<1>2. PICK p \in todo[r] : Arrive(r, p, Zero)
  BY DEF MarkUnused
<1>3. PICK i : i = iter[r] /\ Plan(r, i).uses \in Seq(Params) /\ Once(Plan(r, i).uses) /\ Now(r).sync
  BY <1>1, ArrivalPlan
<1>4. PICK t \in Int : Clock(r, t)
  BY <1>1, ArrivalPlan
<1>5. p \in Params /\ t < ArrivesAt(r, i, p) /\ ArrivesAt(r, i, p) < 0
  BY <1>0, <1>1, <1>3, <1>4 DEF Clock
<1>6. pending[r][BucketOf(p)] # 0
  BY <1>3, <1>4, <1>5, ArrivingPending
<1>7. p \in Idle(r, i)
  <2>1. p \notin Idle(r, i) => ArrivesAt(r, i, p) \in 1 .. Len(Plan(r, i).uses)
    BY <1>3, <1>5, ArrivalFacts
  <2>2. Len(Plan(r, i).uses) \in Nat
    BY <1>3
  <2> QED BY ONLY <1>5, <2>1, <2>2
<1>8. Zero.val = Term(r, p, iter[r])
  <2>1. Arrivals(r, i, p) = {}
    BY <1>7 DEF Arrivals, Idle, Range
  <2> QED BY <1>3, <2>1 DEF Zero, Term
<1>9. PICK v : v = Zero
  OBVIOUS
<1>10. Busy(r) /\ \A q \in Params : grad'[r][q] = grad[r][q] \/ q = p
  BY <1>1 DEF Busy
<1> QED BY <1>0, <1>1, <1>2, <1>3, <1>5, <1>6, <1>8, <1>9, <1>10, ArriveValued

\* the gradient of a parameter whose tensor is its own
LEMMA LocalTerm ==
  ASSUME program \in Programs, NEW r \in Ranks, RankLocal(r), Summing(r), Hook(r), NEW i, i = iter[r],
         Plan(r, i).uses \in Seq(Params), Once(Plan(r, i).uses),
         NEW p \in Params, p = Now(r).uses[at[r] + 1], p \in Lone(i)
  PROVE  Local(r, at[r] + 1).val = Term(r, p, i)
<1>1. PICK k : k = at[r] + 1
  OBVIOUS
<1>2. PICK u : u = Plan(r, i).uses
  OBVIOUS
<1>3. k \in DOMAIN u /\ u[k] = p /\ Now(r).uses = u /\ at[r] \in Nat
  <2>1. k \in 1 .. Len(Now(r).uses)
    BY <1>1, ArrivingParam
  <2>2. Now(r).uses = u
    BY <1>2 DEF Now
  <2> QED BY <1>1, <1>2, <2>1, <2>2 DEF RankLocal, Stepping
<1>4. k \in Arrivals(r, i, p) /\ \A l \in Arrivals(r, i, p) : l = k
  BY <1>2, <1>3 DEF Arrivals, Once
<1>5. Alone(r, p, i)
  BY DEF Lone
<1>6. PICK t : t = Plan(r, i).tensors[k] /\ t = Now(r).tensors[k]
  BY DEF Now
<1>7. t.from = 0 /\ t.name = Name(r, i, k) /\ \A l \in DOMAIN u : Name(r, i, l) = Name(r, i, k) => l = k
  BY <1>2, <1>4, <1>5, <1>6 DEF Alone, Name
<1>8. ASSUME NEW x, Summed(r, x) PROVE \E l \in 1 .. at[r] : l \in DOMAIN u /\ x = Name(r, i, l)
  <2>1. Object(x, i) \in DOMAIN summed[r]
    BY <1>8 DEF Summed
  <2>2. PICK j, y : /\ Object(x, i) = Object(y, j)
                    /\ j = iter[r] => \E l \in 1 .. at[r] : l \in DOMAIN Now(r).uses /\ y = Name(r, iter[r], l)
    BY <2>1 DEF Summing
  <2>3. x = y /\ i = j
    BY <2>2 DEF Object
  <2> QED BY <1>3, <2>2, <2>3
<1>9. ~Summed(r, t.name)
  <2>1. SUFFICES ASSUME NEW l \in 1 .. at[r], l \in DOMAIN u, Name(r, i, k) = Name(r, i, l) PROVE FALSE
    BY <1>7, <1>8
  <2>2. l = k
    BY <1>7, <2>1
  <2> QED BY <1>1, <1>3, <2>1, <2>2
<1>10. ~Summed(r, t.from)
  <2>1. SUFFICES ASSUME NEW l \in DOMAIN u, Name(r, i, l) = 0 PROVE FALSE
    BY <1>7, <1>8
  <2>2. i \in 1 .. Len(program[r])
    BY ProgramLength DEF Hook, RankLocal, Stepping
  <2>3. Plan(r, i).tensors \in Seq(Tensors) /\ Len(Plan(r, i).tensors) = Len(u)
    BY <1>2, <2>2, PlanType
  <2>4. Plan(r, i).tensors[l] \in Tensors
    BY <1>2, <2>1, <2>3
  <2>5. Name(r, i, l) \in Nat \ {0}
    BY <2>4 DEF Name, Tensors
  <2> QED BY <2>1, <2>5
<1>11. Local(r, k).val = {<<r, Name(r, i, k), i>>}
  <2>1. Local(r, k).val = Value(r, t)
    BY <1>6 DEF Local
  <2> QED BY <1>7, <1>9, <1>10, <2>1 DEF Value
<1>12. Term(r, p, i) = {<<r, Name(r, i, k), i>>}
  BY <1>4 DEF Term
<1> QED BY <1>1, <1>11, <1>12

LEMMA HookValued ==
  ASSUME Locked, NEW r \in Ranks, Begins(r), Clocked(r), Valued(r), Summing(r), Hook(r)
  PROVE  Valued(r)'
<1>0. LocalTypes /\ RankTypes(r) /\ program \in Programs /\ RankLocal(r) /\ at[r] \in Nat
  BY DEF Locked, TypesInv, LocalInv, RankLocal, Stepping
<1>1. pc[r] = "backward" /\ red[r] = None /\ UNCHANGED <<program, iter, pc>>
  BY DEF Hook, setup
<1>2. PICK p \in Params : p = Now(r).uses[at[r] + 1]
  BY <1>0, ArrivingParam
<1>3. CASE ~Now(r).sync
  <2>1. Now(r)' = Now(r)
    BY <1>1 DEF Now, Plan
  <2> QED BY <1>3, <2>1 DEF Valued, Held, Grads
<1>4. CASE Now(r).sync
  <2>1. Arrive(r, p, Local(r, at[r] + 1))
    BY <1>2, <1>4 DEF Hook, Syncs
  <2>2. PICK i : i = iter[r] /\ Plan(r, i).uses \in Seq(Params) /\ Once(Plan(r, i).uses)
    BY <1>1, <1>4, ArrivalPlan
  <2>3. PICK t \in Int : Clock(r, t)
    BY <1>1, <1>4, ArrivalPlan
  <2>4. t = at[r]
    BY <1>1, <2>3 DEF Clock
  <2>5. at[r] + 1 \in 1 .. Len(Plan(r, i).uses) /\ p = Plan(r, i).uses[at[r] + 1]
    BY <1>0, <1>2, <2>2, ArrivingParam DEF Now
  <2>6. ArrivesAt(r, i, p) = at[r] + 1
    BY <2>2, <2>5, ArrivalFacts
  <2>7. t < ArrivesAt(r, i, p)
    BY <1>0, <2>4, <2>6
  <2>8. pending[r][BucketOf(p)] # 0
    BY <2>2, <2>3, <2>7, ArrivingPending
  <2>9. p \in Lone(iter[r]) => Local(r, at[r] + 1).val = Term(r, p, iter[r])
    BY <1>0, <1>2, <2>2, LocalTerm
  <2>10. \A q \in Params : grad'[r][q] = grad[r][q] \/ q = p
    <3>1. PICK v : v = Local(r, at[r] + 1)
      OBVIOUS
    <3>2. grad'[r] = IF red'[r] = None THEN Accumulate(grad[r], p, v) ELSE grad[r]
      BY <1>0, <1>2, <3>1, HookGrad
    <3>3. Function(grad[r], Params) /\ \A q \in Params : Sequence(grad[r][q])
      BY <1>0 DEF RankLocal, GradSequences
    <3>4. \A q \in Params : q # p => Accumulate(grad[r], p, v)[q] = grad[r][q]
      BY <3>3, AccumulateIs
    <3> QED BY <3>2, <3>4
  <2>11. PICK v : v = Local(r, at[r] + 1)
    OBVIOUS
  <2>12. Busy(r)
    BY <1>1 DEF Busy
  <2> QED BY <1>0, <1>1, <1>4, <2>1, <2>8, <2>9, <2>10, <2>11, <2>12, ArriveValued
<1> QED BY <1>3, <1>4

\* the averages are written over param.grad, and the hook's own again after them
LEMMA ReducedGrad ==
  ASSUME LocalInv, NEW r \in Ranks, Reduced(r), NEW b \in DOMAIN Buckets, red[r][1] = b,
         NEW p, p = Now(r).uses[at[r]]
  PROVE  /\ \A q \in Params : q \notin Range(Buckets[b]) /\ q # p => grad'[r][q] = grad[r][q]
         /\ \A q \in Range(Buckets[b]) :
              grad'[r][q] \in {<<bgrads[r][b][q]>>, <<bgrads[r][b][q], bgrads[r][b][q]>>}
<1>0. LocalTypes /\ RankLocal(r)
  BY DEF LocalInv
<1>1. PICK v : v = bgrads[r][b][p]
  OBVIOUS
<1>2. Sets(grad, grad', r, IF pc[r] = "unused" THEN Overwritten(r) ELSE Accumulate(Overwritten(r), p, v))
  BY <1>1 DEF Reduced, Set, Sets
<1>3. grad'[r] = IF pc[r] = "unused" THEN Overwritten(r) ELSE Accumulate(Overwritten(r), p, v)
  BY <1>0, <1>2, SetsOneRank DEF LocalTypes
<1>4. \A q \in Params : Overwritten(r)[q] = IF q \in Range(Buckets[b]) THEN <<bgrads[r][b][q]>> ELSE grad[r][q]
  BY DEF Overwritten
<1>5. Function(Overwritten(r), Params) /\ \A q \in Params : Sequence(Overwritten(r)[q])
  <2>1. \A q \in Params : Sequence(grad[r][q])
    BY <1>0 DEF RankLocal, GradSequences
  <2>2. Function(Overwritten(r), Params)
    BY DEF Overwritten, Function
  <2> QED BY <1>4, <2>1, <2>2, SequenceOne
<1>6. \A q \in Params : Accumulate(Overwritten(r), p, v)[q] = IF q = p THEN Append(Overwritten(r)[q], v) ELSE Overwritten(r)[q]
  BY <1>5, AccumulateIs
<1>7. ASSUME NEW q \in Params, q \notin Range(Buckets[b]), q # p PROVE grad'[r][q] = grad[r][q]
  BY <1>3, <1>4, <1>6, <1>7
<1>8. ASSUME NEW q \in Range(Buckets[b])
      PROVE  grad'[r][q] \in {<<bgrads[r][b][q]>>, <<bgrads[r][b][q], bgrads[r][b][q]>>}
  <2>1. PICK c : c = bgrads[r][b][q]
    OBVIOUS
  <2>2. q \in Params /\ Overwritten(r)[q] = <<c>>
    BY <1>4, <2>1, BucketFacts
  <2>3. q = p => v = c
    BY <1>1, <2>1
  <2>4. Append(<<c>>, c) = <<c, c>>
    <3>1. PICK s, x, y : s = <<c>> /\ x = Append(s, c) /\ y = <<c, c>>
      OBVIOUS
    <3>2. Sequence(s) /\ Len(s) = 1 /\ s[1] = c
      BY <3>1, SequenceOne
    <3>3. Sequence(x) /\ Len(x) = Len(s) + 1 /\ (\A k \in 1 .. Len(s) : x[k] = s[k]) /\ x[Len(s) + 1] = c
      BY <3>1, <3>2, SequenceAppend
    <3>4. DOMAIN x = 1 .. 2 /\ x[1] = c /\ x[2] = c
      BY <3>2, <3>3, SequenceLen
    <3>5. DOMAIN y = 1 .. 2 /\ y[1] = c /\ y[2] = c
      BY <3>1
    <3>6. PICK S : x \in Seq(S)
      BY <3>3 DEF Sequence
    <3>7. PICK T : T = S \cup {c}
      OBVIOUS
    <3>8. x \in Seq(T) /\ y \in Seq(T)
      BY <3>1, <3>6, <3>7
    <3>9. \A k \in 1 .. 2 : k = 1 \/ k = 2
      OBVIOUS
    <3>10. Len(x) = 2 /\ Len(y) = 2
      BY <3>1, <3>2, <3>3
    <3>11. x = y
      BY ONLY <3>4, <3>5, <3>8, <3>9, <3>10, SeqEqual
    <3> QED BY <3>1, <3>11
  <2>5. grad'[r][q] = Overwritten(r)[q] \/ (q = p /\ grad'[r][q] = Append(Overwritten(r)[q], v))
    BY <1>3, <1>6, <2>2
  <2> QED BY <2>1, <2>2, <2>3, <2>4, <2>5
<1> QED BY <1>7, <1>8

LEMMA ReducedValued ==
  ASSUME Locked, NEW r \in Ranks, Begins(r), Clocked(r), Valued(r), Reduced(r)
  PROVE  Valued(r)'
<1>0. LocalInv /\ LocalTypes /\ RankTypes(r)
  BY DEF Locked, TypesInv, LocalInv
<1>1. /\ pc[r] \in {"unused", "backward"} /\ red[r] # None /\ red[r][2] \notin DOMAIN Buckets[red[r][1]]
      /\ UNCHANGED <<program, iter, pc, at, pending, bgrads>> /\ Sets(red, red', r, None)
  BY DEF Reduced, Reducing, setup, Set, Sets
<1>2. red'[r] = None
  BY <1>0, <1>1, SetsOneRank DEF LocalTypes
<1>3. Busy(r)
  BY <1>1 DEF Busy
<1>4. PICK b \in DOMAIN Buckets : /\ b = red[r][1] /\ Now(r).sync /\ pending[r][b] = 0
                                  /\ pc[r] \in Backward => Now(r).uses[at[r]] \in Range(Buckets[b])
  BY <1>1, <1>3, RedFilled
<1>5. \A k \in DOMAIN Buckets[b] : k < red[r][2]
  <2>1. PICK d \in DOMAIN Buckets : \E l \in 1 .. Len(Buckets[d]) + 1 : red[r] = <<d, l>>
    BY <1>0, <1>1 DEF RankTypes, RedTypes
  <2>2. PICK l \in 1 .. Len(Buckets[d]) + 1 : red[r] = <<d, l>>
    BY <2>1
  <2>3. d = b /\ red[r][2] = l /\ l \notin DOMAIN Buckets[b]
    BY <1>1, <1>4, <2>2
  <2>4. DOMAIN Buckets[b] = 1 .. Len(Buckets[b]) /\ Len(Buckets[b]) \in Nat
    BY BucketFacts
  <2> QED BY <2>3, <2>4
<1>6. ASSUME NEW c \in DOMAIN Buckets, NEW k \in DOMAIN Buckets[c]
      PROVE  /\ Averaged(r, c, k)' <=> Averaged(r, c, k)
             /\ c = b => Averaged(r, c, k)
             /\ c # b => (Written(r, c)' <=> Written(r, c))
  BY <1>1, <1>2, <1>4, <1>5 DEF Averaged, Written
<1>7. /\ \A q : /\ Term(r, q, iter[r])' = Term(r, q, iter[r]) /\ Contributions(q, iter[r])' = Contributions(q, iter[r])
               /\ Lone(iter[r])' = Lone(iter[r])
      /\ Busy(r)' <=> Busy(r)
      /\ iter'[r] = iter[r] /\ bgrads'[r] = bgrads[r]
  BY <1>1, TermsKept DEF Busy
<1>8. Held(r)'
  BY <1>3, <1>4, <1>6, <1>7 DEF Valued, Held
<1>9. ASSUME NEW q \in Range(Buckets[b]), q \in Lone(iter[r]) PROVE bgrads[r][b][q] = Contributions(q, iter[r])
  <2>1. PICK k \in DOMAIN Buckets[b] : q = Buckets[b][k]
    BY DEF Range
  <2> QED BY <1>3, <1>4, <1>6, <1>9, <2>1 DEF Valued, Held
<1>10. PICK p : p = Now(r).uses[at[r]]
  OBVIOUS
<1>11. /\ \A q \in Params : q \notin Range(Buckets[b]) /\ q # p => grad'[r][q] = grad[r][q]
       /\ \A q \in Range(Buckets[b]) :
            grad'[r][q] \in {<<bgrads[r][b][q]>>, <<bgrads[r][b][q], bgrads[r][b][q]>>}
  BY <1>0, <1>4, <1>10, ReducedGrad
<1>12. pc[r] # "unused" => p \in Range(Buckets[b])
  BY <1>1, <1>4, <1>10 DEF Backward
<1>13. \A q \in Params : q \notin Range(Buckets[b]) => grad'[r][q] = grad[r][q]
  <2>1. CASE pc[r] # "unused"
    BY <1>11, <1>12, <2>1
  <2>2. CASE pc[r] = "unused"
    <3>1. Sets(grad, grad', r, Overwritten(r))
      BY <2>2 DEF Reduced, Set, Sets
    <3>2. grad'[r] = Overwritten(r)
      BY <1>0, <3>1, SetsOneRank DEF LocalTypes
    <3> QED BY <1>4, <3>2 DEF Overwritten
  <2> QED BY <2>1, <2>2
<1>14. Grads(r)'
  <2>1. SUFFICES ASSUME NEW c \in DOMAIN Buckets, Written(r, c)', NEW q \in Range(Buckets[c]),
                        q \in Lone(iter[r])
                 PROVE  grad'[r][q] \in {<<Contributions(q, iter[r])>>, <<Contributions(q, iter[r]), Contributions(q, iter[r])>>}
    BY <1>7 DEF Grads
  <2>2. CASE c = b
    BY <1>9, <1>11, <2>1, <2>2
  <2>3. CASE c # b
    <3>1. Written(r, c)
      BY <1>1, <1>2, <1>4, <2>1, <2>3 DEF Written
    <3>2. q \in Params /\ q \notin Range(Buckets[b])
      BY <2>3, BucketFacts, OnePlace
    <3>3. grad'[r][q] = grad[r][q]
      BY <1>13, <3>2
    <3> QED BY <1>3, <1>4, <2>1, <3>1, <3>3 DEF Valued, Grads
  <2> QED BY <2>2, <2>3
<1> QED BY <1>8, <1>14 DEF Valued

\* all-reduce writes to no tensor that another parameter has as its own
LEMMA NotRewritten ==
  ASSUME LocalInv, NEW r \in Ranks, RankTypes(r), Slotted(r), Objects(r), pc[r] \in Midcall,
         NEW c \in DOMAIN Buckets, NEW q \in DOMAIN bgrads[r][c], q # Slot(r), q \in Lone(iter[r]), NEW v
  PROVE  Rewritten(r, bgrads[r][c][q], v) = bgrads[r][c][q]
<1>1. PICK i : i = iter[r]
  OBVIOUS
<1>2. PICK g : g = bgrads[r][c][q]
  OBVIOUS
<1>3. Busy(r)
  BY DEF Busy, Midcall
<1>4. Gradient(g)
  BY <1>2, <1>3 DEF Objects
<1>5. CASE g.object = None
  BY <1>2, <1>4, <1>5, RewrittenIs
<1>6. CASE g.object # None
  <2>1. PICK k \in 1 .. at[r] : k \in DOMAIN Now(r).uses /\ Now(r).uses[k] = q /\ g.object = Object(Name(r, i, k), i)
    BY <1>1, <1>2, <1>3, <1>6 DEF Objects
  <2>2. k \in Arrivals(r, i, q) /\ Alone(r, q, i)
    BY <1>1, <2>1 DEF Arrivals, Now, Lone
  <2>3. \A l \in DOMAIN Now(r).uses : Name(r, i, l) = Name(r, i, k) => l = k
    BY <1>1, <2>2 DEF Alone, Now
  <2>4. \/ InSlot(r).object = None
        \/ \E l \in 1 .. at[r] : /\ l \in DOMAIN Now(r).uses /\ Now(r).uses[l] = Slot(r)
                                 /\ InSlot(r).object = Object(Name(r, i, l), i)
    BY <1>1, SlotObject
  <2>5. g.object # InSlot(r).object
    <3>1. SUFFICES ASSUME NEW l \in DOMAIN Now(r).uses, Now(r).uses[l] = Slot(r),
                          Object(Name(r, i, k), i) = Object(Name(r, i, l), i)
                   PROVE  FALSE
      BY <1>6, <2>1, <2>4
    <3>2. Name(r, i, k) = Name(r, i, l)
      BY <3>1 DEF Object
    <3> QED BY <2>1, <2>3, <3>1, <3>2
  <2> QED BY <1>2, <1>4, <2>5, RewrittenIs
<1> QED BY <1>5, <1>6

LEMMA AverageValued ==
  ASSUME Locked, GlooInv, \A q \in Ranks : Numbering(q), NEW r \in Ranks, Begins(r), Labelled(r), Clocked(r),
         Valued(r), Current(r), Slotted(r), Objects(r), Average(r)
  PROVE  Valued(r)'
<1>0. LocalTypes /\ RankTypes(r) /\ program \in Programs /\ InStepSound /\ Calls /\ LocalInv /\ RankLocal(r)
  BY DEF Locked, TypesInv, LocalInv
<1>1. PICK b \in DOMAIN Buckets : \E k \in DOMAIN Buckets[b] :
         /\ red[r] = <<b, k>> /\ red'[r] = <<b, k + 1>> /\ pending' = pending
         /\ Slot(r) = Buckets[b][k]
         /\ \A c \in DOMAIN Buckets : Function(bgrads'[r][c], DOMAIN bgrads[r][c])
         /\ \A c \in DOMAIN Buckets : \A p \in DOMAIN bgrads[r][c] :
              bgrads'[r][c][p] = IF c = b /\ p = Buckets[b][k] THEN Mean(Answer(r))
                                                           ELSE Rewritten(r, bgrads[r][c][p], Answer(r))
         /\ pc[r] \in Midcall /\ phase[r] = "idle" /\ UNCHANGED <<program, iter>>
  BY <1>0, AverageBuckets DEF setup
<1>2. PICK k \in DOMAIN Buckets[b] :
         /\ red[r] = <<b, k>> /\ red'[r] = <<b, k + 1>> /\ pending' = pending
         /\ Slot(r) = Buckets[b][k]
         /\ \A c \in DOMAIN Buckets : \A p \in DOMAIN bgrads[r][c] :
              bgrads'[r][c][p] = IF c = b /\ p = Buckets[b][k] THEN Mean(Answer(r))
                                                           ELSE Rewritten(r, bgrads[r][c][p], Answer(r))
         /\ pc[r] \in Midcall /\ phase[r] = "idle" /\ UNCHANGED <<program, iter>>
  BY <1>1
<1>3. red[r] # None /\ red[r][1] = b /\ red[r][2] = k /\ red'[r] # None /\ red'[r][1] = b /\ red'[r][2] = k + 1
  BY <1>2 DEF None
<1>4. k \in Nat /\ \A l \in DOMAIN Buckets[b] : l \in Nat
  BY BucketFacts
<1>5. Busy(r)
  BY <1>2 DEF Busy, Midcall
<1>6. iter[r] \in inStep /\ Now(r).sync /\ pending[r][b] = 0
  BY <1>3, <1>5, RedFilled
<1>7. PICK p : p = Buckets[b][k]
  OBVIOUS
<1>8. Numbered(r, Len(given[r]), iter[r], b, k) /\ b # 0 /\ p \in DOMAIN bgrads[r][b]
  BY <1>2, <1>3, <1>7, BucketFacts DEF Current, Slotted
<1>9. given[r] # << >>
  <2>1. <<iter[r], b, k>> \in UpTo(r, iter[r], b, k) /\ IsFiniteSet(UpTo(r, iter[r], b, k))
    <3>1. IsCall(r, iter[r], b, k) /\ Clean(r, iter[r])
      BY <1>0, <1>6, <1>8, InStepClean DEF Numbered
    <3>2. UpToCall(r, iter[r], b, k, iter[r], b, k)
      BY <1>0, <3>1, CallOrder
    <3> QED BY <1>0, <1>8, <3>1, <3>2, CallsBefore DEF Numbered
  <2>2. Len(given[r]) # 0
    BY <1>8, <2>1, FS_EmptySet DEF Numbered
  <2> QED BY <2>2, SequenceEmpty
<1>10. p \in Lone(iter[r]) => Answer(r) = UNION {{<<q, Term(q, p, iter[r])>>} : q \in Ranks}
  BY <1>0, <1>2, <1>6, <1>7, <1>8, <1>9, ReturnedSum
<1>11. PICK v : v = Mean(Answer(r))
  OBVIOUS
<1>12. p \in Lone(iter[r]) => v = Contributions(p, iter[r])
  BY <1>10, <1>11, SumOfTerms
<1>13. ASSUME NEW c \in DOMAIN Buckets
       PROVE  /\ DOMAIN bgrads'[r][c] = DOMAIN bgrads[r][c] /\ (c = b => bgrads'[r][c][p] = v)
              /\ \A q \in DOMAIN bgrads[r][c] : q # p /\ q \in Lone(iter[r]) => bgrads'[r][c][q] = bgrads[r][c][q]
  <2>1. DOMAIN bgrads'[r][c] = DOMAIN bgrads[r][c]
    BY <1>1 DEF Function
  <2>2. c = b => bgrads'[r][c][p] = v
    BY <1>2, <1>7, <1>8, <1>11
  <2>3. ASSUME NEW q \in DOMAIN bgrads[r][c], q # p, q \in Lone(iter[r]) PROVE bgrads'[r][c][q] = bgrads[r][c][q]
    <3>1. bgrads'[r][c][q] = Rewritten(r, bgrads[r][c][q], Answer(r))
      BY <1>2, <1>7, <2>3
    <3>2. PICK w : w = Answer(r)
      OBVIOUS
    <3>3. Rewritten(r, bgrads[r][c][q], w) = bgrads[r][c][q]
      BY <1>0, <1>2, <1>7, <2>3, NotRewritten
    <3> QED BY <3>1, <3>2, <3>3
  <2> QED BY <2>1, <2>2, <2>3
<1>14. /\ \A q : /\ Term(r, q, iter[r])' = Term(r, q, iter[r]) /\ Contributions(q, iter[r])' = Contributions(q, iter[r])
                /\ Lone(iter[r])' = Lone(iter[r])
       /\ iter'[r] = iter[r]
  BY <1>2, TermsKept
<1>15. Now(r)' = Now(r)
  BY <1>2 DEF Now, Plan
<1>16. Held(r)'
  <2>1. SUFFICES ASSUME NEW c \in DOMAIN Buckets, NEW l \in DOMAIN Buckets[c], NEW q, q = Buckets[c][l],
                        q \in Lone(iter[r])
                 PROVE  /\ Averaged(r, c, l)' => q \in DOMAIN bgrads'[r][c] /\ bgrads'[r][c][q] = Contributions(q, iter[r])
                        /\ ~Averaged(r, c, l)' /\ q \in DOMAIN bgrads'[r][c] =>
                             bgrads'[r][c][q].val = Term(r, q, iter[r])
    BY <1>14 DEF Held
  <2>2. /\ Averaged(r, c, l) => q \in DOMAIN bgrads[r][c] /\ bgrads[r][c][q] = Contributions(q, iter[r])
        /\ ~Averaged(r, c, l) /\ q \in DOMAIN bgrads[r][c] =>
             bgrads[r][c][q].val = Term(r, q, iter[r])
    BY <1>5, <1>6, <2>1 DEF Valued, Held
  <2>3. CASE c = b /\ l = k
    <3>1. Averaged(r, c, l)'
      <4>1. k < k + 1
        BY <1>4
      <4> QED BY <1>2, <1>3, <1>6, <2>3, <4>1 DEF Averaged
    <3> QED BY <1>7, <1>8, <1>12, <1>13, <2>1, <2>3, <3>1
  <2>4. CASE ~(c = b /\ l = k)
    <3>1. q # p
      BY <1>7, <2>1, <2>4, OnePlace
    <3>2. Averaged(r, c, l)' <=> Averaged(r, c, l)
      <4>1. CASE c # b
        BY <1>2, <1>3, <4>1 DEF Averaged
      <4>2. CASE c = b
        <5>1. (Averaged(r, c, l) <=> l < k) /\ (Averaged(r, c, l)' <=> l < k + 1)
          BY <1>2, <1>3, <1>6, <4>2 DEF Averaged
        <5>2. l \in Nat /\ l # k
          BY <1>4, <2>4, <4>2
        <5>3. l < k + 1 <=> l < k
          BY ONLY <1>4, <5>2
        <5> QED BY <5>1, <5>3
      <4> QED BY <4>1, <4>2
    <3> QED BY <1>13, <2>1, <2>2, <3>1, <3>2
  <2> QED BY <2>3, <2>4
<1>17. \A c : Written(r, c)' <=> Written(r, c)
  BY <1>2, <1>3 DEF Written
<1>18. Grads(r)'
  <2>1. SUFFICES ASSUME NEW c \in DOMAIN Buckets, Written(r, c), NEW q \in Range(Buckets[c]), q \in Lone(iter[r])
                 PROVE  grad'[r][q] \in {<<Contributions(q, iter[r])>>, <<Contributions(q, iter[r]), Contributions(q, iter[r])>>}
    BY <1>14, <1>17 DEF Grads
  <2>2. PICK x, g : x = Contributions(q, iter[r]) /\ g = grad[r][q]
    OBVIOUS
  <2>3. g \in {<<x>>, <<x, x>>}
    BY <1>5, <1>6, <2>1, <2>2 DEF Valued, Grads
  <2>4. x.object = None
    BY <2>2 DEF Contributions
  <2>5. grad'[r][q] = IF Len(g) = 1 THEN <<Rewritten(r, g[1], Answer(r))>> ELSE g
    <3>1. q \in Params
      BY BucketFacts
    <3>2. PICK f : f = grad'[r]
      OBVIOUS
    <3>3. f = [p1 \in Params |-> IF Len(grad[r][p1]) = 1 THEN <<Rewritten(r, grad[r][p1][1], Answer(r))>> ELSE grad[r][p1]]
      BY <1>0, <3>2, AverageGrad
    <3>4. f[q] = IF Len(grad[r][q]) = 1 THEN <<Rewritten(r, grad[r][q][1], Answer(r))>> ELSE grad[r][q]
      BY <3>1, <3>3
    <3> QED BY <2>2, <3>2, <3>4
  <2>6. CASE g = <<x>>
    <3>1. Len(g) = 1 /\ g[1] = x
      BY <2>6
    <3>2. Rewritten(r, x, Answer(r)) = x
      BY <2>4 DEF Rewritten
    <3> QED BY <2>2, <2>5, <3>1, <3>2
  <2>7. CASE g = <<x, x>>
    <3>1. Len(g) = 2
      BY <2>7
    <3> QED BY <2>2, <2>5, <2>7, <3>1
  <2> QED BY <2>3, <2>6, <2>7
<1> QED BY <1>16, <1>18 DEF Valued

LEMMA ActorValued ==
  ASSUME Locked, GlooInv, \A q \in Ranks : Numbering(q), NEW r \in Ranks, Begins(r), Scripted(r),
         Valued(r), Current(r), Slotted(r), Objects(r), Summing(r), RankStep(r)
  PROVE  Valued(r)'
<1>0. /\ LocalTypes /\ RankTypes(r) /\ program' = program /\ config' = config /\ Labelled(r) /\ Clocked(r)
      /\ program \in Programs /\ Calls
  BY KeepsOthers DEF Locked, TypesInv, LocalInv, OthersKept, Scripted
<1>1. CASE Prepare(r)
  BY <1>0, <1>1, PrepareValued
<1>2. CASE MarkUnused(r)
  BY <1>0, <1>2, MarkValued
<1>3. CASE Hook(r)
  BY <1>0, <1>3, HookValued
<1>4. CASE Reduced(r)
  BY <1>0, <1>4, ReducedValued
<1>5. CASE Average(r)
  BY <1>0, <1>5, AverageValued
<1>6. CASE UnusedMarked(r) \/ Reduce(r) \/ Communicate(r)
  <2>1. UNCHANGED <<iter, bgrads, pending, red, grad>>
    BY <1>6 DEF UnusedMarked, Reduce, Communicate, localVars
  <2>2. Busy(r)' => Busy(r)
    <3>1. CASE UnusedMarked(r) \/ Reduce(r)
      BY <3>1 DEF UnusedMarked, Reduce, Reducing, Busy
    <3>2. CASE Communicate(r)
      BY <3>2 DEF Communicate, localVars, Busy
    <3> QED BY <1>6, <3>1, <3>2
  <2> QED BY <1>0, <2>1, <2>2, ValuedKept
<1>7. CASE BroadcastBuffers(r) \/ Finish(r) \/ Raise(r) \/ ReceiveFails(r)
  <2>1. \E v \in {"prepare", "forward", "raised"} : pc' = Set(pc, r, v)
    BY <1>7 DEF BroadcastBuffers, Finish, Raise, ReceiveFails
  <2>2. ~Busy(r)'
    BY <1>0, <2>1, PcIs DEF Busy
  <2> QED BY <2>2 DEF Valued, Held, Grads
<1> QED BY <1>1, <1>2, <1>3, <1>4, <1>5, <1>6, <1>7 DEF RankStep

LEMMA NumberedKept ==
  ASSUME program' = program, config' = config
  PROVE  /\ \A r, n, i, b, k : Numbered(r, n, i, b, k)' <=> Numbered(r, n, i, b, k)
         /\ \A r, c, i, b, k : Gives(r, c, i, b, k)' <=> Gives(r, c, i, b, k)
<1>1. \A r, i, b, k : (IsCall(r, i, b, k)' <=> IsCall(r, i, b, k)) /\ UpTo(r, i, b, k)' = UpTo(r, i, b, k)
  BY ScriptKept
<1>2. (\A r, p, i : Term(r, p, i)' = Term(r, p, i)) /\ \A i : Lone(i)' = Lone(i)
  BY TermsKept
<1>3. \A r, n, i, b, k : Numbered(r, n, i, b, k)' <=> Numbered(r, n, i, b, k)
  BY <1>1 DEF Numbered
<1>4. \A r, c, i, b, k : Gives(r, c, i, b, k)' <=> Gives(r, c, i, b, k)
  BY <1>2 DEF Gives, Names
<1> QED BY <1>3, <1>4

LEMMA NumberingKept ==
  ASSUME program' = program, config' = config, inStep' = inStep, NEW r, given'[r] = given[r], Numbering(r)
  PROVE  Numbering(r)'
<1>1. /\ \A n, i, b, k : Numbered(r, n, i, b, k)' <=> Numbered(r, n, i, b, k)
      /\ \A c, i, b, k : Gives(r, c, i, b, k)' <=> Gives(r, c, i, b, k)
  BY NumberedKept
<1> QED BY <1>1 DEF Numbering

LEMMA NumberingMore ==
  ASSUME program' = program, config' = config, inStep' = inStep, NEW r \in Ranks, Shapes, Numbering(r), NEW c,
         Len(given'[r]) = Len(given[r]) + 1, given'[r][Len(given[r]) + 1] = c,
         \A n \in 1 .. Len(given[r]) : given'[r][n] = given[r][n],
         \A i \in inStep : \A b, k : Numbered(r, Len(given[r]) + 1, i, b, k) => Gives(r, c, i, b, k)
  PROVE  Numbering(r)'
<1>1. /\ \A n, i, b, k : Numbered(r, n, i, b, k)' <=> Numbered(r, n, i, b, k)
      /\ \A d, i, b, k : Gives(r, d, i, b, k)' <=> Gives(r, d, i, b, k)
  BY NumberedKept
<1>2. PICK g \in Nat : g = Len(given[r])
  BY Lengths
<1>3. ASSUME NEW n \in 1 .. g + 1, NEW i \in inStep, NEW b, NEW k, Numbered(r, n, i, b, k)
      PROVE  Gives(r, given'[r][n], i, b, k)
  <2>1. CASE n \in 1 .. g
    BY <1>2, <1>3, <2>1 DEF Numbering
  <2>2. CASE n = g + 1
    BY <1>2, <1>3, <2>2
  <2> QED BY <1>2, <2>1, <2>2
<1> QED BY <1>1, <1>2, <1>3 DEF Numbering

\* the next call of a rank that has left the iterations in step is not one of theirs
LEMMA LeftMore ==
  ASSUME Shapes, NEW r \in Ranks, ~Begins(r), Left(r), NEW i \in inStep, NEW b, NEW k
  PROVE  ~Numbered(r, Len(given[r]) + 1, i, b, k)
<1>1. PICK g \in Nat : g = Len(given[r])
  BY Lengths
<1>2. Numbered(r, g + 1, i, b, k) => g + 1 <= g
  BY <1>1 DEF Left
<1> QED BY <1>1, <1>2

LEMMA BroadcastNumbering ==
  ASSUME Locked, NEW r \in Ranks, Begins(r) => Scripted(r), Numbering(r), Left(r), BroadcastBuffers(r)
  PROVE  Numbering(r)'
<1>0. /\ LocalTypes /\ program \in Programs /\ program' = program /\ config' = config /\ inStep' = inStep
      /\ Shapes /\ InStepSound /\ RankStep(r) /\ iter' = iter
  BY KeepsOthers DEF Locked, TypesInv, LocalInv, OthersKept, RankStep, Calls, BroadcastBuffers
<1>1. PICK c : c = given'[r][Len(given[r]) + 1]
  OBVIOUS
<1>2. /\ Len(given'[r]) = Len(given[r]) + 1 /\ \A n \in 1 .. Len(given[r]) : given'[r][n] = given[r][n]
  <2>1. "broadcast" \in Group!Ops
    BY DEF Group!Ops
  <2>2. PICK v : v = {<<r, Buffers, iter[r]>>}
    OBVIOUS
  <2>3. Begin(r, "broadcast", v, Buffers)
    BY <2>2 DEF BroadcastBuffers
  <2> QED BY <1>0, <2>1, <2>3, BeginEffect
<1>3. PICK g \in Nat : g = Len(given[r])
  BY <1>0, Lengths
<1>4. ASSUME NEW i \in inStep, NEW b, NEW k, Numbered(r, g + 1, i, b, k) PROVE Gives(r, c, i, b, k)
  <2>1. Begins(r)
    BY <1>0, <1>3, <1>4, LeftMore
  <2>2. Scripted(r)'
    BY <2>1, BroadcastScripted
  <2>3. PICK j, d, l : Label(r, g + 1, j, d, l)'
    <3>1. g + 1 \in 1 .. Len(given'[r])
      BY <1>2, <1>3
    <3> QED BY <2>2, <3>1 DEF Scripted, Labelled
  <2>4. Numbered(r, g + 1, j, d, l) /\ j <= iter[r] /\ Names(c, d, l)
    <3>1. Numbered(r, g + 1, j, d, l)' /\ j <= iter'[r] /\ Names(given'[r][g + 1], d, l)
      BY <2>3 DEF Label, Names
    <3> QED BY <1>0, <1>1, <1>3, <3>1, NumberedKept
  <2>5. j \in inStep
    BY <1>0, <2>1, <2>4, BegunInStep DEF Numbered, IsCall
  <2>6. b = d
    BY <1>0, <1>4, <2>4, <2>5, NumberedOnce
  <2>7. i = j /\ k = l
    BY <1>0, <1>4, <2>4, <2>5, NumberedOnce
  <2>8. c.op = "broadcast"
    <3>1. "broadcast" \in Group!Ops
      BY DEF Group!Ops
    <3>2. PICK v : v = {<<r, Buffers, iter[r]>>}
      OBVIOUS
    <3>3. Begin(r, "broadcast", v, Buffers)
      BY <3>2 DEF BroadcastBuffers
    <3> QED BY <1>0, <1>1, <3>1, <3>3, BeginEffect
  <2>9. d = 0
    BY <2>4, <2>8 DEF Names
  <2> QED BY <2>4, <2>6, <2>7, <2>9 DEF Gives
<1> QED BY <1>0, <1>1, <1>2, <1>3, <1>4, NumberingMore

LEMMA ReduceNumbering ==
  ASSUME Locked, NEW r \in Ranks, Begins(r) => Scripted(r) /\ Valued(r), Numbering(r), Left(r), Reduce(r)
  PROVE  Numbering(r)'
<1>0. /\ LocalTypes /\ program \in Programs /\ program' = program /\ config' = config /\ inStep' = inStep
      /\ Shapes /\ InStepSound /\ RankTypes(r) /\ RankStep(r)
  BY KeepsOthers DEF Locked, TypesInv, LocalInv, OthersKept, RankStep, Calls
<1>1. /\ pc[r] \in {"unused", "backward"} /\ red[r] # None /\ red[r][2] \in DOMAIN Buckets[red[r][1]]
      /\ Arrived(r, Slot(r))
      /\ Begin(r, "allreduce", {<<r, bgrads[r][red[r][1]][Slot(r)].val>>}, Slot(r))
  BY DEF Reduce, Reducing, InSlot
<1>2. PICK b \in DOMAIN Buckets : b = red[r][1]
  BY <1>0, <1>1 DEF RankTypes, RedTypes
<1>3. PICK k \in DOMAIN Buckets[b] : k = red[r][2]
  BY <1>1, <1>2
<1>4. PICK p : p = Buckets[b][k] /\ p = Slot(r)
  BY <1>2, <1>3 DEF Slot
<1>5. PICK v : v = {<<r, bgrads[r][b][p].val>>}
  OBVIOUS
<1>6. PICK c : c = given'[r][Len(given[r]) + 1]
  OBVIOUS
<1>7. /\ Len(given'[r]) = Len(given[r]) + 1 /\ \A n \in 1 .. Len(given[r]) : given'[r][n] = given[r][n]
      /\ c.op = "allreduce" /\ c.val = v /\ c.tensor = p
  <2>1. "allreduce" \in Group!Ops
    BY DEF Group!Ops
  <2>2. Begin(r, "allreduce", v, p)
    BY <1>1, <1>2, <1>4, <1>5
  <2> QED BY <1>0, <1>6, <2>1, <2>2, BeginEffect
<1>8. PICK g \in Nat : g = Len(given[r])
  BY <1>0, Lengths
<1>9. ASSUME NEW i \in inStep, NEW d, NEW l, Numbered(r, g + 1, i, d, l) PROVE Gives(r, c, i, d, l)
  <2>1. Begins(r)
    BY <1>0, <1>8, <1>9, LeftMore
  <2>2. Numbered(r, g + 1, iter[r], b, k)
    BY <1>2, <1>3, <1>7, <1>8, <2>1, ReduceScripted
  <2>3. iter[r] \in inStep /\ Now(r).sync /\ pending[r][b] = 0 /\ Busy(r)
    <3>1. Busy(r) /\ Clocked(r)
      BY <1>1, <2>1 DEF Busy, Scripted
    <3> QED BY <1>1, <1>2, <2>1, <3>1, RedFilled
  <2>4. i = iter[r] /\ d = b /\ l = k
    BY <1>0, <1>9, <2>2, <2>3, NumberedOnce
  <2>5. b # 0
    BY BucketFacts
  <2>6. p \in DOMAIN bgrads[r][b]
    <3>1. p \in Range(Buckets[b])
      BY <1>4 DEF Range
    <3>2. BucketOf(p) = b
      BY <3>1, BucketFacts, BucketOfIs
    <3> QED BY <1>1, <1>4, <3>2 DEF Arrived
  <2>7. ~Averaged(r, b, k)
    <3>1. k \in Nat
      BY BucketFacts
    <3> QED BY <1>1, <1>2, <1>3, <3>1 DEF Averaged
  <2>8. p \in Lone(iter[r]) => bgrads[r][b][p].val = Term(r, p, iter[r])
    BY <1>4, <2>1, <2>3, <2>6, <2>7 DEF Valued, Held
  <2>9. p \in Lone(iter[r]) => v = {<<r, Term(r, p, iter[r])>>}
    BY <1>5, <2>8
  <2> QED BY <1>4, <1>7, <2>4, <2>5, <2>9 DEF Gives, Names
<1> QED BY <1>0, <1>6, <1>7, <1>8, <1>9, NumberingMore

LEMMA ActorGiven ==
  ASSUME NEW r, RankStep(r), ~BroadcastBuffers(r), ~Reduce(r)
  PROVE  given' = given
<1>1. GlooStep(r) => given' = given
  BY DEF GlooStep, SendUp, Gather, Gathered, Scatter, Scattered, Receive, Returns
<1> QED BY <1>1 DEF RankStep, Prepare, MarkUnused, UnusedMarked, Hook, Finish, Raise, Average, Reduced,
        Communicate, ReceiveFails, glooVars

LEMMA ActorNumbering ==
  ASSUME Locked, NEW r \in Ranks, Begins(r) => Scripted(r) /\ Valued(r), Numbering(r), Left(r), RankStep(r)
  PROVE  Numbering(r)'
<1>0. LocalTypes /\ program' = program /\ config' = config /\ inStep' = inStep
  BY KeepsOthers DEF Locked, TypesInv, LocalInv, OthersKept
<1>1. CASE ~BroadcastBuffers(r) /\ ~Reduce(r)
  <2>1. given'[r] = given[r]
    BY <1>1, ActorGiven
  <2> QED BY <1>0, <2>1, NumberingKept
<1> QED BY <1>1, BroadcastNumbering, ReduceNumbering

LEMMA ActorCurrent ==
  ASSUME Locked, NEW r \in Ranks, Begins(r), Scripted(r), Current(r), RankStep(r)
  PROVE  Current(r)'
<1>0. LocalTypes /\ program' = program /\ config' = config
  BY KeepsOthers DEF Locked, TypesInv, LocalInv, OthersKept
<1>1. CASE Reduce(r)
  <2>1. Numbered(r, Len(given'[r]), iter[r], red[r][1], red[r][2]) /\ iter' = iter /\ red' = red
    BY <1>1, ReduceScripted DEF Reduce
  <2>2. PICK n, i, b, k : n = Len(given'[r]) /\ i = iter[r] /\ b = red[r][1] /\ k = red[r][2]
    OBVIOUS
  <2>3. Numbered(r, n, i, b, k)'
    BY <1>0, <2>1, <2>2, NumberedKept
  <2> QED BY <2>1, <2>2, <2>3 DEF Current, Numbered
<1>2. CASE Communicate(r)
  <2>1. pc' = pc /\ iter' = iter /\ red' = red
    BY <1>2 DEF Communicate, localVars
  <2>2. given' = given
    BY <1>2 DEF Communicate, GlooStep, SendUp, Gather, Gathered, Scatter, Scattered, Receive, Returns
  <2>3. PICK n, i, b, k : n = Len(given[r]) /\ i = iter[r] /\ b = red[r][1] /\ k = red[r][2]
    OBVIOUS
  <2>4. Numbered(r, n, i, b, k)' <=> Numbered(r, n, i, b, k)
    BY <1>0, NumberedKept
  <2> QED BY <2>1, <2>2, <2>3, <2>4 DEF Current, Numbered
<1>3. CASE ~Reduce(r) /\ ~Communicate(r)
  <2>1. pc'[r] \notin Midcall
    <3>1. CASE MarkUnused(r) \/ Hook(r) \/ Reduced(r)
      BY <3>1 DEF MarkUnused, Hook, Reduced, Reducing, Midcall
    <3>2. CASE BroadcastBuffers(r) \/ Prepare(r) \/ UnusedMarked(r) \/ Finish(r) \/ Raise(r) \/ Average(r) \/ ReceiveFails(r)
      <4>1. \E v \in {"prepare", "unused", "backward", "forward", "raised"} : pc' = Set(pc, r, v)
        BY <3>2 DEF BroadcastBuffers, Prepare, UnusedMarked, Finish, Raise, Average, ReceiveFails
      <4> QED BY <1>0, <4>1, PcIs DEF Midcall
    <3> QED BY <1>3, <3>1, <3>2 DEF RankStep
  <2> QED BY <2>1 DEF Current
<1> QED BY <1>1, <1>2, <1>3

LEMMA LeftKept ==
  ASSUME Locked, NEW r \in Ranks, program' = program, config' = config, inStep' = inStep,
         NEW g \in Nat, g = Len(given'[r]), Len(given[r]) <= g, ~Begins(r)' => ~Begins(r), Left(r)
  PROVE  Left(r)'
<1>1. \A n, i, b, k : Numbered(r, n, i, b, k)' <=> Numbered(r, n, i, b, k)
  BY NumberedKept
<1>2. SUFFICES ASSUME ~Begins(r), NEW i \in inStep, NEW n, NEW b, NEW k, Numbered(r, n, i, b, k)
               PROVE  n <= g
  BY <1>1 DEF Left
<1>3. n <= Len(given[r]) /\ Len(given[r]) \in Nat
  BY <1>2, Lengths DEF Left, Locked, Calls
<1>4. n \in Nat
  BY <1>2, FS_CardinalityType DEF Numbered
<1> QED BY ONLY <1>3, <1>4, g \in Nat, Len(given[r]) <= g

\* A rank that finishes the last iteration in step has made all of their calls.
LEMMA FinishLeft ==
  ASSUME Locked, NEW r \in Ranks, Begins(r), Closed, Scripted(r), Finish(r)
  PROVE  Left(r)'
<1>0. /\ LocalTypes /\ program \in Programs /\ Stepping(r) /\ InStepSound /\ RankStep(r)
      /\ program' = program /\ config' = config /\ inStep' = inStep /\ given' = given
  BY KeepsOthers DEF Locked, TypesInv, LocalInv, RankLocal, OthersKept, RankStep, Finish, glooVars
<1>1. Sets(iter, iter', r, iter[r] + 1) /\ pc' = Set(pc, r, "forward")
  BY DEF Finish, Set, Sets
<1>2. pc'[r] = "forward" /\ iter'[r] = iter[r] + 1
  BY <1>0, <1>1, PcIs, SetsOneRank DEF LocalTypes
<1>3. PICK x \in Nat \ {0} : x = iter[r]
  BY <1>0 DEF Stepping
<1>4. PICK L \in Nat : L = Len(program[r]) /\ DOMAIN program[r] = 1 .. L
  <2>1. program \in ProgramType
    BY <1>0, ReducerAssumption
  <2>2. DOMAIN program[r] = 1 .. Len(program[r])
    BY ONLY <2>1, r \in Ranks DEF ProgramType
  <2> QED BY <1>0, <2>2, ProgramLength
<1>5. IsFiniteSet(Made(r)') /\ Len(given[r]) = Cardinality(Made(r)')
  <2>1. Scripted(r)'
    BY FinishScripted
  <2> QED BY <1>0, <1>2, <2>1 DEF Scripted, Counted
<1>6. SUFFICES ASSUME ~Begins(r)', NEW i \in inStep, NEW n, NEW b, NEW k, Numbered(r, n, i, b, k)
               PROVE  n <= Len(given[r])
  BY <1>0, NumberedKept DEF Left
<1>7. x + 1 \notin inStep
  <2>1. PICK j \in 1 .. L : j <= x + 1 /\ j \notin inStep
    BY <1>0, <1>2, <1>3, <1>4, <1>6 DEF Begins, Begun
  <2>2. j <= x => j \in inStep
    BY <1>0, <1>3, <1>4, <2>1, BegunInStep
  <2>3. j = x + 1
    BY ONLY <2>1, <2>2, x \in Nat \ {0}, L \in Nat
  <2> QED BY <2>1, <2>3
<1>8. i <= x
  <2>1. i \in Nat \ {0}
    BY <1>0, <1>6 DEF InStepSound
  <2>2. i >= x + 1 => x + 1 \in 1 .. i
    BY ONLY <2>1, x \in Nat \ {0}
  <2>3. ~(i >= x + 1)
    BY <1>6, <1>7, <2>2 DEF Closed
  <2> QED BY ONLY <2>1, <2>3, x \in Nat \ {0}
<1>9. UpTo(r, i, b, k) \subseteq Made(r)'
  <2>1. SUFFICES ASSUME NEW a \in UpTo(r, i, b, k) PROVE a \in Made(r)'
    OBVIOUS
  <2>2. a \in Triples /\ IsCall(r, a[1], a[2], a[3]) /\ UpToCall(r, a[1], a[2], a[3], i, b, k)
    BY <2>1 DEF UpTo
  <2>3. a[1] \in Nat /\ i \in Nat
    BY <1>0, <1>6, <2>2 DEF Triples, InStepSound
  <2>4. a[1] <= i
    BY ONLY <2>2, <2>3 DEF UpToCall
  <2>5. a[1] < x + 1
    BY ONLY <1>8, <2>3, <2>4, x \in Nat \ {0}
  <2>6. IsCall(r, a[1], a[2], a[3])'
    BY <1>0, <2>2, ScriptKept
  <2> QED BY <1>2, <1>3, <2>2, <2>5, <2>6 DEF Made
<1>10. n <= Cardinality(Made(r)')
  BY <1>5, <1>6, <1>9, FS_Subset DEF Numbered
<1> QED BY <1>5, <1>10

LEMMA ActorLeft ==
  ASSUME Locked, Closed, NEW r \in Ranks, Begins(r) => Scripted(r), Left(r), RankStep(r)
  PROVE  Left(r)'
<1>0. LocalTypes /\ program' = program /\ config' = config /\ inStep' = inStep /\ Shapes
  BY KeepsOthers DEF Locked, TypesInv, LocalInv, OthersKept, Calls
<1>1. PICK a \in Nat : a = Len(given[r])
  BY <1>0, Lengths
<1>2. Len(given'[r]) \in {a, a + 1}
  <2>1. CASE BroadcastBuffers(r) \/ Reduce(r)
    <3>1. \E op \in Group!Ops : \E v, x : Begin(r, op, v, x)
      BY <2>1 DEF BroadcastBuffers, Reduce, Group!Ops
    <3>2. PICK op \in Group!Ops : \E v, x : Begin(r, op, v, x)
      BY <3>1
    <3>3. PICK v, x : Begin(r, op, v, x)
      BY <3>2
    <3> QED BY <1>0, <1>1, <3>3, BeginEffect
  <2>2. CASE ~(BroadcastBuffers(r) \/ Reduce(r))
    <3>1. given' = given
      BY <2>2, ActorGiven
    <3> QED BY <1>1, <3>1
  <2> QED BY <2>1, <2>2
<1>3. PICK g \in Nat : g = Len(given'[r]) /\ a <= g
  BY <1>2
<1>4. CASE Finish(r) /\ Begins(r)
  BY <1>4, FinishLeft
<1>5. CASE Finish(r) /\ ~Begins(r)
  BY <1>0, <1>1, <1>3, <1>5, LeftKept
<1>6. CASE ~Finish(r)
  <2>1. iter' = iter
    BY <1>6 DEF RankStep, BroadcastBuffers, Prepare, MarkUnused, UnusedMarked, Hook, Reduce, Raise, Average,
         Reduced, Communicate, ReceiveFails, setup, localVars
  <2>2. Begins(r)' <=> Begins(r)
    BY <1>0, <2>1 DEF Begins, Begun
  <2> QED BY <1>0, <1>1, <1>3, <2>2, LeftKept
<1> QED BY <1>4, <1>5, <1>6

\* what the synchronised iterations of one rank left in param.grad
Recorded(r) == \A i \in DOMAIN after[r] : i \in inStep /\ Plan(r, i).sync =>
  \A p \in Lone(i) :
    after[r][i][p] \in {<<Contributions(p, i)>>, <<Contributions(p, i), Contributions(p, i)>>}

LEMMA RecordedKept ==
  ASSUME program' = program, inStep' = inStep, NEW r, after'[r] = after[r], Recorded(r)
  PROVE  Recorded(r)'
<1>1. \A i : Plan(r, i)' = Plan(r, i)
  BY DEF Plan
<1>2. \A p, i : Contributions(p, i)' = Contributions(p, i) /\ Lone(i)' = Lone(i)
  BY TermsKept
<1> QED BY <1>1, <1>2 DEF Recorded

LEMMA FinishRecorded ==
  ASSUME Locked, Closed, NEW r \in Ranks, Begins(r) => Scripted(r) /\ Valued(r), Recorded(r), Finish(r)
  PROVE  Recorded(r)'
<1>0. /\ LocalTypes /\ program \in Programs /\ Stepping(r) /\ RankStep(r)
      /\ program' = program /\ inStep' = inStep
  BY KeepsOthers DEF Locked, TypesInv, LocalInv, RankLocal, OthersKept, RankStep
<1>1. PICK v : v = Append(after[r], grad[r])
  OBVIOUS
<1>2. after'[r] = v
  <2>1. Sets(after, after', r, v)
    BY <1>1 DEF Finish, Set, Sets
  <2> QED BY <1>0, <2>1, SetsOneRank DEF LocalTypes
<1>3. PICK n \in Nat : n = Len(after[r]) /\ iter[r] = n + 1 /\ DOMAIN after[r] = 1 .. n
  BY <1>0, SequenceLen DEF Stepping
<1>4. /\ DOMAIN v = 1 .. n + 1 /\ v[n + 1] = grad[r] /\ \A k \in 1 .. n : v[k] = after[r][k]
  BY <1>0, <1>1, <1>3, SequenceAppend, SequenceLen DEF Stepping
<1>5. /\ \A i : Plan(r, i)' = Plan(r, i)
      /\ \A p, i : Contributions(p, i)' = Contributions(p, i) /\ Lone(i)' = Lone(i)
  BY <1>0, TermsKept DEF Plan
<1>6. SUFFICES ASSUME NEW i \in 1 .. n + 1, i \in inStep, Plan(r, i).sync, NEW p \in Lone(i)
               PROVE  v[i][p] \in {<<Contributions(p, i)>>, <<Contributions(p, i), Contributions(p, i)>>}
  BY <1>0, <1>2, <1>4, <1>5 DEF Recorded
<1>7. CASE i \in 1 .. n
  BY <1>3, <1>4, <1>6, <1>7 DEF Recorded
<1>8. CASE i = n + 1
  <2>1. Now(r).sync /\ i = iter[r]
    BY <1>3, <1>6, <1>8 DEF Now
  <2>2. Begins(r)
    <3>1. program \in ProgramType
      BY <1>0, ReducerAssumption
    <3>2. DOMAIN program[r] = 1 .. Len(program[r]) /\ Len(program[r]) \in Nat
      <4>1. DOMAIN program[r] = 1 .. Len(program[r])
        BY ONLY <3>1, r \in Ranks DEF ProgramType
      <4> QED BY <1>0, <4>1, ProgramLength
    <3>3. \A j \in DOMAIN program[r] : j <= i => j \in 1 .. i
      BY <3>2, <1>6
    <3> QED BY <1>6, <2>1, <3>3 DEF Closed, Begins, Begun
  <2>3. PICK b \in DOMAIN Buckets : p \in Range(Buckets[b])
    BY BucketOfIs DEF Lone
  <2>4. pending[r][b] = 0
    BY <2>1, <2>2, FinishFilled DEF Scripted
  <2>5. Written(r, b) /\ Busy(r)
    BY <2>4 DEF Finish, Written, Busy
  <2>6. grad[r][p] \in {<<Contributions(p, iter[r])>>, <<Contributions(p, iter[r]), Contributions(p, iter[r])>>}
    BY <1>6, <2>1, <2>2, <2>3, <2>5 DEF Valued, Grads
  <2> QED BY <1>4, <1>8, <2>1, <2>6
<1> QED BY <1>7, <1>8

LEMMA ActorRecorded ==
  ASSUME Locked, Closed, NEW r \in Ranks, Begins(r) => Scripted(r) /\ Valued(r), Recorded(r), RankStep(r)
  PROVE  Recorded(r)'
<1>1. CASE ~Finish(r)
  <2>1. program' = program /\ inStep' = inStep
    BY KeepsOthers DEF Locked, TypesInv, LocalInv, OthersKept
  <2>2. after' = after
    BY <1>1 DEF RankStep, BroadcastBuffers, Prepare, MarkUnused, UnusedMarked, Hook, Reduce, Raise, Average,
         Reduced, Communicate, ReceiveFails, localVars
  <2> QED BY <2>1, <2>2, RecordedKept
<1> QED BY <1>1, FinishRecorded

Accounted(r) == /\ Numbering(r) /\ Left(r) /\ Recorded(r)
                /\ Begins(r) => Current(r) /\ Valued(r)

LEMMA IdleAccounted ==
  ASSUME Locked, NEW q \in Ranks, Rests(q), inStep' = inStep, bgrads'[q] = bgrads[q], grad'[q] = grad[q],
         after'[q] = after[q], Accounted(q)
  PROVE  Accounted(q)'
<1>1. /\ program' = program /\ config' = config /\ given'[q] = given[q] /\ iter'[q] = iter[q] /\ pc'[q] = pc[q]
      /\ pending'[q] = pending[q] /\ red'[q] = red[q]
  BY DEF Rests
<1>2. Numbering(q)'
  BY <1>1, NumberingKept DEF Accounted
<1>3. Begins(q)' <=> Begins(q)
  BY <1>1 DEF Begins, Begun
<1>4. Left(q)'
  <2>1. PICK g \in Nat : g = Len(given[q])
    BY Lengths DEF Locked, Calls
  <2>2. g = Len(given'[q]) /\ Len(given[q]) <= g
    BY <1>1, <2>1
  <2> QED BY <1>1, <1>3, <2>2, LeftKept DEF Accounted
<1>5. Recorded(q)'
  BY <1>1, RecordedKept DEF Accounted
<1>6. ASSUME Begins(q) PROVE Current(q)' /\ Valued(q)'
  <2>1. Current(q) /\ Valued(q)
    BY <1>6 DEF Accounted
  <2>2. Busy(q)' => Busy(q)
    BY <1>1 DEF Busy
  <2>3. Valued(q)'
    BY <1>1, <2>1, <2>2, ValuedKept
  <2>4. PICK n, i, b, k : n = Len(given[q]) /\ i = iter[q] /\ b = red[q][1] /\ k = red[q][2]
    OBVIOUS
  <2>5. Numbered(q, n, i, b, k)' <=> Numbered(q, n, i, b, k)
    BY <1>1, NumberedKept
  <2>6. Current(q)'
    BY <1>1, <2>1, <2>4, <2>5 DEF Current, Numbered
  <2> QED BY <2>3, <2>6
<1> QED BY <1>2, <1>3, <1>4, <1>5, <1>6 DEF Accounted

LEMMA ActorAccounted ==
  ASSUME Locked, GlooInv, Closed, \A q \in Ranks : Accounted(q), NEW r \in Ranks, Begins(r) => Scripted(r),
         Slotted(r), Objects(r), Summing(r), RankStep(r)
  PROVE  Accounted(r)'
<1>1. /\ Numbering(r) /\ Left(r) /\ Recorded(r) /\ (Begins(r) => Current(r) /\ Valued(r))
      /\ \A q \in Ranks : Numbering(q)
  BY DEF Accounted
<1>2. Numbering(r)'
  BY <1>1, ActorNumbering
<1>3. Left(r)'
  BY <1>1, ActorLeft
<1>4. Recorded(r)'
  BY <1>1, ActorRecorded
<1>5. ASSUME Begins(r)' PROVE Current(r)' /\ Valued(r)'
  <2>1. Begins(r)
    BY <1>5, BeginsBefore
  <2>2. Current(r)'
    BY <1>1, <2>1, ActorCurrent
  <2>3. Valued(r)'
    BY <1>1, <2>1, ActorValued
  <2> QED BY <2>2, <2>3
<1> QED BY <1>2, <1>3, <1>4, <1>5 DEF Accounted

LEMMA ClosedInit == ReducerInit => Closed
<1>1. SUFFICES ASSUME ReducerInit, NEW i \in inStep, NEW j \in 1 .. i PROVE j \in inStep
  BY DEF Closed
<1>2. PICK M \in Nat : M = Max({Len(program[r]) : r \in Ranks})
  BY <1>1, LongestProgram DEF ReducerInit
<1>3. i \in 1 .. M /\ StaysInStep(i)
  BY <1>1, <1>2 DEF ReducerInit
<1>4. j \in 1 .. M /\ \A k \in 1 .. j : k \in 1 .. i
  BY <1>1, <1>3
<1>5. StaysInStep(j)
  BY <1>3, <1>4 DEF StaysInStep
<1> QED BY <1>1, <1>2, <1>4, <1>5 DEF ReducerInit

LEMMA AccountedInit ==
  ASSUME ReducerInit, Closed, InStepSound, NEW r \in Ranks
  PROVE  Accounted(r)
<1>1. given[r] = << >> /\ pc[r] = "forward" /\ iter[r] = 1 /\ after[r] = << >>
  BY DEF ReducerInit, GlooInit
<1>2. Len(given[r]) = 0
  BY <1>1, SequenceEmpty
<1>3. Numbering(r)
  BY <1>2 DEF Numbering
<1>4. Recorded(r) /\ Current(r) /\ Valued(r)
  BY <1>1 DEF Recorded, Current, Valued, Held, Grads, Busy, Midcall
<1>5. ASSUME ~Begins(r), NEW i \in inStep PROVE FALSE
  <2>1. 1 \in 1 .. i
    BY <1>5 DEF InStepSound
  <2>2. 1 \in inStep
    BY <1>5, <2>1 DEF Closed
  <2>3. PICK j \in DOMAIN program[r] : j <= 1 /\ j \notin inStep
    BY <1>1, <1>5 DEF Begins, Begun
  <2>4. DOMAIN program[r] = 1 .. Len(program[r]) /\ Len(program[r]) \in Nat
    <3>1. program \in ProgramType /\ program \in Programs
      BY ReducerAssumption DEF ReducerInit
    <3>2. DOMAIN program[r] = 1 .. Len(program[r])
      BY ONLY <3>1, r \in Ranks DEF ProgramType
    <3> QED BY <3>1, <3>2, ProgramLength
  <2>5. j = 1
    BY <2>3, <2>4
  <2> QED BY <2>2, <2>3, <2>5
<1>6. Left(r)
  BY <1>5 DEF Left
<1> QED BY <1>3, <1>4, <1>6 DEF Accounted

AveragesInv == Closed /\ \A r \in Ranks : Accounted(r)

LEMMA AveragesInvariant == ReducerSpec => []AveragesInv
<1>1. ReducerInit => AveragesInv
  BY ClosedInit, InStepInit, AccountedInit DEF AveragesInv
<1>2. ASSUME AveragesInv, ScriptInv, ObjectsInv, GlooInv, [ReducerNext]_reducerVars PROVE AveragesInv'
  <2>0. Locked
    BY <1>2 DEF Locked, ScriptInv, ObjectsInv, GlooInv
  <2>1. CASE UNCHANGED reducerVars
    <3>1. /\ UNCHANGED <<given, iter, pc, at, todo, cache, pending, bgrads, red, grad, after>>
          /\ program' = program /\ config' = config /\ inStep' = inStep
      BY <2>1 DEF reducerVars, glooVars, setup, localVars
    <3>2. Closed'
      BY <1>2, <3>1 DEF AveragesInv, Closed
    <3>3. ASSUME NEW q \in Ranks PROVE Accounted(q)'
      <4>1. Rests(q)
        BY <3>1 DEF Rests
      <4> QED BY <1>2, <2>0, <3>1, <4>1, IdleAccounted DEF AveragesInv
    <3> QED BY <3>2, <3>3 DEF AveragesInv
  <2>2. ASSUME NEW r \in Ranks, RankStep(r) PROVE AveragesInv'
    <3>1. OthersKept(r)
      BY <2>0, <2>2, KeepsOthers DEF Locked, TypesInv, LocalInv
    <3>2. Closed'
      BY <1>2, <3>1 DEF AveragesInv, Closed, OthersKept
    <3>3. ASSUME NEW q \in Ranks PROVE Accounted(q)'
      <4>1. CASE q = r
        BY <1>2, <2>0, <2>2, <4>1, ActorAccounted DEF AveragesInv, ScriptInv, ObjectsInv
      <4>2. CASE q # r
        <5>1. Rests(q)
          BY <2>0, <2>2, <4>2, OthersRest
        <5>2. inStep' = inStep /\ bgrads'[q] = bgrads[q] /\ grad'[q] = grad[q] /\ after'[q] = after[q]
          BY <3>1, <4>2 DEF OthersKept, OneRank, Same
        <5> QED BY <1>2, <2>0, <5>1, <5>2, IdleAccounted DEF AveragesInv
      <4> QED BY <4>1, <4>2
    <3> QED BY <3>2, <3>3 DEF AveragesInv
  <2> QED BY <1>2, <2>1, <2>2 DEF ReducerNext, Terminated
<1> QED BY <1>1, <1>2, ScriptInvariant, ObjectsInvariant, GlooInvariant, PTL DEF ReducerSpec

\* After every synchronised iteration in step, param.grad of every rank holds the average of
\* this iteration's gradients over all ranks, once or twice, and nothing else: also when
\* gradients had been accumulated under no_sync before it, which are then lost
\* (_reduce_bucket overwrites param.grad, distributed.py:210). It is so of the parameters
\* whose tensor no rank shares.
Overwrites == \A r \in Ranks : \A i \in DOMAIN after[r] : i \in inStep /\ Plan(r, i).sync =>
  \A p \in Params : (\A q \in Ranks : Alone(q, p, i)) =>
    after[r][i][p] \in {<<Contributions(p, i)>>, <<Contributions(p, i), Contributions(p, i)>>}

THEOREM AccumulatedLost == ReducerSpec => []Overwrites
<1>1. AveragesInv => Overwrites
  BY DEF AveragesInv, Accounted, Recorded, Lone, Overwrites
<1> QED BY <1>1, AveragesInvariant, PTL

\* GradientsAveraged: after an iteration in step that began without gradients, param.grad of
\* every rank is the average of this iteration's gradients of the right parameter over all
\* ranks, once or twice.
THEOREM AveragesCorrect == ReducerSpec => []GradientsAveraged
<1>1. Overwrites => GradientsAveraged
  BY DEF Overwrites, GradientsAveraged
<1> QED BY <1>1, AccumulatedLost, PTL

=============================================================================
