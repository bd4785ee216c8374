-------------------------------- MODULE Gloo --------------------------------
(***************************************************************************)
(* The collectives of mindtorch_v2/distributed/_gloo: rank 0 gathers from  *)
(* its peers in rank order, reduces, and sends the result to each.  The    *)
(* messages of a call carry no tag: a rank takes the next message of the   *)
(* connection for the one it waits for.                                    *)
(*                                                                         *)
(* A connection is two FIFO channels, of which the collectives modelled    *)
(* here use up (to rank 0) and down (from rank 0).  A tensor's content is  *)
(* the set of the terms it is the sum of.                                  *)
(***************************************************************************)
EXTENDS Integers, Sequences

CONSTANT N   \* world_size

ASSUME WorldAssumption == N \in Nat \ {0}

VARIABLES given,     \* history: given[r], the calls of r
          taken,     \* history: taken[r], what r's calls returned
          up, down,  \* up[r]: messages of r to rank 0; down[r]: of rank 0 to r
          phase,     \* phase[r]: the place within the collective r is in
          acc,       \* acc[r]: arr or result of that call
          peer       \* the loop variable of rank 0

glooVars == <<given, taken, up, down, phase, acc, peer>>

Group == INSTANCE Collective WITH given <- given, taken <- taken

Ranks == 0 .. N - 1
Peers == Ranks \ {0}

GlooInit ==
  /\ given = [r \in Ranks |-> << >>] /\ taken = [r \in Ranks |-> << >>]
  /\ up = [r \in Peers |-> << >>] /\ down = [r \in Peers |-> << >>]
  /\ phase = [r \in Ranks |-> "idle"] /\ acc = [r \in Ranks |-> {}] /\ peer = 1

\* the first send or receive of a call
First(op, r) == IF op = "allreduce"
                THEN IF r = 0 THEN "gather" ELSE "send"
                ELSE IF r = 0 THEN "scatter" ELSE "receive"

\* r calls allreduce, or broadcast from rank 0
Begin(r, op, v, x) ==
  /\ phase[r] = "idle"
  /\ given' = [given EXCEPT ![r] = Append(@, [op |-> op, val |-> v, tensor |-> x])]
  /\ phase' = [phase EXCEPT ![r] = First(op, r)]
  /\ acc' = [acc EXCEPT ![r] = v]
  /\ peer' = IF r = 0 THEN 1 ELSE peer
  /\ UNCHANGED <<taken, up, down>>

SendUp(r) ==
  /\ phase[r] = "send"
  /\ up' = [up EXCEPT ![r] = Append(@, acc[r])]
  /\ phase' = [phase EXCEPT ![r] = "receive"]
  /\ UNCHANGED <<given, taken, down, acc, peer>>

\* range(1, self._size)
EndShort == N - 1   \* mutant
End == N

Gather ==
  /\ phase[0] = "gather" /\ peer < End /\ up[peer] # << >>
  /\ acc' = [acc EXCEPT ![0] = @ \cup Head(up[peer])]
  /\ up' = [up EXCEPT ![peer] = Tail(@)]
  /\ peer' = peer + 1
  /\ UNCHANGED <<given, taken, down, phase>>

Gathered ==
  /\ phase[0] = "gather" /\ peer = End
  /\ peer' = 1 /\ phase' = [phase EXCEPT ![0] = "scatter"]
  /\ UNCHANGED <<given, taken, up, down, acc>>

Scatter ==
  /\ phase[0] = "scatter" /\ peer < N
  /\ down' = [down EXCEPT ![peer] = Append(@, acc[0])]
  /\ peer' = peer + 1
  /\ UNCHANGED <<given, taken, up, phase, acc>>

\* the call returns
Returns(r, v) ==
  /\ taken' = [taken EXCEPT ![r] = Append(@, v)]
  /\ phase' = [phase EXCEPT ![r] = "idle"]
  /\ UNCHANGED <<given, up, peer>>

Scattered == phase[0] = "scatter" /\ peer = End /\ Returns(0, acc[0]) /\ UNCHANGED <<down, acc>>

Receive(r) ==
  /\ phase[r] = "receive" /\ down[r] # << >>
  /\ acc' = [acc EXCEPT ![r] = Head(down[r])]
  /\ down' = [down EXCEPT ![r] = Tail(@)]
  /\ Returns(r, Head(down[r]))

GlooStep(r) == IF r = 0 THEN Gather \/ Gathered \/ Scatter \/ Scattered
                        ELSE SendUp(r) \/ Receive(r)

\* r waits for a message of q
Awaits(r, q) == IF r = 0 THEN phase[0] = "gather" /\ q = peer /\ up[q] = << >>
                         ELSE q = 0 /\ phase[r] = "receive" /\ down[r] = << >>

=============================================================================
