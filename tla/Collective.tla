----------------------------- MODULE Collective -----------------------------
(***************************************************************************)
(* What the collectives of a process group promise: the n-th call of a     *)
(* rank meets the n-th call of every other rank.  An all-reduce ends when  *)
(* every rank has made it, with the sum of what they gave; a broadcast,    *)
(* with what rank 0 gave.  Once the calls of two ranks differ, nothing is  *)
(* promised of that call and of later ones.                                *)
(*                                                                         *)
(* A sum is kept as the set of its terms.                                  *)
(***************************************************************************)
EXTENDS Integers, Sequences

CONSTANT N   \* world_size, positive

Ranks == 0 .. N - 1
Ops == {"allreduce", "broadcast"}

VARIABLES given,  \* given[r]: the calls of r, in order: [op, val, tensor]
          taken   \* taken[r]: the results of r's calls that returned

collVars == <<given, taken>>

Called(n) == {r \in Ranks : n <= Len(given[r])}

\* of the calls up to the n-th, those made are the same on all ranks
Agreed(n) == \A q, r \in Ranks : \A m \in DOMAIN given[q] \cap DOMAIN given[r] :
               m <= n => given[q][m].op = given[r][m].op

Settled(op, n) == IF op = "allreduce" THEN Called(n) = Ranks ELSE 0 \in Called(n)

Sum(n) == UNION {given[q][n].val : q \in Ranks}
Outcome(op, n) == IF op = "allreduce" THEN Sum(n) ELSE given[0][n].val

CollInit == given = [r \in Ranks |-> << >>] /\ taken = [r \in Ranks |-> << >>]

\* f' is f with one more element at r
Grows(f, r) == /\ Len(f'[r]) = Len(f[r]) + 1
               /\ f' = [f EXCEPT ![r] = Append(@, f'[r][Len(f[r]) + 1])]

\* r calls
Give(r) ==
  /\ Len(given[r]) = Len(taken[r])
  /\ Grows(given, r) /\ given'[r][Len(given'[r])].op \in Ops
  /\ UNCHANGED taken

\* r's call returns
Take(r) ==
  LET n == Len(given[r])
      c == given[r][n]
  IN  /\ n = Len(taken[r]) + 1
      /\ Grows(taken, r)
      /\ Agreed(n) => Settled(c.op, n) /\ taken'[r][n] = Outcome(c.op, n)
      /\ UNCHANGED given

CollNext == \E r \in Ranks : Give(r) \/ Take(r)

CollSpec == CollInit /\ [][CollNext]_collVars

=============================================================================
