------------------------------ MODULE MCStore -------------------------------
(***************************************************************************)
(* A small instance of TCPStore: two threads share a connection, a third   *)
(* has its own.                                                            *)
(***************************************************************************)
EXTENDS TCPStore, TLC

CONSTANTS k1, k2, v1, v2, rank0, rank1, main, helper, other

MCConnOf == (main :> rank0) @@ (helper :> rank0) @@ (other :> rank1)

MCOffered == {[cmd |-> "set", key |-> k1, val |-> v1], [cmd |-> "set", key |-> k1, val |-> v2],
              [cmd |-> "get", key |-> k1], [cmd |-> "wait", keys |-> {k1, k2}]}

=============================================================================
