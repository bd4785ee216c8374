----------------------------- MODULE MCRunner ------------------------------
(***************************************************************************)
(* ModelRunner, several ranks, with the requests of MCEngine.              *)
(***************************************************************************)
EXTENDS MCEngine, ModelRunner

=============================================================================
