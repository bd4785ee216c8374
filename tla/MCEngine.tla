----------------------------- MODULE MCEngine ------------------------------
(***************************************************************************)
(* Small instances of LLMEngine for TLC.                                   *)
(***************************************************************************)
EXTENDS LLMEngine

MCSeqs == 1 .. 3
MCPromptsFit == {<<1>>, <<1, 1>>, <<2, 1, 1>>}
MCPrompts == {<<1>>, <<1, 1>>, <<2, 1, 1>>, <<1, 1, 1, 1>>}

=============================================================================
