------------------------------- MODULE MCOcr --------------------------------
(* TLC instance of OcrService. *)
EXTENDS OcrService, TLC

=============================================================================
