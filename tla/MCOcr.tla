------------------------------- MODULE MCOcr -------------------------------
(* Three sessions of two priorities; one worker takes what two wait for.      *)
EXTENDS OcrService, TLC
=============================================================================
