------------------------------- MODULE MCChat -------------------------------
(* One knowledge base with one document, for ChatTurn: the store's races.  *)
EXTENDS ChatTurn, TLC

CONSTANTS k1, d1

MCKbOf == (d1 :> k1)
=============================================================================
