--------------------------- MODULE MCChatService ---------------------------
(* Two knowledge bases, two turns, one document: the service's races with  *)
(* the hard deletion of either.                                            *)
EXTENDS ChatService, TLC

CONSTANTS k1, k2, d1

MCKbOf == (d1 :> k1)
=============================================================================
