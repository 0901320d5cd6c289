---------------------------- MODULE MCRetrieval -----------------------------
(* Lines within a limit of six tokens: one that fills a chunk, one of a few  *)
(* dots that count nothing, and an oversized one.                            *)
EXTENDS Retrieval, TLC

Line(words, other, chars) == [words |-> words, other |-> other, chars |-> chars]
MCTexts == {Line(6, 0, 6), Line(0, 3, 3), Line(8, 0, 9)}
=============================================================================
