------------------------------ MODULE MCSearch ------------------------------
(* Two exports of a page that is opened twice or whose worker dies once.     *)
EXTENDS SearchStore, TLC
=============================================================================
