------------------------------- MODULE MCAuth -------------------------------
(* A browser and another client behind its address; two wrong passwords      *)
(* block the next login.                                                     *)
EXTENDS AuthStore, TLC
=============================================================================
