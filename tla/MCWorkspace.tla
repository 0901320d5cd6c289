---------------------------- MODULE MCWorkspace -----------------------------
(* Two users and two requests at a time: every pair of requests races.     *)
EXTENDS Workspace, TLC

Symmetry == Permutations(Users) \cup Permutations(Requests)
=============================================================================
