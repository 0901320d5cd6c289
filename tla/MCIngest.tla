------------------------------ MODULE MCIngest ------------------------------
(* IngestInvariant (and IngestPipeline) with the symmetry of its interchangeable identifiers. *)
EXTENDS IngestInvariant, TLC

Symmetry ==
    Permutations(Docs) \cup Permutations(Jobs)
    \cup Permutations(Sessions) \cup Permutations(Workers)
=============================================================================
