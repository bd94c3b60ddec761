--------------------------- MODULE MCLogPipeline ---------------------------
(***************************************************************************)
(* Instances of LogPipeline for TLC.                                       *)
(***************************************************************************)
EXTENDS LogPipeline

Symmetry == Permutations(Producers) \union Permutations(Closers)
=============================================================================
