---------------------------- MODULE MCController ----------------------------
(***************************************************************************)
(* An instance of Controller for TLC: a user thread that may also cancel,  *)
(* and a thread that only cancels.                                         *)
(***************************************************************************)
EXTENDS Controller

CONSTANTS u, v, c1, c2

Symmetry == Permutations({c1, c2})
=============================================================================
