----------------------------- MODULE MCLogFile -----------------------------
(***************************************************************************)
(* An instance of LogFile for TLC: the first thread logs on two days, the  *)
(* second on the first day, so that the days in the queue may be 1 2, 1 2  *)
(* 1 or 1 2 1 1.                                                           *)
(***************************************************************************)
EXTENDS LogFile, LogPipelineInv

CONSTANTS p1, p2

MCDateOf == [x \in Items |-> IF x = <<p1, 2>> THEN "d2" ELSE "d1"]
=============================================================================
