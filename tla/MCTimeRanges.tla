---------------------------- MODULE MCTimeRanges ----------------------------
(* Instances of TimeRanges for TLC. *)
EXTENDS TimeRanges, TLC

CONSTANTS d1, d2

DocSymmetry == Permutations(Docs)
=============================================================================
