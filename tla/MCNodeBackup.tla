---------------------------- MODULE MCNodeBackup ----------------------------
(* Instances of NodeBackup for TLC: two indexes that take turns. *)
EXTENDS NodeBackup

CONSTANTS r1, r2

Alternate(m) == 1 + (m % 2)
=============================================================================
