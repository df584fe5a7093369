----------------------------- MODULE MCBackups -----------------------------
(* Instances of Backups for TLC. *)
EXTENDS Backups

CONSTANTS c1, c2
=============================================================================
