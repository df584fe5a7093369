-------------------------- MODULE MCShardLifecycle --------------------------
(* Instances of ShardLifecycle for TLC. *)
EXTENDS ShardLifecycle

CONSTANTS s1, s2, c1, c2
=============================================================================
