----------------------------- MODULE MCShardWAL -----------------------------
(* Instances of ShardWAL for TLC.                                          *)
EXTENDS ShardWAL, TLC

DocSymmetry == Permutations(Docs)
=============================================================================
