------------------------------ MODULE MCFailover ------------------------------
(* Failover for TLC: the instances of the coordinator are interchangeable.      *)
EXTENDS Failover, TLC

CoordSymmetry == Permutations(Coords)
=============================================================================
