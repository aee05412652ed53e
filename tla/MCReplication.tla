---------------------------- MODULE MCReplication ----------------------------
(* Replication on small instances. *)
EXTENDS Replication, TLC

ConnSymmetry == Permutations(Conns)
=============================================================================
