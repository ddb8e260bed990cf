---------------------------- MODULE MCReplication ----------------------------
(***************************************************************************)
(* Replication instantiated for TLC: the constants are given by the .cfg *)
(* files, and the slaves are interchangeable model values.               *)
(***************************************************************************)
EXTENDS Replication, TLC

MCSymmetry == Permutations(Slaves)
=============================================================================
