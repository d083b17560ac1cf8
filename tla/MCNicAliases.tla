---------------------------- MODULE MCNicAliases ----------------------------
(***************************************************************************)
(* The clusters are alike, and so are the two VMs.                         *)
(***************************************************************************)
EXTENDS NicAliases, TLC

Alike == Permutations(Cluster) \cup Permutations(Node)
=============================================================================
