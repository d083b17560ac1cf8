---------------------------- MODULE MCDiskCalls ----------------------------
(***************************************************************************)
(* The two VMs are alike, and so are the threads of a daemon.              *)
(***************************************************************************)
EXTENDS DiskCalls, TLC

Alike == Permutations(Node) \cup Permutations(Thread)
=============================================================================
