----------------------------- MODULE MCAllGatherOp -----------------------------
(***************************************************************************)
(* AllGatherOp for TLC with the default options of forwards with int8      *)
(* inputs: the fused preparation, whose second barrier a peer may pass     *)
(* while the copy is under way, and the transfer by kernel that reads the  *)
(* segment of a peer right behind it.                                      *)
(***************************************************************************)
EXTENDS AllGatherOp

FusedPullOptions == {[mode |-> "All2All", fuse |-> TRUE, cores |-> TRUE]}
=============================================================================
