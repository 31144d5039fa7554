-------------------------------- MODULE MCGemmRs --------------------------------
(***************************************************************************)
(* GemmRsTiles for TLC, in instances that share the variables:             *)
(*   main    the constants of the .cfg: one node, more CTAs than SMs, tiles*)
(*           whose own partial is another CTA's, forwards that a caller or *)
(*           the GIN kernel keeps apart                                    *)
(*   nodes   a node of two, whose forwards end with the group barrier      *)
(*   grow    one node and no barrier, the second forward in a larger       *)
(*           barrier_buffer                                                *)
(*   plain   without FuseReduction, one SM                                 *)
(* All have two GPUs, two rows of tiles and three CTAs, so that what the   *)
(* properties of GemmRsTiles say with the constants of the .cfg they say   *)
(* of every instance.                                                      *)
(***************************************************************************)
EXTENDS GemmRsTiles

Nodes == INSTANCE GemmRsTiles WITH
    NNodes <- 2, TilesPerRank <- 1, Sync <- "group_barrier"
Grow  == INSTANCE GemmRsTiles WITH Sync <- "none", GrowAt <- {1, 2}
Plain == INSTANCE GemmRsTiles WITH Sms <- 1, Fuse <- FALSE

VARIABLE instance       \* the instance of this behaviour

mcVars == <<instance, vars>>

MCInit ==
    \/ instance = "main" /\ Init
    \/ instance = "nodes" /\ Nodes!Init
    \/ instance = "grow" /\ Grow!Init
    \/ instance = "plain" /\ Plain!Init

MCNext ==
    /\ \/ instance = "main" /\ Next
       \/ instance = "nodes" /\ Nodes!Next
       \/ instance = "grow" /\ Grow!Next
       \/ instance = "plain" /\ Plain!Next
    /\ UNCHANGED instance

MCSpec == MCInit /\ [][MCNext]_mcVars /\ WF_mcVars(MCNext)
=============================================================================
