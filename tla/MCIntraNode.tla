------------------------------ MODULE MCIntraNode ------------------------------
(***************************************************************************)
(* Two components of one node for TLC, one at a time (the other stays in   *)
(* its initial state), both with the constants of the .cfg:                *)
(*   ring    the ring-mode barrier kernel: the first rank, the last and two*)
(*           in between, each making three back-to-back calls: the second  *)
(*           call's wave starts while the first one's clears are still on  *)
(*           their way down, and the third reuses every flag               *)
(*   gather  AllGatherOp between two ranks, fused preparation and not, by  *)
(*           kernel and by copy engine, two forwards in any order          *)
(***************************************************************************)
EXTENDS CudaIpcBarrierRing, AllGatherOp

VARIABLE instance       \* the component of this behaviour

Opt(mode, fuse, cores) == [mode |-> mode, fuse |-> fuse, cores |-> cores]

\* The options whose transfer never reads the own segment of a peer right after
\* a fused preparation.
PairOptions == {Opt("RingPush", TRUE, TRUE), Opt("RingPush", TRUE, FALSE),
                Opt("RingPush", FALSE, FALSE), Opt("All2All", FALSE, TRUE),
                Opt("RingPull", FALSE, FALSE)}

mcVars == <<instance, ringVars, vars>>

MCInit ==
    /\ instance \in {"ring", "gather"}
    /\ RingInit
    /\ Init
    /\ instance = "ring" => \A f \in DOMAIN opts : opts[f] = Opt("All2All", FALSE, TRUE)

RingStep   == instance = "ring" /\ RingNext /\ UNCHANGED <<instance, vars>>
GatherStep == instance = "gather" /\ Next /\ UNCHANGED <<instance, ringVars>>

MCSpec == /\ MCInit /\ [][RingStep \/ GatherStep]_mcVars
          /\ \A r \in RingRanks : WF_ringVars(Kernel(r))
          /\ WF_mcVars(GatherStep)

-----------------------------------------------------------------------------
\* AllGatherOp's AllForwardsComplete, where the gather runs at all.
GatherCompletes == instance = "gather" => AllForwardsComplete
=============================================================================
