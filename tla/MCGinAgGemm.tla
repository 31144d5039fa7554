---------------------------- MODULE MCGinAgGemm ----------------------------
(***************************************************************************)
(* GinAgGemm for TLC, in instances that share the variables:               *)
(*   main   the constants of the .cfg: two nodes of two GPUs, where LSA    *)
(*          peers store into each other                                    *)
(*   ring   three nodes of one GPU: chunks that were received are sent on  *)
(* both over two forwards, so that every buffer is used again.  The run    *)
(* with two CTAs and tiles that straddle chunks needs no module: its .cfg  *)
(* is for GinAgGemm itself.                                                *)
(***************************************************************************)
EXTENDS GinAgGemm

Ring == INSTANCE GinAgGemm WITH
    NNodes <- 3, NLocal <- 1, NBlocks <- 1, Chunks <- 1, ChunkM <- 1, TileM <- 3,
    NSMs <- 1

VARIABLE instance       \* the instance of this behaviour

mcVars == <<instance, vars>>

MCInit ==
    \/ instance = "main" /\ Init
    \/ instance = "ring" /\ Ring!Init

MCNext ==
    /\ \/ instance = "main" /\ Next
       \/ instance = "ring" /\ Ring!Next
    /\ UNCHANGED instance

MCSafe == MCInit /\ [][MCNext]_mcVars

-----------------------------------------------------------------------------
\* A flag stands for the current chunk, every put stays in its forward and every signal
\* is counted, in both shapes.
WindowsAndSignalsKept ==
    IF instance = "main"
    THEN TypeOK /\ ReadyMeansCurrent /\ PutsStayInForward /\ NoLeftoverSignal
    ELSE Ring!TypeOK /\ Ring!ReadyMeansCurrent /\ Ring!PutsStayInForward /\ Ring!NoLeftoverSignal
=============================================================================
