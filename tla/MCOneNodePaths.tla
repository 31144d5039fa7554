---------------------------- MODULE MCOneNodePaths ----------------------------
(***************************************************************************)
(* The ways in which the ranks of one node move data, for TLC, one at a    *)
(* time (the variables of the other component stay as they are):           *)
(*   forwards  GemmRsForward in the configurations below                   *)
(*   three     AllGatherOp on three ranks, whose two forwards may use      *)
(*             different modes                                             *)
(*   numa      AllGatherOp on two NUMA nodes of two ranks, tiles in order, *)
(*             one forward                                                 *)
(***************************************************************************)
EXTENDS GemmRsForward, RingOrder

VARIABLES
    instance,       \* the component of this behaviour
    straggler,      \* the rank of eight that moves at any time
    opts, input, compFwd, compPc, tiles, stale, commFwd, commPc, agSignal, cta,
    met, work, copied, sent, window, ready      \* those of AllGatherOp, met for its arrived

Forward(world, ops) ==
    [world |-> world, tiles |-> 1, groups |-> 1, epilogue |-> "keep", ops |-> ops @@ <<>>,
     late |-> {(0..(world - 1)) \X (0..(world - 1)) \X {0}}, sync |-> FALSE, fresh |-> {},
     forwards |-> 2]

NoOps(world) == [r \in 0..(world - 1) |-> <<>>]

\* Three ranks whose GEMMs finish segments in any order; the same with three tiles in
\* two waves of two groups; the ring kernels of two NUMA nodes of four ranks.
Waves3(ops) == [Forward(3, ops) EXCEPT !.tiles = 3, !.groups = 2,
                                       !.late = {{<<0, 1, 0>>, <<1, 2, 1>>}}]
Numa8(ops) == [Forward(8, ops) EXCEPT !.late = {{}}]

PathConfigs ==
    [none       |-> Forward(1, NoOps(1)),
     store      |-> [Forward(3, NoOps(3)) EXCEPT !.epilogue = "store", !.sync = TRUE],
     add        |-> [Forward(3, NoOps(3)) EXCEPT !.epilogue = "add"],
     pull1d     |-> Waves3(Pull1d(3)),
     push1d     |-> Waves3(Push1d(3)),
     segment1d  |-> Forward(3, Segment1d(3)),
     memcpy1d   |-> Forward(3, Memcpy1d(3)),
     pull2d     |-> Numa8(Pull2d),
     push2d     |-> Numa8(Push2d),
     segment2d  |-> [Numa8(Segment2d) EXCEPT !.forwards = 1]]

\* Configs of the .cfg, by a name of its own: TLC evaluates PathConfigs only once, and what
\* a .cfg names in the place of a constant at every use.
TheConfigs == PathConfigs

\* Certificates of the ring kernels' operations: all the order their flags impose, and
\* the sums that follow from it.
RECURSIVE OrderFrom(_, _), PartsFrom(_, _, _), NumbersFrom(_, _)
OrderFrom(c, before) ==
    LET next == [e \in OpEvents(c) |-> Over(c, before, e)] @@ before
    IN  IF next = before THEN before ELSE OrderFrom(c, next)
PartsFrom(c, before, parts) ==
    LET next == [e \in OpEvents(c) |->
                    UNION {Found(c, before, parts, e, p) : p \in OpOf(c, e).from}] @@ parts
    IN  IF next = parts THEN parts ELSE PartsFrom(c, before, next)

\* And numbers for the operations: one more than all that has to come first.
NumbersFrom(c, number) ==
    LET First(f) == Min({number[x] : x \in Raisers(c, f)})
        next == [e \in OpEvents(c) |->
                    Max({0} \cup {number[d] + 1 : d \in {<<"op", e[2], i>> : i \in 1..(e[3] - 1)}}
                            \cup {First(f) + 1 : f \in OpOf(c, e).waits \ EpiEvents(c)})]
    IN  IF next = number THEN number ELSE NumbersFrom(c, next)

\* The configurations are sound, and their operations ordered, in no circle.
ASSUME PathsAreOrdered ==
    \A name \in DOMAIN PathConfigs :
        LET c      == PathConfigs[name]
            none   == [e \in OpEvents(c) |-> {}]
            before == OrderFrom(c, none)
        IN  /\ Sound(c)
            /\ c.epilogue = "keep" =>
                    /\ Certified(c, before, PartsFrom(c, before, none))
                    /\ Acyclic(c, NumbersFrom(c, [e \in OpEvents(c) |-> 0]))

Opt(mode, fuse, cores) == [mode |-> mode, fuse |-> fuse, cores |-> cores]

\* One-dimensional modes of three ranks, by kernels and by the copy engine.
MixedOptions == {Opt("All2All", FALSE, TRUE), Opt("RingPull", FALSE, FALSE),
                 Opt("RingPush", FALSE, FALSE)}

Three == INSTANCE AllGatherOp WITH
    WorldSize <- 3, NumaSize <- 3, Options <- MixedOptions, TilesInOrder <- FALSE,
    arrived <- met
Numa == INSTANCE AllGatherOp WITH
    WorldSize <- 4, NumaSize <- 2, Options <- {Opt("RingPush2D", FALSE, FALSE)},
    TilesInOrder <- TRUE, MaxForwards <- 1, arrived <- met

gatherVars == <<opts, input, compFwd, compPc, tiles, stale, commFwd, commPc, agSignal,
                cta, met, work, copied, sent, window, ready>>
mcVars == <<instance, straggler, fvars, gatherVars>>

\* The lists of segment2d are long: three stragglers of the eight.
Stragglers == IF Config.world < 8 THEN {0}
              ELSE IF config = "segment2d" THEN {0, 3, 6} ELSE Ranks

\* The all-to-all mode comes first, or after the ring that pulls; two forwards all to
\* all are left to the two ranks of MCIntraNode.
OneRing == opts[2].mode = "All2All" => opts[1].mode = "RingPull"

MCInit ==
    /\ instance \in {"forwards", "three", "numa"}
    /\ \/ instance = "three" /\ Three!Init /\ OneRing
       \/ instance # "three" /\ Numa!Init
    /\ Init
    /\ straggler \in Stragglers
    /\ instance = "forwards" <=> config # "none"

(***************************************************************************)
(* Eight ranks move in the order of their numbers, as far as they can, but *)
(* for one rank, the straggler, that moves at any time.  Of two steps of   *)
(* different ranks that no flag orders either comes first in some such     *)
(* behaviour, with the rank of the other as the straggler.                 *)
(***************************************************************************)
Stage(r) == 4 * fwd[r] + (CASE pc[r] = "idle" -> 0 [] pc[r] = "zeroed" -> 1
                            [] pc[r] = "run" -> 2  [] pc[r] = "ended" -> 3)
Before(r) == 0..(r - 1) \ {straggler}

PathNext ==
    \E r \in Ranks :
        LET inOrder == Config.world = 8 /\ r # straggler
        IN  \/ /\ inOrder => \A p \in Before(r) : Stage(p) > Stage(r)
               /\ StreamStep(r)
            \/ /\ inOrder => \A p \in Before(r) : ~Ready(p, 0)
               /\ DeviceStep(r)

(***************************************************************************)
(* In the one forward of numa tiles run as soon as they can: nothing is    *)
(* written to a segment whose flag is up (ReadyMeansCurrent), so a tile    *)
(* reads the same later, and nothing waits for it.                         *)
(***************************************************************************)
NumaTile == \E r, s \in Numa!Ranks : Numa!GemmTile(r, s)
NumaNext == NumaTile \/ (~ENABLED NumaTile /\ Numa!Next)

GatherNext   == /\ \/ instance = "three" /\ Three!Next
                   \/ instance = "numa" /\ NumaNext
                /\ UNCHANGED <<instance, straggler, fvars>>
ForwardsNext == instance = "forwards" /\ PathNext /\ UNCHANGED <<instance, straggler, gatherVars>>

MCSafe == MCInit /\ [][GatherNext \/ ForwardsNext]_mcVars

-----------------------------------------------------------------------------
\* On three ranks, across changes of mode, and on two NUMA nodes: no tile reads a segment
\* of another forward, a flag stands for the current segment, a slower rank's reset
\* erases no new flag, and until all forwards are through some rank can move (CanMove
\* says of which steps that is so, without ENABLED).
GathersAreSound ==
    /\ instance = "three" => /\ Three!TilesReadCurrent /\ Three!ReadyMeansCurrent
                             /\ Three!NoFlagErased /\ Three!TypeOK /\ Three!NeverStuck
                             /\ (ENABLED Three!Next) = (\E r \in Three!Ranks : Three!CanMove(r))
    /\ instance = "numa"  => /\ Numa!TilesReadCurrent /\ Numa!ReadyMeansCurrent
                             /\ Numa!NoFlagErased /\ Numa!TypeOK /\ Numa!NeverStuck
                             /\ (ENABLED Numa!Next) = (\E r \in Numa!Ranks : Numa!CanMove(r))
=============================================================================
