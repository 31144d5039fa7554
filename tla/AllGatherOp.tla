------------------------------ MODULE AllGatherOp ------------------------------
(***************************************************************************)
(* The intra-node AllGather fused with a GEMM: AllGatherOp                 *)
(* (src/coll/ths_op/all_gather_op.cc), its copy kernels                    *)
(* (src/coll/all_gather_impls.cu, src/coll/local_copy_and_reset.cu) and    *)
(* forward_default_impl of src/ag_gemm/ths_op/all_gather_gemm_op.cc, over  *)
(* back-to-back forwards on one set of peer-visible buffers.               *)
(*                                                                         *)
(* A forward has two halves.  The preparation copies the input into the    *)
(* own segment and resets the ready flags, between two barriers of all     *)
(* ranks; with fuse_sync both barriers are inside the copy kernel, one     *)
(* pair for every CTA.  The transfer moves the segments, in one of four    *)
(* modes; a flag says that a segment has come, and GEMM tiles wait for it. *)
(* The options are an argument of every call, the same on all ranks, so    *)
(* each forward has its own.                                               *)
(*                                                                         *)
(* Data is the number of the forward it belongs to.  A segment is copied   *)
(* in two parts: "head" by the warp whose threads also do the barrier,     *)
(* "tail" by the other warps of the CTA.  The barrier is the one           *)
(* CudaIpcBarrier implements: a pass waits for as many arrivals of every   *)
(* rank.  SPLIT is 1, as in the source, and the input scales of int8 GEMMs *)
(* travel with the data.                                                   *)
(***************************************************************************)
EXTENDS Integers, FiniteSets

CONSTANTS
    WorldSize,      \* ranks of the node
    NumaSize,       \* topo_numa_local_world_size(), used by the 2D ring
    Options,        \* the options callers use, a subset of AllOptions
    TilesInOrder,   \* TRUE: only the GEMMs whose tiles run one after the other
    MaxForwards     \* bound on the forwards

\* AllGatherOption, without use_cuda_core_local: fuse is fuse_sync, cores is
\* use_cuda_core_ag, and RingPull is Ring1D with use_read.
AllOptions ==
    {o \in [mode  : {"All2All", "RingPush", "RingPull", "RingPush2D"},
            fuse  : BOOLEAN,
            cores : BOOLEAN] : o.mode = "RingPull" => ~o.cores}

ASSUME OptionsAssumption ==
    /\ WorldSize \in Nat /\ WorldSize > 1
    /\ NumaSize \in Nat \ {0}
    /\ Options \subseteq AllOptions /\ Options # {}
    /\ (\E o \in Options : o.mode = "RingPush2D") => WorldSize = 2 * NumaSize
    /\ TilesInOrder \in BOOLEAN
    /\ MaxForwards \in Nat

Ranks    == 0..(WorldSize - 1)
Hops     == 0..(WorldSize - 2)
Forwards == 0..MaxForwards
Parts    == {"head", "tail"}
Ctas     == {"all", "copy", "reset"}

VARIABLES
    opts,       \* opts[f]: the options of forward f
    input,      \* input[r]: the forward whose input the caller's tensor holds
    compFwd,    \* compFwd[r]: forwards the compute stream has completed
    compPc,     \* compPc[r]: where the compute stream is in its next forward
    tiles,      \* tiles[r]: segments the running GEMM has read
    stale,      \* stale[r]: a tile has read a segment of another forward
    commFwd,    \* commFwd[r]: forwards cp_stream has completed
    commPc,     \* commPc[r]: where cp_stream is in its next forward
    agSignal,   \* agSignal[r]: ag_signal, "the ag kernel has been launched"
    cta,        \* cta[r][c]: where CTA c of the preparation is
    arrived,    \* arrived[r][c]: arrivals at the barriers of CTA c
    work,       \* work[r]: what the preparation has done
    copied,     \* copied[r]: hops of the transfer whose data is written
    sent,       \* sent[r]: hops whose flag is written too
    window,     \* window[r][s]: segment s of input_buffers[r]
    ready       \* ready[r][s]: barrier_buffers[r][s]

vars == <<opts, input, compFwd, compPc, tiles, stale, commFwd, commPc, agSignal,
          cta, arrived, work, copied, sent, window, ready>>

compute == <<input, compFwd, compPc, tiles, stale>>
prepare == <<cta, arrived, work>>

-----------------------------------------------------------------------------
(* The schedules of the four modes: what hop i of rank r moves. *)

Mod(x) == x % WorldSize

\* copy_all_to_all: rank r reads every peer's own segment, the next rank's first.
All2AllHop(r, i) ==
    [seg |-> Mod(r + 1 + i), from |-> Mod(r + 1 + i), to |-> r, waits |-> {}]

\* copy_ring_push_1d: rank r writes to the rank before it what has come.
RingPushHop(r, i) ==
    [seg |-> Mod(r + i), from |-> r, to |-> Mod(r - 1 + WorldSize),
     waits |-> IF i = 0 THEN {} ELSE {r}]

\* copy_ring_pull: rank r reads from the rank after it what has come there.
RingPullHop(r, i) ==
    LET from == Mod(r + 1)
    IN  [seg |-> Mod(r + i + 1), from |-> from, to |-> r,
         waits |-> IF i = 0 THEN {} ELSE {from}]

\* The rank before r in the ring of its NUMA node.
RankToSub(r) == ((r - 1 + NumaSize) % NumaSize) + (r \div NumaSize) * NumaSize

\* Bug form of RingPush2DHop: send_segment is not turned by numa_world_size.
RingPush2DHopNear(r, i) ==
    IF i >= NumaSize /\ r % NumaSize = 0
    THEN [seg |-> Mod(r + i), from |-> r, to |-> RankToSub(r), waits |-> {}]
    ELSE RingPushHop(r, i)

\* copy_ring_push_2d_pcie: in the last stages the first rank of a NUMA node
\* stays inside its node, with segments it has sent before (no wait).
RingPush2DHop(r, i) ==
    IF i >= NumaSize /\ r % NumaSize = 0
    THEN [seg |-> Mod(r + i + NumaSize), from |-> r, to |-> RankToSub(r), waits |-> {}]
    ELSE RingPushHop(r, i)

Hop(o, r, i) == CASE o.mode = "All2All"    -> All2AllHop(r, i)
                  [] o.mode = "RingPush"   -> RingPushHop(r, i)
                  [] o.mode = "RingPull"   -> RingPullHop(r, i)
                  [] o.mode = "RingPush2D" -> RingPush2DHop(r, i)

\* The copy engine and the ring kernels go hop by hop; the CTAs of
\* ag_a2a_mode_kernel take the peers in any order.
HopMayStart(o, r, i) ==
    \/ o.mode = "All2All" /\ o.cores
    \/ \A j \in Hops : j < i => j \in sent[r]

-----------------------------------------------------------------------------
\* The options of the forward the compute stream, and cp_stream, are in.
CompOpt(r) == opts[compFwd[r] + 1]
CommOpt(r) == opts[commFwd[r] + 1]

\* Events, as counts of the forwards that have recorded them.
ReadyEvent(r)        == IF compPc[r] = "input" THEN compFwd[r] ELSE compFwd[r] + 1
LocalPrepareEvent(r) == IF commPc[r] \in {"launch", "transfer"}
                        THEN commFwd[r] + 1 ELSE commFwd[r]

\* The CTAs of the preparation: one kernel between two barrier launches, or the
\* copy CTAs and the flag CTA of the fused kernel (its counter CTA resets
\* ag_signal, with the flags here).
CtasOf(o) == IF o.fuse THEN {"copy", "reset"} ELSE {"all"}

\* What CTA c does between its barriers, and how much of it its barrier threads
\* have done themselves, or have waited for, when they arrive the second time.
WorkOf(c) == CASE c = "all"   -> Parts \cup {"flags"}
               [] c = "copy"  -> Parts
               [] c = "reset" -> {"flags"}

\* Bug form of WorkBefore: the second barrier does not wait for the reset.
WorkBeforeNothing(c) == {}

\* In the fused kernel no __syncthreads separates the copy from the second
\* sync_peers: the other warps may still be copying.
WorkBefore(c) == IF c = "copy" THEN {"head"} ELSE WorkOf(c)

Init ==
    /\ opts     \in [1..MaxForwards -> Options]
    /\ input    = [r \in Ranks |-> 0]
    /\ compFwd  = [r \in Ranks |-> 0]
    /\ compPc   = [r \in Ranks |-> "input"]
    /\ tiles    = [r \in Ranks |-> {}]
    /\ stale    = [r \in Ranks |-> FALSE]
    /\ commFwd  = [r \in Ranks |-> 0]
    /\ commPc   = [r \in Ranks |-> "idle"]
    /\ agSignal = [r \in Ranks |-> 0]
    /\ cta      = [r \in Ranks |-> [c \in Ctas |-> "done"]]
    /\ arrived  = [r \in Ranks |-> [c \in Ctas |-> 0]]
    /\ work     = [r \in Ranks |-> {}]
    /\ copied   = [r \in Ranks |-> {}]
    /\ sent     = [r \in Ranks |-> {}]
    /\ window   = [r \in Ranks |-> [s \in Ranks |-> [p \in Parts |-> 0]]]
    /\ ready    = [r \in Ranks |-> [s \in Ranks |-> 0]]

-----------------------------------------------------------------------------
(* The compute stream. *)

\* The caller writes the input of the next forward, in the same tensor as
\* before; forward records ready_event behind it.
MayProduce(r) == compPc[r] = "input" /\ compFwd[r] < MaxForwards

ProduceInput(r) ==
    /\ MayProduce(r)
    /\ input' = [input EXCEPT ![r] = compFwd[r] + 1]
    /\ compPc' = [compPc EXCEPT ![r] = "wait"]
    /\ UNCHANGED <<opts, compFwd, tiles, stale, commFwd, commPc, agSignal, prepare,
                   copied, sent, window, ready>>

\* The compute stream waits for local_prepare_event and, when the transfer is a
\* kernel, for ag_signal.
GemmMayStart(r) == /\ LocalPrepareEvent(r) > compFwd[r]
                   /\ CompOpt(r).cores => agSignal[r] = 1

GemmStart(r) ==
    /\ compPc[r] = "wait"
    /\ GemmMayStart(r)
    /\ compPc' = [compPc EXCEPT ![r] = "gemm"]
    /\ UNCHANGED <<opts, input, compFwd, tiles, stale, commFwd, commPc, agSignal,
                   prepare, copied, sent, window, ready>>

\* The tile scheduler starts with the own segment; CTAs that run together may
\* then overtake each other.
TileMayRun(r, s) ==
    TilesInOrder => \A t \in Ranks : Mod(t - r + WorldSize) < Mod(s - r + WorldSize)
                                        => t \in tiles[r]

\* A tile of segment s waits for its flag and reads it; with the last one the
\* GEMM ends.
TileReady(r, s) ==
    /\ compPc[r] = "gemm"
    /\ s \notin tiles[r] /\ TileMayRun(r, s)
    /\ ready[r][s] = 1

GemmTile(r, s) ==
    LET computed == tiles[r] \cup {s}
        last     == computed = Ranks
    IN  /\ TileReady(r, s)
        /\ stale' = [stale EXCEPT ![r] =
                @ \/ \E p \in Parts : window[r][s][p] # compFwd[r] + 1]
        /\ tiles' = [tiles EXCEPT ![r] = IF last THEN {} ELSE computed]
        /\ compFwd' = [compFwd EXCEPT ![r] = IF last THEN @ + 1 ELSE @]
        /\ compPc' = [compPc EXCEPT ![r] = IF last THEN "input" ELSE @]
        /\ UNCHANGED <<opts, input, commFwd, commPc, agSignal, prepare, copied, sent,
                       window, ready>>

-----------------------------------------------------------------------------
(* cp_stream: the preparation. *)

\* Bug form of CommMayStart: cp_stream does not wait for ready_event.
CommMayStartNoEvent(r) == TRUE

\* cp_stream waits for ready_event of this forward.
CommMayStart(r) == ReadyEvent(r) > commFwd[r]

MayPrepare(r) == commPc[r] = "idle" /\ commFwd[r] < MaxForwards /\ CommMayStart(r)

PrepareStart(r) ==
    /\ MayPrepare(r)
    /\ commPc' = [commPc EXCEPT ![r] = "prepare"]
    /\ cta' = [cta EXCEPT ![r] =
            [c \in Ctas |-> IF c \in CtasOf(CommOpt(r)) THEN "launch" ELSE "done"]]
    /\ work' = [work EXCEPT ![r] = {}]
    /\ UNCHANGED <<opts, compute, commFwd, agSignal, arrived, copied, sent, window,
                   ready>>

\* A CTA starts and arrives at its first barrier.
CtaStart(r, c) ==
    /\ cta[r][c] = "launch"
    /\ cta' = [cta EXCEPT ![r][c] = "sync1"]
    /\ arrived' = [arrived EXCEPT ![r][c] = @ + 1]
    /\ UNCHANGED <<opts, compute, commFwd, commPc, agSignal, work, copied, sent,
                   window, ready>>

\* CTA c of every rank has arrived as often as this one.
Synced(r, c) == \A q \in Ranks : arrived[q][c] >= arrived[r][c]

\* Bug form of MayPass: no first barrier.
MayPassAlone(r, c) == TRUE

MayPass(r, c) == Synced(r, c)

CtaPass(r, c) ==
    /\ cta[r][c] = "sync1"
    /\ MayPass(r, c)
    /\ cta' = [cta EXCEPT ![r][c] = "work"]
    /\ UNCHANGED <<opts, compute, commFwd, commPc, agSignal, arrived, work, copied,
                   sent, window, ready>>

\* The steps in which CTA c does its work: the warps of the copy CTAs go
\* separately, nobody can look at a rank between the others.
WorkSteps(c) == IF c = "copy" THEN {{"head"}, {"tail"}} ELSE {WorkOf(c)}

\* Bug form of OwnFlag: only the reset, without the flag of the own segment.
OwnFlagDown(r, s) == 0

\* Bug form of OwnFlag: the reset adds to the flags.
OwnFlagAdded(r, s) == ready[r][s] + (IF s = r THEN 1 ELSE 0)

\* ag_barrier[i] = (i == rank ? 1 : 0)
OwnFlag(r, s) == IF s = r THEN 1 ELSE 0

\* The copy of the own segment and the reset.  ag_signal is reset with the
\* flags; the copy-engine preparation leaves it alone when no kernel will
\* transfer, and then nothing reads it.
MayWork(r, c, step) ==
    /\ cta[r][c] \in {"work", "sync2"}
    /\ step \in WorkSteps(c) /\ step \cap work[r] = {}

Work(r, c, step) ==
    /\ MayWork(r, c, step)
    /\ work' = [work EXCEPT ![r] = @ \cup step]
    /\ window' = [window EXCEPT ![r][r] =
            [p \in Parts |-> IF p \in step THEN input[r] ELSE @[p]]]
    /\ IF "flags" \in step
       THEN /\ ready' = [ready EXCEPT ![r] = [s \in Ranks |-> OwnFlag(r, s)]]
            /\ agSignal' = [agSignal EXCEPT ![r] = 0]
       ELSE UNCHANGED <<ready, agSignal>>
    /\ UNCHANGED <<opts, compute, commFwd, commPc, cta, arrived, copied, sent>>

\* The barrier threads arrive for the second time.
MayArrive(r, c) == cta[r][c] = "work" /\ WorkBefore(c) \subseteq work[r]

CtaArrive(r, c) ==
    /\ MayArrive(r, c)
    /\ cta' = [cta EXCEPT ![r][c] = "sync2"]
    /\ arrived' = [arrived EXCEPT ![r][c] = @ + 1]
    /\ UNCHANGED <<opts, compute, commFwd, commPc, agSignal, work, copied, sent,
                   window, ready>>

\* Every CTA has passed its second barrier and ended; local_prepare_event is
\* recorded.
PrepareOver(r) ==
    /\ commPc[r] = "prepare"
    /\ \A c \in CtasOf(CommOpt(r)) :
            cta[r][c] = "sync2" /\ Synced(r, c) /\ WorkOf(c) \subseteq work[r]

PrepareDone(r) ==
    /\ PrepareOver(r)
    /\ cta' = [cta EXCEPT ![r] = [c \in Ctas |-> "done"]]
    /\ commPc' = [commPc EXCEPT ![r] =
            IF CommOpt(r).cores THEN "launch" ELSE "transfer"]
    /\ UNCHANGED <<opts, compute, commFwd, agSignal, arrived, work, copied, sent,
                   window, ready>>

-----------------------------------------------------------------------------
(* cp_stream: the transfer. *)

\* The transfer kernel gets its SMs, which a running GEMM may hold, and says so.
MayLaunch(r) == commPc[r] = "launch" /\ compPc[r] # "gemm"

KernelLaunch(r) ==
    /\ MayLaunch(r)
    /\ agSignal' = [agSignal EXCEPT ![r] = 1]
    /\ commPc' = [commPc EXCEPT ![r] = "transfer"]
    /\ UNCHANGED <<opts, compute, commFwd, prepare, copied, sent, window, ready>>

\* The hop waits for the segment where it has to, and copies it.
MayCopy(r, i) ==
    LET h == Hop(CommOpt(r), r, i)
    IN  /\ commPc[r] = "transfer"
        /\ i \notin copied[r]
        /\ HopMayStart(CommOpt(r), r, i)
        /\ \A q \in h.waits : ready[q][h.seg] = 1

CopyHop(r, i) ==
    LET h == Hop(CommOpt(r), r, i)
    IN  /\ MayCopy(r, i)
        /\ window' = [window EXCEPT ![h.to][h.seg] = window[h.from][h.seg]]
        /\ copied' = [copied EXCEPT ![r] = @ \cup {i}]
        /\ UNCHANGED <<opts, compute, commFwd, commPc, agSignal, prepare, sent, ready>>

\* set_ready; with the last one the transfer ends.
MaySet(r, i) == commPc[r] = "transfer" /\ i \in copied[r] \ sent[r]

SetReady(r, i) ==
    LET h    == Hop(CommOpt(r), r, i)
        now  == sent[r] \cup {i}
        last == now = Hops
    IN  /\ MaySet(r, i)
        /\ ready' = [ready EXCEPT ![h.to][h.seg] = 1]
        /\ sent' = [sent EXCEPT ![r] = IF last THEN {} ELSE now]
        /\ copied' = [copied EXCEPT ![r] = IF last THEN {} ELSE @]
        /\ commFwd' = [commFwd EXCEPT ![r] = IF last THEN @ + 1 ELSE @]
        /\ commPc' = [commPc EXCEPT ![r] = IF last THEN "idle" ELSE @]
        /\ UNCHANGED <<opts, compute, agSignal, prepare, window>>

-----------------------------------------------------------------------------
Compute(r) == \/ ProduceInput(r)
              \/ GemmStart(r)
              \/ \E s \in Ranks : GemmTile(r, s)

Cta(r, c) == \/ CtaStart(r, c)
             \/ CtaPass(r, c)
             \/ \E step \in WorkSteps(c) : Work(r, c, step)
             \/ CtaArrive(r, c)

Comm(r) == \/ PrepareStart(r)
           \/ \E c \in Ctas : Cta(r, c)
           \/ PrepareDone(r)
           \/ KernelLaunch(r)
           \/ \E i \in Hops : CopyHop(r, i) \/ SetReady(r, i)

Next == \E r \in Ranks : Compute(r) \/ Comm(r)

Safe == Init /\ [][Next]_vars

\* No step undoes another, so it is enough that the streams never all stop while
\* one of them can move.
Spec == Safe /\ WF_vars(Next)

-----------------------------------------------------------------------------
\* Every variable has its type.
TypeOK ==
    /\ opts \in [1..MaxForwards -> Options]
    /\ input \in [Ranks -> Forwards]
    /\ compFwd \in [Ranks -> Forwards]
    /\ compPc \in [Ranks -> {"input", "wait", "gemm"}]
    /\ tiles \in [Ranks -> SUBSET Ranks]
    /\ stale \in [Ranks -> BOOLEAN]
    /\ commFwd \in [Ranks -> Forwards]
    /\ commPc \in [Ranks -> {"idle", "prepare", "launch", "transfer"}]
    /\ agSignal \in [Ranks -> {0, 1}]
    /\ cta \in [Ranks -> [Ctas -> {"launch", "sync1", "work", "sync2", "done"}]]
    /\ arrived \in [Ranks -> [Ctas -> 0..(2 * MaxForwards)]]
    /\ work \in [Ranks -> SUBSET (Parts \cup {"flags"})]
    /\ copied \in [Ranks -> SUBSET Hops]
    /\ sent \in [Ranks -> SUBSET Hops]
    /\ window \in [Ranks -> [Ranks -> [Parts -> Forwards]]]
    /\ ready \in [Ranks -> [Ranks -> {0, 1}]]

\* No GEMM tile reads a segment, or half of one, of another forward, whatever
\* modes the forwards before and after this one use.
TilesReadCurrent == \A r \in Ranks : ~stale[r]

\* Outside the preparation of a rank, a flag that is up stands for the whole
\* segment of the forward the rank has last prepared: no early transfer of a
\* peer that is ahead and no late one of a peer that is behind touches it.
ReadyMeansCurrent ==
    \A r, s \in Ranks : commPc[r] # "prepare" /\ ready[r][s] = 1 =>
        \A p \in Parts : window[r][s][p] = LocalPrepareEvent(r)

\* A flag a hop has raised is not erased by the reset of a slower rank: until
\* the sender is through, it stands.
NoFlagErased ==
    \A r \in Ranks : \A i \in sent[r] :
        LET h == Hop(CommOpt(r), r, i) IN ready[h.to][h.seg] = 1

\* Forwards order the ranks as a barrier does: no rank ends forward f before
\* every rank has provided its input of forward f.
Abstract == INSTANCE Barrier WITH
    MaxCalls <- MaxForwards,
    entered  <- [r \in Ranks |-> ReadyEvent(r)],
    left     <- compFwd
ForwardsAreBarrier == Abstract!Safe

Completed == \A r \in Ranks : compFwd[r] = MaxForwards /\ commFwd[r] = MaxForwards

\* Some step of r can be done, of its compute stream, of its preparation or of its
\* transfer.
CanMove(r) ==
    \/ MayProduce(r) \/ (compPc[r] = "wait" /\ GemmMayStart(r))
    \/ \E s \in Ranks : TileReady(r, s)
    \/ MayPrepare(r) \/ PrepareOver(r)
    \/ \E c \in Ctas :
        \/ cta[r][c] = "launch" \/ (cta[r][c] = "sync1" /\ MayPass(r, c))
        \/ MayArrive(r, c) \/ \E step \in WorkSteps(c) : MayWork(r, c, step)
    \/ MayLaunch(r)
    \/ \E i \in Hops : MayCopy(r, i) \/ MaySet(r, i)

\* No forward waits for ever, for a barrier, a flag or ag_signal: until all are through,
\* some rank can move.
NeverStuck == Completed \/ \E r \in Ranks : CanMove(r)

\* Every forward completes on every rank, whatever sequence of options.
AllForwardsComplete == <>Completed
=============================================================================
