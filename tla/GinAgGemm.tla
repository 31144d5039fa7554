------------------------------ MODULE GinAgGemm ------------------------------
(***************************************************************************)
(* The GIN rail-ring AllGather fused with a GEMM: GinAllGatherGemmOp       *)
(* (src/ag_gemm/ths_op/gin_all_gather_gemm_op.cc), its communication       *)
(* kernel (src/ag_gemm/gin/gin_ag_gemm_comm.cu) and the waits of the SM90  *)
(* GEMM tiles, over back-to-back forwards on one buffer.                   *)
(*                                                                         *)
(* Ranks are numbered node * NLocal + local.  The ranks of one local index *)
(* form a rail, a ring over the nodes; the ranks of one node are LSA       *)
(* peers, which store into each other's memory.  A rank has a compute      *)
(* stream and a private communication stream.  Each block of the           *)
(* communication kernel has a ring warp, which forwards chunks to the next *)
(* node with GIN puts, and worker warps, which copy each chunk that is     *)
(* locally there to the LSA peers and then raise its ready flag there.     *)
(* GEMM tiles start when the flags of the chunks they read are up.         *)
(*                                                                         *)
(* Data is abstracted to the number of the forward it belongs to.  External*)
(* parts, modelled by what this code uses them for: CUDA streams run their *)
(* commands in order; a GIN put reads its source some time after the call  *)
(* (before flush returns) and writes its destination, with the signal      *)
(* increment right behind, some time after that, in order per block and    *)
(* peer; the world barrier session of a block index is a barrier.          *)
(***************************************************************************)
EXTENDS Integers, FiniteSets, Sequences

CONSTANTS
    NNodes,         \* nodes, the length of a rail (rail.nRanks)
    NLocal,         \* GPUs per node (local_world_size)
    NBlocks,        \* communication CTAs (nblocks)
    Chunks,         \* chunks per rank (chunks_per_rank)
    ChunkM,         \* rows of a chunk (m_per_data_chunk)
    TileM,          \* rows of a GEMM tile (TILE_SIZE_M)
    NSMs,           \* SMs of the GPU
    MaxForwards     \* bound on the forwards

\* The checks of the Impl constructor.
ASSUME ConfigAssumption ==
    /\ NNodes \in Nat /\ NNodes > 1
    /\ NLocal \in Nat \ {0}
    /\ Chunks \in Nat \ {0}
    /\ NBlocks \in 1..Chunks
    /\ ChunkM \in Nat \ {0}
    /\ TileM \in Nat \ {0}
    /\ NSMs \in Nat /\ NBlocks <= NSMs
    /\ MaxForwards \in Nat

Ranks    == 0..(NNodes * NLocal - 1)
Blocks   == 0..(NBlocks - 1)
ChunkIds == 0..(NNodes * NLocal * Chunks - 1)
Forwards == 0..MaxForwards

VARIABLES
    input,      \* input[r]: the forward whose A the caller's tensor holds
    compFwd,    \* compFwd[r]: forwards the compute stream has completed
    compPc,     \* compPc[r]: where the compute stream is in its next forward
    tiles,      \* tiles[r]: M tiles the running GEMM has computed
    stale,      \* stale[r]: a tile has read a chunk of another forward
    commFwd,    \* commFwd[r]: forwards the communication stream has completed
    commPc,     \* commPc[r]: where the communication stream is in its next one
    producer,   \* producer[r]: producer_signal
    resident,   \* resident[r]: resident_count
    window,     \* window[r][id]: forward whose data chunk id of ag_window holds
    ready,      \* ready[r][id]: barrier_window, the flag of chunk id
    blk,        \* blk[r][b]: where CTA b of the communication kernel is
    arrived,    \* arrived[r][b]: world barrier arrivals of CTA b
    ring,       \* ring[r][b]: puts issued, and local_signal_value of warp 0
    worker,     \* worker[r][b]: the worker warps, likewise
    shadow,     \* shadow[r][b]: the signal shadow of the previous peer
    signal,     \* signal[r][b]: signals received from the previous peer
    wire        \* wire[r][b]: puts whose source is read, not yet delivered

vars == <<input, compFwd, compPc, tiles, stale, commFwd, commPc, producer,
          resident, window, ready, blk, arrived, ring, worker, shadow, signal,
          wire>>

compute == <<input, compFwd, compPc, tiles, stale>>
control == <<producer, resident>>

-----------------------------------------------------------------------------
\* Topology: ncclTeamRail and ncclTeamLsa of the rank layout the constructor
\* checks.
NodeOf(r)   == r \div NLocal
LocalOf(r)  == r % NLocal
RailRank(r, node) == node * NLocal + LocalOf(r)
NextPeer == [r \in Ranks |-> RailRank(r, (NodeOf(r) + 1) % NNodes)]
LsaPeers == [r \in Ranks |-> {p \in Ranks : NodeOf(p) = NodeOf(r)}]

\* Splits of block b: b, b + NBlocks, ... below chunks_per_rank.
NSplits(b) == (Chunks - b + NBlocks - 1) \div NBlocks

\* The i-th iteration of the two nested loops of block b: the data peer is
\* outermost ("keep data-peer outermost"), then the splits of this block.
StepOf(b, i)  == i \div NSplits(b)
SplitOf(b, i) == b + (i % NSplits(b)) * NBlocks

\* Chunk id of iteration i on rank r: global_rank * chunks_per_rank + split,
\* with data_peer = (rail.rank - step + rail.nRanks) % rail.nRanks.
ChunkOf == [r \in Ranks |-> [b \in Blocks |-> [i \in 0..(NNodes * Chunks - 1) |->
    RailRank(r, (NodeOf(r) - StepOf(b, i) + NNodes) % NNodes) * Chunks + SplitOf(b, i)]]]

RingLength(b)   == (NNodes - 1) * NSplits(b)
WorkerLength(b) == NNodes * NSplits(b)

OwnChunks == [r \in Ranks |-> {id \in ChunkIds : id \div Chunks = r}]

\* GEMM tiles over the M rows, and the rows tile t reads.
GemmM == NNodes * NLocal * Chunks * ChunkM
Tiles == 0..((GemmM + TileM - 1) \div TileM - 1)
TileReads == [t \in Tiles |->
    {id \in ChunkIds : \E row \in (t * TileM)..(t * TileM + TileM - 1) :
                            row < GemmM /\ id = row \div ChunkM}]

\* Bug form of TileWaits: only the first chunk of the tile is awaited.
TileWaitsFirst == [t \in Tiles |-> {(t * TileM) \div ChunkM}]

\* The chunks a tile waits for: data_chunk_id_start .. data_chunk_id_end, the
\* end clipped to the last chunk.
TileWaits == [t \in Tiles |->
    LET first == (t * TileM) \div ChunkM
        last  == (t * TileM + TileM - 1) \div ChunkM
    IN  {id \in ChunkIds : first <= id /\ id <= last}]

-----------------------------------------------------------------------------
\* Events, as counts of the forwards that have recorded them.
InputReady(r)  == IF compPc[r] = "input" THEN compFwd[r] ELSE compFwd[r] + 1
ComputeDone(r) == compFwd[r]
ResetDone(r)   == IF commPc[r] = "wait" THEN commFwd[r] ELSE commFwd[r] + 1

Init ==
    /\ input    = [r \in Ranks |-> 0]
    /\ compFwd  = [r \in Ranks |-> 0]
    /\ compPc   = [r \in Ranks |-> "input"]
    /\ tiles    = [r \in Ranks |-> {}]
    /\ stale    = [r \in Ranks |-> FALSE]
    /\ commFwd  = [r \in Ranks |-> 0]
    /\ commPc   = [r \in Ranks |-> "wait"]
    /\ producer = [r \in Ranks |-> 0]
    /\ resident = [r \in Ranks |-> 0]
    /\ window   = [r \in Ranks |-> [id \in ChunkIds |-> 0]]
    /\ ready    = [r \in Ranks |-> [id \in ChunkIds |-> 0]]
    /\ blk      = [r \in Ranks |-> [b \in Blocks |-> "done"]]
    /\ arrived  = [r \in Ranks |-> [b \in Blocks |-> 0]]
    /\ ring     = [r \in Ranks |-> [b \in Blocks |-> [pos |-> 0, sig |-> 0]]]
    /\ worker   = [r \in Ranks |-> [b \in Blocks |->
                        [pos |-> 0, sig |-> 0, copied |-> FALSE]]]
    /\ shadow   = [r \in Ranks |-> [b \in Blocks |-> 0]]
    /\ signal   = [r \in Ranks |-> [b \in Blocks |-> 0]]
    /\ wire     = [r \in Ranks |-> [b \in Blocks |-> <<>>]]

-----------------------------------------------------------------------------
(* The compute stream. *)

\* The caller's kernels write the input of the next forward, in the same
\* tensor as before, and forward() records input_ready behind them.
ProduceInput(r) ==
    /\ compPc[r] = "input"
    /\ compFwd[r] < MaxForwards
    /\ input' = [input EXCEPT ![r] = compFwd[r] + 1]
    /\ compPc' = [compPc EXCEPT ![r] = "signal"]
    /\ UNCHANGED <<compFwd, tiles, stale, commFwd, commPc, control, window, ready,
                   blk, arrived, ring, worker, shadow, signal, wire>>

\* Bug form of GemmMayStart: no wait for the reset_done event.
GemmMayStartNoEvent(r) == producer[r] = 1

\* The compute stream waits for reset_done, then for producer_signal == 1.
GemmMayStart(r) == ResetDone(r) > compFwd[r] /\ producer[r] = 1

GemmStart(r) ==
    /\ compPc[r] = "signal"
    /\ GemmMayStart(r)
    /\ compPc' = [compPc EXCEPT ![r] = "gemm"]
    /\ UNCHANGED <<input, compFwd, tiles, stale, commFwd, commPc, control, window,
                   ready, blk, arrived, ring, worker, shadow, signal, wire>>

\* A tile passes its waits and reads its rows of A; with the last tile the
\* GEMM kernel ends and compute_done is recorded.
GemmTile(r, t) ==
    LET computed == tiles[r] \cup {t}
        last     == computed = Tiles
    IN  /\ compPc[r] = "gemm"
        /\ t \notin tiles[r]
        /\ \A id \in TileWaits[t] : ready[r][id] = 1
        /\ stale' = [stale EXCEPT ![r] =
                @ \/ \E id \in TileReads[t] : window[r][id] # compFwd[r] + 1]
        /\ tiles' = [tiles EXCEPT ![r] = IF last THEN {} ELSE computed]
        /\ compFwd' = [compFwd EXCEPT ![r] = IF last THEN @ + 1 ELSE @]
        /\ compPc' = [compPc EXCEPT ![r] = IF last THEN "input" ELSE @]
        /\ UNCHANGED <<input, commFwd, commPc, control, window, ready, blk, arrived,
                       ring, worker, shadow, signal, wire>>

-----------------------------------------------------------------------------
(* The communication stream. *)

\* Bug form of CommMayReset: the wait for input_ready is missing.
CommMayResetNoInput(r) == ComputeDone(r) >= commFwd[r]

\* comm_stream waits for input_ready of this forward and, when there was one,
\* for compute_done of the previous forward.
CommMayReset(r) == InputReady(r) > commFwd[r] /\ ComputeDone(r) >= commFwd[r]

\* cudaMemsetAsync(gin_resident_count, 0)
CountReset(r) == 0

\* The three memsets, the record of reset_done, the copy of the input into the
\* own segment and the kernel launch.  Nothing can see the stream between these
\* commands: the compute stream waits for producer_signal as well, and a peer
\* for this rank's arrival at the start barrier.
CommLaunch(r) ==
    /\ commPc[r] = "wait"
    /\ commFwd[r] < MaxForwards
    /\ CommMayReset(r)
    /\ ready' = [ready EXCEPT ![r] = [id \in ChunkIds |-> 0]]
    /\ producer' = [producer EXCEPT ![r] = 0]
    /\ resident' = [resident EXCEPT ![r] = CountReset(r)]
    /\ window' = [window EXCEPT ![r] =
            [id \in ChunkIds |-> IF id \in OwnChunks[r] THEN input[r] ELSE @[id]]]
    /\ commPc' = [commPc EXCEPT ![r] = "kernel"]
    /\ blk' = [blk EXCEPT ![r] = [b \in Blocks |-> "launch"]]
    /\ UNCHANGED <<compute, commFwd, arrived, ring, worker, shadow, signal, wire>>

-----------------------------------------------------------------------------
(* The CTAs of the communication kernel. *)

\* CTAs that hold an SM; a running persistent GEMM holds all the others.
OnSM(r) == {b \in Blocks : blk[r][b] \notin {"launch", "done"}}

\* A CTA gets an SM, reads the shadow into local_signal_value and counts itself.
\* All but block 0 arrive at the start barrier next; an arrival is only ever
\* waited for, so taking it together with the step before it loses no behaviour.
BlockStart(r, b) ==
    /\ blk[r][b] = "launch"
    /\ compPc[r] # "gemm"
    /\ Cardinality(OnSM(r)) < NSMs
    /\ resident' = [resident EXCEPT ![r] = @ + 1]
    /\ ring' = [ring EXCEPT ![r][b] = [pos |-> 0, sig |-> shadow[r][b]]]
    /\ worker' = [worker EXCEPT ![r][b] =
            [pos |-> 0, sig |-> shadow[r][b], copied |-> FALSE]]
    /\ blk' = [blk EXCEPT ![r][b] = IF b = 0 THEN "handshake" ELSE "start_sync"]
    /\ arrived' = IF b = 0 THEN arrived ELSE [arrived EXCEPT ![r][b] = @ + 1]
    /\ UNCHANGED <<compute, commFwd, commPc, producer, window, ready, shadow,
                   signal, wire>>

\* Bug form of AllResident: block 0 does not wait for the other CTAs.
SomeResident(r) == resident[r] >= 1

\* while (atomicAdd(p.resident_count, 0) != p.nblocks);
AllResident(r) == resident[r] = NBlocks

\* Block 0 releases the GEMM, before it arrives at the start barrier.
ReleaseProducer(r) ==
    /\ blk[r][0] = "handshake"
    /\ AllResident(r)
    /\ producer' = [producer EXCEPT ![r] = 1]
    /\ arrived' = [arrived EXCEPT ![r][0] = @ + 1]
    /\ blk' = [blk EXCEPT ![r][0] = "start_sync"]
    /\ UNCHANGED <<compute, commFwd, commPc, resident, window, ready, ring, worker,
                   shadow, signal, wire>>

\* Every rank's CTA b has arrived as often as this one.
Synced(r, b) == \A q \in Ranks : arrived[q][b] >= arrived[r][b]

\* Bug form of StartMayPass: no start barrier.
StartMayPassAlone(r, b) == TRUE

StartMayPass(r, b) == Synced(r, b)

\* world_barrier.sync before any remote write returns.
StartPass(r, b) ==
    /\ blk[r][b] = "start_sync"
    /\ StartMayPass(r, b)
    /\ blk' = [blk EXCEPT ![r][b] = "run"]
    /\ UNCHANGED <<compute, commFwd, commPc, control, window, ready, arrived, ring,
                   worker, shadow, signal, wire>>

\* data_peer != rail.rank
MustWait(b, i) == StepOf(b, i) > 0

\* gin.waitSignal(rail_signals + prev_peer, value + 1)
SignalAbove(r, b, value) == signal[r][b] >= value + 1

\* Warp 0: wait for the chunk unless it is the own one, put it to the next peer.
\* The step is the moment the NIC reads the source, which is the call or later:
\* sources are read in the order of the calls, and the call itself shows nowhere.
RingPut(r, b) ==
    LET i == ring[r][b].pos
        id == ChunkOf[r][b][i]
        waits == MustWait(b, i)
    IN  /\ blk[r][b] = "run"
        /\ i < RingLength(b)
        /\ waits => SignalAbove(r, b, ring[r][b].sig)
        /\ wire' = [wire EXCEPT ![r][b] = Append(@, [id |-> id, val |-> window[r][id]])]
        /\ ring' = [ring EXCEPT ![r][b] =
                [pos |-> i + 1, sig |-> IF waits THEN @.sig + 1 ELSE @.sig]]
        /\ UNCHANGED <<compute, commFwd, commPc, control, window, ready, blk,
                       arrived, worker, shadow, signal>>

\* The oldest put is written at the next peer, its signal right behind.
GinDeliver(r, b) ==
    /\ wire[r][b] # <<>>
    /\ LET put == Head(wire[r][b])
       IN  window' = [window EXCEPT ![NextPeer[r]][put.id] = put.val]
    /\ signal' = [signal EXCEPT ![NextPeer[r]][b] = @ + 1]
    /\ wire' = [wire EXCEPT ![r][b] = Tail(@)]
    /\ UNCHANGED <<compute, commFwd, commPc, control, ready, blk, arrived, ring,
                   worker, shadow>>

\* The LSA peers whose memory the workers' stores reach before the flags.
CopyTargets(r) == LsaPeers[r]

\* Workers: wait for the chunk unless it is the own one, then store it to the
\* LSA peers (local_disseminate); the two group syncs around the fence make
\* the stores of all workers one step for whoever sees a flag.
WorkerCopy(r, b) ==
    LET w == worker[r][b]
        id == ChunkOf[r][b][w.pos]
        waits == MustWait(b, w.pos)
    IN  /\ blk[r][b] = "run"
        /\ ~w.copied
        /\ w.pos < WorkerLength(b)
        /\ waits => SignalAbove(r, b, w.sig)
        /\ window' = [p \in Ranks |-> IF p \in CopyTargets(r)
                                      THEN [window[p] EXCEPT ![id] = window[r][id]]
                                      ELSE window[p]]
        /\ worker' = [worker EXCEPT ![r][b] =
                [pos |-> w.pos, copied |-> TRUE,
                 sig |-> IF waits THEN w.sig + 1 ELSE w.sig]]
        /\ UNCHANGED <<compute, commFwd, commPc, control, ready, blk, arrived,
                       ring, shadow, signal, wire>>

\* publish_ready: the flag of the chunk at every LSA peer.  The flags of two
\* ranks are never read together, so one step raises them.
WorkerPublish(r, b) ==
    LET w == worker[r][b]
        id == ChunkOf[r][b][w.pos]
    IN  /\ blk[r][b] = "run"
        /\ w.copied
        /\ ready' = [p \in Ranks |-> IF p \in LsaPeers[r]
                                     THEN [ready[p] EXCEPT ![id] = 1]
                                     ELSE ready[p]]
        /\ worker' = [worker EXCEPT ![r][b] =
                [pos |-> w.pos + 1, copied |-> FALSE, sig |-> w.sig]]
        /\ UNCHANGED <<compute, commFwd, commPc, control, window, blk, arrived,
                       ring, shadow, signal, wire>>

\* Bug form of Committed: the shadow takes the network warp's count.
CommittedRing(r, b) == ring[r][b].sig

\* *shadow = local_signal_value of a worker thread.
Committed(r, b) == worker[r][b].sig

\* Both warp groups are through (the network warp has flushed): the shadow is
\* committed and the CTA arrives at the final world barrier.
EndArrive(r, b) ==
    /\ blk[r][b] = "run"
    /\ ring[r][b].pos = RingLength(b)
    /\ worker[r][b].pos = WorkerLength(b)
    /\ shadow' = [shadow EXCEPT ![r][b] = Committed(r, b)]
    /\ arrived' = [arrived EXCEPT ![r][b] = @ + 1]
    /\ blk' = [blk EXCEPT ![r][b] = "end_sync"]
    /\ UNCHANGED <<compute, commFwd, commPc, control, window, ready, ring, worker,
                   signal, wire>>

\* Bug form of EndMayPass: the kernel ends without the final barrier.
EndMayPassAlone(r, b) == TRUE

EndMayPass(r, b) == Synced(r, b)

\* The final world_barrier.sync returns in every CTA and the kernel ends.
CommDone(r) ==
    /\ commPc[r] = "kernel"
    /\ \A b \in Blocks : blk[r][b] = "end_sync" /\ EndMayPass(r, b)
    /\ blk' = [blk EXCEPT ![r] = [b \in Blocks |-> "done"]]
    /\ commFwd' = [commFwd EXCEPT ![r] = @ + 1]
    /\ commPc' = [commPc EXCEPT ![r] = "wait"]
    /\ UNCHANGED <<compute, control, window, ready, arrived, ring, worker, shadow,
                   signal, wire>>

-----------------------------------------------------------------------------
Compute(r) == \/ ProduceInput(r)
              \/ GemmStart(r)
              \/ \E t \in Tiles : GemmTile(r, t)

Comm(r) == CommLaunch(r) \/ CommDone(r)

Block(r, b) == \/ BlockStart(r, b)
               \/ StartPass(r, b)
               \/ RingPut(r, b)
               \/ GinDeliver(r, b)
               \/ WorkerCopy(r, b) \/ WorkerPublish(r, b)
               \/ EndArrive(r, b)

Next == \E r \in Ranks : \/ Compute(r)
                         \/ Comm(r)
                         \/ ReleaseProducer(r)
                         \/ \E b \in Blocks : Block(r, b)

Safe == Init /\ [][Next]_vars

\* No step undoes another, so it is enough that the devices never all stop
\* while one of them can move: weaker than the fairness of every stream, CTA
\* and NIC that the hardware gives.
Spec == Safe /\ WF_vars(Next)

-----------------------------------------------------------------------------
Idle(r) == commPc[r] # "kernel"

HostTypes ==
    /\ input \in [Ranks -> Forwards]
    /\ compFwd \in [Ranks -> Forwards]
    /\ compPc \in [Ranks -> {"input", "signal", "gemm"}]
    /\ tiles \in [Ranks -> SUBSET Tiles]
    /\ stale \in [Ranks -> BOOLEAN]
    /\ commFwd \in [Ranks -> Forwards]
    /\ commPc \in [Ranks -> {"wait", "kernel"}]

MemoryTypes ==
    /\ producer \in [Ranks -> {0, 1}]
    /\ resident \in [Ranks -> 0..NBlocks]
    /\ window \in [Ranks -> [ChunkIds -> Forwards]]
    /\ ready \in [Ranks -> [ChunkIds -> {0, 1}]]
    /\ signal \in [Ranks -> [Blocks -> Nat]]
    /\ shadow \in [Ranks -> [Blocks -> Nat]]
    /\ wire \in [Ranks -> [Blocks -> Seq([id : ChunkIds, val : Forwards])]]

CtaTypes ==
    /\ blk \in [Ranks -> [Blocks -> {"launch", "handshake", "start_sync",
                                     "run", "end_sync", "done"}]]
    /\ arrived \in [Ranks -> [Blocks -> 0..(2 * MaxForwards)]]
    /\ ring \in [Ranks -> [Blocks -> [pos : Nat, sig : Nat]]]
    /\ worker \in [Ranks -> [Blocks -> [pos : Nat, sig : Nat, copied : BOOLEAN]]]
    /\ \A r \in Ranks, b \in Blocks : /\ ring[r][b].pos <= RingLength(b)
                                      /\ worker[r][b].pos <= WorkerLength(b)

\* Every variable has its type, every counter its bound.
TypeOK == HostTypes /\ MemoryTypes /\ CtaTypes

\* A chunk flag that is up stands for the data of the forward whose reset is
\* the latest of this rank: from the moment a flag is raised until the rank
\* itself resets it, the window holds the chunk of the current forward, and no
\* put or peer store of an earlier or a later forward touches it.
ReadyMeansCurrent ==
    \A r \in Ranks, id \in ChunkIds :
        ready[r][id] = 1 => window[r][id] = ResetDone(r)

\* No GEMM tile reads a row whose chunk belongs to another forward, whatever
\* way the tiles straddle the chunks.
TilesReadCurrent == \A r \in Ranks : ~stale[r]

\* Every put carries data of the forward its sender is in, and none is in
\* flight when neither side runs its communication kernel: the source segment
\* may be staged anew, and no late signal reaches the next forward.
PutsStayInForward ==
    \A r \in Ranks, b \in Blocks :
        /\ \A i \in DOMAIN wire[r][b] : wire[r][b][i].val = ResetDone(r)
        /\ Idle(r) \/ Idle(NextPeer[r]) => wire[r][b] = <<>>

\* Signals are never reset, so the shadow must have counted every one of them:
\* outside the working part of a CTA no signal is left over that the first
\* wait of the next forward would mistake for its own.
NoLeftoverSignal ==
    \A r \in Ranks, b \in Blocks :
        blk[r][b] \in {"launch", "handshake", "done"} =>
            signal[r][b] = shadow[r][b]

\* A running GEMM, which may hold every free SM, has all the communication
\* CTAs of its forward resident, or already finished.
ResidentBeforeGemm ==
    \A r \in Ranks : compPc[r] = "gemm" =>
        \/ commFwd[r] > compFwd[r]
        \/ /\ commPc[r] = "kernel" /\ commFwd[r] = compFwd[r]
           /\ \A b \in Blocks : blk[r][b] # "launch"

-----------------------------------------------------------------------------
\* What the proofs of TypeOK and ResidentBeforeGemm add to them.

\* A CTA exists exactly while its kernel runs, and streams and warps do not run
\* past their last command.
ControlState ==
    \A r \in Ranks :
        /\ compPc[r] # "input" => compFwd[r] < MaxForwards
        /\ commPc[r] = "kernel" => commFwd[r] < MaxForwards
        /\ \A b \in Blocks :
            /\ blk[r][b] = "done" <=> commPc[r] = "wait"
            /\ worker[r][b].copied => worker[r][b].pos < WorkerLength(b)

\* Arrivals of CTA b of rank r in the forward it works on.
ArrivedNow(r, b) == IF blk[r][b] \in {"start_sync", "run"} THEN 1
                    ELSE IF blk[r][b] = "end_sync" THEN 2 ELSE 0

\* Both barriers of every forward have been passed exactly once.
ArrivalsCountForwards ==
    \A r \in Ranks, b \in Blocks :
        arrived[r][b] = 2 * commFwd[r] + ArrivedNow(r, b)

Started(r) == {b \in Blocks : blk[r][b] # "launch"}

\* resident_count is the number of CTAs that have started, and the producer
\* signal is up only when all of them have.
ResidentCounts ==
    \A r \in Ranks : commPc[r] = "kernel" =>
        /\ resident[r] = Cardinality(Started(r))
        /\ producer[r] = 1 => Started(r) = Blocks

\* The inductive invariant the proofs use.
IInv == /\ TypeOK
        /\ ControlState
        /\ ArrivalsCountForwards
        /\ ResidentCounts
        /\ ResidentBeforeGemm

-----------------------------------------------------------------------------
\* The gather orders the forwards of all ranks as a barrier does: no rank ends
\* forward f before every rank has provided its input of forward f.
Abstract == INSTANCE Barrier WITH
    MaxCalls <- MaxForwards,
    entered  <- [r \in Ranks |-> InputReady(r)],
    left     <- compFwd
ForwardsAreBarrier == Abstract!Safe

\* Every rank completes every forward: the residency handshake, the two world
\* barriers, the ring and the tile waits never wait on each other in a circle.
AllForwardsComplete ==
    <>(\A r \in Ranks : compFwd[r] = MaxForwards /\ commFwd[r] = MaxForwards)
=============================================================================
