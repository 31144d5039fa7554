------------------------------ MODULE GinGemmRs ------------------------------
(***************************************************************************)
(* GEMM+ReduceScatter over several nodes with GIN: prepare_gin_rs and the  *)
(* streams of GemmRS (src/gemm_rs/ths_op/gemm_reduce_scatter.cc) and the   *)
(* progress kernel (src/gemm_rs/gin/gin_gemm_rs_comm.cu), over back-to-back*)
(* forwards on the same window, flags, signals and output.                 *)
(*                                                                         *)
(* Ranks are numbered node * NLocal + local.  On each rank the GEMM kernel *)
(* reduces its tiles within the node and raises their ready flags: that    *)
(* part is NodeReduce, which GemmRsTiles implements.  The progress kernel  *)
(* puts each chunk of tiles that is for another node into the slot of its  *)
(* own node there (along the rail), and adds up the chunks of all nodes in *)
(* the output.  Data is abstracted to the number of the forward it belongs *)
(* to, 0 for what belongs to none.                                         *)
(*                                                                         *)
(* External, as the code uses it: a put reads its source between the call  *)
(* and the flush, and writes its destination, with the signal right behind,*)
(* some time after that, in order per block and peer; the world barrier    *)
(* session of a block index is a barrier of that block on all ranks.       *)
(***************************************************************************)
EXTENDS Integers, FiniteSets, Sequences

CONSTANTS
    NNodes,         \* nodes, the length of a rail (rail.nRanks)
    NLocal,         \* GPUs per node (local_world_size)
    NBlocks,        \* CTAs of the progress kernel (nblocks)
    TilesPerRank,   \* tiles_per_rank
    ChunkTiles,     \* tiles_per_chunk
    NSMs,           \* SMs of the GPU
    MaxForwards     \* bound on the forwards

Chunks == (TilesPerRank + ChunkTiles - 1) \div ChunkTiles   \* chunks_per_rank

\* init_gin_rs and prepare_gin_rs; an SM is left for the GEMM, see SmFree.
ASSUME GinRsAssumption ==
    /\ NNodes \in Nat /\ NNodes > 1
    /\ NLocal \in Nat /\ NNodes <= NLocal
    /\ TilesPerRank \in Nat \ {0}
    /\ ChunkTiles \in 1..TilesPerRank
    /\ NBlocks \in 1..Chunks
    /\ NSMs \in Nat /\ NBlocks < NSMs
    /\ MaxForwards \in Nat

Ranks    == 0..(NNodes * NLocal - 1)
Nodes    == 0..(NNodes - 1)
Blocks   == 0..(NBlocks - 1)
Tiles    == 0..(TilesPerRank - 1)
Segments == Nodes \X Tiles          \* <<dst_node, tile>>
Forwards == 0..MaxForwards

VARIABLES
    launched,   \* launched[r]: GEMM kernels the compute stream has launched
    ended,      \* ended[r]: GEMM kernels that have ended
    published,  \* published[r][<<d, t>>]: the sum in slot [d][own node], 0 if none
    compFwd,    \* compFwd[r]: forwards whose output the caller has consumed
    wrong,      \* wrong[r]: a consumer read a tile of another forward
    commFwd,    \* commFwd[r]: forwards the communication stream has completed
    commPc,     \* commPc[r]: where that stream is in its next forward
    ready,      \* ready[r]: the segments whose gin_ready flag is up
    producer,   \* producer[r]: gin_producer_signal
    resident,   \* resident[r]: gin_resident_count
    blk,        \* blk[r][b]: where CTA b of the progress kernel is
    arrived,    \* arrived[r][b]: world barrier arrivals of CTA b
    sent,       \* sent[r][b]: puts of the send warp
    reduced,    \* reduced[r][b]: chunks of the workers; got: the waits are over
    slot,       \* slot[r][s][t]: tile t received from node s, slot [own][s]
    signal,     \* signal[r][b][s]: signals received from node s
    shadow,     \* shadow[r][b][s]: those the workers have counted
    wire,       \* wire[r][b][d]: puts to node d that are read, not yet written
    output      \* output[r][t]: gin_output

vars == <<launched, ended, published, compFwd, wrong, commFwd, commPc, ready,
          producer, resident, blk, arrived, sent, reduced, slot, signal, shadow,
          wire, output>>

gemm    == <<launched, ended, published>>
consume == <<compFwd, wrong>>
stream  == <<commFwd, commPc>>
network == <<slot, signal, wire>>

NodeOf(r) == r \div NLocal
RailRank(r, node) == node * NLocal + (r % NLocal)
LsaPeers == [r \in Ranks |-> {p \in Ranks : NodeOf(p) = NodeOf(r)}]

Node == INSTANCE NodeReduce WITH Peers <- LsaPeers

\* Chunks of a block: blockIdx.x, blockIdx.x + gridDim.x, ... < chunks_per_rank.
NChunks(b) == (Chunks - b + NBlocks - 1) \div NBlocks
ChunkAt(b, i) == b + i * NBlocks

\* The tiles of chunk c, the last one clipped.
ChunkOf(c) == {t \in Tiles : c * ChunkTiles <= t /\ t < (c + 1) * ChunkTiles}

\* The i-th iteration of the two loops of the send warp: its chunk, its target.
SendChunk(b, i) == ChunkOf(ChunkAt(b, i \div (NNodes - 1)))
SendNode(r, i) == (NodeOf(r) + 1 + (i % (NNodes - 1))) % NNodes

\* wait_chunk_ready
ChunkReady(r, node, chunk) == \A t \in chunk : <<node, t>> \in ready[r]

NoSignals == [b \in Blocks |-> [s \in Nodes |-> 0]]

-----------------------------------------------------------------------------
\* Events, as counts of the forwards that have recorded them.
ReuseReady(r) == compFwd[r]
ResetDone(r)  == IF commPc[r] = "wait" THEN commFwd[r] ELSE commFwd[r] + 1
GinDone(r)    == commFwd[r]

Init ==
    /\ Node!NInit
    /\ compFwd  = [r \in Ranks |-> 0]
    /\ wrong    = [r \in Ranks |-> FALSE]
    /\ commFwd  = [r \in Ranks |-> 0]
    /\ commPc   = [r \in Ranks |-> "wait"]
    /\ ready    = [r \in Ranks |-> {}]
    /\ producer = [r \in Ranks |-> 0]
    /\ resident = [r \in Ranks |-> 0]
    /\ blk      = [r \in Ranks |-> [b \in Blocks |-> "done"]]
    /\ arrived  = [r \in Ranks |-> [b \in Blocks |-> 0]]
    /\ sent     = [r \in Ranks |-> [b \in Blocks |-> 0]]
    /\ reduced  = [r \in Ranks |-> [b \in Blocks |-> [pos |-> 0, got |-> FALSE]]]
    /\ slot     = [r \in Ranks |-> [s \in Nodes |-> [t \in Tiles |-> 0]]]
    /\ signal   = [r \in Ranks |-> NoSignals]
    /\ shadow   = [r \in Ranks |-> NoSignals]
    /\ wire     = [r \in Ranks |-> [b \in Blocks |-> [d \in Nodes |-> <<>>]]]
    /\ output   = [r \in Ranks |-> [t \in Tiles |-> 0]]

-----------------------------------------------------------------------------
(* The compute stream. *)

\* Bug form of GemmMayStart: no wait for gin_reset_done.
GemmMayStartNoEvent(r) == producer[r] = 1

\* The waits prepare_gin_rs puts in front of the GEMM.
GemmMayStart(r) == ResetDone(r) > launched[r] /\ producer[r] = 1

\* The GEMM begins to overwrite the slots it reduces into.
GemmStart(r) ==
    /\ compFwd[r] = launched[r]
    /\ GemmMayStart(r)
    /\ Node!NLaunch(r)
    /\ UNCHANGED <<consume, stream, ready, producer, resident, blk, arrived, sent,
                   reduced, network, shadow, output>>

\* CTAs of the progress kernel that hold an SM, until their grid ends.
OnSM(r) == {b \in Blocks : blk[r][b] \notin {"launch", "done"}}

\* A CTA of the GEMM finds an SM.  init_gin_rs also lets gin_contexts equal the
\* number of SMs, and then there is none.
SmFree(r) == Cardinality(OnSM(r)) < NSMs

\* The last of the local partials of a tile is added: the flag goes up.
GemmTile(r, y) ==
    /\ SmFree(r)
    /\ Node!NPublish(r, y)
    /\ ready' = [ready EXCEPT ![r] = @ \cup {y}]
    /\ UNCHANGED <<consume, stream, producer, resident, blk, arrived, sent, reduced,
                   network, shadow, output>>

GemmEnd(r) ==
    /\ Node!NEnd(r)
    /\ UNCHANGED <<consume, stream, ready, producer, resident, blk, arrived, sent,
                   reduced, network, shadow, output>>

\* Bug form of OutputReady: the compute stream does not wait for gin_done.
OutputReadyNoEvent(r) == TRUE

OutputReady(r) == GinDone(r) > compFwd[r]

\* The stream has waited for gin_done; the caller's kernels read the output.
Consume(r) ==
    /\ ended[r] > compFwd[r]
    /\ OutputReady(r)
    /\ wrong' = [wrong EXCEPT ![r] =
                    @ \/ \E t \in Tiles : output[r][t] # compFwd[r] + 1]
    /\ compFwd' = [compFwd EXCEPT ![r] = @ + 1]
    /\ UNCHANGED <<gemm, stream, ready, producer, resident, blk, arrived, sent,
                   reduced, network, shadow, output>>

-----------------------------------------------------------------------------
(* The communication stream. *)

\* From the second forward on, gin_reuse_ready is recorded behind the consumers
\* of the last output.
CommMayReset(r) == ReuseReady(r) >= commFwd[r]

\* Bug form of CountReset: the memsets leave out gin_resident_count.
CountKept(r) == resident

CountReset(r) == [resident EXCEPT ![r] = 0]

\* The memsets, the record of gin_reset_done and the kernel launch.
CommLaunch(r) ==
    /\ commPc[r] = "wait"
    /\ commFwd[r] < MaxForwards
    /\ CommMayReset(r)
    /\ ready' = [ready EXCEPT ![r] = {}]
    /\ producer' = [producer EXCEPT ![r] = 0]
    /\ resident' = CountReset(r)
    /\ commPc' = [commPc EXCEPT ![r] = "kernel"]
    /\ blk' = [blk EXCEPT ![r] = [b \in Blocks |-> "launch"]]
    /\ UNCHANGED <<gemm, consume, commFwd, arrived, sent, reduced, network, shadow,
                   output>>

-----------------------------------------------------------------------------
(* The CTAs of the progress kernel. *)

\* A CTA gets an SM and counts itself.  All but block 0 arrive at the start
\* barrier next, which is part of the step.
BlockStart(r, b) ==
    /\ blk[r][b] = "launch"
    /\ launched[r] = ended[r] /\ SmFree(r)
    /\ resident' = [resident EXCEPT ![r] = @ + 1]
    /\ sent' = [sent EXCEPT ![r][b] = 0]
    /\ reduced' = [reduced EXCEPT ![r][b] = [pos |-> 0, got |-> FALSE]]
    /\ blk' = [blk EXCEPT ![r][b] = IF b = 0 THEN "handshake" ELSE "start_sync"]
    /\ arrived' = IF b = 0 THEN arrived ELSE [arrived EXCEPT ![r][b] = @ + 1]
    /\ UNCHANGED <<gemm, consume, stream, ready, producer, network, shadow, output>>

AllResident(r) == resident[r] = NBlocks

\* Block 0 has seen all CTAs and arrives at the start barrier.
Handshake(r) ==
    /\ blk[r][0] = "handshake"
    /\ AllResident(r)
    /\ arrived' = [arrived EXCEPT ![r][0] = @ + 1]
    /\ blk' = [blk EXCEPT ![r][0] = "start_sync"]
    /\ UNCHANGED <<gemm, consume, stream, ready, producer, resident, sent, reduced,
                   network, shadow, output>>

Synced(r, b) == \A q \in Ranks : arrived[q][b] >= arrived[r][b]

\* Bug form of StartMayPass: no start barrier.
StartMayPassAlone(r, b) == TRUE

StartMayPass(r, b) == Synced(r, b)

\* The start barrier returns; block 0 releases the GEMM.
StartPass(r, b) ==
    /\ blk[r][b] = "start_sync"
    /\ StartMayPass(r, b)
    /\ blk' = [blk EXCEPT ![r][b] = "run"]
    /\ producer' = IF b = 0 THEN [producer EXCEPT ![r] = 1] ELSE producer
    /\ UNCHANGED <<gemm, consume, stream, ready, resident, arrived, sent, reduced,
                   network, shadow, output>>

\* The send warp: wait for the chunk, put it into the slot of the own node.  The
\* step is the moment the NIC reads the source, which is the call or later.
SendPut(r, b) ==
    LET i == sent[r][b]
        d == SendNode(r, i)
        chunk == SendChunk(b, i)
    IN  /\ blk[r][b] = "run"
        /\ i < NChunks(b) * (NNodes - 1)
        /\ ChunkReady(r, d, chunk)
        /\ wire' = [wire EXCEPT ![r][b][d] =
                        Append(@, [t \in chunk |-> published[r][<<d, t>>]])]
        /\ sent' = [sent EXCEPT ![r][b] = i + 1]
        /\ UNCHANGED <<gemm, consume, stream, ready, producer, resident, blk, arrived,
                       reduced, slot, signal, shadow, output>>

\* The oldest put towards node d is written there, its signal right behind.
GinDeliver(r, b, d) ==
    LET dst == RailRank(r, d)
        put == Head(wire[r][b][d])
    IN  /\ wire[r][b][d] # <<>>
        /\ slot' = [slot EXCEPT ![dst][NodeOf(r)] =
                        [t \in Tiles |-> IF t \in DOMAIN put THEN put[t] ELSE @[t]]]
        /\ signal' = [signal EXCEPT ![dst][b][NodeOf(r)] = @ + 1]
        /\ wire' = [wire EXCEPT ![r][b][d] = Tail(@)]
        /\ UNCHANGED <<gemm, consume, stream, ready, producer, resident, blk, arrived,
                       sent, reduced, shadow, output>>

OtherNodes(r) == Nodes \ {NodeOf(r)}

\* gin.waitSignal(signals + src_node, *shadow + 1) for every other node.
AllReceived(r, b) == \A s \in OtherNodes(r) : signal[r][b][s] >= shadow[r][b][s] + 1

\* Bug form of Counted: the signals waited for are not counted.
CountedNever(r, b) == shadow[r][b]

Counted(r, b) == [s \in Nodes |->
    IF s = NodeOf(r) THEN shadow[r][b][s] ELSE shadow[r][b][s] + 1]

\* The workers wait for the own chunk and for that of every other node.
WorkerWait(r, b) ==
    LET w == reduced[r][b]
    IN  /\ blk[r][b] = "run"
        /\ w.pos < NChunks(b) /\ ~w.got
        /\ ChunkReady(r, NodeOf(r), ChunkOf(ChunkAt(b, w.pos)))
        /\ AllReceived(r, b)
        /\ shadow' = [shadow EXCEPT ![r][b] = Counted(r, b)]
        /\ reduced' = [reduced EXCEPT ![r][b] = [pos |-> w.pos, got |-> TRUE]]
        /\ UNCHANGED <<gemm, consume, stream, ready, producer, resident, blk, arrived,
                       sent, network, output>>

\* The sum over the nodes of tile t; it belongs to no forward if they differ.
SumOf(r, t) ==
    LET own == published[r][<<NodeOf(r), t>>]
    IN  IF \A s \in OtherNodes(r) : slot[r][s][t] = own THEN own ELSE 0

\* reduce_tile_to_dense of the tiles of the chunk
WorkerReduce(r, b) ==
    LET w == reduced[r][b]
        chunk == ChunkOf(ChunkAt(b, w.pos))
    IN  /\ blk[r][b] = "run"
        /\ w.got
        /\ output' = [output EXCEPT ![r] =
                        [t \in Tiles |-> IF t \in chunk THEN SumOf(r, t) ELSE @[t]]]
        /\ reduced' = [reduced EXCEPT ![r][b] = [pos |-> w.pos + 1, got |-> FALSE]]
        /\ UNCHANGED <<gemm, consume, stream, ready, producer, resident, blk, arrived,
                       sent, network, shadow>>

\* cta.sync, then the arrival at the final barrier.
EndArrive(r, b) ==
    /\ blk[r][b] = "run"
    /\ sent[r][b] = NChunks(b) * (NNodes - 1)
    /\ reduced[r][b].pos = NChunks(b)
    /\ arrived' = [arrived EXCEPT ![r][b] = @ + 1]
    /\ blk' = [blk EXCEPT ![r][b] = "end_sync"]
    /\ UNCHANGED <<gemm, consume, stream, ready, producer, resident, sent, reduced,
                   network, shadow, output>>

\* The final barrier returns in every CTA, the kernel ends, gin_done is recorded.
CommDone(r) ==
    /\ commPc[r] = "kernel"
    /\ \A b \in Blocks : blk[r][b] = "end_sync" /\ Synced(r, b)
    /\ blk' = [blk EXCEPT ![r] = [b \in Blocks |-> "done"]]
    /\ commFwd' = [commFwd EXCEPT ![r] = @ + 1]
    /\ commPc' = [commPc EXCEPT ![r] = "wait"]
    /\ UNCHANGED <<gemm, consume, ready, producer, resident, arrived, sent, reduced,
                   network, shadow, output>>

-----------------------------------------------------------------------------
Compute(r) ==
    GemmStart(r) \/ (\E y \in Segments : GemmTile(r, y)) \/ GemmEnd(r) \/ Consume(r)

Block(r, b) ==
    \/ BlockStart(r, b) \/ StartPass(r, b) \/ SendPut(r, b)
    \/ \E d \in Nodes : GinDeliver(r, b, d)
    \/ WorkerWait(r, b) \/ WorkerReduce(r, b) \/ EndArrive(r, b)

Next == \E r \in Ranks : \/ Compute(r)
                         \/ CommLaunch(r) \/ Handshake(r) \/ CommDone(r)
                         \/ \E b \in Blocks : Block(r, b)

Safe == Init /\ [][Next]_vars

\* As in GinAgGemm: no step undoes another, so it is enough that the devices
\* never all stop while one of them can move.
Spec == Safe /\ WF_vars(Next)

-----------------------------------------------------------------------------
HostTypes ==
    /\ launched \in [Ranks -> Forwards] /\ ended \in [Ranks -> Forwards]
    /\ compFwd \in [Ranks -> Forwards] /\ wrong \in [Ranks -> BOOLEAN]
    /\ commFwd \in [Ranks -> Forwards] /\ commPc \in [Ranks -> {"wait", "kernel"}]

CtaTypes ==
    /\ ready \in [Ranks -> SUBSET Segments]
    /\ producer \in [Ranks -> {0, 1}] /\ resident \in [Ranks -> 0..NBlocks]
    /\ blk \in [Ranks -> [Blocks -> {"launch", "handshake", "start_sync", "run",
                                     "end_sync", "done"}]]
    /\ arrived \in [Ranks -> [Blocks -> 0..(2 * MaxForwards)]]
    /\ sent \in [Ranks -> [Blocks -> Nat]]
    /\ reduced \in [Ranks -> [Blocks -> [pos : Nat, got : BOOLEAN]]]
    /\ signal \in [Ranks -> [Blocks -> [Nodes -> Nat]]]
    /\ shadow \in [Ranks -> [Blocks -> [Nodes -> Nat]]]

\* What a put carries: some tiles of the own slot.
Puts == UNION {[chunk -> Forwards] : chunk \in SUBSET Tiles}

DataTypes ==
    /\ published \in [Ranks -> [Segments -> Forwards]]
    /\ slot \in [Ranks -> [Nodes -> [Tiles -> Forwards]]]
    /\ wire \in [Ranks -> [Blocks -> [Nodes -> Seq(Puts)]]]
    /\ output \in [Ranks -> [Tiles -> Forwards]]

TypeOK == HostTypes /\ CtaTypes /\ DataTypes

\* What the caller's kernels read, at any time before they are through, is the
\* sum of one forward, their own: neither flags, slots nor the output itself are
\* reused while a rank that is behind still needs them.
OutputsCurrent == \A r \in Ranks : ~wrong[r]

\* No GEMM is launched before the GEMMs of the last forward have ended on all
\* ranks of the node: what GemmRsTiles assumes with Sync = "launch", for its
\* kernels store a tile before they know that the last one was fetched.
GemmsDoNotOverlap ==
    \A r \in Ranks : \A p \in LsaPeers[r] : launched[r] <= ended[p] + 1

\* Signals are counted on from forward to forward: before a rank's CTA is in the
\* start barrier, no signal is there that the workers have not counted.
NoLeftoverSignal ==
    \A r \in Ranks, b \in Blocks :
        blk[r][b] \in {"launch", "handshake", "done"} => signal[r][b] = shadow[r][b]

\* Every forward of every rank ends: the GEMM waits for the progress CTAs to be
\* resident, these for the GEMM's tiles and for each other, never in a circle.
ForwardsEnd == <>(\A r \in Ranks : compFwd[r] = MaxForwards)

\* A forward orders the ranks as a barrier: none has its output before all have
\* launched the GEMM of the same forward.
Abstract == INSTANCE Barrier WITH
    MaxCalls <- MaxForwards, entered <- launched, left <- compFwd
ForwardsAreBarrier == Abstract!Safe
=============================================================================
