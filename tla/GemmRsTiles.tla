------------------------------ MODULE GemmRsTiles ------------------------------
(***************************************************************************)
(* The SM90 GEMM fused with the reduction of one node (GemmRS, src/gemm_rs/*)
(* sm90_reduce_scatter_utils.hpp): the ranks of one node multiply, fetch   *)
(* each other's tiles and add them up, over back-to-back forwards on the   *)
(* same buffers.                                                           *)
(*                                                                         *)
(* Every rank runs a persistent kernel of Grid CTAs.  Each CTA walks its   *)
(* tiles with three roles: the math warps store a tile in output_buffer    *)
(* and raise its first flag; the fetch warp takes that flag of a peer and  *)
(* reads the peer's tile into shared memory; the reduce warp adds it into  *)
(* reduce_buffer and counts in the second flag.  A tile is named by the    *)
(* local rank it is for and by its place y among the tiles for that local  *)
(* rank (of all nodes).  Data is abstracted to the number of the forward   *)
(* it belongs to.  Flags live in barrier_buffer, which grows with the      *)
(* problem and is not zeroed.                                              *)
(***************************************************************************)
EXTENDS Integers, FiniteSets

CONSTANTS
    NNodes,         \* nodes of the operator (the other nodes do the same)
    NLocal,         \* GPUs of the node (local_world_size)
    TilesPerRank,   \* tiles of the output of one rank
    Grid,           \* CTAs of the persistent kernel
    Sms,            \* SMs the kernel can have
    Fuse,           \* FuseReduction
    Sync,           \* what keeps forwards apart, see below
    GrowAt,         \* the forwards that need a larger barrier_buffer
    FreshFlags,     \* values a flag of a new barrier_buffer may have
    MaxForwards     \* bound on the forwards

(***************************************************************************)
(* Sync: "none" is one SM90 node, where forward_barrier does nothing;      *)
(* "group_barrier" is the barrier_all of forward_barrier otherwise;        *)
(* "launch" is a barrier before the GEMM is launched: the start barrier of *)
(* the GIN kernel, or a caller that synchronizes its ranks.                *)
(***************************************************************************)
ASSUME TilesAssumption ==
    /\ NNodes \in Nat \ {0}
    /\ NLocal \in {1, 2, 4, 8}
    /\ TilesPerRank \in Nat \ {0}
    /\ Grid \in 1..(NLocal * NNodes * TilesPerRank)
    /\ Sms \in Nat \ {0}
    /\ Fuse \in BOOLEAN /\ (NNodes > 1 => Fuse)
    /\ Sync \in {"none", "group_barrier", "launch"}
    /\ GrowAt \subseteq Nat /\ 1 \in GrowAt
    /\ FreshFlags \subseteq Nat
    /\ MaxForwards \in Nat

Locals   == 0..(NLocal - 1)
Ctas     == 0..(Grid - 1)
Ys       == 0..(NNodes * TilesPerRank - 1)
Work     == 0..(NLocal * NNodes * TilesPerRank - 1)
Forwards == 0..MaxForwards

VARIABLES
    fwd,        \* fwd[r]: forwards the stream has completed
    pc,         \* pc[r]: where the stream is in its next forward
    dispatched, \* dispatched[r]: CTAs of the kernel that got an SM
    epi,        \* epi[r][c]: tiles CTA c has stored, flag raised
    hold,       \* hold[r][c]: a tile is stored, its flag not yet raised
    taken,      \* taken[r][c]: flags the fetch warp has taken
    read,       \* read[r][c]: tiles the fetch warp has read
    smem,       \* smem[r][c]: the tile the fetch warp read last
    added,      \* added[r][c]: tiles the reduce warp has added
    output,     \* output[r][l][y]: output_buffer
    stored,     \* stored[r][l][y]: first flag of the tile
    reduced,    \* reduced[r][y]: second flag of the tile
    buffer,     \* buffer[r][y][s]: forward of the partial of s in reduce_buffer
    wrong       \* wrong[r]: a result was not the sum of its own forward

vars == <<fwd, pc, dispatched, epi, hold, taken, read, smem, added, output,
          stored, reduced, buffer, wrong>>

stream == <<fwd, pc, wrong>>
flags  == <<stored, reduced>>

-----------------------------------------------------------------------------
(* Tile order. *)

Bit(x, i) == (x \div (2^i)) % 2

\* OutputRankSwizzler::swizzle_rank: three bits of the rank, each flipped by the
\* bit of the own local rank (Swizzle<3, 0, 3>).
SwizzleRank == [a \in 0..7 |-> [b \in 0..7 |->
    ((Bit(a, 0) + Bit(b, 0)) % 2) + (2 * ((Bit(a, 1) + Bit(b, 1)) % 2))
                                  + (4 * ((Bit(a, 2) + Bit(b, 2)) % 2))]]

\* Bug form of LocalOf: every rank visits the local ranks in the same order.
LocalOfPlain == [r \in Locals |-> [x \in Work |-> x \div (NNodes * TilesPerRank)]]

\* WorkIdxMSwizzler::swizzle_m: the own tiles first, then those of the others.
LocalOf == [r \in Locals |-> [x \in Work |->
                SwizzleRank[x \div (NNodes * TilesPerRank)][r]]]

YOf(x) == x % (NNodes * TilesPerRank)

\* The persistent scheduler: CTA c works on c, c + Grid, c + 2 Grid, ...
CtaLength == [c \in Ctas |-> (NLocal * NNodes * TilesPerRank - c + Grid - 1) \div Grid]
TileAt(c, i) == c + i * Grid

\* The partial of local rank s is in the sum of y on rank r.
Added(r, y, s) ==
    \E c \in Ctas : \E i \in 0..(added[r][c] - 1) :
        YOf(TileAt(c, i)) = y /\ LocalOf[r][TileAt(c, i)] = s

\* A CTA ends with its last role: the fetch warp is never behind the reduce warp.
Finished(r, c) == added[r][c] = CtaLength[c] /\ epi[r][c] = CtaLength[c]

Zeros == [c \in Ctas |-> 0]
-----------------------------------------------------------------------------
Init ==
    /\ fwd = [r \in Locals |-> 0]
    /\ pc = [r \in Locals |-> "idle"]
    /\ dispatched = [r \in Locals |-> 0]
    /\ epi = [r \in Locals |-> Zeros]
    /\ hold = [r \in Locals |-> [c \in Ctas |-> FALSE]]
    /\ taken = [r \in Locals |-> Zeros]
    /\ read = [r \in Locals |-> Zeros]
    /\ smem = [r \in Locals |-> Zeros]
    /\ added = [r \in Locals |-> Zeros]
    /\ output = [r \in Locals |-> [l \in Locals |-> [y \in Ys |-> 0]]]
    /\ stored = [r \in Locals |-> [l \in Locals |-> [y \in Ys |-> 0]]]
    /\ reduced = [r \in Locals |-> [y \in Ys |-> 0]]
    /\ buffer = [r \in Locals |-> [y \in Ys |-> [s \in Locals |-> 0]]]
    /\ wrong = [r \in Locals |-> FALSE]

-----------------------------------------------------------------------------
(* The stream of a rank. *)

FirstCtas == IF Sms < Grid THEN Sms ELSE Grid

\* The ranks of S launch their kernels: every role of every CTA at its start.
Launch(S) ==
    /\ pc' = [r \in Locals |-> IF r \in S THEN "gemm" ELSE pc[r]]
    /\ dispatched' = [r \in Locals |-> IF r \in S THEN FirstCtas ELSE dispatched[r]]
    /\ epi' = [r \in Locals |-> IF r \in S THEN Zeros ELSE epi[r]]
    /\ taken' = [r \in Locals |-> IF r \in S THEN Zeros ELSE taken[r]]
    /\ read' = [r \in Locals |-> IF r \in S THEN Zeros ELSE read[r]]
    /\ smem' = [r \in Locals |-> IF r \in S THEN Zeros ELSE smem[r]]
    /\ added' = [r \in Locals |-> IF r \in S THEN Zeros ELSE added[r]]
    /\ UNCHANGED <<fwd, hold, output, buffer, wrong>>

\* Bug form of MayLaunch: nobody waits for the other ranks.
MayLaunchAlone(r) == TRUE

\* A barrier in front of the launch, if there is one.
MayLaunch(r) == Sync = "launch" => \A p \in Locals : fwd[p] >= fwd[r]

\* forward_gemm_impl of a forward the barrier_buffer is large enough for.
LaunchGemm(r) ==
    /\ pc[r] = "idle"
    /\ fwd[r] < MaxForwards
    /\ fwd[r] + 1 \notin GrowAt
    /\ MayLaunch(r)
    /\ Launch({r})
    /\ UNCHANGED flags

\* lazy_init_barrier_buffer: barrier_all and a stream synchronization, then a
\* collective allocation, which returns nowhere before every rank is in it.  The
\* new flags have the values the memory happens to have.
GrowBarrierBuffer ==
    /\ \A r \in Locals : pc[r] = "idle" /\ fwd[r] < MaxForwards
    /\ \A r, p \in Locals : fwd[r] = fwd[p]
    /\ \A r \in Locals : fwd[r] + 1 \in GrowAt
    /\ stored' \in [Locals -> [Locals -> [Ys -> FreshFlags]]]
    /\ reduced' \in [Locals -> [Ys -> FreshFlags]]
    /\ Launch(Locals)

\* The hardware gives the SM of a finished CTA to the next one.
DispatchCta(r) ==
    /\ pc[r] = "gemm"
    /\ dispatched[r] < Grid
    /\ dispatched[r] - Cardinality({c \in Ctas : Finished(r, c)}) < Sms
    /\ dispatched' = [dispatched EXCEPT ![r] = @ + 1]
    /\ UNCHANGED <<stream, epi, hold, taken, read, smem, added, output, flags, buffer>>

KernelEnd(r) ==
    /\ pc[r] = "gemm"
    /\ \A c \in Ctas : Finished(r, c)
    /\ pc' = [pc EXCEPT ![r] = IF Sync = "group_barrier" THEN "barrier" ELSE "sum"]
    /\ UNCHANGED <<fwd, wrong, dispatched, epi, hold, taken, read, smem, added, output,
                   flags, buffer>>

\* Rank p has reached the barrier of forward k.
AtBarrier(p, k) == fwd[p] > k \/ (fwd[p] = k /\ pc[p] \in {"barrier", "sum"})

\* forward_barrier
GroupBarrier(r) ==
    /\ pc[r] = "barrier"
    /\ \A p \in Locals : AtBarrier(p, fwd[r])
    /\ pc' = [pc EXCEPT ![r] = "sum"]
    /\ UNCHANGED <<fwd, wrong, dispatched, epi, hold, taken, read, smem, added, output,
                   flags, buffer>>

\* forward_reduce_scatter_impl: the sum over the reduce_buffer becomes the result.
ReturnSum(r) ==
    /\ pc[r] = "sum"
    /\ wrong' = [wrong EXCEPT ![r] =
            @ \/ \E y \in Ys : \E s \in Locals : buffer[r][y][s] # fwd[r] + 1]
    /\ fwd' = [fwd EXCEPT ![r] = @ + 1]
    /\ pc' = [pc EXCEPT ![r] = "idle"]
    /\ UNCHANGED <<dispatched, epi, hold, taken, read, smem, added, output, flags,
                   buffer>>

-----------------------------------------------------------------------------
(* The roles of a CTA. *)

Runs(r, c) == pc[r] = "gemm" /\ c < dispatched[r]

\* The math warps store the next tile; nothing is awaited for that.
EpilogueStore(r, c) ==
    LET x == TileAt(c, epi[r][c])
    IN  /\ Runs(r, c)
        /\ epi[r][c] < CtaLength[c]
        /\ ~hold[r][c]
        /\ output' = [output EXCEPT ![r][LocalOf[r][x]][YOf(x)] = fwd[r] + 1]
        /\ hold' = [hold EXCEPT ![r][c] = TRUE]
        /\ UNCHANGED <<stream, dispatched, epi, taken, read, smem, added, flags, buffer>>

\* Sm90AuxStoreReduceScatter::end: the stores are complete; the flag goes from 0
\* to 1, once whoever fetched the tile of the last forward has put it back.
EpilogueSignal(r, c) ==
    LET x == TileAt(c, epi[r][c])
    IN  /\ Runs(r, c)
        /\ hold[r][c]
        /\ stored[r][LocalOf[r][x]][YOf(x)] = 0
        /\ stored' = [stored EXCEPT ![r][LocalOf[r][x]][YOf(x)] = 1]
        /\ epi' = [epi EXCEPT ![r][c] = @ + 1]
        /\ hold' = [hold EXCEPT ![r][c] = FALSE]
        /\ UNCHANGED <<stream, dispatched, taken, read, smem, added, output, reduced,
                       buffer>>

\* Bug form of FlagTaken: the flag is only read.
FlagSeen(r, s, y) == stored

\* wait_eq_reset(..., 1): the flag goes from 1 to 0.
FlagTaken(r, s, y) == [stored EXCEPT ![s][r][y] = 0]

\* Sm90ReduceScatterDma::fetch waits for the tile of the peer.
FetchWait(r, c) ==
    LET x == TileAt(c, taken[r][c])
        s == LocalOf[r][x]
        y == YOf(x)
    IN  /\ Runs(r, c)
        /\ taken[r][c] < CtaLength[c]
        /\ taken[r][c] = read[r][c]
        /\ stored[s][r][y] = 1
        /\ stored' = FlagTaken(r, s, y)
        /\ taken' = [taken EXCEPT ![r][c] = @ + 1]
        /\ UNCHANGED <<stream, dispatched, epi, hold, read, smem, added, output, reduced,
                       buffer>>

\* The TMA loads read it, once the pipeline has room; the room for one tile
\* stands for the stages of the pipeline.
FetchRead(r, c) ==
    LET x == TileAt(c, read[r][c])
    IN  /\ Runs(r, c)
        /\ read[r][c] < taken[r][c]
        /\ read[r][c] = added[r][c]
        /\ smem' = [smem EXCEPT ![r][c] = output[LocalOf[r][x]][r][YOf(x)]]
        /\ read' = [read EXCEPT ![r][c] = @ + 1]
        /\ UNCHANGED <<stream, dispatched, epi, hold, taken, added, output, flags, buffer>>

\* Bug form of MayAdd: a fetched tile is not kept waiting for the own one.
MayAddAnytime(r, s, y) == TRUE

\* With FuseReduction the own tile initializes the sum: the others wait for it.
MayAdd(r, s, y) == Fuse /\ s # r => reduced[r][y] >= 1

\* Bug form of NextCount: the last adder does not put the count back.
NextCountKept(count) == count + 1

\* arrive_inc_get; the last of the local ranks resets the count.
NextCount(count) == IF count + 1 = NLocal THEN 0 ELSE count + 1

\* Sm90ReduceScatterDma::reduce.  The own tile is copied, the others are added;
\* without FuseReduction every partial has a place of its own.
ReduceTile(r, c) ==
    LET x == TileAt(c, added[r][c])
        s == LocalOf[r][x]
        y == YOf(x)
    IN  /\ Runs(r, c)
        /\ added[r][c] < read[r][c]
        /\ MayAdd(r, s, y)
        /\ buffer' = [buffer EXCEPT ![r][y] =
                IF Fuse /\ s = r THEN [p \in Locals |-> IF p = r THEN smem[r][c] ELSE 0]
                                 ELSE [@ EXCEPT ![s] = smem[r][c]]]
        /\ reduced' = IF Fuse THEN [reduced EXCEPT ![r][y] = NextCount(@)] ELSE reduced
        /\ added' = [added EXCEPT ![r][c] = @ + 1]
        /\ UNCHANGED <<stream, dispatched, epi, hold, taken, read, smem, output, stored>>

-----------------------------------------------------------------------------
CtaStep(r, c) ==
    \/ EpilogueStore(r, c) \/ EpilogueSignal(r, c)
    \/ FetchWait(r, c) \/ FetchRead(r, c) \/ ReduceTile(r, c)

RankStep(r) ==
    \/ LaunchGemm(r) \/ DispatchCta(r) \/ KernelEnd(r) \/ GroupBarrier(r) \/ ReturnSum(r)
    \/ \E c \in Ctas : CtaStep(r, c)

Next == GrowBarrierBuffer \/ \E r \in Locals : RankStep(r)

Safe == Init /\ [][Next]_vars

(***************************************************************************)
(* Every step brings some stream or CTA forward and none undoes another, so*)
(* it is enough that the devices never all stop while one can move: less   *)
(* than what streams, warps and the dispatcher give one by one.            *)
(***************************************************************************)
Spec == Safe /\ WF_vars(Next)

-----------------------------------------------------------------------------
TypeOK ==
    /\ fwd \in [Locals -> Forwards]
    /\ pc \in [Locals -> {"idle", "gemm", "barrier", "sum"}]
    /\ dispatched \in [Locals -> 0..Grid]
    /\ \A f \in {epi, taken, read, added} :
        f \in [Locals -> [Ctas -> 0..(NLocal * NNodes * TilesPerRank)]]
    /\ hold \in [Locals -> [Ctas -> BOOLEAN]]
    /\ smem \in [Locals -> [Ctas -> Forwards]]
    /\ output \in [Locals -> [Locals -> [Ys -> Forwards]]]
    /\ stored \in [Locals -> [Locals -> [Ys -> FreshFlags \cup {0, 1}]]]
    /\ reduced \in [Locals -> [Ys -> FreshFlags \cup 0..(NLocal - 1)]]
    /\ buffer \in [Locals -> [Ys -> [Locals -> Forwards]]]
    /\ wrong \in [Locals -> BOOLEAN]

\* The result of a forward is the sum of the partial products of that forward of
\* every rank of the node, although buffers and flags are used over and over:
\* neither a partial of an earlier forward, nor one of a forward a peer has
\* already run ahead to, nor one that was overwritten by the own initializing tile.
SumsCurrent == \A r \in Locals : ~wrong[r]

\* A kernel leaves the flags as it found them: when no rank is in a forward, every
\* flag is 0.  A later forward with another shape uses the same flags for other
\* tiles, so one that stays up would release a fetch too early or stop an epilogue.
FlagsDrained ==
    (\A r \in Locals : pc[r] = "idle" /\ fwd[r] > 0 /\ fwd[r] = fwd[0]) =>
        \A r \in Locals : \A y \in Ys :
            reduced[r][y] = 0 /\ \A l \in Locals : stored[r][l][y] = 0

Completed == \A r \in Locals : fwd[r] = MaxForwards

\* Every forward of every rank ends: the waits of fetch, reduce and epilogue on
\* each other, within a CTA and across CTAs and ranks, are never circular.
ForwardsEnd == <>Completed

-----------------------------------------------------------------------------
(* Refinement. *)

\* The forward whose partials the sum of y consists of, -1 if it is a mixture.
SumOf(r, y) ==
    IF \A s \in Locals : buffer[r][y][s] = buffer[r][y][r] THEN buffer[r][y][r] ELSE -1

NodeLaunched == [r \in Locals |-> IF pc[r] = "idle" THEN fwd[r] ELSE fwd[r] + 1]
NodeEnded == [r \in Locals |-> IF pc[r] \in {"barrier", "sum"} THEN fwd[r] + 1 ELSE fwd[r]]
NodePublished == [r \in Locals |-> [y \in Ys |->
    IF \A s \in Locals : Added(r, y, s) THEN SumOf(r, y) ELSE 0]]

Node == INSTANCE NodeReduce WITH
    Ranks <- Locals,
    Peers <- [r \in Locals |-> Locals],
    Segments <- Ys,
    launched <- NodeLaunched,
    ended <- NodeEnded,
    published <- NodePublished

\* Seen from outside, the kernels only publish sums: a rank publishes a sum of the
\* forward it is in, after every peer has launched that forward, and its kernel
\* ends when all its sums are published.
ImplementsNodeReduce == Node!NSpec
=============================================================================
