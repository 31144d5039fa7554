--------------------------- MODULE GinGemmRs_proofs ---------------------------
(***************************************************************************)
(* The safety properties of GinGemmRs, for every number of nodes, GPUs,    *)
(* CTAs, chunks, tiles and forwards: TypeOK, GemmsDoNotOverlap, the        *)
(* refinement of the abstract barrier, NoLeftoverSignal, OutputsCurrent.   *)
(*                                                                         *)
(* Three invariants build on each other.  IInv: where streams and CTAs     *)
(* are, and how often each CTA has arrived at the world barrier.  OrderInv:*)
(* whoever has passed a barrier has met everybody (BarriersHold), so the   *)
(* GEMM is released, flags are raised and chunks are reduced only in the   *)
(* forward that all ranks are in.  CountInv and DataInv: every put towards *)
(* a node is on the wire or signalled (PutsCounted), the workers take no   *)
(* more than that (ShadowsCounted), and what is on the wire, in a slot     *)
(* that is signalled, or in the output is of that forward.                 *)
(***************************************************************************)
EXTENDS GinGemmRs, FiniteSetTheorems, TLAPS

-----------------------------------------------------------------------------
(* The invariants. *)

\* CTA b of rank r is past the start barrier of its forward.
Working(r, b) == blk[r][b] \in {"run", "end_sync"}

\* Where the two streams of a rank are: a GEMM is of the forward of the last
\* reset, the kernels of a forward follow each other.
ControlState ==
    \A r \in Ranks :
        /\ compFwd[r] <= ended[r] /\ ended[r] <= launched[r]
        /\ launched[r] <= compFwd[r] + 1 /\ launched[r] <= ResetDone(r)
        /\ compFwd[r] <= commFwd[r] /\ commFwd[r] <= compFwd[r] + 1
        /\ commPc[r] = "kernel" => commFwd[r] = compFwd[r] /\ commFwd[r] < MaxForwards
        /\ \A b \in Blocks : blk[r][b] = "done" <=> commPc[r] = "wait"

\* Barrier arrivals of a CTA in the forward it is in.
ArrivedNow(r, b) == IF blk[r][b] \in {"launch", "handshake", "done"} THEN 0
                    ELSE IF blk[r][b] \in {"start_sync", "run"} THEN 1 ELSE 2

ArrivalsCountForwards ==
    \A r \in Ranks, b \in Blocks : arrived[r][b] = 2 * commFwd[r] + ArrivedNow(r, b)

ResidentCounts ==
    \A r \in Ranks : commPc[r] = "kernel" => resident[r] = Cardinality(OnSM(r))

\* What a CTA has sent and reduced in the forward it is in.
WarpState ==
    \A r \in Ranks, b \in Blocks :
        /\ blk[r][b] \in {"handshake", "start_sync"} =>
              sent[r][b] = 0 /\ reduced[r][b].pos = 0 /\ ~reduced[r][b].got
        /\ Working(r, b) => /\ sent[r][b] <= NChunks(b) * (NNodes - 1)
                            /\ reduced[r][b].pos <= NChunks(b)
                            /\ reduced[r][b].got => reduced[r][b].pos < NChunks(b)
        /\ blk[r][b] = "end_sync" => /\ sent[r][b] = NChunks(b) * (NNodes - 1)
                                     /\ reduced[r][b].pos = NChunks(b)

IInv == TypeOK /\ ControlState /\ ArrivalsCountForwards /\ ResidentCounts /\ WarpState

\* Whoever is through with a forward, or past its start barrier, has met everybody.
BarriersHold ==
    \A r, q \in Ranks, b \in Blocks :
        /\ arrived[q][b] >= 2 * commFwd[r]
        /\ Working(r, b) => arrived[q][b] >= 2 * commFwd[r] + 1

\* The GEMM is released only when all ranks have reset their control state.
ReleaseFollowsResets ==
    \A r, q \in Ranks : producer[r] = 1 => ResetDone(q) >= ResetDone(r)

\* No rank launches a GEMM while another has yet to end the one before.
GemmsInStep == \A r, q \in Ranks : launched[r] <= ended[q] + 1

\* A flag that is up tells of a sum of the current forward.
FlagsAreCurrent ==
    \A r \in Ranks : \A y \in ready[r] :
        launched[r] = ResetDone(r) /\ published[r][y] = ResetDone(r)

\* The workers have taken a chunk only of a GEMM that is launched; what they are about
\* to reduce is ready.
ReducedAfterLaunch ==
    \A r \in Ranks :
        /\ launched[r] >= commFwd[r]
        /\ \A b \in Blocks : Working(r, b) =>
              /\ reduced[r][b].pos > 0 => launched[r] = ResetDone(r)
              /\ reduced[r][b].got =>
                    ChunkReady(r, NodeOf(r), ChunkOf(ChunkAt(b, reduced[r][b].pos)))

OrderInv == /\ BarriersHold /\ ReleaseFollowsResets /\ GemmsInStep
            /\ FlagsAreCurrent /\ ReducedAfterLaunch

\* The place of node d in the inner loop of the send warp, and the puts to d among
\* the first i.
SendPlace(r, d) == IF d > NodeOf(r) THEN d - NodeOf(r) - 1 ELSE d - NodeOf(r) - 1 + NNodes
SentTo(r, d, i) == (i + NNodes - 2 - SendPlace(r, d)) \div (NNodes - 1)

\* Puts of CTA b of rank r towards node d, and chunks its workers have waited for, in
\* all forwards so far.
PutsTo(r, b, d) ==
    commFwd[r] * NChunks(b) + (IF b \in OnSM(r) THEN SentTo(r, d, sent[r][b]) ELSE 0)
Taken(r, b) ==
    commFwd[r] * NChunks(b) +
        (IF b \in OnSM(r) THEN reduced[r][b].pos + (IF reduced[r][b].got THEN 1 ELSE 0)
         ELSE 0)

\* A put is in the fabric or has been signalled.
PutsCounted ==
    \A r \in Ranks, b \in Blocks :
        /\ wire[r][b][NodeOf(r)] = <<>>
        /\ \A d \in OtherNodes(r) :
              signal[RailRank(r, d)][b][NodeOf(r)] + Len(wire[r][b][d]) = PutsTo(r, b, d)

\* The shadow counters follow the workers, who never count what is not there.
ShadowsCounted ==
    \A r \in Ranks, b \in Blocks :
        /\ signal[r][b][NodeOf(r)] = 0 /\ shadow[r][b][NodeOf(r)] = 0
        /\ \A s \in OtherNodes(r) : /\ shadow[r][b][s] = Taken(r, b)
                                    /\ shadow[r][b][s] <= signal[r][b][s]

CountInv == PutsCounted /\ ShadowsCounted

\* Chunks of CTA b in the forwards before the one its rank is in.
Before(r, b) == commFwd[r] * NChunks(b)

\* The j-th put on its way to node d carries the chunk next but j to be signalled there,
\* of the forward that its sender is in.
WireHolds(r, b, d) ==
    \A j \in 1..Len(wire[r][b][d]), i \in Nat :
        Before(r, b) + i + 1 = signal[RailRank(r, d)][b][NodeOf(r)] + j =>
            wire[r][b][d][j] = [t \in ChunkOf(ChunkAt(b, i)) |-> commFwd[r] + 1]
WireCurrent == \A r \in Ranks, b \in Blocks : \A d \in OtherNodes(r) : WireHolds(r, b, d)

\* What has been signalled in this forward is in its slot.
SlotHolds(r, b, s) ==
    \A i \in Nat : Before(r, b) + i < signal[r][b][s] =>
        \A t \in ChunkOf(ChunkAt(b, i)) : slot[r][s][t] = commFwd[r] + 1
SlotsCurrent == \A r \in Ranks, b \in Blocks : \A s \in OtherNodes(r) : SlotHolds(r, b, s)

\* What has been reduced in this forward is in the output, and stays there until the
\* next forward.
OutputComplete(r) ==
    commPc[r] = "wait" /\ commFwd[r] > 0 => \A t \in Tiles : output[r][t] = commFwd[r]
OutputHolds(r, b) ==
    \A i \in Nat : Working(r, b) /\ i < reduced[r][b].pos =>
        \A t \in ChunkOf(ChunkAt(b, i)) : output[r][t] = commFwd[r] + 1
OutputCurrent ==
    \A r \in Ranks : OutputComplete(r) /\ \A b \in Blocks : OutputHolds(r, b)

DataInv == WireCurrent /\ SlotsCurrent /\ OutputCurrent /\ OutputsCurrent
-----------------------------------------------------------------------------
(* Arithmetic of rails, chunks and tiles. *)

LEMMA Consts ==
    /\ NNodes \in Nat \ {0} /\ NNodes > 1 /\ NLocal \in Nat \ {0}
    /\ TilesPerRank \in Nat \ {0} /\ ChunkTiles \in Nat \ {0} /\ ChunkTiles <= TilesPerRank
    /\ Chunks \in Nat \ {0} /\ NBlocks \in Nat \ {0} /\ NBlocks <= Chunks
    /\ MaxForwards \in Nat
<1>1. Chunks \in Int /\ NBlocks \in 1..Chunks
  BY GinRsAssumption DEF Chunks
<1> QED BY <1>1, GinRsAssumption

LEMMA MulMono == ASSUME NEW x \in Int, NEW y \in Int, NEW k \in Nat, x <= y
                 PROVE  x * k <= y * k /\ x * k \in Int /\ y * k \in Int
<1>1. (y - x) * k >= 0 /\ (y - x) * k = y * k - x * k OBVIOUS
<1> QED BY <1>1

LEMMA DivMod == ASSUME NEW a \in Int, NEW k \in Nat \ {0}
                PROVE  /\ a \div k \in Int /\ a % k \in 0..(k - 1)
                       /\ a = (a \div k) * k + (a % k)
  OBVIOUS

LEMMA DivUnique == ASSUME NEW q \in Int, NEW s \in Int, NEW k \in Nat \ {0}, 0 <= s, s < k
                   PROVE  (q * k + s) \div k = q /\ (q * k + s) % k = s
<1> DEFINE a == q * k + s
           d == a \div k
           m == a % k
<1>1. a \in Int OBVIOUS
<1>2. d \in Int /\ m \in 0..(k - 1) /\ a = d * k + m
  <2> HIDE DEF a
  <2> QED BY <1>1, DivMod
<1>3. q * k \in Int /\ d * k \in Int /\ q * k + s = d * k + m BY <1>2
<1> HIDE DEF d, m
<1>4. ~(d >= q + 1)
  <2> SUFFICES ASSUME d >= q + 1 PROVE FALSE OBVIOUS
  <2>1. (q + 1) * k <= d * k BY <1>2, MulMono
  <2>2. (q + 1) * k = q * k + k OBVIOUS
  <2> QED BY <2>1, <2>2, <1>2, <1>3
<1>5. ~(d <= q - 1)
  <2> SUFFICES ASSUME d <= q - 1 PROVE FALSE OBVIOUS
  <2>1. d * k <= (q - 1) * k BY <1>2, MulMono
  <2>2. (q - 1) * k = q * k - k OBVIOUS
  <2> QED BY <2>1, <2>2, <1>2, <1>3
<1>6. d = q BY <1>4, <1>5, <1>2
<1>7. m = s BY <1>6, <1>3, <1>2
<1> QED BY <1>6, <1>7 DEF d, m

\* The quotient is the largest number of times that k goes into a.
LEMMA DivBounds == ASSUME NEW a \in Int, NEW k \in Nat \ {0}, NEW i \in Int
                   PROVE  i < a \div k + 1 <=> i * k <= a
<1> DEFINE d == a \div k
           m == a % k
<1>1. d \in Int /\ m \in 0..(k - 1) /\ a = d * k + m BY DivMod
<1> HIDE DEF d, m
<1>2. i <= d => i * k <= d * k BY <1>1, MulMono
<1>3. i >= d + 1 => (d + 1) * k <= i * k BY <1>1, MulMono
<1>4. (d + 1) * k = d * k + k /\ d * k \in Int /\ i * k \in Int BY <1>1
<1>5. i <= d => i * k <= a BY <1>1, <1>2, <1>4
<1>6. i * k <= a => i < d + 1 BY <1>1, <1>3, <1>4
<1>7. i < d + 1 <=> i <= d BY <1>1
<1> QED BY <1>5, <1>6, <1>7 DEF d

LEMMA RankFacts ==
    ASSUME NEW r \in Ranks
    PROVE  NodeOf(r) \in Nodes /\ r % NLocal \in 0..(NLocal - 1)
           /\ r = NodeOf(r) * NLocal + (r % NLocal)
<1>1. r \in Int /\ NLocal \in Nat \ {0} BY Consts DEF Ranks
<1>2. /\ r \div NLocal \in Int /\ r % NLocal \in 0..(NLocal - 1)
      /\ r = (r \div NLocal) * NLocal + (r % NLocal)
  BY <1>1, DivMod
<1>3. r >= 0 /\ r < NNodes * NLocal /\ NNodes * NLocal \in Int BY Consts DEF Ranks
<1>4. r \div NLocal >= 0 BY <1>1, <1>3
<1>5. ~(r \div NLocal >= NNodes)
  <2> SUFFICES ASSUME r \div NLocal >= NNodes PROVE FALSE OBVIOUS
  <2>1. NNodes * NLocal <= (r \div NLocal) * NLocal BY <1>1, <1>2, Consts, MulMono
  <2> QED BY <2>1, <1>2, <1>3, <1>1
<1> QED BY <1>2, <1>4, <1>5, Consts DEF NodeOf, Nodes

\* The rank of node d in the same rail.
LEMMA RailFacts ==
    ASSUME NEW r \in Ranks, NEW d \in Nodes
    PROVE  /\ RailRank(r, d) \in Ranks /\ NodeOf(RailRank(r, d)) = d
           /\ RailRank(RailRank(r, d), NodeOf(r)) = r
<1> DEFINE l == r % NLocal
<1>0. l \in 0..(NLocal - 1) /\ NLocal \in Nat \ {0} /\ d \in Int /\ NNodes \in Nat
      /\ d >= 0 /\ d < NNodes
  BY RankFacts, Consts DEF Nodes
<1>1. RailRank(r, d) = d * NLocal + l BY DEF RailRank
<1> HIDE DEF l
<1>2. (d * NLocal + l) \div NLocal = d /\ (d * NLocal + l) % NLocal = l
  BY <1>0, DivUnique
<1>3. d * NLocal + l \in 0..(NNodes * NLocal - 1)
  <2>1. (d + 1) * NLocal <= NNodes * NLocal /\ 0 * NLocal <= d * NLocal
    BY <1>0, MulMono
  <2>2. (d + 1) * NLocal = d * NLocal + NLocal /\ d * NLocal \in Int
        /\ NNodes * NLocal \in Int
    BY <1>0
  <2> QED BY <2>1, <2>2, <1>0
<1>4. RailRank(RailRank(r, d), NodeOf(r)) = NodeOf(r) * NLocal + l
  BY <1>1, <1>2 DEF RailRank
<1> QED BY <1>1, <1>2, <1>3, <1>4, RankFacts DEF NodeOf, Ranks, l

\* Ranks that put to the same rank from the same node are the same.
LEMMA RailInjective ==
    ASSUME NEW r \in Ranks, NEW q \in Ranks, NEW d \in Nodes, NEW e \in Nodes,
           RailRank(r, d) = RailRank(q, e), NodeOf(r) = NodeOf(q)
    PROVE  r = q /\ d = e
  BY RailFacts

\* A CTA has NChunks chunks, none of them empty, and the CTAs' chunks are all tiles.
LEMMA ChunkFacts ==
    ASSUME NEW b \in Blocks
    PROVE  /\ NChunks(b) \in Nat \ {0}
           /\ \A i \in 0..(NChunks(b) - 1) : ChunkOf(ChunkAt(b, i)) # {}
           /\ \A i : ChunkOf(ChunkAt(b, i)) \subseteq Tiles
<1> DEFINE a == Chunks - b + NBlocks - 1
           n == a \div NBlocks
<1>1. b \in Int /\ b >= 0 /\ b < NBlocks BY Consts DEF Blocks
<1>2. a \in Int /\ n = NChunks(b) BY <1>1, Consts DEF NChunks
<1>3. \A i \in Int : i < n + 1 <=> i * NBlocks <= a
  <2> HIDE DEF a
  <2> QED BY <1>2, Consts, DivBounds
<1>4. n \in Int
  <2> HIDE DEF a
  <2> QED BY <1>2, Consts, DivMod
<1>5. n >= 1
  <2>1. 1 * NBlocks <= a BY <1>1, Consts
  <2> HIDE DEF a, n
  <2> QED BY <2>1, <1>3, <1>4
<1> HIDE DEF n
<1>6. ASSUME NEW i \in 0..(n - 1) PROVE ChunkOf(ChunkAt(b, i)) # {}
  <2> DEFINE c == b + i * NBlocks
  <2>1. (i + 1) * NBlocks <= a BY <1>3, <1>4
  <2>2. (i + 1) * NBlocks = i * NBlocks + NBlocks /\ i * NBlocks \in Nat BY Consts
  <2>3. c \in Nat /\ c <= Chunks - 1 BY <2>1, <2>2, <1>1, Consts
  <2> HIDE DEF c
  <2>4. c * ChunkTiles <= TilesPerRank - 1
    <3>1. c + 1 < Chunks + 1 BY <2>3, Consts
    <3>2. (c + 1) * ChunkTiles <= TilesPerRank + ChunkTiles - 1
      <4>1. TilesPerRank + ChunkTiles - 1 \in Int BY Consts
      <4> QED BY <3>1, <4>1, <2>3, Consts, DivBounds DEF Chunks
    <3>3. (c + 1) * ChunkTiles = c * ChunkTiles + ChunkTiles /\ c * ChunkTiles \in Nat
      BY <2>3, Consts
    <3> QED BY <3>2, <3>3, Consts
  <2>5. c * ChunkTiles \in ChunkOf(c)
    <3>1. (c + 1) * ChunkTiles = c * ChunkTiles + ChunkTiles /\ c * ChunkTiles \in Nat
      BY <2>3, Consts
    <3> QED BY <3>1, <2>4, Consts DEF ChunkOf, Tiles
  <2> QED BY <2>5 DEF c, ChunkAt
<1>7. \A i : ChunkOf(ChunkAt(b, i)) \subseteq Tiles BY DEF ChunkOf
<1> QED BY <1>2, <1>4, <1>5, <1>6, <1>7

LEMMA TilesCovered ==
    ASSUME NEW t \in Tiles
    PROVE  \E b \in Blocks : \E i \in 0..(NChunks(b) - 1) : t \in ChunkOf(ChunkAt(b, i))
<1> DEFINE c == t \div ChunkTiles
           b == c % NBlocks
           i == c \div NBlocks
<1>1. t \in Int /\ t >= 0 /\ t <= TilesPerRank - 1 BY Consts DEF Tiles
<1>2. c \in Int /\ t % ChunkTiles \in 0..(ChunkTiles - 1)
      /\ t = c * ChunkTiles + (t % ChunkTiles)
  BY <1>1, Consts, DivMod
<1>3. c >= 0 BY <1>1, Consts
<1>4. c <= Chunks - 1
  <2>1. (c + 1) * ChunkTiles = c * ChunkTiles + ChunkTiles /\ c * ChunkTiles \in Int
    BY <1>2, Consts
  <2>2. (c + 1) * ChunkTiles <= TilesPerRank + ChunkTiles - 1 BY <2>1, <1>1, <1>2, Consts
  <2>3. TilesPerRank + ChunkTiles - 1 \in Int /\ c + 1 \in Int BY <1>2, Consts
  <2>4. c + 1 < Chunks + 1
    <3> HIDE DEF c
    <3> QED BY <2>2, <2>3, Consts, DivBounds DEF Chunks
  <2> QED BY <2>4, <1>2, Consts
<1>5. t \in ChunkOf(c)
  <2>1. (c + 1) * ChunkTiles = c * ChunkTiles + ChunkTiles /\ c * ChunkTiles \in Int
    BY <1>2, Consts
  <2> QED BY <2>1, <1>1, <1>2, Consts DEF ChunkOf
<1> HIDE DEF c
<1>6. i \in Int /\ b \in 0..(NBlocks - 1) /\ c = i * NBlocks + b
  BY <1>2, Consts, DivMod
<1>7. i >= 0 BY <1>2, <1>3, Consts
<1> HIDE DEF b, i
<1>8. b \in Blocks /\ ChunkAt(b, i) = c BY <1>6, Consts DEF Blocks, ChunkAt
<1>9. i < NChunks(b)
  <2>1. (i + 1) * NBlocks = i * NBlocks + NBlocks /\ i * NBlocks \in Int BY <1>6, Consts
  <2>2. (i + 1) * NBlocks <= Chunks - b + NBlocks - 1 BY <2>1, <1>4, <1>6, <1>2, Consts
  <2>3. Chunks - b + NBlocks - 1 \in Int /\ i + 1 \in Int BY <1>6, Consts
  <2>4. i + 1 < NChunks(b) + 1 BY <2>2, <2>3, Consts, DivBounds DEF NChunks
  <2> QED BY <2>4, <1>6, <1>8, ChunkFacts
<1> QED BY <1>5, <1>7, <1>8, <1>9, <1>6, ChunkFacts

\* The send warp turns to the other nodes one after the other.
LEMMA SendFacts ==
    ASSUME NEW r \in Ranks, NEW i \in Nat
    PROVE  /\ SendNode(r, i) \in OtherNodes(r)
           /\ i \div (NNodes - 1) \in Nat
           /\ \A d \in OtherNodes(r) :
                 /\ SentTo(r, d, i) \in Nat /\ SentTo(r, d, 0) = 0
                 /\ SentTo(r, d, i + 1) = SentTo(r, d, i) + IF SendNode(r, i) = d THEN 1 ELSE 0
                 /\ SendNode(r, i) = d => SentTo(r, d, i) = i \div (NNodes - 1)
<1> DEFINE m == NNodes - 1
           q == i \div m
           x == i % m
           o == NodeOf(r)
           to == IF o + 1 + x < NNodes THEN o + 1 + x ELSE o + 1 + x - NNodes
<1>0. m \in Nat \ {0} /\ NNodes = m + 1 BY Consts
<1>1. o \in Int /\ 0 <= o /\ o < NNodes BY RankFacts, Consts DEF Nodes
<1>2. q \in Int /\ x \in 0..(m - 1) /\ i = q * m + x
  <2> HIDE DEF m
  <2> QED BY <1>0, DivMod
<1>3. q >= 0
  <2> HIDE DEF q, x, m
  <2> SUFFICES ASSUME q <= -1 PROVE FALSE BY <1>2
  <2>1. q * m <= (-1) * m BY <1>0, <1>2, MulMono
  <2> QED BY <2>1, <1>0, <1>2
<1>4. SendNode(r, i) = (o + 1 + x) % NNodes BY DEF SendNode
<1> HIDE DEF m, q, x, o
<1>5. (o + 1 + x) % NNodes = to
  <2>1. CASE o + 1 + x < NNodes
    <3>1. (0 * NNodes + (o + 1 + x)) % NNodes = o + 1 + x
      BY <2>1, <1>0, <1>1, <1>2, Consts, DivUnique
    <3>2. 0 * NNodes + (o + 1 + x) = o + 1 + x BY <1>1, <1>2, Consts
    <3> QED BY <2>1, <3>1, <3>2
  <2>2. CASE ~(o + 1 + x < NNodes)
    <3>1. (1 * NNodes + (o + 1 + x - NNodes)) % NNodes = o + 1 + x - NNodes
      BY <2>2, <1>0, <1>1, <1>2, Consts, DivUnique
    <3>2. 1 * NNodes + (o + 1 + x - NNodes) = o + 1 + x BY <1>1, <1>2, Consts
    <3> QED BY <2>2, <3>1, <3>2
  <2> QED BY <2>1, <2>2
<1>6. to \in 0..(NNodes - 1) /\ to # o BY <1>0, <1>1, <1>2
<1>7. SendNode(r, i) \in OtherNodes(r)
  BY <1>4, <1>5, <1>6 DEF OtherNodes, Nodes, o
<1>8. ASSUME NEW d \in OtherNodes(r)
      PROVE  /\ SentTo(r, d, i) \in Nat /\ SentTo(r, d, 0) = 0
             /\ SentTo(r, d, i + 1) = SentTo(r, d, i) + IF SendNode(r, i) = d THEN 1 ELSE 0
             /\ SendNode(r, i) = d => SentTo(r, d, i) = q
  <2> DEFINE p == SendPlace(r, d)
             done(j) == (j + m - 1 - p) \div m
  <2>1. d \in Int /\ 0 <= d /\ d < NNodes /\ d # o BY Consts DEF OtherNodes, Nodes, o
  <2>2. p = IF d > o THEN d - o - 1 ELSE d - o - 1 + NNodes BY DEF SendPlace, o
  <2>3. \A j \in Int : SentTo(r, d, j) = (j + NNodes - 2 - p) \div (NNodes - 1)
    BY DEF SentTo
  <2> HIDE DEF p
  <2>4. p \in 0..(m - 1) BY <2>1, <2>2, <1>0, <1>1
  <2>5. to = d <=> x = p BY <2>1, <2>2, <1>0, <1>1, <1>2
  <2>6. \A j \in Int : SentTo(r, d, j) = done(j)
    <3> TAKE j \in Int
    <3>1. j + NNodes - 2 - p = j + m - 1 - p /\ NNodes - 1 = m BY <1>0, <2>4
    <3> QED BY <3>1, <2>3
  <2>7. done(0) = 0
    <3>1. (0 * m + (m - 1 - p)) \div m = 0 BY <2>4, <1>0, DivUnique
    <3>2. 0 * m + (m - 1 - p) = 0 + m - 1 - p BY <2>4, <1>0
    <3> QED BY <3>1, <3>2
  <2>8. done(i) = IF x > p THEN q + 1 ELSE q
    <3>1. CASE x > p
      <4>1. ((q + 1) * m + (x - 1 - p)) \div m = q + 1 BY <3>1, <2>4, <1>0, <1>2, DivUnique
      <4>2. (q + 1) * m + (x - 1 - p) = i + m - 1 - p
        <5>1. (q + 1) * m = q * m + m /\ q * m \in Int BY <1>0, <1>2
        <5> QED BY <5>1, <2>4, <1>0, <1>2
      <4> QED BY <3>1, <4>1, <4>2
    <3>2. CASE x <= p
      <4>1. (q * m + (x + m - 1 - p)) \div m = q BY <3>2, <2>4, <1>0, <1>2, DivUnique
      <4>2. q * m + (x + m - 1 - p) = i + m - 1 - p
        <5>1. q * m \in Int BY <1>0, <1>2
        <5> QED BY <5>1, <2>4, <1>0, <1>2
      <4> QED BY <3>2, <4>1, <4>2, <2>4, <1>2
    <3> QED BY <3>1, <3>2, <2>4, <1>2
  <2>9. done(i + 1) = IF x >= p THEN q + 1 ELSE q
    <3>1. CASE x >= p
      <4>1. ((q + 1) * m + (x - p)) \div m = q + 1 BY <3>1, <2>4, <1>0, <1>2, DivUnique
      <4>2. (q + 1) * m + (x - p) = i + 1 + m - 1 - p
        <5>1. (q + 1) * m = q * m + m /\ q * m \in Int BY <1>0, <1>2
        <5> QED BY <5>1, <2>4, <1>0, <1>2
      <4> QED BY <3>1, <4>1, <4>2
    <3>2. CASE x < p
      <4>1. (q * m + (x + m - p)) \div m = q BY <3>2, <2>4, <1>0, <1>2, DivUnique
      <4>2. q * m + (x + m - p) = i + 1 + m - 1 - p
        <5>1. q * m \in Int BY <1>0, <1>2
        <5> QED BY <5>1, <2>4, <1>0, <1>2
      <4> QED BY <3>2, <4>1, <4>2, <2>4, <1>2
    <3> QED BY <3>1, <3>2, <2>4, <1>2
  <2>10. SendNode(r, i) = d <=> x = p BY <1>4, <1>5, <2>5
  <2> HIDE DEF done
  <2> QED BY <2>6, <2>7, <2>8, <2>9, <2>10, <1>2, <1>3, <2>4
<1> QED BY <1>3, <1>2, <1>7, <1>8 DEF q, m

\* Each of n chunks is put once to every other node.
LEMMA SentAll ==
    ASSUME NEW r \in Ranks, NEW d \in OtherNodes(r), NEW n \in Nat, NEW i \in Nat,
           i <= n * (NNodes - 1)
    PROVE  /\ SentTo(r, d, i) <= n
           /\ i = n * (NNodes - 1) => SentTo(r, d, i) = n
<1> DEFINE m == NNodes - 1
           p == SendPlace(r, d)
           a == i + NNodes - 2 - p
<1>0. m \in Nat \ {0} /\ NNodes = m + 1 BY Consts
<1>1. p \in 0..(m - 1)
  BY RankFacts, Consts DEF OtherNodes, Nodes, SendPlace
<1>2. SentTo(r, d, i) = a \div m BY DEF SentTo
<1> HIDE DEF p
<1>3. a \in Int /\ a = i + m - 1 - p BY <1>0, <1>1
<1> HIDE DEF a, m
<1>4. (n + 1) * m = n * m + m /\ n * m \in Int BY <1>0
<1>5. i <= n * m BY DEF m
<1>6. ~((n + 1) * m <= a) BY <1>0, <1>1, <1>3, <1>4, <1>5
<1>7. ~(n + 1 < a \div m + 1) BY <1>6, <1>3, <1>0, DivBounds
<1>8. a \div m \in Int BY <1>3, <1>0, DivMod
<1>9. i = n * m => n < a \div m + 1
  <2> SUFFICES ASSUME i = n * m PROVE n < a \div m + 1 OBVIOUS
  <2>1. n * m <= a BY <1>0, <1>1, <1>3, <1>4
  <2> QED BY <2>1, <1>3, <1>0, DivBounds
<1> QED BY <1>2, <1>7, <1>8, <1>9 DEF m

-----------------------------------------------------------------------------
(* IInv. *)

LEMMA HostFacts ==
    ASSUME HostTypes, NEW r \in Ranks
    PROVE  /\ launched[r] \in Nat /\ ended[r] \in Nat /\ compFwd[r] \in Nat
           /\ commFwd[r] \in Nat /\ commFwd[r] <= MaxForwards /\ ResetDone(r) \in Nat
           /\ commPc[r] \in {"wait", "kernel"}
           /\ ResetDone(r) = IF commPc[r] = "wait" THEN commFwd[r] ELSE commFwd[r] + 1
  BY Consts DEF HostTypes, Forwards, ResetDone

LEMMA BlocksFinite ==
    /\ IsFiniteSet(Blocks) /\ Cardinality(Blocks) = NBlocks
    /\ \A r : IsFiniteSet(OnSM(r)) /\ OnSM(r) \subseteq Blocks
              /\ Cardinality(OnSM(r)) \in Nat /\ Cardinality(OnSM(r)) <= NBlocks
<1>1. IsFiniteSet(Blocks) /\ Cardinality(Blocks) = NBlocks
  BY FS_Interval, Consts DEF Blocks
<1>2. \A r : OnSM(r) \subseteq Blocks BY DEF OnSM
<1> QED BY <1>1, <1>2, FS_Subset, FS_CardinalityType

LEMMA InitIInv == Init => IInv
<1> SUFFICES ASSUME Init PROVE IInv OBVIOUS
<1> USE DEF Init, Node!NInit
<1>1. HostTypes BY Consts DEF HostTypes, Forwards
<1>2. CtaTypes BY Consts DEF CtaTypes, NoSignals
<1>3. DataTypes
  <2>1. << >> \in Seq(Puts) OBVIOUS
  <2> QED BY <2>1, Consts DEF DataTypes, Forwards
<1>4. ControlState BY Consts DEF ControlState, ResetDone
<1>5. ArrivalsCountForwards BY DEF ArrivalsCountForwards, ArrivedNow
<1>6. ResidentCounts /\ WarpState BY DEF ResidentCounts, WarpState, Working
<1> QED BY <1>1, <1>2, <1>3, <1>4, <1>5, <1>6 DEF IInv, TypeOK

\* What only looks at the communication stream and the CTAs.
LEMMA CtasFrame ==
    ASSUME IInv, UNCHANGED <<stream, resident, blk, arrived, sent, reduced>>
    PROVE  ArrivalsCountForwards' /\ ResidentCounts' /\ WarpState'
<1> USE DEF stream, IInv
<1>1. ArrivalsCountForwards' BY DEF ArrivalsCountForwards, ArrivedNow
<1>2. \A r \in Ranks : OnSM(r)' = OnSM(r) BY DEF OnSM
<1>3. ResidentCounts' BY <1>2 DEF ResidentCounts
<1>4. WarpState' BY DEF WarpState, Working
<1> QED BY <1>1, <1>3, <1>4

LEMMA ControlFrame ==
    ASSUME IInv, UNCHANGED <<launched, ended, compFwd, stream>>,
           \A r \in Ranks, b \in Blocks : blk'[r][b] = "done" <=> blk[r][b] = "done"
    PROVE  ControlState'
  BY DEF IInv, ControlState, ResetDone, stream

LEMMA GemmStartIInv == ASSUME IInv, NEW r \in Ranks, GemmStart(r) PROVE IInv'
<1> USE DEF GemmStart, Node!NLaunch, IInv, TypeOK, consume, stream, network
<1>1. launched[r] + 1 \in Forwards
  BY Consts DEF HostTypes, Forwards
<1>2. HostTypes' BY <1>1 DEF HostTypes
<1>3. CtaTypes' BY DEF CtaTypes
<1>4. DataTypes' BY Consts DEF DataTypes, Forwards
<1>5. ControlState'
  <2>1. \A q \in Ranks : launched'[q] = IF q = r THEN launched[q] + 1 ELSE launched[q]
    BY DEF HostTypes
  <2> QED BY <2>1, HostFacts DEF ControlState, ResetDone, GemmMayStart
<1> QED BY <1>2, <1>3, <1>4, <1>5, CtasFrame

LEMMA GemmTileIInv ==
    ASSUME IInv, NEW r \in Ranks, NEW y \in Segments, GemmTile(r, y) PROVE IInv'
<1> USE DEF GemmTile, Node!NPublish, IInv, TypeOK, consume, stream, network
<1>1. HostTypes' BY DEF HostTypes
<1>2. CtaTypes' BY DEF CtaTypes
<1>3. DataTypes' BY DEF DataTypes, HostTypes
<1>4. ControlState' BY ControlFrame
<1> QED BY <1>1, <1>2, <1>3, <1>4, CtasFrame

LEMMA GemmEndIInv == ASSUME IInv, NEW r \in Ranks, GemmEnd(r) PROVE IInv'
<1> USE DEF GemmEnd, Node!NEnd, IInv, TypeOK, consume, stream, network
<1>1. HostTypes' BY DEF HostTypes
<1>2. CtaTypes' BY DEF CtaTypes
<1>3. DataTypes' BY DEF DataTypes
<1>4. ControlState'
  <2>1. \A q \in Ranks : ended'[q] = IF q = r THEN launched[q] ELSE ended[q]
    BY DEF HostTypes
  <2> QED BY <2>1, HostFacts DEF ControlState, ResetDone
<1> QED BY <1>1, <1>2, <1>3, <1>4, CtasFrame

LEMMA ConsumeIInv == ASSUME IInv, NEW r \in Ranks, Consume(r) PROVE IInv'
<1> USE DEF Consume, OutputReady, GinDone, IInv, TypeOK, gemm, stream, network
<1>1. compFwd[r] + 1 \in Forwards BY Consts DEF HostTypes, Forwards
<1>2. HostTypes'
  <2>1. wrong' \in [Ranks -> BOOLEAN] BY Zenon DEF HostTypes
  <2> QED BY <1>1, <2>1 DEF HostTypes
<1>3. CtaTypes' BY DEF CtaTypes
<1>4. DataTypes' BY DEF DataTypes
<1>5. ControlState'
  <2>1. \A q \in Ranks : compFwd'[q] = IF q = r THEN compFwd[q] + 1 ELSE compFwd[q]
    BY DEF HostTypes
  <2> QED BY <2>1, HostFacts DEF ControlState, ResetDone
<1> QED BY <1>2, <1>3, <1>4, <1>5, CtasFrame

LEMMA CommLaunchIInv == ASSUME IInv, NEW r \in Ranks, CommLaunch(r) PROVE IInv'
<1> USE DEF CommLaunch, IInv, TypeOK, gemm, consume, network
<1>1. HostTypes' BY DEF HostTypes
<1>2. CtaTypes' BY Consts DEF CtaTypes, CountReset
<1>3. DataTypes' BY DEF DataTypes
<1>4. \A q \in Ranks, c \in Blocks : blk'[q][c] = IF q = r THEN "launch" ELSE blk[q][c]
  BY DEF CtaTypes
<1>5. \A q \in Ranks : commPc'[q] = IF q = r THEN "kernel" ELSE commPc[q]
  BY DEF HostTypes
<1>6. ControlState'
  <2>1. commFwd[r] = compFwd[r] BY HostFacts DEF ControlState, CommMayReset, ReuseReady
  <2> QED BY <2>1, <1>4, <1>5, HostFacts DEF ControlState, ResetDone
<1>7. ArrivalsCountForwards'
  BY <1>4 DEF ArrivalsCountForwards, ArrivedNow, ControlState
<1>8. ResidentCounts'
  <2> SUFFICES ASSUME NEW q \in Ranks, commPc'[q] = "kernel"
               PROVE  resident'[q] = Cardinality(OnSM(q)')
    BY DEF ResidentCounts
  <2>1. CASE q = r
    <3>1. OnSM(q)' = {} BY <1>4, <2>1 DEF OnSM
    <3>2. resident'[q] = 0 BY <2>1 DEF CtaTypes, CountReset
    <3> QED BY <3>1, <3>2, FS_EmptySet
  <2>2. CASE q # r
    <3>1. OnSM(q)' = OnSM(q) BY <1>4, <2>2 DEF OnSM
    <3>2. resident'[q] = resident[q] /\ commPc[q] = "kernel"
      BY <1>5, <2>2 DEF CtaTypes, CountReset
    <3> QED BY <3>1, <3>2 DEF ResidentCounts
  <2> QED BY <2>1, <2>2
<1>9. WarpState' BY <1>4 DEF WarpState, Working
<1> QED BY <1>1, <1>2, <1>3, <1>6, <1>7, <1>8, <1>9

LEMMA CommDoneIInv == ASSUME IInv, NEW r \in Ranks, CommDone(r) PROVE IInv'
<1> USE DEF CommDone, IInv, TypeOK, gemm, consume, network
<1>1. commFwd[r] + 1 \in Forwards
  BY Consts DEF HostTypes, Forwards, ControlState
<1>2. HostTypes' BY <1>1 DEF HostTypes
<1>3. CtaTypes' BY DEF CtaTypes
<1>4. DataTypes' BY DEF DataTypes
<1>5. \A q \in Ranks, c \in Blocks : blk'[q][c] = IF q = r THEN "done" ELSE blk[q][c]
  BY DEF CtaTypes
<1>6. \A q \in Ranks : /\ commPc'[q] = IF q = r THEN "wait" ELSE commPc[q]
                       /\ commFwd'[q] = IF q = r THEN commFwd[q] + 1 ELSE commFwd[q]
  BY DEF HostTypes
<1>7. ControlState' BY <1>5, <1>6, HostFacts DEF ControlState, ResetDone
<1>8. ArrivalsCountForwards'
  <2> SUFFICES ASSUME NEW q \in Ranks, NEW c \in Blocks
               PROVE  arrived[q][c] = 2 * commFwd'[q] + ArrivedNow(q, c)'
    BY DEF ArrivalsCountForwards
  <2>1. arrived[q][c] = 2 * commFwd[q] + ArrivedNow(q, c) /\ commFwd[q] \in Nat
    BY HostFacts DEF ArrivalsCountForwards
  <2>2. CASE q = r BY <2>1, <2>2, <1>5, <1>6 DEF ArrivedNow
  <2>3. CASE q # r BY <2>1, <2>3, <1>5, <1>6 DEF ArrivedNow
  <2> QED BY <2>2, <2>3
<1>9. ResidentCounts'
  <2> SUFFICES ASSUME NEW q \in Ranks, commPc'[q] = "kernel"
               PROVE  resident[q] = Cardinality(OnSM(q)')
    BY DEF ResidentCounts
  <2>1. q # r /\ commPc[q] = "kernel" BY <1>6
  <2>2. OnSM(q)' = OnSM(q) BY <1>5, <2>1 DEF OnSM
  <2> QED BY <2>1, <2>2 DEF ResidentCounts
<1>10. WarpState' BY <1>5 DEF WarpState, Working
<1> QED BY <1>2, <1>3, <1>4, <1>7, <1>8, <1>9, <1>10

LEMMA BlockStartIInv ==
    ASSUME IInv, NEW r \in Ranks, NEW b \in Blocks, BlockStart(r, b) PROVE IInv'
<1> USE DEF BlockStart, IInv, TypeOK, gemm, consume, stream, network
<1> DEFINE at == IF b = 0 THEN "handshake" ELSE "start_sync"
<1>0. commPc[r] = "kernel" /\ commFwd[r] < MaxForwards /\ commFwd[r] \in Nat
  BY HostFacts DEF ControlState
<1>1. HostTypes' BY DEF HostTypes
<1>2. \A q \in Ranks, c \in Blocks :
        /\ blk'[q][c] = IF q = r /\ c = b THEN at ELSE blk[q][c]
        /\ arrived'[q][c] = IF q = r /\ c = b /\ b # 0 THEN arrived[q][c] + 1
                                                       ELSE arrived[q][c]
        /\ sent'[q][c] = IF q = r /\ c = b THEN 0 ELSE sent[q][c]
        /\ reduced'[q][c] = IF q = r /\ c = b THEN [pos |-> 0, got |-> FALSE]
                                              ELSE reduced[q][c]
  BY DEF CtaTypes
<1>3. \A q \in Ranks : resident'[q] = IF q = r THEN resident[q] + 1 ELSE resident[q]
  BY DEF CtaTypes
<1>4. OnSM(r)' = OnSM(r) \cup {b} /\ b \notin OnSM(r)
  BY <1>2 DEF OnSM
<1>5. \A q \in Ranks : q # r => OnSM(q)' = OnSM(q) BY <1>2 DEF OnSM
<1>6. ResidentCounts'
  <2> SUFFICES ASSUME NEW q \in Ranks, commPc[q] = "kernel"
               PROVE  resident'[q] = Cardinality(OnSM(q)')
    BY DEF ResidentCounts
  <2>1. resident[q] = Cardinality(OnSM(q)) BY DEF ResidentCounts
  <2>2. CASE q = r
    <3>1. Cardinality(OnSM(q)') = Cardinality(OnSM(q)) + 1
      BY <2>2, <1>4, BlocksFinite, FS_AddElement
    <3> QED BY <3>1, <2>1, <2>2, <1>3
  <2>3. CASE q # r BY <2>3, <2>1, <1>3, <1>5
  <2> QED BY <2>2, <2>3
<1>7. resident' \in [Ranks -> 0..NBlocks]
  <2>1. resident'[r] \in 0..NBlocks
    <3>1. resident'[r] = Cardinality(OnSM(r)') BY <1>6, <1>0 DEF ResidentCounts
    <3>2. OnSM(r)' \subseteq Blocks BY DEF OnSM
    <3>3. Cardinality(OnSM(r)') \in Nat /\ Cardinality(OnSM(r)') <= NBlocks
      BY <3>2, BlocksFinite, FS_Subset, FS_CardinalityType
    <3> QED BY <3>1, <3>3, Consts
  <2> QED BY <2>1, <1>3 DEF CtaTypes
<1>8. arrived' \in [Ranks -> [Blocks -> 0..(2 * MaxForwards)]]
  <2>1. arrived[r][b] = 2 * commFwd[r] BY <1>0 DEF ArrivalsCountForwards, ArrivedNow
  <2>2. arrived[r][b] + 1 \in 0..(2 * MaxForwards) BY <2>1, <1>0, Consts
  <2> QED BY <2>2 DEF CtaTypes
<1>9. CtaTypes' BY <1>7, <1>8 DEF CtaTypes
<1>10. DataTypes' BY DEF DataTypes
<1>11. \A q \in Ranks, c \in Blocks : blk'[q][c] = "done" <=> blk[q][c] = "done"
  BY <1>2
<1>12. ControlState' BY <1>11, ControlFrame
<1>13. ArrivalsCountForwards'
  <2> SUFFICES ASSUME NEW q \in Ranks, NEW c \in Blocks
               PROVE  arrived'[q][c] = 2 * commFwd[q] + ArrivedNow(q, c)'
    BY DEF ArrivalsCountForwards
  <2>1. arrived[q][c] = 2 * commFwd[q] + ArrivedNow(q, c) /\ commFwd[q] \in Nat
    BY HostFacts DEF ArrivalsCountForwards
  <2> QED BY <2>1, <1>2 DEF ArrivedNow
<1>14. WarpState' BY <1>2 DEF WarpState, Working
<1> QED BY <1>1, <1>6, <1>9, <1>10, <1>12, <1>13, <1>14

\* A CTA moves on from a barrier, or to one.
LEMMA CtaMoves ==
    ASSUME IInv, NEW r \in Ranks, NEW b \in Blocks, NEW from, NEW to,
           blk[r][b] = from, blk' = [blk EXCEPT ![r][b] = to],
           \/ from = "start_sync" /\ to = "run" /\ arrived' = arrived
           \/ /\ from = "handshake" /\ to = "start_sync"
              /\ arrived' = [arrived EXCEPT ![r][b] = @ + 1]
           \/ /\ from = "run" /\ to = "end_sync"
              /\ arrived' = [arrived EXCEPT ![r][b] = @ + 1]
              /\ sent[r][b] = NChunks(b) * (NNodes - 1)
              /\ reduced[r][b].pos = NChunks(b),
           producer' \in [Ranks -> {0, 1}],
           UNCHANGED <<gemm, consume, stream, ready, resident, sent, reduced, network,
                       shadow, output>>
    PROVE  IInv'
<1> USE DEF IInv, TypeOK, gemm, consume, stream, network
<1>1. HostTypes' BY DEF HostTypes
<1>2. \A q \in Ranks, c \in Blocks : blk'[q][c] = IF q = r /\ c = b THEN to ELSE blk[q][c]
  BY DEF CtaTypes
<1>3. /\ commPc[r] = "kernel" /\ commFwd[r] < MaxForwards /\ commFwd[r] \in Nat
      /\ \A q \in Ranks, c \in Blocks : blk'[q][c] = "done" <=> blk[q][c] = "done"
  BY <1>2, HostFacts DEF ControlState
<1>4. ArrivalsCountForwards'
  <2> SUFFICES ASSUME NEW q \in Ranks, NEW c \in Blocks
               PROVE  arrived'[q][c] = 2 * commFwd[q] + ArrivedNow(q, c)'
    BY DEF ArrivalsCountForwards
  <2>1. arrived[q][c] = 2 * commFwd[q] + ArrivedNow(q, c) /\ commFwd[q] \in Nat
    BY HostFacts DEF ArrivalsCountForwards
  <2>2. CASE q = r /\ c = b
    <3>1. \/ from = "start_sync" /\ to = "run" /\ arrived'[q][c] = arrived[q][c]
          \/ from = "handshake" /\ to = "start_sync" /\ arrived'[q][c] = arrived[q][c] + 1
          \/ from = "run" /\ to = "end_sync" /\ arrived'[q][c] = arrived[q][c] + 1
      BY <2>2 DEF CtaTypes
    <3> QED BY <2>1, <2>2, <3>1, <1>2 DEF ArrivedNow
  <2>3. CASE ~(q = r /\ c = b)
    <3>1. arrived'[q][c] = arrived[q][c] BY <2>3 DEF CtaTypes
    <3> QED BY <3>1, <2>1, <2>3, <1>2 DEF ArrivedNow
  <2> QED BY <2>2, <2>3
<1>5. arrived' \in [Ranks -> [Blocks -> 0..(2 * MaxForwards)]]
  <2>1. CASE arrived' = arrived BY <2>1 DEF CtaTypes
  <2>2. CASE arrived' = [arrived EXCEPT ![r][b] = @ + 1] /\ arrived[r][b] <= 2 * commFwd[r] + 1
    <3>1. arrived[r][b] + 1 \in 0..(2 * MaxForwards)
      BY <2>2, <1>3, Consts DEF CtaTypes
    <3> QED BY <2>2, <3>1 DEF CtaTypes
  <2>3. from \in {"handshake", "run"} => arrived[r][b] <= 2 * commFwd[r] + 1
    BY <1>3 DEF ArrivalsCountForwards, ArrivedNow
  <2> QED BY <2>1, <2>2, <2>3
<1>6. blk' \in [Ranks -> [Blocks -> {"launch", "handshake", "start_sync", "run",
                                     "end_sync", "done"}]]
  BY DEF CtaTypes
<1>7. CtaTypes' BY <1>5, <1>6 DEF CtaTypes
<1>8. DataTypes' BY DEF DataTypes
<1>9. ControlState' BY <1>3, ControlFrame
<1>10. ResidentCounts'
  <2>1. \A q \in Ranks : OnSM(q)' = OnSM(q) BY <1>2 DEF OnSM
  <2> QED BY <2>1 DEF ResidentCounts
<1>11. WarpState'
  <2> SUFFICES ASSUME NEW q \in Ranks, NEW c \in Blocks
               PROVE  /\ blk'[q][c] \in {"handshake", "start_sync"} =>
                            sent[q][c] = 0 /\ reduced[q][c].pos = 0 /\ ~reduced[q][c].got
                      /\ Working(q, c)' =>
                            /\ sent[q][c] <= NChunks(c) * (NNodes - 1)
                            /\ reduced[q][c].pos <= NChunks(c)
                            /\ reduced[q][c].got => reduced[q][c].pos < NChunks(c)
                      /\ blk'[q][c] = "end_sync" =>
                            /\ sent[q][c] = NChunks(c) * (NNodes - 1)
                            /\ reduced[q][c].pos = NChunks(c)
    BY DEF WarpState
  <2>1. CASE q = r /\ c = b
    <3>1. NChunks(c) \in Nat \ {0} /\ 0 <= NChunks(c) * (NNodes - 1)
      <4>1. NChunks(c) \in Nat \ {0} BY ChunkFacts
      <4>2. NNodes - 1 \in Nat BY Consts
      <4>3. 0 * (NNodes - 1) <= NChunks(c) * (NNodes - 1) BY <4>1, <4>2, MulMono
      <4> QED BY <4>1, <4>2, <4>3
    <3> QED BY <2>1, <3>1, <1>2 DEF WarpState, Working
  <2>2. CASE ~(q = r /\ c = b) BY <2>2, <1>2 DEF WarpState, Working
  <2> QED BY <2>1, <2>2
<1> QED BY <1>1, <1>4, <1>7, <1>8, <1>9, <1>10, <1>11

LEMMA HandshakeIInv == ASSUME IInv, NEW r \in Ranks, Handshake(r) PROVE IInv'
<1>1. 0 \in Blocks BY Consts DEF Blocks
<1>2. producer' \in [Ranks -> {0, 1}] BY DEF Handshake, IInv, TypeOK, CtaTypes
<1> QED BY <1>1, <1>2, CtaMoves DEF Handshake

LEMMA StartPassIInv ==
    ASSUME IInv, NEW r \in Ranks, NEW b \in Blocks, StartPass(r, b) PROVE IInv'
<1>1. producer' \in [Ranks -> {0, 1}] BY DEF StartPass, IInv, TypeOK, CtaTypes
<1> QED BY <1>1, CtaMoves DEF StartPass

LEMMA EndArriveIInv ==
    ASSUME IInv, NEW r \in Ranks, NEW b \in Blocks, EndArrive(r, b) PROVE IInv'
<1>1. producer' \in [Ranks -> {0, 1}] BY DEF EndArrive, IInv, TypeOK, CtaTypes
<1> QED BY <1>1, CtaMoves DEF EndArrive

\* The warps of a CTA: what they leave alone.
LEMMA WarpFrame ==
    ASSUME IInv, UNCHANGED <<gemm, consume, stream, ready, producer, resident, blk, arrived>>
    PROVE  HostTypes' /\ ControlState' /\ ArrivalsCountForwards' /\ ResidentCounts'
<1> USE DEF gemm, consume, stream, IInv
<1>1. HostTypes' BY DEF TypeOK, HostTypes
<1>2. ControlState' BY ControlFrame
<1>3. ArrivalsCountForwards' BY DEF ArrivalsCountForwards, ArrivedNow
<1>4. \A r \in Ranks : OnSM(r)' = OnSM(r) BY DEF OnSM
<1>5. ResidentCounts' BY <1>4 DEF ResidentCounts
<1> QED BY <1>1, <1>2, <1>3, <1>5

\* What SendPut puts on the wire.
SendData(r, b) ==
    [t \in SendChunk(b, sent[r][b]) |-> published[r][<<SendNode(r, sent[r][b]), t>>]]

LEMMA SendPutIInv ==
    ASSUME IInv, NEW r \in Ranks, NEW b \in Blocks, SendPut(r, b) PROVE IInv'
<1> USE DEF IInv, TypeOK
<1> DEFINE d == SendNode(r, sent[r][b])
           chunk == SendChunk(b, sent[r][b])
<1>1. /\ blk[r][b] = "run" /\ sent[r][b] < NChunks(b) * (NNodes - 1)
      /\ wire' = [wire EXCEPT ![r][b][d] = Append(@, SendData(r, b))]
      /\ sent' = [sent EXCEPT ![r][b] = sent[r][b] + 1]
      /\ UNCHANGED <<gemm, consume, stream, ready, producer, resident, blk, arrived,
                     reduced, slot, signal, shadow, output>>
  BY DEF SendPut, SendData
<1>2. HostTypes' /\ ControlState' /\ ArrivalsCountForwards' /\ ResidentCounts'
  BY <1>1, WarpFrame
<1>3. CtaTypes'
  <2>1. sent[r][b] \in Nat BY DEF CtaTypes
  <2> QED BY <2>1, <1>1 DEF CtaTypes
<1>4. DataTypes'
  <2>1. d \in Nodes
    <3>1. sent[r][b] \in Nat BY DEF CtaTypes
    <3> QED BY <3>1, SendFacts DEF OtherNodes
  <2>2. chunk \subseteq Tiles BY DEF SendChunk, ChunkOf
  <2>3. \A t \in chunk : published[r][<<d, t>>] \in Forwards
    BY <2>1, <2>2 DEF DataTypes, Segments
  <2> HIDE DEF d, chunk
  <2>4. SendData(r, b) \in Puts
    <3>1. SendData(r, b) \in [chunk -> Forwards] BY <2>3 DEF SendData, chunk, d
    <3> QED BY <3>1, <2>2 DEF Puts
  <2>5. wire[r][b][d] \in Seq(Puts) BY <2>1 DEF DataTypes
  <2>6. Append(wire[r][b][d], SendData(r, b)) \in Seq(Puts) BY <2>4, <2>5
  <2>7. wire' \in [Ranks -> [Blocks -> [Nodes -> Seq(Puts)]]]
    BY <1>1, <2>6 DEF DataTypes, d
  <2> QED BY <1>1, <2>7 DEF DataTypes, gemm
<1>5. WarpState'
  <2>1. \A q \in Ranks, c \in Blocks :
          sent'[q][c] = IF q = r /\ c = b THEN sent[q][c] + 1 ELSE sent[q][c]
    BY <1>1 DEF CtaTypes
  <2>2. sent[r][b] \in Nat /\ NChunks(b) * (NNodes - 1) \in Int
    BY ChunkFacts, Consts DEF CtaTypes
  <2> QED BY <1>1, <2>1, <2>2 DEF WarpState, Working
<1> QED BY <1>2, <1>3, <1>4, <1>5

LEMMA GinDeliverIInv ==
    ASSUME IInv, NEW r \in Ranks, NEW b \in Blocks, NEW d \in Nodes, GinDeliver(r, b, d)
    PROVE  IInv'
<1> USE DEF IInv, TypeOK
<1> DEFINE dst == RailRank(r, d)
           put == Head(wire[r][b][d])
<1>1. /\ wire[r][b][d] # <<>>
      /\ slot' = [slot EXCEPT ![dst][NodeOf(r)] =
                        [t \in Tiles |-> IF t \in DOMAIN put THEN put[t]
                                         ELSE slot[dst][NodeOf(r)][t]]]
      /\ signal' = [signal EXCEPT ![dst][b][NodeOf(r)] = signal[dst][b][NodeOf(r)] + 1]
      /\ wire' = [wire EXCEPT ![r][b][d] = Tail(wire[r][b][d])]
      /\ UNCHANGED <<gemm, consume, stream, ready, producer, resident, blk, arrived,
                     sent, reduced, shadow, output>>
  BY DEF GinDeliver
<1>2. HostTypes' /\ ControlState' /\ ArrivalsCountForwards' /\ ResidentCounts'
  BY <1>1, WarpFrame
<1>3. WarpState' BY <1>1 DEF WarpState, Working
<1>4. dst \in Ranks /\ NodeOf(r) \in Nodes BY RailFacts, RankFacts
<1>5. wire[r][b][d] \in Seq(Puts) BY DEF DataTypes
<1>6. put \in Puts /\ Tail(wire[r][b][d]) \in Seq(Puts) BY <1>1, <1>5
<1>7. \A t \in DOMAIN put : put[t] \in Forwards BY <1>6 DEF Puts
<1> HIDE DEF dst, put
<1>8. CtaTypes'
  <2>1. signal[dst][b][NodeOf(r)] + 1 \in Nat BY <1>4 DEF CtaTypes
  <2> QED BY <2>1, <1>1 DEF CtaTypes
<1>9. DataTypes'
  <2>1. [t \in Tiles |-> IF t \in DOMAIN put THEN put[t] ELSE slot[dst][NodeOf(r)][t]]
          \in [Tiles -> Forwards]
    BY <1>4, <1>7 DEF DataTypes
  <2>2. slot' \in [Ranks -> [Nodes -> [Tiles -> Forwards]]] BY <1>1, <2>1 DEF DataTypes
  <2>3. wire' \in [Ranks -> [Blocks -> [Nodes -> Seq(Puts)]]] BY <1>1, <1>6 DEF DataTypes
  <2> QED BY <1>1, <2>2, <2>3 DEF DataTypes, gemm
<1> QED BY <1>2, <1>3, <1>8, <1>9

LEMMA WorkerWaitIInv ==
    ASSUME IInv, NEW r \in Ranks, NEW b \in Blocks, WorkerWait(r, b) PROVE IInv'
<1> USE DEF WorkerWait, IInv, TypeOK, network
<1>1. HostTypes' /\ ControlState' /\ ArrivalsCountForwards' /\ ResidentCounts'
  BY WarpFrame
<1>2. \A q \in Ranks, c \in Blocks :
        reduced'[q][c] = IF q = r /\ c = b THEN [pos |-> reduced[q][c].pos, got |-> TRUE]
                                           ELSE reduced[q][c]
  BY DEF CtaTypes
<1>3. CtaTypes'
  <2>1. reduced' \in [Ranks -> [Blocks -> [pos : Nat, got : BOOLEAN]]] BY DEF CtaTypes
  <2>2. shadow' \in [Ranks -> [Blocks -> [Nodes -> Nat]]] BY DEF CtaTypes, Counted
  <2> QED BY <2>1, <2>2 DEF CtaTypes
<1>4. DataTypes' BY DEF DataTypes, gemm
<1>5. WarpState' BY <1>2 DEF WarpState, Working
<1> QED BY <1>1, <1>3, <1>4, <1>5

LEMMA SumFacts == ASSUME IInv, NEW r \in Ranks, NEW t \in Tiles
                  PROVE  SumOf(r, t) \in Forwards
  BY RankFacts, Consts DEF SumOf, IInv, TypeOK, DataTypes, Segments, Forwards

LEMMA WorkerReduceIInv ==
    ASSUME IInv, NEW r \in Ranks, NEW b \in Blocks, WorkerReduce(r, b) PROVE IInv'
<1> USE DEF WorkerReduce, IInv, TypeOK, network
<1>1. HostTypes' /\ ControlState' /\ ArrivalsCountForwards' /\ ResidentCounts'
  BY WarpFrame
<1>2. \A q \in Ranks, c \in Blocks :
        reduced'[q][c] = IF q = r /\ c = b THEN [pos |-> reduced[q][c].pos + 1, got |-> FALSE]
                                           ELSE reduced[q][c]
  BY DEF CtaTypes
<1>3. CtaTypes'
  <2>1. reduced[r][b].pos + 1 \in Nat BY DEF CtaTypes
  <2>2. reduced' \in [Ranks -> [Blocks -> [pos : Nat, got : BOOLEAN]]] BY <2>1 DEF CtaTypes
  <2> QED BY <2>2 DEF CtaTypes
<1>4. DataTypes'
  <2>1. \A t \in Tiles : SumOf(r, t) \in Forwards BY SumFacts
  <2>2. output' \in [Ranks -> [Tiles -> Forwards]] BY <2>1 DEF DataTypes
  <2> QED BY <2>2 DEF DataTypes, gemm
<1>5. WarpState'
  <2>1. reduced[r][b].pos \in Nat /\ reduced[r][b].pos < NChunks(b) /\ NChunks(b) \in Nat
    BY ChunkFacts DEF WarpState, Working, CtaTypes
  <2> QED BY <1>2, <2>1 DEF WarpState, Working
<1> QED BY <1>1, <1>3, <1>4, <1>5

LEMMA NextIInv == IInv /\ [Next]_vars => IInv'
<1> SUFFICES ASSUME IInv, [Next]_vars PROVE IInv' OBVIOUS
<1>1. CASE Next
  <2> PICK r \in Ranks : \/ Compute(r) \/ CommLaunch(r) \/ Handshake(r) \/ CommDone(r)
                         \/ \E b \in Blocks : Block(r, b)
    BY <1>1 DEF Next
  <2>1. CASE Compute(r)
    BY <2>1, GemmStartIInv, GemmTileIInv, GemmEndIInv, ConsumeIInv DEF Compute
  <2>2. CASE CommLaunch(r) \/ Handshake(r) \/ CommDone(r)
    BY <2>2, CommLaunchIInv, HandshakeIInv, CommDoneIInv
  <2>3. ASSUME NEW b \in Blocks, Block(r, b) PROVE IInv'
    BY <2>3, BlockStartIInv, StartPassIInv, SendPutIInv, GinDeliverIInv, WorkerWaitIInv,
       WorkerReduceIInv, EndArriveIInv DEF Block
  <2> QED BY <2>1, <2>2, <2>3
<1>2. CASE UNCHANGED vars
  <2>1. UNCHANGED <<gemm, consume, stream, ready, producer, resident, blk, arrived, sent,
                    reduced, slot, signal, shadow, wire, output>>
    BY <1>2 DEF vars, gemm, consume, stream
  <2>2. HostTypes' /\ ControlState' /\ ArrivalsCountForwards' /\ ResidentCounts'
    BY <2>1, WarpFrame
  <2>3. CtaTypes' /\ DataTypes' /\ WarpState'
    BY <2>1 DEF IInv, TypeOK, CtaTypes, DataTypes, WarpState, Working, gemm
  <2> QED BY <2>2, <2>3 DEF IInv, TypeOK
<1> QED BY <1>1, <1>2

-----------------------------------------------------------------------------
(* OrderInv. *)

LEMMA CtaFacts ==
    ASSUME IInv, NEW r \in Ranks, NEW b \in Blocks
    PROVE  /\ arrived[r][b] = 2 * commFwd[r] + ArrivedNow(r, b) /\ arrived[r][b] \in Nat
           /\ commFwd[r] \in Nat /\ ArrivedNow(r, b) \in 0..2
           /\ ArrivedNow(r, b) > 0 => blk[r][b] \in {"start_sync", "run", "end_sync"}
           /\ ArrivedNow(r, b) = 2 => blk[r][b] = "end_sync"
           /\ blk[r][b] # "done" => ResetDone(r) = commFwd[r] + 1
           /\ commFwd[r] <= ResetDone(r) /\ ResetDone(r) \in Nat
           /\ sent[r][b] \in Nat /\ reduced[r][b] \in [pos : Nat, got : BOOLEAN]
           /\ blk[r][b] \in {"launch", "handshake", "start_sync", "run", "end_sync", "done"}
<1> USE DEF IInv, TypeOK
<1>1. /\ commFwd[r] \in Nat /\ ResetDone(r) \in Nat
      /\ ResetDone(r) = IF commPc[r] = "wait" THEN commFwd[r] ELSE commFwd[r] + 1
  BY HostFacts
<1>2. /\ sent[r][b] \in Nat /\ reduced[r][b] \in [pos : Nat, got : BOOLEAN]
      /\ blk[r][b] \in {"launch", "handshake", "start_sync", "run", "end_sync", "done"}
  BY DEF CtaTypes
<1>3. arrived[r][b] = 2 * commFwd[r] + ArrivedNow(r, b) BY DEF ArrivalsCountForwards
<1>4. /\ ArrivedNow(r, b) \in 0..2
      /\ ArrivedNow(r, b) > 0 => blk[r][b] \in {"start_sync", "run", "end_sync"}
      /\ ArrivedNow(r, b) = 2 => blk[r][b] = "end_sync"
  BY <1>2 DEF ArrivedNow
<1>5. blk[r][b] = "done" <=> commPc[r] = "wait" BY DEF ControlState
<1> QED BY <1>1, <1>2, <1>3, <1>4, <1>5

\* Any two ranks, at CTA b: r is at most one final barrier ahead of q.
LEMMA Meeting ==
    ASSUME IInv, BarriersHold, NEW r \in Ranks, NEW q \in Ranks, NEW b \in Blocks
    PROVE  /\ \/ commFwd[q] >= commFwd[r]
              \/ commFwd[q] = commFwd[r] - 1 /\ blk[q][b] = "end_sync"
           /\ Working(r, b) => \/ commFwd[q] > commFwd[r]
                               \/ /\ commFwd[q] = commFwd[r]
                                  /\ blk[q][b] \in {"start_sync", "run", "end_sync"}
<1>1. /\ arrived[q][b] >= 2 * commFwd[r]
      /\ Working(r, b) => arrived[q][b] >= 2 * commFwd[r] + 1
  BY DEF BarriersHold
<1>2. /\ arrived[q][b] = 2 * commFwd[q] + ArrivedNow(q, b) /\ ArrivedNow(q, b) \in 0..2
      /\ commFwd[q] \in Nat /\ commFwd[r] \in Nat
  BY CtaFacts
<1>3. /\ \/ commFwd[q] >= commFwd[r]
         \/ commFwd[q] = commFwd[r] - 1 /\ ArrivedNow(q, b) = 2
      /\ Working(r, b) => \/ commFwd[q] > commFwd[r]
                          \/ commFwd[q] = commFwd[r] /\ ArrivedNow(q, b) > 0
  BY <1>1, <1>2
<1> QED BY <1>3, CtaFacts

LEMMA InitOrder == Init => OrderInv
<1> SUFFICES ASSUME Init PROVE OrderInv OBVIOUS
<1> USE DEF Init, Node!NInit
<1>1. BarriersHold /\ ReleaseFollowsResets BY DEF BarriersHold, Working, ReleaseFollowsResets
<1>2. GemmsInStep /\ FlagsAreCurrent BY DEF GemmsInStep, FlagsAreCurrent
<1>3. ReducedAfterLaunch BY DEF ReducedAfterLaunch, Working
<1> QED BY <1>1, <1>2, <1>3 DEF OrderInv

\* Arrivals are never taken back.
LEMMA BarriersKept ==
    ASSUME IInv, IInv', BarriersHold, UNCHANGED commFwd,
           \A q \in Ranks, c \in Blocks : arrived'[q][c] >= arrived[q][c],
           \A q \in Ranks, c \in Blocks : Working(q, c)' => Working(q, c)
    PROVE  BarriersHold'
<1> SUFFICES ASSUME NEW p \in Ranks, NEW q \in Ranks, NEW c \in Blocks
             PROVE  /\ arrived'[q][c] >= 2 * commFwd[p]
                    /\ Working(p, c)' => arrived'[q][c] >= 2 * commFwd[p] + 1
  BY DEF BarriersHold
<1>1. /\ arrived[q][c] >= 2 * commFwd[p]
      /\ Working(p, c) => arrived[q][c] >= 2 * commFwd[p] + 1
  BY DEF BarriersHold
<1>2. /\ arrived[q][c] \in Nat /\ commFwd[p] \in Nat /\ arrived'[q][c] \in Nat
  BY CtaFacts DEF IInv, TypeOK, CtaTypes
<1> QED BY <1>1, <1>2

\* What a step keeps that touches no stream, flag or GEMM.
LEMMA OrderFrame ==
    ASSUME IInv, OrderInv, UNCHANGED <<launched, ended, published, stream, ready>>
    PROVE  /\ FlagsAreCurrent' /\ GemmsInStep'
           /\ \A q \in Ranks : ResetDone(q)' = ResetDone(q)
           /\ \A q \in Ranks : launched[q] >= commFwd[q]
           /\ \A q \in Ranks : \A n, chunk : ChunkReady(q, n, chunk)' = ChunkReady(q, n, chunk)
<1> USE DEF stream
<1>1. \A q \in Ranks : ResetDone(q)' = ResetDone(q) BY DEF ResetDone
<1>2. FlagsAreCurrent' /\ GemmsInStep'
  BY <1>1 DEF OrderInv, FlagsAreCurrent, GemmsInStep
<1>3. \A q \in Ranks : \A n, chunk : ChunkReady(q, n, chunk)' = ChunkReady(q, n, chunk)
  BY DEF ChunkReady
<1> QED BY <1>1, <1>2, <1>3 DEF OrderInv, ReducedAfterLaunch

LEMMA GemmStartOrder ==
    ASSUME IInv, IInv', OrderInv, NEW r \in Ranks, GemmStart(r) PROVE OrderInv'
<1> USE DEF GemmStart, Node!NLaunch, consume, stream, network
<1>1. BarriersHold' BY DEF OrderInv, BarriersHold, Working
<1>2. \A q \in Ranks : ResetDone(q)' = ResetDone(q) BY DEF ResetDone
<1>3. ReleaseFollowsResets' BY <1>2 DEF OrderInv, ReleaseFollowsResets
<1>4. /\ \A q \in Ranks : launched'[q] = IF q = r THEN launched[q] + 1 ELSE launched[q]
      /\ \A q \in Ranks : q # r => published'[q] = published[q]
  BY DEF IInv, TypeOK, HostTypes, DataTypes
<1>5. ResetDone(r) > launched[r] /\ producer[r] = 1 /\ launched[r] \in Nat
      /\ ResetDone(r) \in Nat
  BY HostFacts DEF GemmMayStart, IInv, TypeOK
<1>6. GemmsInStep'
  <2> SUFFICES ASSUME NEW p \in Ranks, NEW q \in Ranks PROVE launched'[p] <= ended[q] + 1
    BY DEF GemmsInStep
  <2>1. CASE p = r
    <3>1. ResetDone(q) >= ResetDone(r) BY <1>5 DEF OrderInv, ReleaseFollowsResets
    <3>2. /\ compFwd[q] <= ended[q] /\ commFwd[q] <= compFwd[q] + 1
          /\ commPc[q] = "kernel" => commFwd[q] = compFwd[q]
      BY DEF IInv, ControlState
    <3> QED BY <2>1, <3>1, <3>2, <1>4, <1>5, HostFacts DEF IInv, TypeOK
  <2>2. CASE p # r BY <2>2, <1>4 DEF OrderInv, GemmsInStep
  <2> QED BY <2>1, <2>2
<1>7. ready[r] = {} BY <1>5 DEF OrderInv, FlagsAreCurrent
<1>8. FlagsAreCurrent' BY <1>2, <1>4, <1>7 DEF OrderInv, FlagsAreCurrent
<1>9. ReducedAfterLaunch'
  <2>1. \A b \in Blocks : Working(r, b) => ~(reduced[r][b].pos > 0)
    BY <1>5 DEF OrderInv, ReducedAfterLaunch
  <2>2. \A q \in Ranks : launched'[q] >= commFwd[q]
    BY <1>4, HostFacts DEF OrderInv, ReducedAfterLaunch, IInv, TypeOK
  <2> QED BY <1>2, <1>4, <2>1, <2>2 DEF OrderInv, ReducedAfterLaunch, Working, ChunkReady
<1> QED BY <1>1, <1>3, <1>6, <1>8, <1>9 DEF OrderInv

LEMMA GemmTileOrder ==
    ASSUME IInv, IInv', OrderInv, NEW r \in Ranks, NEW y \in Segments, GemmTile(r, y)
    PROVE  OrderInv'
<1> USE DEF GemmTile, Node!NPublish, consume, stream, network
<1>1. BarriersHold' BY DEF OrderInv, BarriersHold, Working
<1>2. \A q \in Ranks : ResetDone(q)' = ResetDone(q) BY DEF ResetDone
<1>3. ReleaseFollowsResets' /\ GemmsInStep'
  BY <1>2 DEF OrderInv, ReleaseFollowsResets, GemmsInStep
<1>4. /\ \A q \in Ranks : ready'[q] = IF q = r THEN ready[q] \cup {y} ELSE ready[q]
      /\ \A q \in Ranks : q # r => published'[q] = published[q]
      /\ \A z \in Segments :
            published'[r][z] = IF z = y THEN launched[r] ELSE published[r][z]
  <2>1. ready \in [Ranks -> SUBSET Segments] /\ published \in [Ranks -> [Segments -> Forwards]]
    BY DEF IInv, TypeOK, CtaTypes, DataTypes
  <2>2. /\ ready' = [ready EXCEPT ![r] = @ \cup {y}]
        /\ published' = [published EXCEPT ![r][y] = launched[r]]
    OBVIOUS
  <2> QED BY ONLY <2>1, <2>2, r \in Ranks, y \in Segments
<1>5. launched[r] = ResetDone(r)
  <2>1. /\ compFwd[r] <= ended[r] /\ ended[r] < launched[r]
        /\ launched[r] <= compFwd[r] + 1 /\ launched[r] <= ResetDone(r)
        /\ commFwd[r] <= compFwd[r] + 1
        /\ commPc[r] = "kernel" => commFwd[r] = compFwd[r]
    BY DEF IInv, ControlState
  <2> QED BY <2>1, HostFacts DEF IInv, TypeOK
<1>6. FlagsAreCurrent'
  <2> SUFFICES ASSUME NEW q \in Ranks, NEW z \in ready'[q]
               PROVE  launched[q] = ResetDone(q) /\ published'[q][z] = ResetDone(q)
    BY <1>2 DEF FlagsAreCurrent
  <2>1. CASE q = r /\ z = y BY <2>1, <1>4, <1>5
  <2>2. CASE ~(q = r /\ z = y)
    <3>1. z \in ready[q] BY <2>2, <1>4
    <3>2. z \in Segments BY <3>1 DEF IInv, TypeOK, CtaTypes
    <3> QED BY <2>2, <3>1, <3>2, <1>4 DEF OrderInv, FlagsAreCurrent
  <2> QED BY <2>1, <2>2
<1>7. ReducedAfterLaunch'
  BY <1>2, <1>4 DEF OrderInv, ReducedAfterLaunch, Working, ChunkReady
<1> QED BY <1>1, <1>3, <1>6, <1>7 DEF OrderInv

LEMMA GemmEndOrder ==
    ASSUME IInv, IInv', OrderInv, NEW r \in Ranks, GemmEnd(r) PROVE OrderInv'
<1> USE DEF GemmEnd, Node!NEnd, consume, stream, network
<1>1. BarriersHold' BY DEF OrderInv, BarriersHold, Working
<1>2. \A q \in Ranks : ResetDone(q)' = ResetDone(q) BY DEF ResetDone
<1>3. ReleaseFollowsResets' /\ FlagsAreCurrent' /\ ReducedAfterLaunch'
  BY <1>2 DEF OrderInv, ReleaseFollowsResets, FlagsAreCurrent, ReducedAfterLaunch, Working,
              ChunkReady
<1>4. GemmsInStep'
  <2>1. \A q \in Ranks : ended'[q] = IF q = r THEN launched[r] ELSE ended[q]
    BY DEF IInv, TypeOK, HostTypes
  <2>2. \A p \in Ranks : launched[p] <= launched[r] + 1
    <3> TAKE p \in Ranks
    <3>1. launched[p] <= ended[r] + 1 /\ ended[r] <= launched[r]
      BY DEF OrderInv, GemmsInStep, IInv, ControlState
    <3> QED BY <3>1, HostFacts DEF IInv, TypeOK
  <2> QED BY <2>1, <2>2 DEF OrderInv, GemmsInStep
<1> QED BY <1>1, <1>3, <1>4 DEF OrderInv

LEMMA ConsumeOrder ==
    ASSUME IInv, IInv', OrderInv, NEW r \in Ranks, Consume(r) PROVE OrderInv'
<1> USE DEF Consume, gemm, stream, network
<1>1. BarriersHold' BY DEF OrderInv, BarriersHold, Working
<1>2. /\ \A q \in Ranks : ResetDone(q)' = ResetDone(q)
      /\ FlagsAreCurrent' /\ GemmsInStep'
  BY OrderFrame
<1>3. ReleaseFollowsResets' /\ ReducedAfterLaunch'
  BY <1>2 DEF OrderInv, ReleaseFollowsResets, ReducedAfterLaunch, Working, ChunkReady
<1> QED BY <1>1, <1>2, <1>3 DEF OrderInv

LEMMA CommLaunchOrder ==
    ASSUME IInv, IInv', OrderInv, NEW r \in Ranks, CommLaunch(r) PROVE OrderInv'
<1> USE DEF CommLaunch, gemm, consume, network
<1>1. \A q \in Ranks, c \in Blocks : blk'[q][c] = IF q = r THEN "launch" ELSE blk[q][c]
  BY DEF IInv, TypeOK, CtaTypes
<1>2. /\ \A q \in Ranks : commPc'[q] = IF q = r THEN "kernel" ELSE commPc[q]
      /\ \A q \in Ranks : ready'[q] = IF q = r THEN {} ELSE ready[q]
      /\ \A q \in Ranks : producer'[q] = IF q = r THEN 0 ELSE producer[q]
  BY DEF IInv, TypeOK, HostTypes, CtaTypes
<1>3. \A q \in Ranks : /\ ResetDone(q)' = IF q = r THEN ResetDone(q) + 1 ELSE ResetDone(q)
                       /\ ResetDone(q) \in Nat
  BY <1>2, HostFacts DEF ResetDone, IInv, TypeOK
<1>4. BarriersHold'
  <2>1. \A q \in Ranks, c \in Blocks : arrived'[q][c] >= arrived[q][c] BY CtaFacts
  <2>2. \A q \in Ranks, c \in Blocks : Working(q, c)' => Working(q, c) BY <1>1 DEF Working
  <2> QED BY <2>1, <2>2, BarriersKept DEF OrderInv
<1>5. ReleaseFollowsResets'
  BY <1>2, <1>3 DEF OrderInv, ReleaseFollowsResets
<1>6. GemmsInStep' /\ FlagsAreCurrent'
  BY <1>2, <1>3 DEF OrderInv, GemmsInStep, FlagsAreCurrent
<1>7. ReducedAfterLaunch'
  BY <1>1, <1>2, <1>3 DEF OrderInv, ReducedAfterLaunch, Working, ChunkReady
<1> QED BY <1>4, <1>5, <1>6, <1>7 DEF OrderInv

LEMMA CommDoneOrder ==
    ASSUME IInv, IInv', OrderInv, NEW r \in Ranks, CommDone(r) PROVE OrderInv'
<1> USE DEF CommDone, gemm, consume, network
<1>1. \A q \in Ranks, c \in Blocks : blk'[q][c] = IF q = r THEN "done" ELSE blk[q][c]
  BY DEF IInv, TypeOK, CtaTypes
<1>2. \A q \in Ranks : /\ commPc'[q] = IF q = r THEN "wait" ELSE commPc[q]
                       /\ commFwd'[q] = IF q = r THEN commFwd[q] + 1 ELSE commFwd[q]
  BY DEF IInv, TypeOK, HostTypes
<1>3. \A q \in Ranks : ResetDone(q)' = ResetDone(q) BY <1>2 DEF ResetDone
<1>4. BarriersHold'
  <2> SUFFICES ASSUME NEW p \in Ranks, NEW q \in Ranks, NEW b \in Blocks
               PROVE  /\ arrived[q][b] >= 2 * commFwd'[p]
                      /\ Working(p, b)' => arrived[q][b] >= 2 * commFwd'[p] + 1
    BY DEF BarriersHold
  <2>1. CASE p = r
    <3>1. arrived[q][b] >= arrived[r][b] /\ blk[r][b] = "end_sync" BY DEF Synced
    <3>2. arrived[r][b] = 2 * commFwd[r] + 2 BY <3>1, CtaFacts DEF ArrivedNow
    <3>3. commFwd'[r] = commFwd[r] + 1 /\ commFwd[r] \in Nat BY <1>2, CtaFacts
    <3>4. ~Working(r, b)' BY <1>1 DEF Working
    <3> QED BY <2>1, <3>1, <3>2, <3>3, <3>4
  <2>2. CASE p # r BY <2>2, <1>1, <1>2 DEF OrderInv, BarriersHold, Working
  <2> QED BY <2>1, <2>2
<1>5. ReleaseFollowsResets' /\ GemmsInStep' /\ FlagsAreCurrent'
  BY <1>3 DEF OrderInv, ReleaseFollowsResets, GemmsInStep, FlagsAreCurrent
<1>6. launched[r] >= commFwd[r] + 1
  <2>1. 0 \in Blocks BY Consts DEF Blocks
  <2>2. blk[r][0] = "end_sync" BY <2>1
  <2>3. reduced[r][0].pos = NChunks(0) /\ NChunks(0) > 0
    BY <2>1, <2>2, ChunkFacts DEF IInv, WarpState
  <2>4. launched[r] = ResetDone(r)
    BY <2>1, <2>2, <2>3 DEF OrderInv, ReducedAfterLaunch, Working
  <2>5. ResetDone(r) = commFwd[r] + 1 BY <2>1, <2>2, CtaFacts
  <2> QED BY <2>4, <2>5, HostFacts DEF IInv, TypeOK
<1>7. ReducedAfterLaunch'
  BY <1>1, <1>2, <1>3, <1>6 DEF OrderInv, ReducedAfterLaunch, Working, ChunkReady
<1> QED BY <1>4, <1>5, <1>7 DEF OrderInv

OthersKept(r, b) ==
    \A q \in Ranks, c \in Blocks : (q = r /\ c = b) \/ reduced'[q][c] = reduced[q][c]

\* A CTA arrives at a barrier.
LEMMA ArriveOrder ==
    ASSUME IInv, IInv', OrderInv, NEW r \in Ranks, NEW b \in Blocks, NEW at,
           \/ at \in {"handshake", "start_sync"}
           \/ at = "end_sync" /\ blk[r][b] = "run",
           blk' = [blk EXCEPT ![r][b] = at],
           \/ arrived' = arrived
           \/ arrived' = [arrived EXCEPT ![r][b] = @ + 1],
           OthersKept(r, b), at \in {"handshake", "start_sync"} \/ UNCHANGED reduced,
           UNCHANGED <<gemm, stream, ready, producer>>
    PROVE  OrderInv'
<1> USE DEF gemm
<1>1. \A q \in Ranks, c \in Blocks : arrived'[q][c] >= arrived[q][c]
  <2> SUFFICES ASSUME NEW q \in Ranks, NEW c \in Blocks PROVE arrived'[q][c] >= arrived[q][c]
    OBVIOUS
  <2>1. CASE arrived' = arrived BY <2>1, CtaFacts
  <2>2. CASE arrived' = [arrived EXCEPT ![r][b] = @ + 1]
    <3>1. arrived'[q][c] = IF q = r /\ c = b THEN arrived[q][c] + 1 ELSE arrived[q][c]
      BY <2>2 DEF IInv, TypeOK, CtaTypes
    <3> QED BY <3>1, CtaFacts
  <2> QED BY <2>1, <2>2
<1>2. \A q \in Ranks, c \in Blocks : blk'[q][c] = IF q = r /\ c = b THEN at ELSE blk[q][c]
  BY DEF IInv, TypeOK, CtaTypes
<1>3. \A q \in Ranks, c \in Blocks :
        Working(q, c)' => Working(q, c) /\ reduced'[q][c] = reduced[q][c]
  BY <1>2 DEF Working, OthersKept
<1>4. BarriersHold' BY <1>1, <1>3, BarriersKept DEF OrderInv, stream
<1>5. /\ FlagsAreCurrent' /\ GemmsInStep'
      /\ \A q \in Ranks : ResetDone(q)' = ResetDone(q)
  BY OrderFrame
<1>6. ReleaseFollowsResets' BY <1>5 DEF OrderInv, ReleaseFollowsResets
<1>7. ReducedAfterLaunch'
  BY <1>3, <1>5 DEF OrderInv, ReducedAfterLaunch, ChunkReady, stream
<1> QED BY <1>4, <1>5, <1>6, <1>7 DEF OrderInv

LEMMA BlockStartOrder ==
    ASSUME IInv, IInv', OrderInv, NEW r \in Ranks, NEW b \in Blocks, BlockStart(r, b)
    PROVE  OrderInv'
<1>1. UNCHANGED <<gemm, stream, ready, producer>> BY DEF BlockStart
<1>2. OthersKept(r, b) BY DEF BlockStart, OthersKept, IInv, TypeOK, CtaTypes
<1>3. CASE b = 0
  <2>1. blk' = [blk EXCEPT ![r][b] = "handshake"] /\ arrived' = arrived
    BY <1>3 DEF BlockStart
  <2> QED BY <1>1, <1>2, <2>1, ArriveOrder
<1>4. CASE b # 0
  <2>1. /\ blk' = [blk EXCEPT ![r][b] = "start_sync"]
        /\ arrived' = [arrived EXCEPT ![r][b] = @ + 1]
    BY <1>4 DEF BlockStart
  <2> QED BY <1>1, <1>2, <2>1, ArriveOrder
<1> QED BY <1>3, <1>4

LEMMA HandshakeOrder ==
    ASSUME IInv, IInv', OrderInv, NEW r \in Ranks, Handshake(r) PROVE OrderInv'
<1>1. 0 \in Blocks BY Consts DEF Blocks
<1>2. OthersKept(r, 0) BY DEF Handshake, OthersKept
<1> QED BY <1>1, <1>2, ArriveOrder DEF Handshake

LEMMA EndArriveOrder ==
    ASSUME IInv, IInv', OrderInv, NEW r \in Ranks, NEW b \in Blocks, EndArrive(r, b)
    PROVE  OrderInv'
<1>1. OthersKept(r, b) BY DEF EndArrive, OthersKept
<1> QED BY <1>1, ArriveOrder DEF EndArrive

LEMMA StartPassOrder ==
    ASSUME IInv, IInv', OrderInv, NEW r \in Ranks, NEW b \in Blocks, StartPass(r, b)
    PROVE  OrderInv'
<1> USE DEF StartPass, gemm, stream, network
<1>1. \A q \in Ranks, c \in Blocks :
        blk'[q][c] = IF q = r /\ c = b THEN "run" ELSE blk[q][c]
  BY DEF IInv, TypeOK, CtaTypes
<1>2. \A q \in Ranks : arrived[q][b] >= 2 * commFwd[r] + 1
  <2>1. arrived[r][b] = 2 * commFwd[r] + 1 BY CtaFacts DEF ArrivedNow
  <2> QED BY <2>1 DEF StartMayPass, Synced
<1>3. BarriersHold'
  <2> SUFFICES ASSUME NEW p \in Ranks, NEW q \in Ranks, NEW c \in Blocks
               PROVE  /\ arrived[q][c] >= 2 * commFwd[p]
                      /\ Working(p, c)' => arrived[q][c] >= 2 * commFwd[p] + 1
    BY DEF BarriersHold
  <2>1. CASE p = r /\ c = b BY <2>1, <1>2 DEF OrderInv, BarriersHold
  <2>2. CASE ~(p = r /\ c = b) BY <2>2, <1>1 DEF OrderInv, BarriersHold, Working
  <2> QED BY <2>1, <2>2
<1>4. /\ FlagsAreCurrent' /\ GemmsInStep'
      /\ \A q \in Ranks : ResetDone(q)' = ResetDone(q)
  BY OrderFrame
<1>5. \A q \in Ranks : ResetDone(q) >= ResetDone(r)
  <2> TAKE q \in Ranks
  <2>1. ResetDone(r) = commFwd[r] + 1 /\ commFwd[r] \in Nat BY CtaFacts
  <2>2. /\ arrived[q][b] = 2 * commFwd[q] + ArrivedNow(q, b) /\ ArrivedNow(q, b) \in 0..2
        /\ ArrivedNow(q, b) > 0 => blk[q][b] # "done"
        /\ blk[q][b] # "done" => ResetDone(q) = commFwd[q] + 1
        /\ commFwd[q] \in Nat /\ ResetDone(q) \in Nat /\ commFwd[q] <= ResetDone(q)
    BY CtaFacts
  <2> QED BY <1>2, <2>1, <2>2
<1>6. ReleaseFollowsResets'
  <2>1. \A p \in Ranks : producer'[p] = 1 => p = r \/ producer[p] = 1
    BY DEF IInv, TypeOK, CtaTypes
  <2> QED BY <2>1, <1>4, <1>5 DEF OrderInv, ReleaseFollowsResets
<1>7. ReducedAfterLaunch'
  <2>1. reduced[r][b].pos = 0 /\ ~reduced[r][b].got BY DEF IInv, WarpState
  <2> QED BY <2>1, <1>1, <1>4 DEF OrderInv, ReducedAfterLaunch, ChunkReady, Working
<1> QED BY <1>3, <1>4, <1>6, <1>7 DEF OrderInv

\* A chunk that is ready is of a GEMM that is launched.
LEMMA ReadyLaunched ==
    ASSUME OrderInv, NEW r \in Ranks, NEW node, NEW b \in Blocks,
           NEW i \in 0..(NChunks(b) - 1), ChunkReady(r, node, ChunkOf(ChunkAt(b, i)))
    PROVE  launched[r] = ResetDone(r)
<1>1. PICK t \in ChunkOf(ChunkAt(b, i)) : TRUE BY ChunkFacts
<1>2. <<node, t>> \in ready[r] BY <1>1 DEF ChunkReady
<1> QED BY <1>2 DEF OrderInv, FlagsAreCurrent

LEMMA WarpOrder ==
    ASSUME IInv, IInv', OrderInv, NEW r \in Ranks, NEW b \in Blocks,
           SendPut(r, b) \/ (\E d \in Nodes : GinDeliver(r, b, d))
             \/ WorkerWait(r, b) \/ WorkerReduce(r, b)
    PROVE  OrderInv'
<1>1. UNCHANGED <<gemm, stream, ready, producer, blk, arrived>>
  BY DEF SendPut, GinDeliver, WorkerWait, WorkerReduce
<1>2. BarriersHold' BY <1>1 DEF OrderInv, BarriersHold, Working, stream
<1>3. /\ FlagsAreCurrent' /\ GemmsInStep'
      /\ \A q \in Ranks : ResetDone(q)' = ResetDone(q)
  BY <1>1, OrderFrame DEF gemm
<1>4. ReleaseFollowsResets' BY <1>1, <1>3 DEF OrderInv, ReleaseFollowsResets
<1>5. ReducedAfterLaunch'
  <2>1. CASE UNCHANGED reduced
    BY <2>1, <1>1, <1>3 DEF OrderInv, ReducedAfterLaunch, ChunkReady, Working, gemm, stream
  <2>2. CASE WorkerWait(r, b)
    <3>1. \A q \in Ranks, c \in Blocks :
            reduced'[q][c] = IF q = r /\ c = b THEN [pos |-> reduced[q][c].pos, got |-> TRUE]
                                               ELSE reduced[q][c]
      BY <2>2 DEF WorkerWait, IInv, TypeOK, CtaTypes
    <3>2. ChunkReady(r, NodeOf(r), ChunkOf(ChunkAt(b, reduced[r][b].pos)))
      BY <2>2 DEF WorkerWait
    <3>3. \A q \in Ranks, c \in Blocks :
            /\ reduced'[q][c].pos = reduced[q][c].pos
            /\ reduced'[q][c].got => reduced[q][c].got \/ (q = r /\ c = b)
      <4> TAKE q \in Ranks, c \in Blocks
      <4>1. CASE q = r /\ c = b
        <5>1. reduced'[q][c] = [pos |-> reduced[q][c].pos, got |-> TRUE] BY <3>1, <4>1
        <5> QED BY ONLY <5>1, <4>1
      <4>2. CASE ~(q = r /\ c = b)
        <5>1. reduced'[q][c] = reduced[q][c] BY <3>1, <4>2
        <5> QED BY ONLY <5>1
      <4> QED BY <4>1, <4>2
    <3> QED BY <3>2, <3>3, <1>1, <1>3
            DEF OrderInv, ReducedAfterLaunch, ChunkReady, Working, gemm, stream
  <2>3. CASE WorkerReduce(r, b)
    <3>1. \A q \in Ranks, c \in Blocks :
            reduced'[q][c] = IF q = r /\ c = b
                             THEN [pos |-> reduced[q][c].pos + 1, got |-> FALSE]
                             ELSE reduced[q][c]
      BY <2>3 DEF WorkerReduce, IInv, TypeOK, CtaTypes
    <3>2. Working(r, b) /\ reduced[r][b].got BY <2>3 DEF WorkerReduce, Working
    <3>3. reduced[r][b].pos \in 0..(NChunks(b) - 1)
      BY <3>2, CtaFacts, ChunkFacts DEF IInv, WarpState
    <3>4. launched[r] = ResetDone(r)
      BY <3>2, <3>3, ReadyLaunched DEF OrderInv, ReducedAfterLaunch
    <3>5. \A q \in Ranks, c \in Blocks :
            \/ reduced'[q][c] = reduced[q][c]
            \/ (q = r /\ ~reduced'[q][c].got)
      <4> TAKE q \in Ranks, c \in Blocks
      <4>1. CASE q = r /\ c = b
        <5>1. reduced'[q][c] = [pos |-> reduced[q][c].pos + 1, got |-> FALSE]
          BY <3>1, <4>1
        <5> QED BY ONLY <5>1, <4>1
      <4>2. CASE ~(q = r /\ c = b) BY <3>1, <4>2
      <4> QED BY <4>1, <4>2
    <3> QED BY <3>4, <3>5, <1>1, <1>3
            DEF OrderInv, ReducedAfterLaunch, ChunkReady, Working, gemm, stream
  <2>4. \/ UNCHANGED reduced \/ WorkerWait(r, b) \/ WorkerReduce(r, b)
    BY DEF SendPut, GinDeliver
  <2> QED BY <2>1, <2>2, <2>3, <2>4
<1> QED BY <1>2, <1>3, <1>4, <1>5 DEF OrderInv

LEMMA NextOrder == IInv /\ IInv' /\ OrderInv /\ [Next]_vars => OrderInv'
<1> SUFFICES ASSUME IInv, IInv', OrderInv, [Next]_vars PROVE OrderInv' OBVIOUS
<1>1. CASE Next
  <2> PICK r \in Ranks : \/ Compute(r) \/ CommLaunch(r) \/ Handshake(r) \/ CommDone(r)
                         \/ \E b \in Blocks : Block(r, b)
    BY <1>1 DEF Next
  <2>1. CASE Compute(r)
    BY <2>1, GemmStartOrder, GemmTileOrder, GemmEndOrder, ConsumeOrder DEF Compute
  <2>2. CASE CommLaunch(r) \/ Handshake(r) \/ CommDone(r)
    BY <2>2, CommLaunchOrder, HandshakeOrder, CommDoneOrder
  <2>3. ASSUME NEW b \in Blocks, Block(r, b) PROVE OrderInv'
    <3>1. CASE BlockStart(r, b) BY <3>1, BlockStartOrder
    <3>2. CASE StartPass(r, b) BY <3>2, StartPassOrder
    <3>3. CASE EndArrive(r, b) BY <3>3, EndArriveOrder
    <3>4. CASE SendPut(r, b) \/ (\E d \in Nodes : GinDeliver(r, b, d))
                 \/ WorkerWait(r, b) \/ WorkerReduce(r, b)
      BY <3>4, WarpOrder
    <3> QED BY <2>3, <3>1, <3>2, <3>3, <3>4 DEF Block
  <2> QED BY <2>1, <2>2, <2>3
<1>2. CASE UNCHANGED vars
  <2>1. UNCHANGED <<gemm, stream, ready, producer, blk, arrived, reduced>>
    BY <1>2 DEF vars, gemm, stream
  <2>2. BarriersHold' BY <2>1 DEF OrderInv, BarriersHold, Working, stream
  <2>3. /\ FlagsAreCurrent' /\ GemmsInStep'
        /\ \A q \in Ranks : ResetDone(q)' = ResetDone(q)
    BY <2>1, OrderFrame DEF gemm
  <2> QED BY <2>1, <2>2, <2>3 DEF OrderInv, ReleaseFollowsResets, ReducedAfterLaunch,
                                  ChunkReady, Working, gemm, stream
<1> QED BY <1>1, <1>2

LEMMA OrderAlways == Safe => [](IInv /\ OrderInv)
<1>1. Init => IInv /\ OrderInv BY InitIInv, InitOrder
<1>2. IInv /\ OrderInv /\ [Next]_vars => (IInv /\ OrderInv)' BY NextIInv, NextOrder
<1> QED BY <1>1, <1>2, PTL DEF Safe

-----------------------------------------------------------------------------
(* Types, GEMMs in step, and the refinement of the abstract barrier. *)

\* No count of the streams, CTAs, flags and buffers leaves its range: resident_count
\* never exceeds the CTAs, a rank never runs ahead of the forwards it was asked for.
THEOREM TypeCorrect == Safe => []TypeOK
<1>1. IInv /\ OrderInv => TypeOK BY DEF IInv
<1> QED BY <1>1, OrderAlways, PTL

\* The handshake that releases the GEMM keeps the GEMMs of a node in step: none is
\* launched before the GEMMs of the last forward have ended on all ranks of the node.
THEOREM GemmsInOrder == Safe => []GemmsDoNotOverlap
<1>1. IInv /\ OrderInv => GemmsDoNotOverlap
  BY DEF OrderInv, GemmsInStep, GemmsDoNotOverlap, LsaPeers
<1> QED BY <1>1, OrderAlways, PTL

LEMMA StepRefines == IInv /\ OrderInv /\ [Next]_vars => [Abstract!Next]_(Abstract!vars)
<1> SUFFICES ASSUME IInv, OrderInv, [Next]_vars PROVE [Abstract!Next]_(Abstract!vars)
  OBVIOUS
<1>1. ASSUME NEW r \in Ranks, GemmStart(r) PROVE Abstract!Next
  BY <1>1 DEF GemmStart, Node!NLaunch, consume, Abstract!Next, Abstract!Enter
<1>2. ASSUME NEW r \in Ranks, Consume(r) PROVE Abstract!Next
  <2>1. \A q \in Ranks : launched[q] >= commFwd[r]
    <3> TAKE q \in Ranks
    <3>1. 0 \in Blocks BY Consts DEF Blocks
    <3>2. \/ commFwd[q] >= commFwd[r]
          \/ commFwd[q] = commFwd[r] - 1 /\ blk[q][0] = "end_sync"
      BY <3>1, Meeting DEF OrderInv
    <3>3. launched[q] >= commFwd[q] BY DEF OrderInv, ReducedAfterLaunch
    <3>4. blk[q][0] = "end_sync" => launched[q] = commFwd[q] + 1
      <4> SUFFICES ASSUME blk[q][0] = "end_sync" PROVE launched[q] = commFwd[q] + 1
        OBVIOUS
      <4>1. reduced[q][0].pos = NChunks(0) /\ NChunks(0) > 0
        BY <3>1, ChunkFacts DEF IInv, WarpState
      <4>2. launched[q] = ResetDone(q)
        BY <3>1, <4>1 DEF OrderInv, ReducedAfterLaunch, Working
      <4> QED BY <3>1, <4>2, CtaFacts
    <3> QED BY <3>2, <3>3, <3>4, HostFacts DEF IInv, TypeOK
  <2>2. commFwd[r] > compFwd[r] /\ ended[r] > compFwd[r] /\ ended[r] <= launched[r]
    BY <1>2 DEF Consume, OutputReady, GinDone, IInv, ControlState
  <2>3. \A q \in Ranks : compFwd[r] < launched[q]
    BY <2>1, <2>2, HostFacts DEF IInv, TypeOK
  <2> QED BY <1>2, <2>3 DEF Consume, gemm, Abstract!Next, Abstract!Leave
<1>3. CASE UNCHANGED <<launched, compFwd>> BY <1>3 DEF Abstract!vars
<1>4. ASSUME NEW r \in Ranks,
             \/ (\E y \in Segments : GemmTile(r, y)) \/ GemmEnd(r)
             \/ CommLaunch(r) \/ Handshake(r) \/ CommDone(r)
             \/ \E b \in Blocks : Block(r, b)
      PROVE  UNCHANGED <<launched, compFwd>>
  BY <1>4 DEF GemmTile, GemmEnd, CommLaunch, Handshake, CommDone, Block, BlockStart,
              StartPass, SendPut, GinDeliver, WorkerWait, WorkerReduce, EndArrive,
              Node!NPublish, Node!NEnd, gemm, consume
<1>5. CASE UNCHANGED vars BY <1>5, <1>3 DEF vars
<1>6. CASE Next
  <2> PICK r \in Ranks : \/ Compute(r) \/ CommLaunch(r) \/ Handshake(r) \/ CommDone(r)
                         \/ \E b \in Blocks : Block(r, b)
    BY <1>6 DEF Next
  <2> QED BY <1>1, <1>2, <1>3, <1>4 DEF Compute
<1> QED BY <1>5, <1>6

\* A forward orders the ranks as a barrier does: no rank has its output before all ranks
\* have launched the GEMM of the same forward.
THEOREM Refinement == Safe => ForwardsAreBarrier
<1>1. Init => Abstract!Init BY DEF Init, Node!NInit, Abstract!Init
<1> QED BY <1>1, StepRefines, OrderAlways, PTL DEF Safe, ForwardsAreBarrier, Abstract!Safe

-----------------------------------------------------------------------------
(* CountInv. *)

\* The chunks of k forwards.
LEMMA Times == ASSUME NEW b \in Blocks, NEW k \in Nat
               PROVE  /\ k * NChunks(b) \in Nat /\ NChunks(b) \in Nat \ {0}
                      /\ (k + 1) * NChunks(b) = k * NChunks(b) + NChunks(b)
                      /\ \A m \in Nat : k <= m => k * NChunks(b) <= m * NChunks(b)
<1>1. NChunks(b) \in Nat \ {0} BY ChunkFacts
<1> DEFINE n == NChunks(b)
<1>2. n \in Nat BY <1>1
<1> HIDE DEF n
<1>3. k * n \in Nat /\ (k + 1) * n = k * n + n BY <1>2
<1>4. \A m \in Nat : k <= m => k * n <= m * n BY <1>2, MulMono
<1> QED BY <1>1, <1>3, <1>4 DEF n

LEMMA TimesMono ==
    ASSUME NEW b \in Blocks, NEW k \in Nat, NEW m \in Nat
    PROVE  /\ k <= m => k * NChunks(b) <= m * NChunks(b)
           /\ k + 1 <= m => k * NChunks(b) + NChunks(b) <= m * NChunks(b)
<1> DEFINE n == NChunks(b)
<1>1. n \in Nat BY ChunkFacts
<1> HIDE DEF n
<1>2. k <= m => k * n <= m * n BY <1>1, MulMono
<1>3. k + 1 <= m => (k + 1) * n <= m * n BY <1>1, MulMono
<1>4. (k + 1) * n = k * n + n BY <1>1
<1> QED BY <1>2, <1>3, <1>4 DEF n

LEMMA OtherFacts ==
    ASSUME NEW r \in Ranks, NEW d \in OtherNodes(r)
    PROVE  /\ d \in Nodes /\ d # NodeOf(r) /\ NodeOf(r) \in Nodes
           /\ RailRank(r, d) \in Ranks /\ NodeOf(RailRank(r, d)) = d
           /\ RailRank(RailRank(r, d), NodeOf(r)) = r
           /\ NodeOf(r) \in OtherNodes(RailRank(r, d))
<1>1. d \in Nodes /\ d # NodeOf(r) BY DEF OtherNodes
<1> QED BY <1>1, RailFacts, RankFacts DEF OtherNodes

LEMMA TakenBounds ==
    ASSUME IInv, NEW r \in Ranks, NEW b \in Blocks
    PROVE  /\ Taken(r, b) \in Nat
           /\ Taken(r, b) >= commFwd[r] * NChunks(b)
           /\ ~Working(r, b) => Taken(r, b) = commFwd[r] * NChunks(b)
           /\ blk[r][b] = "end_sync" => Taken(r, b) = commFwd[r] * NChunks(b) + NChunks(b)
<1> DEFINE K == commFwd[r] * NChunks(b)
<1>1. K \in Nat /\ NChunks(b) \in Nat \ {0} BY CtaFacts, Times
<1>2. Taken(r, b) = K + (IF b \in OnSM(r)
                         THEN reduced[r][b].pos + (IF reduced[r][b].got THEN 1 ELSE 0)
                         ELSE 0)
  BY DEF Taken
<1> HIDE DEF K
<1>3. /\ reduced[r][b].pos \in Nat
      /\ reduced[r][b].got \in BOOLEAN
      /\ blk[r][b] \in {"launch", "handshake", "start_sync", "run", "end_sync", "done"}
  BY CtaFacts
<1>4. b \in OnSM(r) <=> blk[r][b] \notin {"launch", "done"} BY DEF OnSM
<1>5. blk[r][b] \in {"handshake", "start_sync"} => reduced[r][b].pos = 0 /\ ~reduced[r][b].got
  BY DEF IInv, WarpState
<1>6. blk[r][b] = "end_sync" => reduced[r][b].pos = NChunks(b) /\ ~reduced[r][b].got
  BY <1>1, <1>3 DEF IInv, WarpState, Working
<1>7. Taken(r, b) \in Nat /\ Taken(r, b) >= K BY <1>1, <1>2, <1>3
<1>8. ~Working(r, b) => Taken(r, b) = K
  BY <1>1, <1>2, <1>3, <1>4, <1>5 DEF Working
<1>9. blk[r][b] = "end_sync" => Taken(r, b) = K + NChunks(b)
  BY <1>1, <1>2, <1>4, <1>6
<1> QED BY <1>7, <1>8, <1>9 DEF K

LEMMA PutsBounds ==
    ASSUME IInv, NEW r \in Ranks, NEW b \in Blocks, NEW d \in OtherNodes(r)
    PROVE  /\ PutsTo(r, b, d) \in Nat
           /\ PutsTo(r, b, d) <= commFwd[r] * NChunks(b) + NChunks(b)
           /\ ~Working(r, b) => PutsTo(r, b, d) = commFwd[r] * NChunks(b)
           /\ blk[r][b] = "end_sync" => PutsTo(r, b, d) = commFwd[r] * NChunks(b) + NChunks(b)
<1> DEFINE K == commFwd[r] * NChunks(b)
           sentTo == SentTo(r, d, sent[r][b])
<1>1. K \in Nat /\ NChunks(b) \in Nat \ {0} BY CtaFacts, Times
<1>2. PutsTo(r, b, d) = K + (IF b \in OnSM(r) THEN sentTo ELSE 0) BY DEF PutsTo
<1>3. /\ sent[r][b] \in Nat
      /\ blk[r][b] \in {"launch", "handshake", "start_sync", "run", "end_sync", "done"}
  BY CtaFacts
<1>4. b \in OnSM(r) <=> blk[r][b] \notin {"launch", "done"} BY DEF OnSM
<1>5. sentTo \in Nat BY <1>3, SendFacts
<1>6. blk[r][b] \in {"handshake", "start_sync"} => sentTo = 0
  <2>1. SentTo(r, d, 0) = 0 BY <1>3, SendFacts
  <2> QED BY <2>1 DEF IInv, WarpState
<1>7. Working(r, b) => sentTo <= NChunks(b)
  BY <1>1, <1>3, SentAll DEF IInv, WarpState
<1>8. blk[r][b] = "end_sync" => sentTo = NChunks(b)
  <2> SUFFICES ASSUME blk[r][b] = "end_sync" PROVE sentTo = NChunks(b) OBVIOUS
  <2>1. sent[r][b] = NChunks(b) * (NNodes - 1) BY DEF IInv, WarpState
  <2>2. sent[r][b] <= NChunks(b) * (NNodes - 1) BY DEF IInv, WarpState, Working
  <2> QED BY <1>1, <1>3, <2>1, <2>2, SentAll
<1> HIDE DEF K, sentTo
<1>9. PutsTo(r, b, d) \in Nat BY <1>1, <1>2, <1>5
<1>10. PutsTo(r, b, d) <= K + NChunks(b)
  BY <1>1, <1>2, <1>3, <1>4, <1>5, <1>6, <1>7 DEF Working
<1>11. ~Working(r, b) => PutsTo(r, b, d) = K
  BY <1>1, <1>2, <1>3, <1>4, <1>6 DEF Working
<1>12. blk[r][b] = "end_sync" => PutsTo(r, b, d) = K + NChunks(b)
  BY <1>1, <1>2, <1>4, <1>8
<1> QED BY <1>9, <1>10, <1>11, <1>12 DEF K

LEMMA CountTypes ==
    ASSUME IInv, NEW r \in Ranks, NEW b \in Blocks, NEW d \in Nodes
    PROVE  /\ signal[r][b][d] \in Nat /\ shadow[r][b][d] \in Nat
           /\ wire[r][b][d] \in Seq(Puts) /\ Len(wire[r][b][d]) \in Nat
<1>1. wire[r][b][d] \in Seq(Puts) BY DEF IInv, TypeOK, DataTypes
<1>2. Len(wire[r][b][d]) \in Nat BY <1>1
<1> QED BY <1>1, <1>2 DEF IInv, TypeOK, CtaTypes

\* Whoever has yet to arrive at the final barrier of forward m has no signal of later
\* forwards.
LEMMA SignalBound ==
    ASSUME IInv, BarriersHold, CountInv, NEW r \in Ranks, NEW b \in Blocks,
           NEW s \in OtherNodes(r), NEW m \in Nat, arrived[r][b] <= 2 * m
    PROVE  signal[r][b][s] <= m * NChunks(b)
<1> DEFINE q == RailRank(r, s)
           d == NodeOf(r)
<1>1. /\ q \in Ranks /\ NodeOf(q) = s /\ d \in OtherNodes(q) /\ RailRank(q, d) = r
      /\ s \in Nodes /\ d \in Nodes
  BY OtherFacts
<1> HIDE DEF q, d
<1>2. signal[r][b][s] + Len(wire[q][b][d]) = PutsTo(q, b, d)
  BY <1>1 DEF CountInv, PutsCounted
<1>3. signal[r][b][s] <= PutsTo(q, b, d)
  BY <1>1, <1>2, CountTypes, PutsBounds
<1>4. /\ arrived[r][b] >= 2 * commFwd[q]
      /\ Working(q, b) => arrived[r][b] >= 2 * commFwd[q] + 1
  BY <1>1 DEF BarriersHold
<1>5. commFwd[q] \in Nat /\ arrived[r][b] \in Nat BY <1>1, CtaFacts
<1>6. /\ commFwd[q] <= m
      /\ Working(q, b) => commFwd[q] + 1 <= m
  BY <1>4, <1>5
<1> DEFINE k == commFwd[q]
           n == NChunks(b)
           kn == k * n
           mn == m * n
<1>7. /\ PutsTo(q, b, d) \in Nat /\ PutsTo(q, b, d) <= kn + n
      /\ ~Working(q, b) => PutsTo(q, b, d) = kn
  BY <1>1, PutsBounds
<1>8. kn \in Nat /\ mn \in Nat /\ n \in Nat BY <1>5, Times
<1>9. /\ k <= m => kn <= mn
      /\ k + 1 <= m => kn + n <= mn
  BY <1>5, TimesMono
<1>10. signal[r][b][s] \in Nat BY <1>1, CountTypes
<1> HIDE DEF kn, mn, n
<1>11. PutsTo(q, b, d) <= mn
  <2>1. CASE Working(q, b) BY <2>1, <1>6, <1>7, <1>8, <1>9
  <2>2. CASE ~Working(q, b) BY <2>2, <1>6, <1>7, <1>8, <1>9
  <2> QED BY <2>1, <2>2
<1>12. signal[r][b][s] <= mn BY <1>3, <1>7, <1>8, <1>10, <1>11
<1> QED BY <1>12 DEF mn, n

\* While something is on the wire, both ends are in the same forward.
LEMMA WireBusy ==
    ASSUME IInv, BarriersHold, CountInv, NEW r \in Ranks, NEW b \in Blocks,
           NEW d \in OtherNodes(r), wire[r][b][d] # <<>>
    PROVE  /\ commFwd[RailRank(r, d)] = commFwd[r]
           /\ Working(r, b) /\ blk[RailRank(r, d)][b] # "end_sync"
<1> DEFINE p == RailRank(r, d)
           o == NodeOf(r)
           k == commFwd[r]
           l == commFwd[p]
           n == NChunks(b)
           kn == k * n
           ln == l * n
<1>1. p \in Ranks /\ NodeOf(p) = d /\ o \in OtherNodes(p) /\ d \in Nodes /\ o \in Nodes
  BY OtherFacts
<1> HIDE DEF p, o
<1>2. signal[p][b][o] + Len(wire[r][b][d]) = PutsTo(r, b, d)
  BY DEF CountInv, PutsCounted, p, o
<1>3. signal[p][b][o] >= Taken(p, b)
  BY <1>1 DEF CountInv, ShadowsCounted
<1>4. Len(wire[r][b][d]) > 0
  <2>1. wire[r][b][d] \in Seq(Puts) BY <1>1, CountTypes
  <2> QED BY <2>1
<1>5. PutsTo(r, b, d) > Taken(p, b)
  BY <1>1, <1>2, <1>3, <1>4, CountTypes, TakenBounds, PutsBounds
<1>6. k \in Nat /\ l \in Nat BY <1>1, CtaFacts
<1>15. n \in Nat /\ kn \in Nat /\ ln \in Nat BY <1>6, Times
<1>16. /\ k <= l => kn <= ln
       /\ k + 1 <= l => kn + n <= ln
       /\ l + 1 = k => kn = ln + n
  BY <1>6, TimesMono, Times
<1>7. /\ l >= k \/ (l = k - 1 /\ blk[p][b] = "end_sync")
      /\ Working(r, b) => l > k \/ l = k
  BY <1>1, Meeting
<1>8. /\ Taken(p, b) \in Nat /\ Taken(p, b) >= ln
      /\ blk[p][b] = "end_sync" => Taken(p, b) = ln + n
  BY <1>1, TakenBounds
<1>9. /\ PutsTo(r, b, d) \in Nat /\ PutsTo(r, b, d) <= kn + n
      /\ ~Working(r, b) => PutsTo(r, b, d) = kn
  BY PutsBounds
<1> HIDE DEF kn, ln, n, k, l
<1>10. Taken(p, b) >= kn
  <2>1. CASE l >= k BY <2>1, <1>6, <1>15, <1>16, <1>8
  <2>2. CASE l = k - 1 /\ blk[p][b] = "end_sync"
    <3>1. l + 1 = k BY <2>2, <1>6
    <3> QED BY <3>1, <2>2, <1>6, <1>15, <1>16, <1>8
  <2> QED BY <2>1, <2>2, <1>7
<1>11. Working(r, b) BY <1>5, <1>15, <1>8, <1>9, <1>10
<1>12. ~(l > k)
  <2> SUFFICES ASSUME l > k PROVE FALSE OBVIOUS
  <2>1. kn + n <= ln BY <1>6, <1>16
  <2> QED BY <2>1, <1>5, <1>15, <1>8, <1>9
<1>13. l = k BY <1>6, <1>7, <1>11, <1>12
<1>14. blk[p][b] # "end_sync"
  <2>1. kn = ln BY <1>13 DEF kn, ln
  <2> QED BY <2>1, <1>5, <1>15, <1>8, <1>9
<1> QED BY <1>11, <1>13, <1>14 DEF p, k, l

LEMMA InitCount == Init => CountInv
<1> SUFFICES ASSUME Init PROVE CountInv OBVIOUS
<1> USE DEF Init
<1>1. ASSUME NEW r \in Ranks, NEW b \in Blocks
      PROVE  /\ b \notin OnSM(r) /\ commFwd[r] * NChunks(b) = 0
             /\ \A d \in Nodes : wire[r][b][d] = <<>> /\ signal[r][b][d] = 0
                                 /\ shadow[r][b][d] = 0
  <2>1. NChunks(b) \in Nat BY ChunkFacts
  <2> QED BY <2>1 DEF OnSM, NoSignals
<1>2. \A r \in Ranks, b \in Blocks : Taken(r, b) = 0 /\ \A d \in Nodes : PutsTo(r, b, d) = 0
  BY <1>1 DEF Taken, PutsTo
<1>3. PutsCounted
  <2> SUFFICES ASSUME NEW r \in Ranks, NEW b \in Blocks
               PROVE  /\ wire[r][b][NodeOf(r)] = <<>>
                      /\ \A d \in OtherNodes(r) :
                            signal[RailRank(r, d)][b][NodeOf(r)] + Len(wire[r][b][d])
                                = PutsTo(r, b, d)
    BY DEF PutsCounted
  <2>1. wire[r][b][NodeOf(r)] = <<>> BY <1>1, RankFacts
  <2>2. ASSUME NEW d \in OtherNodes(r)
        PROVE  signal[RailRank(r, d)][b][NodeOf(r)] + Len(wire[r][b][d]) = PutsTo(r, b, d)
    BY <1>1, <1>2, OtherFacts
  <2> QED BY <2>1, <2>2
<1>4. ShadowsCounted
  BY <1>1, <1>2, RankFacts, OtherFacts DEF ShadowsCounted
<1> QED BY <1>3, <1>4 DEF CountInv

\* A step that neither sends, delivers nor counts.
LEMMA CountsKept ==
    ASSUME CountInv, UNCHANGED <<signal, shadow, wire>>,
           \A r \in Ranks, b \in Blocks :
               /\ Taken(r, b)' = Taken(r, b)
               /\ \A d \in OtherNodes(r) : PutsTo(r, b, d)' = PutsTo(r, b, d)
    PROVE  CountInv'
  BY DEF CountInv, PutsCounted, ShadowsCounted

\* A step after which the CTAs of all forwards are where they were.
LEMMA CountFrame ==
    ASSUME CountInv, UNCHANGED <<signal, shadow, wire, commFwd, sent, reduced>>,
           \A r \in Ranks, b \in Blocks :
               blk'[r][b] \in {"launch", "done"} <=> blk[r][b] \in {"launch", "done"}
    PROVE  CountInv'
<1>1. \A r \in Ranks, b \in Blocks : b \in OnSM(r)' <=> b \in OnSM(r) BY DEF OnSM
<1>2. \A r \in Ranks, b \in Blocks :
        /\ Taken(r, b)' = Taken(r, b)
        /\ \A d \in OtherNodes(r) : PutsTo(r, b, d)' = PutsTo(r, b, d)
  BY <1>1 DEF Taken, PutsTo
<1> QED BY <1>2, CountsKept

LEMMA ComputeCount ==
    ASSUME IInv, CountInv, NEW r \in Ranks, Compute(r) PROVE CountInv'
<1>1. UNCHANGED <<signal, shadow, wire, commFwd, sent, reduced, blk>>
  BY DEF Compute, GemmStart, GemmTile, GemmEnd, Consume, Node!NLaunch, Node!NPublish,
         Node!NEnd, stream, network
<1> QED BY <1>1, CountFrame

LEMMA CommLaunchCount ==
    ASSUME IInv, CountInv, NEW r \in Ranks, CommLaunch(r) PROVE CountInv'
<1>1. UNCHANGED <<signal, shadow, wire, commFwd, sent, reduced>> BY DEF CommLaunch, network
<1>2. \A q \in Ranks, c \in Blocks : blk'[q][c] = IF q = r THEN "launch" ELSE blk[q][c]
  BY DEF CommLaunch, IInv, TypeOK, CtaTypes
<1>3. \A c \in Blocks : blk[r][c] = "done" BY DEF CommLaunch, IInv, ControlState
<1> QED BY <1>1, <1>2, <1>3, CountFrame

LEMMA CtaMovesCount ==
    ASSUME IInv, CountInv, NEW r \in Ranks, NEW b \in Blocks,
           StartPass(r, b) \/ EndArrive(r, b) \/ (b = 0 /\ Handshake(r))
    PROVE  CountInv'
<1>1. /\ UNCHANGED <<signal, shadow, wire, commFwd, sent, reduced>>
      /\ \/ blk' = [blk EXCEPT ![r][b] = "run"]
         \/ blk' = [blk EXCEPT ![r][b] = "end_sync"]
         \/ blk' = [blk EXCEPT ![r][b] = "start_sync"]
      /\ blk[r][b] \notin {"launch", "done"}
  BY DEF StartPass, EndArrive, Handshake, network, stream
<1>2. blk \in [Ranks -> [Blocks -> {"launch", "handshake", "start_sync", "run",
                                    "end_sync", "done"}]]
  BY DEF IInv, TypeOK, CtaTypes
<1>3. \A q \in Ranks, c \in Blocks :
        blk'[q][c] \in {"launch", "done"} <=> blk[q][c] \in {"launch", "done"}
  BY ONLY <1>1, <1>2, r \in Ranks, b \in Blocks
<1> QED BY <1>1, <1>3, CountFrame

LEMMA CommDoneCount ==
    ASSUME IInv, CountInv, NEW r \in Ranks, CommDone(r) PROVE CountInv'
<1>1. UNCHANGED <<signal, shadow, wire, sent, reduced>> BY DEF CommDone, network
<1>2. /\ \A q \in Ranks, c \in Blocks : blk'[q][c] = IF q = r THEN "done" ELSE blk[q][c]
      /\ \A q \in Ranks : commFwd'[q] = IF q = r THEN commFwd[q] + 1 ELSE commFwd[q]
  BY DEF CommDone, IInv, TypeOK, CtaTypes, HostTypes
<1>3. ASSUME NEW q \in Ranks, NEW b \in Blocks
      PROVE  /\ Taken(q, b)' = Taken(q, b)
             /\ \A d \in OtherNodes(q) : PutsTo(q, b, d)' = PutsTo(q, b, d)
  <2>1. CASE q = r
    <3>1. blk[r][b] = "end_sync" BY DEF CommDone
    <3>2. b \notin OnSM(r)' BY <1>2 DEF OnSM
    <3>3. (commFwd[r] + 1) * NChunks(b) = commFwd[r] * NChunks(b) + NChunks(b)
          /\ commFwd[r] * NChunks(b) \in Nat /\ NChunks(b) \in Nat
      BY CtaFacts, Times
    <3>4. Taken(r, b)' = (commFwd[r] + 1) * NChunks(b) BY <1>2, <3>2, <3>3 DEF Taken
    <3>5. \A d \in OtherNodes(r) : PutsTo(r, b, d)' = (commFwd[r] + 1) * NChunks(b)
      BY <1>2, <3>2, <3>3 DEF PutsTo
    <3> QED BY <2>1, <3>1, <3>3, <3>4, <3>5, TakenBounds, PutsBounds
  <2>2. CASE q # r
    <3>1. b \in OnSM(q)' <=> b \in OnSM(q) BY <2>2, <1>2 DEF OnSM
    <3> QED BY <2>2, <3>1, <1>1, <1>2 DEF Taken, PutsTo
  <2> QED BY <2>1, <2>2
<1> QED BY <1>1, <1>3, CountsKept

LEMMA BlockStartCount ==
    ASSUME IInv, CountInv, NEW r \in Ranks, NEW b \in Blocks, BlockStart(r, b)
    PROVE  CountInv'
<1>1. UNCHANGED <<signal, shadow, wire, commFwd>> BY DEF BlockStart, network, stream
<1>2. /\ blk \in [Ranks -> [Blocks -> {"launch", "handshake", "start_sync", "run",
                                       "end_sync", "done"}]]
      /\ sent \in [Ranks -> [Blocks -> Nat]]
      /\ reduced \in [Ranks -> [Blocks -> [pos : Nat, got : BOOLEAN]]]
  BY DEF IInv, TypeOK, CtaTypes
<1>3. ASSUME NEW q \in Ranks, NEW c \in Blocks
      PROVE  /\ Taken(q, c)' = Taken(q, c)
             /\ \A d \in OtherNodes(q) : PutsTo(q, c, d)' = PutsTo(q, c, d)
  <2>1. CASE q = r /\ c = b
    <3>1. /\ b \notin OnSM(r) /\ b \in OnSM(r)' /\ sent'[r][b] = 0
          /\ reduced'[r][b] = [pos |-> 0, got |-> FALSE]
      BY <1>2 DEF BlockStart, OnSM
    <3>2. commFwd[r] * NChunks(b) \in Nat BY CtaFacts, Times
    <3>3. reduced'[r][b].pos = 0 /\ reduced'[r][b].got = FALSE BY <3>1
    <3>4. Taken(r, b)' = Taken(r, b) BY <3>1, <3>2, <3>3, <1>1 DEF Taken
    <3>5. \A d \in OtherNodes(r) : SentTo(r, d, 0) = 0 BY SendFacts, 0 \in Nat
    <3>6. \A d \in OtherNodes(r) : PutsTo(r, b, d)' = PutsTo(r, b, d)
      BY <3>1, <3>2, <3>5, <1>1 DEF PutsTo
    <3> QED BY <2>1, <3>4, <3>6
  <2>2. CASE ~(q = r /\ c = b)
    <3>1. /\ c \in OnSM(q)' <=> c \in OnSM(q)
          /\ sent'[q][c] = sent[q][c] /\ reduced'[q][c] = reduced[q][c]
      BY <2>2, <1>2 DEF BlockStart, OnSM
    <3> QED BY <3>1, <1>1 DEF Taken, PutsTo
  <2> QED BY <2>1, <2>2
<1> QED BY <1>1, <1>3, CountsKept

LEMMA WorkerReduceCount ==
    ASSUME IInv, CountInv, NEW r \in Ranks, NEW b \in Blocks, WorkerReduce(r, b)
    PROVE  CountInv'
<1>1. UNCHANGED <<signal, shadow, wire, commFwd, sent, blk>>
  BY DEF WorkerReduce, network, stream
<1>2. reduced \in [Ranks -> [Blocks -> [pos : Nat, got : BOOLEAN]]]
  BY DEF IInv, TypeOK, CtaTypes
<1>3. ASSUME NEW q \in Ranks, NEW c \in Blocks
      PROVE  /\ Taken(q, c)' = Taken(q, c)
             /\ \A d \in OtherNodes(q) : PutsTo(q, c, d)' = PutsTo(q, c, d)
  <2>0. c \in OnSM(q)' <=> c \in OnSM(q) BY <1>1 DEF OnSM
  <2>1. CASE q = r /\ c = b
    <3>1. reduced'[r][b] = [pos |-> reduced[r][b].pos + 1, got |-> FALSE]
          /\ reduced[r][b].got
      BY <1>2 DEF WorkerReduce
    <3>2. reduced'[r][b].pos = reduced[r][b].pos + 1 /\ reduced'[r][b].got = FALSE
      BY <3>1
    <3>3. reduced[r][b].pos \in Nat BY <1>2
    <3>4. Taken(r, b)' = Taken(r, b) BY <2>0, <2>1, <3>1, <3>2, <3>3, <1>1 DEF Taken
    <3> QED BY <2>0, <2>1, <3>4, <1>1 DEF PutsTo
  <2>2. CASE ~(q = r /\ c = b)
    <3>1. reduced'[q][c] = reduced[q][c] BY <2>2, <1>2 DEF WorkerReduce
    <3> QED BY <2>0, <3>1, <1>1 DEF Taken, PutsTo
  <2> QED BY <2>1, <2>2
<1> QED BY <1>1, <1>3, CountsKept

LEMMA WorkerWaitCount ==
    ASSUME IInv, CountInv, NEW r \in Ranks, NEW b \in Blocks, WorkerWait(r, b)
    PROVE  CountInv'
<1>1. UNCHANGED <<signal, wire, commFwd, sent, blk>>
  BY DEF WorkerWait, network, stream
<1>2. /\ reduced \in [Ranks -> [Blocks -> [pos : Nat, got : BOOLEAN]]]
      /\ shadow \in [Ranks -> [Blocks -> [Nodes -> Nat]]]
  BY DEF IInv, TypeOK, CtaTypes
<1>3. \A q \in Ranks, c \in Blocks : c \in OnSM(q)' <=> c \in OnSM(q) BY <1>1 DEF OnSM
<1>4. PutsCounted'
  <2>1. \A q \in Ranks, c \in Blocks : \A d \in OtherNodes(q) :
          PutsTo(q, c, d)' = PutsTo(q, c, d)
    BY <1>1, <1>3 DEF PutsTo
  <2> QED BY <1>1, <2>1 DEF CountInv, PutsCounted
<1>5. ShadowsCounted'
  <2> SUFFICES ASSUME NEW q \in Ranks, NEW c \in Blocks
               PROVE  /\ signal[q][c][NodeOf(q)] = 0 /\ shadow'[q][c][NodeOf(q)] = 0
                      /\ \A s \in OtherNodes(q) : /\ shadow'[q][c][s] = Taken(q, c)'
                                                  /\ shadow'[q][c][s] <= signal[q][c][s]
    BY <1>1 DEF ShadowsCounted
  <2>1. /\ signal[q][c][NodeOf(q)] = 0 /\ shadow[q][c][NodeOf(q)] = 0
        /\ \A s \in OtherNodes(q) : /\ shadow[q][c][s] = Taken(q, c)
                                    /\ shadow[q][c][s] <= signal[q][c][s]
    BY DEF CountInv, ShadowsCounted
  <2>2. CASE q = r /\ c = b
    <3>1. shadow'[r][b] = Counted(r, b) BY <1>2 DEF WorkerWait
    <3>2. shadow'[r][b][NodeOf(r)] = shadow[r][b][NodeOf(r)]
      BY <3>1, RankFacts DEF Counted
    <3>3. \A s \in OtherNodes(r) : shadow'[r][b][s] = shadow[r][b][s] + 1
      BY <3>1 DEF Counted, OtherNodes
    <3>4. \A s \in OtherNodes(r) : signal[r][b][s] >= shadow[r][b][s] + 1
      BY DEF WorkerWait, AllReceived
    <3>5. /\ reduced'[r][b] = [pos |-> reduced[r][b].pos, got |-> TRUE]
          /\ ~reduced[r][b].got /\ b \in OnSM(r)
      BY <1>2 DEF WorkerWait, OnSM
    <3>6. reduced'[r][b].pos = reduced[r][b].pos /\ reduced'[r][b].got = TRUE BY <3>5
    <3>7. reduced[r][b].pos \in Nat /\ commFwd[r] * NChunks(b) \in Nat
      BY <1>2, CtaFacts, Times
    <3>8. Taken(r, b)' = Taken(r, b) + 1
      BY <3>5, <3>6, <3>7, <1>1, <1>3 DEF Taken
    <3>9. /\ signal[r][b][NodeOf(r)] = 0 /\ shadow'[r][b][NodeOf(r)] = 0
      BY <2>1, <2>2, <3>2
    <3>10. ASSUME NEW s \in OtherNodes(r)
           PROVE  /\ shadow'[r][b][s] = Taken(r, b)'
                  /\ shadow'[r][b][s] <= signal[r][b][s]
      <4>1. shadow[r][b][s] = Taken(r, b) BY <2>1, <2>2
      <4> QED BY <4>1, <3>3, <3>4, <3>8
    <3> QED BY <2>2, <3>9, <3>10
  <2>3. CASE ~(q = r /\ c = b)
    <3>1. reduced'[q][c] = reduced[q][c] /\ shadow'[q][c] = shadow[q][c]
      BY <2>3, <1>2 DEF WorkerWait
    <3>2. Taken(q, c)' = Taken(q, c) BY <3>1, <1>1, <1>3 DEF Taken
    <3> QED BY <2>1, <3>1, <3>2
  <2> QED BY <2>2, <2>3
<1> QED BY <1>4, <1>5 DEF CountInv

LEMMA SendPutCount ==
    ASSUME IInv, CountInv, NEW r \in Ranks, NEW b \in Blocks, SendPut(r, b)
    PROVE  CountInv'
<1> DEFINE to == SendNode(r, sent[r][b])
<1>1. UNCHANGED <<signal, shadow, commFwd, reduced, blk>>
  BY DEF SendPut, stream
<1>2. /\ sent \in [Ranks -> [Blocks -> Nat]]
      /\ wire \in [Ranks -> [Blocks -> [Nodes -> Seq(Puts)]]]
  BY DEF IInv, TypeOK, CtaTypes, DataTypes
<1>3. \A q \in Ranks, c \in Blocks : c \in OnSM(q)' <=> c \in OnSM(q) BY <1>1 DEF OnSM
<1>4. /\ blk[r][b] = "run"
      /\ sent' = [sent EXCEPT ![r][b] = sent[r][b] + 1]
      /\ wire' = [wire EXCEPT ![r][b][to] = Append(@, SendData(r, b))]
  BY DEF SendPut, SendData
<1>5. to \in OtherNodes(r) /\ to \in Nodes /\ to # NodeOf(r)
  BY <1>2, SendFacts DEF OtherNodes
<1> HIDE DEF to
<1>6. ShadowsCounted'
  <2>1. \A q \in Ranks, c \in Blocks : Taken(q, c)' = Taken(q, c)
    BY <1>1, <1>3 DEF Taken
  <2> QED BY <1>1, <2>1 DEF CountInv, ShadowsCounted
<1>7. PutsCounted'
  <2> SUFFICES ASSUME NEW q \in Ranks, NEW c \in Blocks
               PROVE  /\ wire'[q][c][NodeOf(q)] = <<>>
                      /\ \A d \in OtherNodes(q) :
                            signal[RailRank(q, d)][c][NodeOf(q)] + Len(wire'[q][c][d])
                                = PutsTo(q, c, d)'
    BY <1>1 DEF PutsCounted
  <2>1. /\ wire[q][c][NodeOf(q)] = <<>>
        /\ \A d \in OtherNodes(q) :
              signal[RailRank(q, d)][c][NodeOf(q)] + Len(wire[q][c][d]) = PutsTo(q, c, d)
    BY DEF CountInv, PutsCounted
  <2>2. CASE q = r /\ c = b
    <3>1. \A d \in Nodes :
            wire'[r][b][d] = IF d = to THEN Append(wire[r][b][d], SendData(r, b))
                                       ELSE wire[r][b][d]
      BY <1>2, <1>4, <1>5
    <3>2. wire'[r][b][NodeOf(r)] = <<>> BY <2>1, <2>2, <3>1, <1>5, RankFacts
    <3>3. b \in OnSM(r) BY <1>4 DEF OnSM
    <3>4. sent'[r][b] = sent[r][b] + 1 /\ sent[r][b] \in Nat BY <1>2, <1>4
    <3>5. ASSUME NEW d \in OtherNodes(r)
          PROVE  signal[RailRank(r, d)][b][NodeOf(r)] + Len(wire'[r][b][d])
                     = PutsTo(r, b, d)'
      <4> DEFINE more == IF to = d THEN 1 ELSE 0
                 had == SentTo(r, d, sent[r][b])
                 sig == signal[RailRank(r, d)][b][NodeOf(r)]
                 len == Len(wire[r][b][d])
                 kn == commFwd[r] * NChunks(b)
      <4>0. d \in Nodes BY DEF OtherNodes
      <4>1. Len(wire'[r][b][d]) = len + more /\ len \in Nat
        <5>1. wire[r][b][d] \in Seq(Puts) BY <1>2, <4>0
        <5>2. Len(Append(wire[r][b][d], SendData(r, b))) = len + 1 /\ len \in Nat
          BY <5>1
        <5>3. CASE to = d
          <6>1. wire'[r][b][d] = Append(wire[r][b][d], SendData(r, b))
            BY <5>3, <3>1, <4>0
          <6> QED BY <5>2, <5>3, <6>1
        <5>4. CASE to # d
          <6>1. wire'[r][b][d] = wire[r][b][d] BY <5>4, <3>1, <4>0
          <6> QED BY <5>2, <5>4, <6>1
        <5> QED BY <5>3, <5>4
      <4>2. SentTo(r, d, sent[r][b] + 1) = had + more /\ had \in Nat
        BY <3>4, SendFacts DEF to
      <4>3. kn \in Nat BY CtaFacts, Times
      <4>4. PutsTo(r, b, d) = kn + had BY <3>3 DEF PutsTo
      <4>5. PutsTo(r, b, d)' = kn + SentTo(r, d, sent[r][b] + 1)
        BY <3>3, <3>4, <1>1, <1>3 DEF PutsTo
      <4>6. sig \in Nat
        <5>1. RailRank(r, d) \in Ranks /\ NodeOf(r) \in Nodes BY OtherFacts
        <5> QED BY <5>1, CountTypes
      <4>7. sig + len = PutsTo(r, b, d) BY <2>1, <2>2
      <4>8. more \in Nat OBVIOUS
      <4> HIDE DEF more, had, sig, len, kn
      <4>9. sig + Len(wire'[r][b][d]) = PutsTo(r, b, d)'
        BY <4>1, <4>2, <4>3, <4>4, <4>5, <4>6, <4>7, <4>8
      <4> QED BY <4>9 DEF sig
    <3> QED BY <2>2, <3>2, <3>5
  <2>3. CASE ~(q = r /\ c = b)
    <3>1. wire'[q][c] = wire[q][c] /\ sent'[q][c] = sent[q][c]
      BY <2>3, <1>2, <1>4
    <3>2. \A d \in OtherNodes(q) : PutsTo(q, c, d)' = PutsTo(q, c, d)
      BY <3>1, <1>1, <1>3 DEF PutsTo
    <3> QED BY <2>1, <3>1, <3>2
  <2> QED BY <2>2, <2>3
<1> QED BY <1>6, <1>7 DEF CountInv

\* What GinDeliver does to wire and signal: one put less, one signal more, at the ends of
\* that one connection.
LEMMA DeliverFacts ==
    ASSUME IInv, CountInv, NEW r \in Ranks, NEW b \in Blocks, NEW d \in Nodes,
           GinDeliver(r, b, d)
    PROVE  /\ d \in OtherNodes(r) /\ Len(wire[r][b][d]) > 0
           /\ wire[r][b][d] \in Seq(Puts)
           /\ \A q \in Ranks, c \in Blocks, e \in Nodes :
                 /\ wire'[q][c][e] = IF q = r /\ c = b /\ e = d THEN Tail(wire[q][c][e])
                                                               ELSE wire[q][c][e]
                 /\ signal'[q][c][e] = IF q = RailRank(r, d) /\ c = b /\ e = NodeOf(r)
                                       THEN signal[q][c][e] + 1 ELSE signal[q][c][e]
           /\ \A q \in Ranks, c \in Blocks : \A e \in OtherNodes(q) :
                 RailRank(q, e) = RailRank(r, d) /\ c = b /\ NodeOf(q) = NodeOf(r)
                     <=> q = r /\ c = b /\ e = d
           /\ UNCHANGED <<shadow, commFwd, sent, reduced, blk>>
<1>1. /\ wire[r][b][d] # <<>>
      /\ wire' = [wire EXCEPT ![r][b][d] = Tail(wire[r][b][d])]
      /\ signal' = [signal EXCEPT ![RailRank(r, d)][b][NodeOf(r)] =
                       signal[RailRank(r, d)][b][NodeOf(r)] + 1]
      /\ UNCHANGED <<shadow, commFwd, sent, reduced, blk>>
  BY DEF GinDeliver, stream
<1>2. /\ signal \in [Ranks -> [Blocks -> [Nodes -> Nat]]]
      /\ wire \in [Ranks -> [Blocks -> [Nodes -> Seq(Puts)]]]
  BY DEF IInv, TypeOK, CtaTypes, DataTypes
<1>3. d # NodeOf(r) BY <1>1 DEF CountInv, PutsCounted
<1>4. d \in OtherNodes(r) BY <1>3 DEF OtherNodes
<1>5. wire[r][b][d] \in Seq(Puts) BY <1>2
<1>6. Len(wire[r][b][d]) > 0 BY <1>1, <1>5
<1>7. RailRank(r, d) \in Ranks /\ NodeOf(r) \in Nodes BY RailFacts, RankFacts
<1>8. \A q \in Ranks, c \in Blocks, e \in Nodes :
        /\ wire'[q][c][e] = IF q = r /\ c = b /\ e = d THEN Tail(wire[q][c][e])
                                                      ELSE wire[q][c][e]
        /\ signal'[q][c][e] = IF q = RailRank(r, d) /\ c = b /\ e = NodeOf(r)
                              THEN signal[q][c][e] + 1 ELSE signal[q][c][e]
  <2> DEFINE p == RailRank(r, d)
             o == NodeOf(r)
  <2>1. \A q \in Ranks, c \in Blocks, e \in Nodes :
          wire'[q][c][e] = IF q = r /\ c = b /\ e = d THEN Tail(wire[q][c][e])
                                                      ELSE wire[q][c][e]
    BY ONLY <1>1, <1>2, r \in Ranks, b \in Blocks, d \in Nodes
  <2>2. p \in Ranks /\ o \in Nodes BY <1>7
  <2> DEFINE more == signal[p][b][o] + 1
  <2>3. signal' = [signal EXCEPT ![p][b][o] = more] BY <1>1
  <2>5. more \in Nat BY <1>2, <2>2
  <2> HIDE DEF p, o, more
  <2>4. \A q \in Ranks, c \in Blocks, e \in Nodes :
          signal'[q][c][e] = IF q = p /\ c = b /\ e = o
                             THEN more ELSE signal[q][c][e]
    <3> SUFFICES ASSUME NEW q \in Ranks, NEW c \in Blocks, NEW e \in Nodes
                 PROVE  signal'[q][c][e] = IF q = p /\ c = b /\ e = o
                                           THEN more ELSE signal[q][c][e]
      OBVIOUS
    <3>1. signal'[q] = IF q = p THEN [signal[p] EXCEPT ![b][o] = more] ELSE signal[q]
      BY ONLY <1>2, <2>2, <2>3, q \in Ranks
    <3>2. signal[p] \in [Blocks -> [Nodes -> Nat]] BY <1>2, <2>2
    <3> QED BY ONLY <3>1, <3>2, <2>2, <2>5, c \in Blocks, e \in Nodes, b \in Blocks
  <2> QED BY <2>1, <2>4 DEF p, o, more
<1>9. \A q \in Ranks, c \in Blocks : \A e \in OtherNodes(q) :
        RailRank(q, e) = RailRank(r, d) /\ c = b /\ NodeOf(q) = NodeOf(r)
            <=> q = r /\ c = b /\ e = d
  BY RailInjective DEF OtherNodes
<1> QED BY <1>1, <1>4, <1>5, <1>6, <1>8, <1>9

LEMMA GinDeliverCount ==
    ASSUME IInv, CountInv, NEW r \in Ranks, NEW b \in Blocks, NEW d \in Nodes,
           GinDeliver(r, b, d)
    PROVE  CountInv'
<1>1. UNCHANGED <<shadow, commFwd, sent, reduced, blk>> /\ d \in OtherNodes(r)
  BY DeliverFacts
<1>2. \A q \in Ranks, c \in Blocks : c \in OnSM(q)' <=> c \in OnSM(q) BY <1>1 DEF OnSM
<1>3. \A q \in Ranks, c \in Blocks :
        /\ Taken(q, c)' = Taken(q, c)
        /\ \A e \in OtherNodes(q) : PutsTo(q, c, e)' = PutsTo(q, c, e)
  BY <1>1, <1>2 DEF Taken, PutsTo
<1>4. PutsCounted'
  <2> SUFFICES ASSUME NEW q \in Ranks, NEW c \in Blocks
               PROVE  /\ wire'[q][c][NodeOf(q)] = <<>>
                      /\ \A e \in OtherNodes(q) :
                            signal'[RailRank(q, e)][c][NodeOf(q)] + Len(wire'[q][c][e])
                                = PutsTo(q, c, e)
    BY <1>3 DEF PutsCounted
  <2>1. wire'[q][c][NodeOf(q)] = <<>>
    <3>1. NodeOf(q) \in Nodes /\ wire[q][c][NodeOf(q)] = <<>>
      BY RankFacts DEF CountInv, PutsCounted
    <3>2. ~(q = r /\ c = b /\ NodeOf(q) = d) BY <1>1 DEF OtherNodes
    <3> QED BY <3>1, <3>2, DeliverFacts
  <2>2. ASSUME NEW e \in OtherNodes(q)
        PROVE  signal'[RailRank(q, e)][c][NodeOf(q)] + Len(wire'[q][c][e]) = PutsTo(q, c, e)
    <3>1. signal[RailRank(q, e)][c][NodeOf(q)] + Len(wire[q][c][e]) = PutsTo(q, c, e)
      BY DEF CountInv, PutsCounted
    <3>2. e \in Nodes /\ RailRank(q, e) \in Ranks /\ NodeOf(q) \in Nodes BY OtherFacts
    <3>3. signal[RailRank(q, e)][c][NodeOf(q)] \in Nat /\ Len(wire[q][c][e]) \in Nat
      BY <3>2, CountTypes
    <3>4. CASE q = r /\ c = b /\ e = d
      <4>1. signal'[RailRank(r, d)][b][NodeOf(r)] = signal[RailRank(r, d)][b][NodeOf(r)] + 1
        BY <3>2, <3>4, DeliverFacts
      <4>2. wire'[r][b][d] = Tail(wire[r][b][d]) BY DeliverFacts
      <4>3. Len(Tail(wire[r][b][d])) = Len(wire[r][b][d]) - 1
        <5>1. wire[r][b][d] \in Seq(Puts) /\ Len(wire[r][b][d]) > 0 BY DeliverFacts
        <5>2. wire[r][b][d] # << >> BY <5>1
        <5> QED BY <5>1, <5>2
      <4>4. signal[RailRank(r, d)][b][NodeOf(r)] + Len(wire[r][b][d]) = PutsTo(r, b, d)
            /\ signal[RailRank(r, d)][b][NodeOf(r)] \in Nat /\ Len(wire[r][b][d]) \in Nat
        BY <3>1, <3>3, <3>4
      <4>5. signal'[RailRank(r, d)][b][NodeOf(r)] + Len(wire'[r][b][d]) = PutsTo(r, b, d)
        <5> DEFINE sig == signal[RailRank(r, d)][b][NodeOf(r)]
                   len == Len(wire[r][b][d])
        <5>1. sig + len = PutsTo(r, b, d) /\ sig \in Nat /\ len \in Nat BY <4>4
        <5>2. Len(wire'[r][b][d]) = len - 1 BY <4>2, <4>3
        <5>3. signal'[RailRank(r, d)][b][NodeOf(r)] = sig + 1 BY <4>1
        <5> HIDE DEF sig, len
        <5> QED BY <5>1, <5>2, <5>3
      <4> QED BY <3>4, <4>5
    <3>5. CASE ~(q = r /\ c = b /\ e = d)
      <4>1. ~(RailRank(q, e) = RailRank(r, d) /\ c = b /\ NodeOf(q) = NodeOf(r))
        BY <3>5, DeliverFacts
      <4>2. signal'[RailRank(q, e)][c][NodeOf(q)] = signal[RailRank(q, e)][c][NodeOf(q)]
        BY <3>2, <4>1, DeliverFacts
      <4>3. wire'[q][c][e] = wire[q][c][e] BY <3>2, <3>5, DeliverFacts
      <4> QED BY <3>1, <4>2, <4>3
    <3> QED BY <3>4, <3>5
  <2> QED BY <2>1, <2>2
<1>5. ShadowsCounted'
  <2> SUFFICES ASSUME NEW q \in Ranks, NEW c \in Blocks
               PROVE  /\ signal'[q][c][NodeOf(q)] = 0 /\ shadow[q][c][NodeOf(q)] = 0
                      /\ \A s \in OtherNodes(q) : /\ shadow[q][c][s] = Taken(q, c)
                                                  /\ shadow[q][c][s] <= signal'[q][c][s]
    BY <1>1, <1>3 DEF ShadowsCounted
  <2>1. /\ signal[q][c][NodeOf(q)] = 0 /\ shadow[q][c][NodeOf(q)] = 0
        /\ \A s \in OtherNodes(q) : /\ shadow[q][c][s] = Taken(q, c)
                                    /\ shadow[q][c][s] <= signal[q][c][s]
    BY DEF CountInv, ShadowsCounted
  <2>2. signal'[q][c][NodeOf(q)] = 0
    <3>1. NodeOf(q) \in Nodes BY RankFacts
    <3>2. ~(q = RailRank(r, d) /\ NodeOf(q) = NodeOf(r)) BY <1>1, OtherFacts
    <3> QED BY <2>1, <3>1, <3>2, DeliverFacts
  <2>3. ASSUME NEW s \in OtherNodes(q) PROVE shadow[q][c][s] <= signal'[q][c][s]
    <3>1. s \in Nodes BY DEF OtherNodes
    <3>2. signal[q][c][s] \in Nat /\ shadow[q][c][s] \in Nat BY <3>1, CountTypes
    <3>3. signal'[q][c][s] = signal[q][c][s] \/ signal'[q][c][s] = signal[q][c][s] + 1
      BY <3>1, DeliverFacts
    <3> QED BY <2>1, <3>2, <3>3
  <2> QED BY <2>1, <2>2, <2>3
<1> QED BY <1>4, <1>5 DEF CountInv

LEMMA NextCount == IInv /\ CountInv /\ [Next]_vars => CountInv'
<1> SUFFICES ASSUME IInv, CountInv, [Next]_vars PROVE CountInv' OBVIOUS
<1>1. CASE Next
  <2> PICK r \in Ranks : \/ Compute(r) \/ CommLaunch(r) \/ Handshake(r) \/ CommDone(r)
                         \/ \E b \in Blocks : Block(r, b)
    BY <1>1 DEF Next
  <2>1. CASE Compute(r) BY <2>1, ComputeCount
  <2>2. CASE CommLaunch(r) BY <2>2, CommLaunchCount
  <2>3. CASE Handshake(r)
    <3>1. 0 \in Blocks BY Consts DEF Blocks
    <3> QED BY <2>3, <3>1, CtaMovesCount
  <2>4. CASE CommDone(r) BY <2>4, CommDoneCount
  <2>5. ASSUME NEW b \in Blocks, Block(r, b) PROVE CountInv'
    BY <2>5, BlockStartCount, CtaMovesCount, SendPutCount, GinDeliverCount, WorkerWaitCount,
       WorkerReduceCount DEF Block
  <2> QED BY <2>1, <2>2, <2>3, <2>4, <2>5
<1>2. CASE UNCHANGED vars
  <2>1. UNCHANGED <<signal, shadow, wire, commFwd, sent, reduced, blk>> BY <1>2 DEF vars
  <2> QED BY <2>1, CountFrame
<1> QED BY <1>1, <1>2

LEMMA CountAlways == Safe => [](IInv /\ OrderInv /\ CountInv)
<1>1. Init => IInv /\ OrderInv /\ CountInv BY InitIInv, InitOrder, InitCount
<1>2. IInv /\ OrderInv /\ CountInv /\ [Next]_vars => (IInv /\ OrderInv /\ CountInv)'
  BY NextIInv, NextOrder, NextCount
<1> QED BY <1>1, <1>2, PTL DEF Safe

\* The counters of signals and of what the workers have counted agree before a CTA takes
\* part in the start barrier: no put of one forward is taken for one of the next.
THEOREM SignalsAllCounted == Safe => []NoLeftoverSignal
<1>1. IInv /\ OrderInv /\ CountInv => NoLeftoverSignal
  <2> SUFFICES ASSUME IInv, OrderInv, CountInv, NEW r \in Ranks, NEW b \in Blocks,
                      blk[r][b] \in {"launch", "handshake", "done"}
               PROVE  signal[r][b] = shadow[r][b]
    BY DEF NoLeftoverSignal
  <2>1. arrived[r][b] = 2 * commFwd[r] /\ commFwd[r] \in Nat
    BY CtaFacts DEF ArrivedNow
  <2>2. ASSUME NEW s \in Nodes PROVE signal[r][b][s] = shadow[r][b][s]
    <3>1. CASE s = NodeOf(r) BY <3>1 DEF CountInv, ShadowsCounted
    <3>2. CASE s # NodeOf(r)
      <4>1. s \in OtherNodes(r) BY <3>2 DEF OtherNodes
      <4>2. signal[r][b][s] <= commFwd[r] * NChunks(b)
        <5>1. arrived[r][b] <= 2 * commFwd[r] BY <2>1
        <5> QED BY <2>1, <4>1, <5>1, SignalBound DEF OrderInv
      <4>3. shadow[r][b][s] = Taken(r, b) /\ shadow[r][b][s] <= signal[r][b][s]
        BY <4>1 DEF CountInv, ShadowsCounted
      <4>4. Taken(r, b) >= commFwd[r] * NChunks(b) BY TakenBounds
      <4>5. commFwd[r] * NChunks(b) \in Nat BY <2>1, Times
      <4> QED BY <4>2, <4>3, <4>4, <4>5, CountTypes
    <3> QED BY <3>1, <3>2
  <2>3. signal[r][b] \in [Nodes -> Nat] /\ shadow[r][b] \in [Nodes -> Nat]
    BY DEF IInv, TypeOK, CtaTypes
  <2> QED BY <2>2, <2>3
<1> QED BY <1>1, CountAlways, PTL

-----------------------------------------------------------------------------
(* DataInv. *)

LEMMA BeforeFacts ==
    ASSUME IInv, NEW r \in Ranks, NEW b \in Blocks
    PROVE  Before(r, b) \in Nat
  BY CtaFacts, Times DEF Before

LEMMA InitData == Init => DataInv
<1> SUFFICES ASSUME Init PROVE DataInv OBVIOUS
<1> USE DEF Init
<1>1. ASSUME NEW r \in Ranks, NEW b \in Blocks
      PROVE  /\ \A d \in Nodes : wire[r][b][d] = <<>> /\ signal[r][b][d] = 0
             /\ ~Working(r, b) /\ Before(r, b) = 0
  <2>1. NChunks(b) \in Nat BY ChunkFacts
  <2> QED BY <2>1 DEF NoSignals, Working, Before
<1>2. WireCurrent
  <2> SUFFICES ASSUME NEW r \in Ranks, NEW b \in Blocks, NEW d \in OtherNodes(r)
               PROVE  WireHolds(r, b, d)
    BY DEF WireCurrent
  <2>1. wire[r][b][d] = <<>> BY <1>1 DEF OtherNodes
  <2>2. Len(wire[r][b][d]) = 0 BY <2>1
  <2>3. 1..Len(wire[r][b][d]) = {} BY <2>2
  <2> QED BY <2>3 DEF WireHolds
<1>3. SlotsCurrent
  <2> SUFFICES ASSUME NEW r \in Ranks, NEW b \in Blocks, NEW s \in OtherNodes(r)
               PROVE  SlotHolds(r, b, s)
    BY DEF SlotsCurrent
  <2>1. signal[r][b][s] = 0 /\ Before(r, b) = 0 BY <1>1 DEF OtherNodes
  <2> QED BY <2>1 DEF SlotHolds
<1>4. OutputCurrent BY <1>1 DEF OutputCurrent, OutputComplete, OutputHolds
<1> QED BY <1>2, <1>3, <1>4 DEF DataInv, OutputsCurrent

\* What keeps the parts of the invariant.
LEMMA WireFrame ==
    ASSUME WireCurrent, UNCHANGED <<wire, signal, commFwd>> PROVE WireCurrent'
  BY DEF WireCurrent, WireHolds, Before

LEMMA SlotFrame ==
    ASSUME SlotsCurrent, UNCHANGED <<slot, signal, commFwd>> PROVE SlotsCurrent'
  BY DEF SlotsCurrent, SlotHolds, Before

LEMMA OutputFrame ==
    ASSUME OutputCurrent, UNCHANGED <<output, commFwd, commPc>>,
           \A r \in Ranks, b \in Blocks :
               Working(r, b)' => \/ reduced'[r][b].pos = 0
                                 \/ /\ Working(r, b)
                                    /\ reduced'[r][b].pos = reduced[r][b].pos
    PROVE  OutputCurrent'
<1> SUFFICES ASSUME NEW r \in Ranks
             PROVE  OutputComplete(r)' /\ \A b \in Blocks : OutputHolds(r, b)'
  BY DEF OutputCurrent
<1>1. OutputComplete(r)' BY DEF OutputCurrent, OutputComplete
<1>2. ASSUME NEW b \in Blocks PROVE OutputHolds(r, b)'
  <2>1. OutputHolds(r, b) BY DEF OutputCurrent
  <2> QED BY <2>1 DEF OutputHolds
<1> QED BY <1>1, <1>2

\* A step that changes neither data nor signals, nor what the CTAs have done.
LEMMA DataFrame ==
    ASSUME DataInv, UNCHANGED <<wire, signal, slot, output, commFwd, commPc, wrong>>,
           \A r \in Ranks, b \in Blocks :
               Working(r, b)' => \/ reduced'[r][b].pos = 0
                                 \/ /\ Working(r, b)
                                    /\ reduced'[r][b].pos = reduced[r][b].pos
    PROVE  DataInv'
<1>1. WireCurrent' BY WireFrame DEF DataInv
<1>2. SlotsCurrent' BY SlotFrame DEF DataInv
<1>3. OutputCurrent' BY OutputFrame DEF DataInv
<1> QED BY <1>1, <1>2, <1>3 DEF DataInv, OutputsCurrent

LEMMA GemmData ==
    ASSUME DataInv, NEW r \in Ranks,
           GemmStart(r) \/ (\E y \in Segments : GemmTile(r, y)) \/ GemmEnd(r)
    PROVE  DataInv'
<1>1. UNCHANGED <<wire, signal, slot, output, commFwd, commPc, wrong, blk, reduced>>
  BY DEF GemmStart, GemmTile, GemmEnd, stream, network, consume
<1>2. \A q \in Ranks, c \in Blocks : Working(q, c)' => Working(q, c) BY <1>1 DEF Working
<1> QED BY <1>1, <1>2, DataFrame

LEMMA ConsumeData ==
    ASSUME IInv, DataInv, NEW r \in Ranks, Consume(r) PROVE DataInv'
<1>1. UNCHANGED <<wire, signal, slot, output, commFwd, commPc, blk, reduced>>
  BY DEF Consume, stream, network
<1>2. WireCurrent' BY <1>1, WireFrame DEF DataInv
<1>3. SlotsCurrent' BY <1>1, SlotFrame DEF DataInv
<1>4. OutputCurrent'
  <2>1. \A q \in Ranks, c \in Blocks : Working(q, c)' => Working(q, c)
    BY <1>1 DEF Working
  <2> QED BY <1>1, <2>1, OutputFrame DEF DataInv
<1>5. OutputsCurrent'
  <2>1. commFwd[r] > compFwd[r] BY DEF Consume, OutputReady, GinDone
  <2>2. /\ commFwd[r] <= compFwd[r] + 1
        /\ commPc[r] = "kernel" => commFwd[r] = compFwd[r]
    BY DEF IInv, ControlState
  <2>3. /\ commFwd[r] \in Nat /\ compFwd[r] \in Nat /\ commPc[r] \in {"wait", "kernel"}
    BY HostFacts DEF IInv, TypeOK
  <2>4. commFwd[r] = compFwd[r] + 1 /\ commPc[r] = "wait" /\ commFwd[r] > 0
    BY <2>1, <2>2, <2>3
  <2>5. \A t \in Tiles : output[r][t] = compFwd[r] + 1
    BY <2>4 DEF DataInv, OutputCurrent, OutputComplete
  <2>6. wrong \in [Ranks -> BOOLEAN] BY DEF IInv, TypeOK, HostTypes
  <2>7. \A q \in Ranks : ~wrong[q] BY DEF DataInv, OutputsCurrent
  <2>8. wrong' = [wrong EXCEPT ![r] =
                    @ \/ \E t \in Tiles : output[r][t] # compFwd[r] + 1]
    BY DEF Consume
  <2>9. \A q \in Ranks : ~wrong'[q] BY <2>5, <2>6, <2>7, <2>8
  <2> QED BY <2>9 DEF OutputsCurrent
<1> QED BY <1>2, <1>3, <1>4, <1>5 DEF DataInv

LEMMA CommLaunchData ==
    ASSUME IInv, DataInv, NEW r \in Ranks, CommLaunch(r) PROVE DataInv'
<1>1. UNCHANGED <<wire, signal, slot, output, commFwd, wrong, reduced>>
  BY DEF CommLaunch, network, consume
<1>2. /\ \A q \in Ranks, c \in Blocks : blk'[q][c] = IF q = r THEN "launch" ELSE blk[q][c]
      /\ \A q \in Ranks : commPc'[q] = IF q = r THEN "kernel" ELSE commPc[q]
  BY DEF CommLaunch, IInv, TypeOK, CtaTypes, HostTypes
<1>3. WireCurrent' BY <1>1, WireFrame DEF DataInv
<1>4. SlotsCurrent' BY <1>1, SlotFrame DEF DataInv
<1>5. OutputCurrent'
  <2> SUFFICES ASSUME NEW q \in Ranks
               PROVE  OutputComplete(q)' /\ \A c \in Blocks : OutputHolds(q, c)'
    BY DEF OutputCurrent
  <2>1. OutputComplete(q)' BY <1>1, <1>2 DEF DataInv, OutputCurrent, OutputComplete
  <2>2. ASSUME NEW c \in Blocks PROVE OutputHolds(q, c)'
    <3>1. Working(q, c)' => Working(q, c) BY <1>2 DEF Working
    <3>2. OutputHolds(q, c) BY DEF DataInv, OutputCurrent
    <3> QED BY <1>1, <3>1, <3>2 DEF OutputHolds
  <2> QED BY <2>1, <2>2
<1> QED BY <1>1, <1>3, <1>4, <1>5 DEF DataInv, OutputsCurrent

LEMMA CtaMovesData ==
    ASSUME IInv, DataInv, NEW r \in Ranks, NEW b \in Blocks,
           \/ BlockStart(r, b) \/ StartPass(r, b) \/ EndArrive(r, b)
           \/ (b = 0 /\ Handshake(r))
    PROVE  DataInv'
<1>1. UNCHANGED <<wire, signal, slot, output, commFwd, commPc, wrong>>
  BY DEF BlockStart, StartPass, EndArrive, Handshake, network, consume, stream
<1>2. ASSUME NEW q \in Ranks, NEW c \in Blocks, Working(q, c)'
      PROVE  \/ reduced'[q][c].pos = 0
             \/ Working(q, c) /\ reduced'[q][c].pos = reduced[q][c].pos
  <2>0. /\ blk \in [Ranks -> [Blocks -> {"launch", "handshake", "start_sync", "run",
                                         "end_sync", "done"}]]
        /\ reduced \in [Ranks -> [Blocks -> [pos : Nat, got : BOOLEAN]]]
    BY DEF IInv, TypeOK, CtaTypes
  <2>1. CASE BlockStart(r, b)
    <3>1. ~(q = r /\ c = b) BY <1>2, <2>0, <2>1 DEF BlockStart, Working
    <3>2. blk'[q][c] = blk[q][c] /\ reduced'[q][c] = reduced[q][c]
      BY <3>1, <2>0, <2>1 DEF BlockStart
    <3> QED BY <3>2, <1>2 DEF Working
  <2>2. CASE StartPass(r, b)
    <3>1. reduced' = reduced BY <2>2 DEF StartPass
    <3>2. CASE q = r /\ c = b
      <4>1. blk[r][b] = "start_sync" BY <2>2 DEF StartPass
      <4>2. reduced[r][b].pos = 0 BY <4>1 DEF IInv, WarpState
      <4> QED BY <3>1, <3>2, <4>2
    <3>3. CASE ~(q = r /\ c = b)
      <4>1. blk'[q][c] = blk[q][c] BY <3>3, <2>0, <2>2 DEF StartPass
      <4> QED BY <3>1, <4>1, <1>2 DEF Working
    <3> QED BY <3>2, <3>3
  <2>3. CASE EndArrive(r, b)
    <3>1. reduced' = reduced BY <2>3 DEF EndArrive
    <3>2. Working(q, c) BY <1>2, <2>0, <2>3 DEF EndArrive, Working
    <3> QED BY <3>1, <3>2
  <2>4. CASE b = 0 /\ Handshake(r)
    <3>1. reduced' = reduced BY <2>4 DEF Handshake
    <3>2. Working(q, c) BY <1>2, <2>0, <2>4 DEF Handshake, Working
    <3> QED BY <3>1, <3>2
  <2> QED BY <2>1, <2>2, <2>3, <2>4
<1> QED BY <1>1, <1>2, DataFrame

LEMMA CommDoneData ==
    ASSUME IInv, BarriersHold, CountInv, DataInv, NEW r \in Ranks, CommDone(r)
    PROVE  DataInv'
<1>1. UNCHANGED <<wire, signal, slot, output, wrong, reduced>>
  BY DEF CommDone, network, consume
<1>2. /\ \A q \in Ranks, c \in Blocks : blk'[q][c] = IF q = r THEN "done" ELSE blk[q][c]
      /\ \A q \in Ranks : commPc'[q] = IF q = r THEN "wait" ELSE commPc[q]
      /\ \A q \in Ranks : commFwd'[q] = IF q = r THEN commFwd[q] + 1 ELSE commFwd[q]
  BY DEF CommDone, IInv, TypeOK, CtaTypes, HostTypes
<1>3. ASSUME NEW c \in Blocks
      PROVE  /\ blk[r][c] = "end_sync" /\ Synced(r, c)
             /\ arrived[r][c] = 2 * commFwd[r] + 2 /\ commFwd[r] \in Nat
  <2>1. blk[r][c] = "end_sync" /\ Synced(r, c) BY DEF CommDone
  <2> QED BY <2>1, CtaFacts DEF ArrivedNow
<1>4. WireCurrent'
  <2> SUFFICES ASSUME NEW q \in Ranks, NEW c \in Blocks, NEW d \in OtherNodes(q)
               PROVE  WireHolds(q, c, d)'
    BY DEF WireCurrent
  <2>1. CASE q # r
    <3>1. WireHolds(q, c, d) BY DEF DataInv, WireCurrent
    <3> QED BY <2>1, <3>1, <1>1, <1>2 DEF WireHolds, Before
  <2>2. CASE q = r
    <3>1. wire[r][c][d] = <<>>
      <4> SUFFICES ASSUME wire[r][c][d] # <<>> PROVE FALSE OBVIOUS
      <4>1. /\ commFwd[RailRank(r, d)] = commFwd[r]
            /\ blk[RailRank(r, d)][c] # "end_sync"
        BY <2>2, WireBusy
      <4>2. RailRank(r, d) \in Ranks BY <2>2, OtherFacts
      <4>3. arrived[RailRank(r, d)][c] >= 2 * commFwd[r] + 2
        BY <1>3, <4>2 DEF Synced
      <4>4. /\ arrived[RailRank(r, d)][c]
                 = 2 * commFwd[RailRank(r, d)] + ArrivedNow(RailRank(r, d), c)
            /\ ArrivedNow(RailRank(r, d), c) \in 0..2
            /\ ArrivedNow(RailRank(r, d), c) = 2 => blk[RailRank(r, d)][c] = "end_sync"
        BY <4>2, CtaFacts
      <4> QED BY <4>1, <4>3, <4>4, <1>3
    <3>2. Len(wire'[q][c][d]) = 0 BY <3>1, <2>2, <1>1
    <3>3. 1..Len(wire'[q][c][d]) = {} BY <3>2
    <3> QED BY <3>3 DEF WireHolds
  <2> QED BY <2>1, <2>2
<1>5. SlotsCurrent'
  <2> SUFFICES ASSUME NEW q \in Ranks, NEW c \in Blocks, NEW s \in OtherNodes(q)
               PROVE  SlotHolds(q, c, s)'
    BY DEF SlotsCurrent
  <2>1. CASE q # r
    <3>1. SlotHolds(q, c, s) BY DEF DataInv, SlotsCurrent
    <3> QED BY <2>1, <3>1, <1>1, <1>2 DEF SlotHolds, Before
  <2>2. CASE q = r
    <3>1. commFwd[r] + 1 \in Nat /\ arrived[r][c] <= 2 * (commFwd[r] + 1) BY <1>3
    <3>2. signal[r][c][s] <= (commFwd[r] + 1) * NChunks(c)
      BY <2>2, <3>1, SignalBound
    <3>3. Before(r, c)' = (commFwd[r] + 1) * NChunks(c) BY <1>2 DEF Before
    <3>4. (commFwd[r] + 1) * NChunks(c) \in Nat BY <3>1, Times
    <3>5. signal'[r][c][s] \in Nat /\ signal'[r][c][s] = signal[r][c][s]
      BY <2>2, <1>1, CountTypes DEF OtherNodes
    <3>6. \A i \in Nat : ~(Before(r, c)' + i < signal'[r][c][s])
      <4> DEFINE n == (commFwd[r] + 1) * NChunks(c)
                 g == signal[r][c][s]
      <4>1. g <= n /\ n \in Nat /\ g \in Nat BY <3>2, <3>4, <3>5
      <4>2. Before(r, c)' = n /\ signal'[r][c][s] = g BY <3>3, <3>5
      <4> HIDE DEF n, g
      <4> QED BY <4>1, <4>2
    <3> QED BY <2>2, <3>6 DEF SlotHolds
  <2> QED BY <2>1, <2>2
<1>6. OutputCurrent'
  <2> SUFFICES ASSUME NEW q \in Ranks
               PROVE  OutputComplete(q)' /\ \A c \in Blocks : OutputHolds(q, c)'
    BY DEF OutputCurrent
  <2>1. CASE q # r
    <3>1. OutputComplete(q)'
      BY <2>1, <1>1, <1>2 DEF DataInv, OutputCurrent, OutputComplete
    <3>2. ASSUME NEW c \in Blocks PROVE OutputHolds(q, c)'
      <4>1. Working(q, c)' => Working(q, c) BY <1>2 DEF Working
      <4>2. OutputHolds(q, c) BY DEF DataInv, OutputCurrent
      <4> QED BY <2>1, <1>1, <1>2, <4>1, <4>2 DEF OutputHolds
    <3> QED BY <3>1, <3>2
  <2>2. CASE q = r
    <3>1. ASSUME NEW t \in Tiles PROVE output[r][t] = commFwd[r] + 1
      <4>1. PICK c \in Blocks : \E i \in 0..(NChunks(c) - 1) : t \in ChunkOf(ChunkAt(c, i))
        BY TilesCovered
      <4>2. PICK i \in 0..(NChunks(c) - 1) : t \in ChunkOf(ChunkAt(c, i)) BY <4>1
      <4>3. blk[r][c] = "end_sync" BY <1>3
      <4>4. reduced[r][c].pos = NChunks(c) /\ Working(r, c)
        BY <4>3 DEF IInv, WarpState, Working
      <4>5. i \in Nat /\ i < reduced[r][c].pos BY <4>4, ChunkFacts
      <4>6. OutputHolds(r, c) BY DEF DataInv, OutputCurrent
      <4> QED BY <4>2, <4>4, <4>5, <4>6 DEF OutputHolds
    <3>2. OutputComplete(r)' BY <3>1, <1>1, <1>2 DEF OutputComplete
    <3>3. \A c \in Blocks : OutputHolds(r, c)' BY <1>2 DEF OutputHolds, Working
    <3> QED BY <2>2, <3>2, <3>3
  <2> QED BY <2>1, <2>2
<1> QED BY <1>1, <1>4, <1>5, <1>6 DEF DataInv, OutputsCurrent

LEMMA SendPutData ==
    ASSUME IInv, OrderInv, CountInv, DataInv, NEW r \in Ranks, NEW b \in Blocks,
           SendPut(r, b)
    PROVE  DataInv'
<1> DEFINE to == SendNode(r, sent[r][b])
           k == sent[r][b] \div (NNodes - 1)
           new == SendData(r, b)
<1>1. /\ UNCHANGED <<signal, slot, output, commFwd, commPc, wrong, reduced, blk>>
      /\ wire' = [wire EXCEPT ![r][b][to] = Append(@, new)]
      /\ blk[r][b] = "run" /\ ChunkReady(r, to, SendChunk(b, sent[r][b]))
  BY DEF SendPut, SendData, stream, consume
<1>2. wire \in [Ranks -> [Blocks -> [Nodes -> Seq(Puts)]]] /\ sent[r][b] \in Nat
  BY CtaFacts DEF IInv, TypeOK, DataTypes
<1>3. to \in OtherNodes(r) /\ to \in Nodes /\ k \in Nat
      /\ SentTo(r, to, sent[r][b]) = k
  BY <1>2, SendFacts DEF OtherNodes
<1>4. new = [t \in ChunkOf(ChunkAt(b, k)) |-> commFwd[r] + 1]
  <2>1. SendChunk(b, sent[r][b]) = ChunkOf(ChunkAt(b, k)) BY DEF SendChunk
  <2>2. ResetDone(r) = commFwd[r] + 1 BY <1>1, CtaFacts
  <2>3. \A t \in ChunkOf(ChunkAt(b, k)) : published[r][<<to, t>>] = commFwd[r] + 1
    BY <1>1, <2>1, <2>2 DEF ChunkReady, OrderInv, FlagsAreCurrent
  <2>4. new = [t \in ChunkOf(ChunkAt(b, k)) |-> published[r][<<to, t>>]]
    BY <2>1 DEF SendData
  <2> HIDE DEF new, to, k
  <2> QED BY <2>3, <2>4
<1>5. PutsTo(r, b, to) = Before(r, b) + k
  <2>1. b \in OnSM(r) BY <1>1 DEF OnSM
  <2> QED BY <2>1, <1>3 DEF PutsTo, Before
<1> HIDE DEF to, k, new
<1>6. WireCurrent'
  <2> SUFFICES ASSUME NEW q \in Ranks, NEW c \in Blocks, NEW d \in OtherNodes(q)
               PROVE  WireHolds(q, c, d)'
    BY DEF WireCurrent
  <2>1. WireHolds(q, c, d) BY DEF DataInv, WireCurrent
  <2>2. CASE q = r /\ c = b /\ d = to
    <3> DEFINE w == wire[r][b][to]
               g == signal[RailRank(r, to)][b][NodeOf(r)]
    <3>1. w \in Seq(Puts) /\ wire'[r][b][to] = Append(w, new) BY <1>1, <1>2, <1>3
    <3>2. g + Len(w) = Before(r, b) + k
      BY <1>3, <1>5 DEF CountInv, PutsCounted
    <3>3. g \in Nat
      <4>1. RailRank(r, to) \in Ranks /\ NodeOf(r) \in Nodes BY <1>3, OtherFacts
      <4> QED BY <4>1, CountTypes
    <3>4. Before(r, b) \in Nat BY BeforeFacts
    <3>5. Before(r, b)' = Before(r, b) BY <1>1 DEF Before
    <3>6. \A j \in 1..Len(w), i \in Nat :
            Before(r, b) + i + 1 = g + j =>
                w[j] = [t \in ChunkOf(ChunkAt(b, i)) |-> commFwd[r] + 1]
      BY <2>1, <2>2 DEF WireHolds
    <3>7. signal' = signal /\ commFwd' = commFwd BY <1>1
    <3> HIDE DEF w, g
    <3>8. ASSUME NEW j \in 1..Len(Append(w, new)), NEW i \in Nat,
                 Before(r, b) + i + 1 = g + j
          PROVE  Append(w, new)[j] = [t \in ChunkOf(ChunkAt(b, i)) |-> commFwd[r] + 1]
      <4>1. /\ Len(w) \in Nat /\ Len(Append(w, new)) = Len(w) + 1
            /\ j <= Len(w) => Append(w, new)[j] = w[j]
            /\ Append(w, new)[Len(w) + 1] = new
        BY <3>1
      <4>2. CASE j <= Len(w)
        <5>1. j \in 1..Len(w) BY <4>1, <4>2
        <5> QED BY <5>1, <4>1, <4>2, <3>6, <3>8
      <4>3. CASE ~(j <= Len(w))
        <5>1. j = Len(w) + 1 BY <4>1, <4>3
        <5>2. i = k BY <5>1, <3>2, <3>3, <3>4, <3>8, <4>1, <1>3
        <5> QED BY <5>1, <5>2, <4>1, <1>4
      <4> QED BY <4>2, <4>3
    <3> QED BY <2>2, <3>1, <3>5, <3>7, <3>8 DEF WireHolds, g
  <2>3. CASE ~(q = r /\ c = b /\ d = to)
    <3>1. d \in Nodes BY DEF OtherNodes
    <3>2. wire'[q][c][d] = wire[q][c][d] BY <2>3, <3>1, <1>1, <1>2, <1>3
    <3> QED BY <2>1, <3>2, <1>1 DEF WireHolds, Before
  <2> QED BY <2>2, <2>3
<1>7. SlotsCurrent' BY <1>1, SlotFrame DEF DataInv
<1>8. OutputCurrent'
  <2>1. \A q \in Ranks, c \in Blocks : Working(q, c)' => Working(q, c)
    BY <1>1 DEF Working
  <2> QED BY <1>1, <2>1, OutputFrame DEF DataInv
<1> QED BY <1>1, <1>6, <1>7, <1>8 DEF DataInv, OutputsCurrent

LEMMA GinDeliverData ==
    ASSUME IInv, OrderInv, CountInv, DataInv, NEW r \in Ranks, NEW b \in Blocks,
           NEW d \in Nodes, GinDeliver(r, b, d)
    PROVE  DataInv'
<1> DEFINE dst == RailRank(r, d)
           own == NodeOf(r)
           w == wire[r][b][d]
           g == signal[dst][b][own]
<1>1. UNCHANGED <<output, commFwd, commPc, wrong, reduced, blk>>
  BY DEF GinDeliver, stream, consume
<1>2. d \in OtherNodes(r) /\ Len(w) > 0 /\ w \in Seq(Puts) BY DeliverFacts
<1>3. dst \in Ranks /\ own \in OtherNodes(dst) /\ own \in Nodes BY <1>2, OtherFacts
<1>4. /\ \A q \in Ranks, c \in Blocks, e \in Nodes :
            /\ wire'[q][c][e] = IF q = r /\ c = b /\ e = d THEN Tail(wire[q][c][e])
                                                          ELSE wire[q][c][e]
            /\ signal'[q][c][e] = IF q = dst /\ c = b /\ e = own
                                  THEN signal[q][c][e] + 1 ELSE signal[q][c][e]
      /\ \A q \in Ranks, c \in Blocks : \A e \in OtherNodes(q) :
            RailRank(q, e) = dst /\ c = b /\ NodeOf(q) = own
                <=> q = r /\ c = b /\ e = d
  BY DeliverFacts
<1>5. g \in Nat BY <1>3, CountTypes
<1>6. w # <<>> BY DEF GinDeliver
<1>7. commFwd[dst] = commFwd[r]
  BY <1>2, <1>6, WireBusy DEF OrderInv
<1>8. Before(dst, b) = Before(r, b) /\ Before(r, b) \in Nat
  BY <1>3, <1>7, BeforeFacts DEF Before
<1>9. Before(dst, b) <= g
  <2>1. shadow[dst][b][own] = Taken(dst, b) /\ shadow[dst][b][own] <= g
    BY <1>3 DEF CountInv, ShadowsCounted
  <2>2. Taken(dst, b) >= Before(dst, b) /\ Taken(dst, b) \in Nat
    BY <1>3, TakenBounds DEF Before
  <2> QED BY <2>1, <2>2, <1>5, <1>8
<1> DEFINE k == g - Before(r, b)
           put == Head(w)
<1>10. k \in Nat /\ Before(r, b) + k = g BY <1>5, <1>8, <1>9
<1>11. \A j \in 1..Len(w), i \in Nat :
         Before(r, b) + i + 1 = g + j =>
             w[j] = [t \in ChunkOf(ChunkAt(b, i)) |-> commFwd[r] + 1]
  BY <1>2 DEF DataInv, WireCurrent, WireHolds
<1>12. put = [t \in ChunkOf(ChunkAt(b, k)) |-> commFwd[r] + 1]
  <2>1. put = w[1] /\ 1 \in 1..Len(w)
    <3> HIDE DEF w
    <3> QED BY <1>2, <1>6
  <2> HIDE DEF w, g, k, put
  <2>2. Before(r, b) + k + 1 = g + 1 BY <1>10, <1>8, <1>5
  <2> QED BY <2>1, <2>2, <1>10, <1>11
<1>13. slot' = [slot EXCEPT ![dst][own] =
                   [t \in Tiles |-> IF t \in DOMAIN put THEN put[t] ELSE @[t]]]
  BY DEF GinDeliver
<1>14. slot \in [Ranks -> [Nodes -> [Tiles -> Forwards]]] BY DEF IInv, TypeOK, DataTypes
<1>15. \A c \in Blocks : Before(r, c)' = Before(r, c) BY <1>1 DEF Before
<1>16. WireCurrent'
  <2> SUFFICES ASSUME NEW q \in Ranks, NEW c \in Blocks, NEW e \in OtherNodes(q)
               PROVE  WireHolds(q, c, e)'
    BY DEF WireCurrent
  <2>1. WireHolds(q, c, e) BY DEF DataInv, WireCurrent
  <2>2. /\ e \in Nodes /\ RailRank(q, e) \in Ranks /\ NodeOf(q) \in Nodes BY OtherFacts
  <2>3. CASE q = r /\ c = b /\ e = d
    <3>1. wire'[r][b][d] = Tail(w) /\ signal'[dst][b][own] = g + 1
      BY <1>2, <1>3, <1>4, <2>3, <2>2
    <3> HIDE DEF w, g, dst, own
    <3>2. ASSUME NEW j \in 1..Len(Tail(w)), NEW i \in Nat,
                 Before(r, b) + i + 1 = g + 1 + j
          PROVE  Tail(w)[j] = [t \in ChunkOf(ChunkAt(b, i)) |-> commFwd[r] + 1]
      <4>1. Len(Tail(w)) = Len(w) - 1 /\ Len(w) \in Nat /\ Tail(w)[j] = w[j + 1]
        BY <1>2, <1>6
      <4>2. j + 1 \in 1..Len(w) BY <4>1
      <4>3. Before(r, b) + i + 1 = g + (j + 1) BY <3>2, <1>5, <1>8
      <4> QED BY <4>1, <4>2, <4>3, <1>11
    <3> QED BY <2>3, <3>1, <3>2, <1>1, <1>15 DEF WireHolds, dst, own
  <2>4. CASE ~(q = r /\ c = b /\ e = d)
    <3>1. wire'[q][c][e] = wire[q][c][e] BY <2>2, <2>4, <1>4
    <3>2. ~(RailRank(q, e) = dst /\ c = b /\ NodeOf(q) = own) BY <2>4, <1>4
    <3>3. signal'[RailRank(q, e)][c][NodeOf(q)] = signal[RailRank(q, e)][c][NodeOf(q)]
      BY <2>2, <3>2, <1>4
    <3> QED BY <2>1, <3>1, <3>3, <1>1 DEF WireHolds, Before
  <2> QED BY <2>3, <2>4
<1> HIDE DEF dst, own, w, g, k, put
<1>17. SlotsCurrent'
  <2> SUFFICES ASSUME NEW q \in Ranks, NEW c \in Blocks, NEW s \in OtherNodes(q)
               PROVE  SlotHolds(q, c, s)'
    BY DEF SlotsCurrent
  <2>1. SlotHolds(q, c, s) BY DEF DataInv, SlotsCurrent
  <2>2. s \in Nodes BY DEF OtherNodes
  <2>3. CASE q = dst /\ s = own
    <3>1. slot'[dst][own] = [t \in Tiles |-> IF t \in DOMAIN put THEN put[t]
                                                               ELSE slot[dst][own][t]]
      BY <1>3, <1>13, <1>14
    <3>2. DOMAIN put = ChunkOf(ChunkAt(b, k))
          /\ \A t \in ChunkOf(ChunkAt(b, k)) : put[t] = commFwd[r] + 1
      BY <1>12
    <3>3. \A t \in Tiles : /\ t \in ChunkOf(ChunkAt(b, k)) => slot'[dst][own][t] = commFwd[r] + 1
                           /\ \/ slot'[dst][own][t] = commFwd[r] + 1
                              \/ slot'[dst][own][t] = slot[dst][own][t]
      BY <3>1, <3>2
    <3>4. \A i : ChunkOf(ChunkAt(c, i)) \subseteq Tiles BY ChunkFacts
    <3>5. ASSUME NEW i \in Nat, Before(dst, c) + i < signal'[dst][c][own],
                 NEW t \in ChunkOf(ChunkAt(c, i))
          PROVE  slot'[dst][own][t] = commFwd[dst] + 1
      <4>0. t \in Tiles BY <3>4
      <4>1. CASE Before(dst, c) + i < signal[dst][c][own]
        <5>1. slot[dst][own][t] = commFwd[dst] + 1
          BY <2>1, <2>3, <4>1 DEF SlotHolds
        <5> QED BY <5>1, <4>0, <3>3, <1>7
      <4>2. CASE ~(Before(dst, c) + i < signal[dst][c][own])
        <5>1. c = b
          <6> SUFFICES ASSUME c # b PROVE FALSE OBVIOUS
          <6>1. signal'[dst][c][own] = signal[dst][c][own] BY <1>3, <1>4
          <6> QED BY <6>1, <4>2, <3>5
        <5>2. signal'[dst][c][own] = g + 1 /\ signal[dst][c][own] = g
          BY <5>1, <1>3, <1>4 DEF g
        <5>3. i = k
          BY <5>1, <5>2, <4>2, <3>5, <1>5, <1>8, <1>10
        <5> QED BY <5>1, <5>3, <4>0, <3>3, <1>7
      <4> QED BY <4>1, <4>2
    <3>6. Before(dst, c)' = Before(dst, c) BY <1>1 DEF Before
    <3> QED BY <2>3, <3>5, <3>6, <1>1 DEF SlotHolds
  <2>4. CASE ~(q = dst /\ s = own)
    <3>1. slot'[q][s] = slot[q][s] BY <2>2, <2>4, <1>3, <1>13, <1>14
    <3>2. signal'[q][c][s] = signal[q][c][s] BY <2>2, <2>4, <1>4
    <3> QED BY <2>1, <3>1, <3>2, <1>1 DEF SlotHolds, Before
  <2> QED BY <2>3, <2>4
<1>18. OutputCurrent'
  <2>1. \A q \in Ranks, c \in Blocks : Working(q, c)' => Working(q, c)
    BY <1>1 DEF Working
  <2> QED BY <1>1, <2>1, OutputFrame DEF DataInv
<1> QED BY <1>1, <1>16, <1>17, <1>18 DEF DataInv, OutputsCurrent

LEMMA WorkerWaitData ==
    ASSUME IInv, DataInv, NEW r \in Ranks, NEW b \in Blocks, WorkerWait(r, b)
    PROVE  DataInv'
<1>1. UNCHANGED <<wire, signal, slot, output, commFwd, commPc, wrong, blk>>
  BY DEF WorkerWait, network, consume, stream
<1>2. \A q \in Ranks, c \in Blocks : reduced'[q][c].pos = reduced[q][c].pos
  <2> TAKE q \in Ranks, c \in Blocks
  <2>1. CASE q = r /\ c = b
    <3>1. reduced'[q][c] = [pos |-> reduced[q][c].pos, got |-> TRUE]
      BY <2>1 DEF WorkerWait, IInv, TypeOK, CtaTypes
    <3> QED BY ONLY <3>1
  <2>2. CASE ~(q = r /\ c = b)
    <3>1. reduced'[q][c] = reduced[q][c] BY <2>2 DEF WorkerWait, IInv, TypeOK, CtaTypes
    <3> QED BY ONLY <3>1
  <2> QED BY <2>1, <2>2
<1>3. \A q \in Ranks, c \in Blocks : Working(q, c)' => Working(q, c)
  BY <1>1 DEF Working
<1> QED BY <1>1, <1>2, <1>3, DataFrame

\* What the workers add up is of the forward the rank is in.
LEMMA SumCurrent ==
    ASSUME IInv, OrderInv, CountInv, DataInv, NEW r \in Ranks, NEW b \in Blocks,
           blk[r][b] = "run", reduced[r][b].got,
           NEW t \in ChunkOf(ChunkAt(b, reduced[r][b].pos))
    PROVE  SumOf(r, t) = commFwd[r] + 1
<1> DEFINE i == reduced[r][b].pos
<1>1. i \in Nat /\ Working(r, b) /\ b \in OnSM(r) BY CtaFacts DEF Working, OnSM
<1>2. published[r][<<NodeOf(r), t>>] = commFwd[r] + 1
  <2>1. ChunkReady(r, NodeOf(r), ChunkOf(ChunkAt(b, i)))
    BY <1>1 DEF OrderInv, ReducedAfterLaunch
  <2>2. ResetDone(r) = commFwd[r] + 1 BY CtaFacts
  <2> QED BY <2>1, <2>2 DEF ChunkReady, OrderInv, FlagsAreCurrent
<1>3. ASSUME NEW s \in OtherNodes(r) PROVE slot[r][s][t] = commFwd[r] + 1
  <2>1. Taken(r, b) = Before(r, b) + (i + 1) BY <1>1 DEF Taken, Before
  <2>2. shadow[r][b][s] = Taken(r, b) /\ shadow[r][b][s] <= signal[r][b][s]
    BY DEF CountInv, ShadowsCounted
  <2>3. signal[r][b][s] \in Nat /\ Before(r, b) \in Nat
    BY CountTypes, BeforeFacts DEF OtherNodes
  <2> HIDE DEF i
  <2>4. Before(r, b) + i < signal[r][b][s] BY <2>1, <2>2, <2>3, <1>1
  <2>5. SlotHolds(r, b, s) BY DEF DataInv, SlotsCurrent
  <2>6. t \in ChunkOf(ChunkAt(b, i)) BY DEF i
  <2> QED BY <2>4, <2>5, <2>6, <1>1 DEF SlotHolds
<1> QED BY <1>2, <1>3 DEF SumOf

LEMMA WorkerReduceData ==
    ASSUME IInv, OrderInv, CountInv, DataInv, NEW r \in Ranks, NEW b \in Blocks,
           WorkerReduce(r, b)
    PROVE  DataInv'
<1> DEFINE pos == reduced[r][b].pos
           chunk == ChunkOf(ChunkAt(b, pos))
<1>1. UNCHANGED <<wire, signal, slot, commFwd, commPc, wrong, blk>>
  BY DEF WorkerReduce, network, consume, stream
<1>2. /\ blk[r][b] = "run" /\ reduced[r][b].got
      /\ output' = [output EXCEPT ![r] =
                        [t \in Tiles |-> IF t \in chunk THEN SumOf(r, t) ELSE @[t]]]
      /\ reduced' = [reduced EXCEPT ![r][b] = [pos |-> pos + 1, got |-> FALSE]]
  BY DEF WorkerReduce
<1>3. pos \in Nat BY CtaFacts
<1>4. /\ \A q \in Ranks : q # r => output'[q] = output[q]
      /\ \A t \in Tiles : output'[r][t] = IF t \in chunk THEN SumOf(r, t) ELSE output[r][t]
  <2>1. output \in [Ranks -> [Tiles -> Forwards]] BY DEF IInv, TypeOK, DataTypes
  <2> HIDE DEF chunk
  <2> QED BY <1>2, <2>1
<1>5. \A t \in chunk : SumOf(r, t) = commFwd[r] + 1 BY <1>2, SumCurrent
<1>6. ASSUME NEW q \in Ranks, NEW c \in Blocks
      PROVE  reduced'[q][c].pos = IF q = r /\ c = b THEN pos + 1 ELSE reduced[q][c].pos
  <2>0. reduced \in [Ranks -> [Blocks -> [pos : Nat, got : BOOLEAN]]]
    BY DEF IInv, TypeOK, CtaTypes
  <2> HIDE DEF pos
  <2>1. CASE q = r /\ c = b
    <3>1. reduced'[q][c] = [pos |-> pos + 1, got |-> FALSE] BY <1>2, <2>0, <2>1
    <3> QED BY <2>1, <3>1
  <2>2. CASE ~(q = r /\ c = b)
    <3>1. reduced'[q][c] = reduced[q][c] BY <1>2, <2>0, <2>2
    <3> QED BY <2>2, <3>1
  <2> QED BY <2>1, <2>2
<1> HIDE DEF pos, chunk
<1>7. OutputCurrent'
  <2> SUFFICES ASSUME NEW q \in Ranks
               PROVE  OutputComplete(q)' /\ \A c \in Blocks : OutputHolds(q, c)'
    BY DEF OutputCurrent
  <2>1. CASE q # r
    <3>1. OutputComplete(q)' BY <2>1, <1>1, <1>4 DEF DataInv, OutputCurrent, OutputComplete
    <3>2. ASSUME NEW c \in Blocks PROVE OutputHolds(q, c)'
      <4>1. OutputHolds(q, c) BY DEF DataInv, OutputCurrent
      <4>2. Working(q, c)' <=> Working(q, c) BY <1>1 DEF Working
      <4>3. reduced'[q][c].pos = reduced[q][c].pos BY <2>1, <1>6
      <4> QED BY <2>1, <4>1, <4>2, <4>3, <1>1, <1>4 DEF OutputHolds
    <3> QED BY <3>1, <3>2
  <2>2. CASE q = r
    <3>1. OutputComplete(r)'
      <4>1. commPc[r] # "wait" BY <1>2 DEF IInv, ControlState
      <4> QED BY <4>1, <1>1 DEF OutputComplete
    <3>2. ASSUME NEW c \in Blocks PROVE OutputHolds(r, c)'
      <4>1. OutputHolds(r, c) BY DEF DataInv, OutputCurrent
      <4>2. Working(r, c)' <=> Working(r, c) BY <1>1 DEF Working
      <4>3. ASSUME NEW i \in Nat, Working(r, c), i < reduced'[r][c].pos,
                   NEW t \in ChunkOf(ChunkAt(c, i))
            PROVE  output'[r][t] = commFwd[r] + 1
        <5>0. t \in Tiles BY ChunkFacts
        <5>1. CASE t \in chunk BY <5>0, <5>1, <1>4, <1>5
        <5>2. CASE t \notin chunk
          <6>1. i < reduced[r][c].pos
            <7>1. CASE c = b
              <8>1. i # pos BY <5>2, <7>1 DEF chunk
              <8>2. i < pos + 1 BY <7>1, <4>3, <1>6
              <8>3. i < pos BY <8>1, <8>2, <1>3
              <8> QED BY <8>3, <7>1 DEF pos
            <7>2. CASE c # b BY <7>2, <4>3, <1>6
            <7> QED BY <7>1, <7>2
          <6>2. output[r][t] = commFwd[r] + 1 BY <6>1, <4>1, <4>3 DEF OutputHolds
          <6> QED BY <5>0, <5>2, <6>2, <1>4
        <5> QED BY <5>1, <5>2
      <4> QED BY <4>2, <4>3, <1>1 DEF OutputHolds
    <3> QED BY <2>2, <3>1, <3>2
  <2> QED BY <2>1, <2>2
<1>8. WireCurrent' BY <1>1, WireFrame DEF DataInv
<1>9. SlotsCurrent' BY <1>1, SlotFrame DEF DataInv
<1> QED BY <1>1, <1>7, <1>8, <1>9 DEF DataInv, OutputsCurrent

LEMMA NextData ==
    IInv /\ OrderInv /\ CountInv /\ DataInv /\ [Next]_vars => DataInv'
<1> SUFFICES ASSUME IInv, OrderInv, CountInv, DataInv, [Next]_vars PROVE DataInv' OBVIOUS
<1>1. CASE Next
  <2> PICK r \in Ranks : \/ Compute(r) \/ CommLaunch(r) \/ Handshake(r) \/ CommDone(r)
                         \/ \E b \in Blocks : Block(r, b)
    BY <1>1 DEF Next
  <2>1. CASE Compute(r) BY <2>1, GemmData, ConsumeData DEF Compute
  <2>2. CASE CommLaunch(r) BY <2>2, CommLaunchData
  <2>3. CASE Handshake(r)
    <3>1. 0 \in Blocks BY Consts DEF Blocks
    <3> QED BY <2>3, <3>1, CtaMovesData
  <2>4. CASE CommDone(r) BY <2>4, CommDoneData DEF OrderInv
  <2>5. ASSUME NEW b \in Blocks, Block(r, b) PROVE DataInv'
    BY <2>5, CtaMovesData, SendPutData, GinDeliverData, WorkerWaitData, WorkerReduceData
    DEF Block
  <2> QED BY <2>1, <2>2, <2>3, <2>4, <2>5
<1>2. CASE UNCHANGED vars
  <2>1. UNCHANGED <<wire, signal, slot, output, commFwd, commPc, wrong, blk, reduced>>
    BY <1>2 DEF vars
  <2>2. \A q \in Ranks, c \in Blocks : Working(q, c)' => Working(q, c)
    BY <2>1 DEF Working
  <2> QED BY <2>1, <2>2, DataFrame
<1> QED BY <1>1, <1>2

\* Whatever a rank reads as its output, at any time, is the sum over the nodes of its own
\* forward: put, signalled, waited for, reduced and not yet overwritten.
THEOREM OutputsAreCurrent == Safe => []OutputsCurrent
<1>1. Init => IInv /\ OrderInv /\ CountInv /\ DataInv
  BY InitIInv, InitOrder, InitCount, InitData
<1>2. IInv /\ OrderInv /\ CountInv /\ DataInv /\ [Next]_vars
        => (IInv /\ OrderInv /\ CountInv /\ DataInv)'
  BY NextIInv, NextOrder, NextCount, NextData
<1>3. DataInv => OutputsCurrent BY DEF DataInv
<1> QED BY <1>1, <1>2, <1>3, PTL DEF Safe
=============================================================================
