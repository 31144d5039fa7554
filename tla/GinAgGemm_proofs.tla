--------------------------- MODULE GinAgGemm_proofs ---------------------------
(***************************************************************************)
(* The safety properties of GinAgGemm and its refinement of the abstract   *)
(* barrier, for every number of nodes, GPUs, CTAs, chunks, tile sizes and  *)
(* forwards.                                                               *)
(*                                                                         *)
(* Part one: TypeOK and ResidentBeforeGemm.  IInv adds to them where the   *)
(* streams are (ControlState), how often each CTA has arrived at the world *)
(* barrier (ArrivalsCountForwards), and that resident_count counts the     *)
(* CTAs that have started (ResidentCounts).                                *)
(*                                                                         *)
(* Part two: order, OrderInv and the refinement.  Part three: the data,    *)
(* SignalsCount and DataInv.                                               *)
(***************************************************************************)
EXTENDS GinAgGemm, FiniteSetTheorems, TLAPS

-----------------------------------------------------------------------------
(* Arithmetic. *)

LEMMA MulMono == ASSUME NEW x \in Nat, NEW y \in Nat, NEW k \in Nat, x <= y
                 PROVE  x * k <= y * k /\ x * k \in Nat
  OBVIOUS

\* Row-major numbering: y < k in row x < n of k columns is below n * k.
LEMMA RowMajor == ASSUME NEW x \in Nat, NEW y \in Nat, NEW k \in Nat, NEW n \in Nat,
                         x < n, y < k
                  PROVE  x * k + y \in 0..(n * k - 1)
<1>1. (x + 1) * k <= n * k BY MulMono
<1>2. (x + 1) * k = x * k + k OBVIOUS
<1>3. x * k \in Nat /\ n * k \in Nat OBVIOUS
<1> QED BY <1>1, <1>2, <1>3

LEMMA DivMod == ASSUME NEW a \in Int, NEW k \in Nat \ {0}
                PROVE  /\ a \div k \in Int /\ a % k \in 0..(k - 1)
                       /\ a = (a \div k) * k + (a % k)
  OBVIOUS

LEMMA DivLess == ASSUME NEW a \in Nat, NEW k \in Nat \ {0}, NEW n \in Nat, a < n * k
                 PROVE  a \div k \in 0..(n - 1)
<1>1. a \div k \in Int /\ a % k \in 0..(k - 1) /\ a = (a \div k) * k + (a % k) BY DivMod
<1>2. a \div k >= 0 BY <1>1
<1>3. SUFFICES ASSUME a \div k >= n PROVE FALSE BY <1>1, <1>2
<1>4. n * k <= (a \div k) * k BY <1>3, <1>2, <1>1, MulMono
<1> QED BY <1>4, <1>1

-----------------------------------------------------------------------------
(* Every iteration of a warp group's loops names a chunk of the window.    *)

LEMMA SplitFacts ==
    ASSUME NEW b \in Blocks
    PROVE  /\ NSplits(b) \in 1..Chunks
           /\ \A i \in Nat : SplitOf(b, i) \in 0..(Chunks - 1)
<1> DEFINE n == NSplits(b)
<1>1. b \in Nat /\ b < NBlocks /\ NBlocks \in Nat \ {0} /\ Chunks \in Nat \ {0} /\ b < Chunks
  BY ConfigAssumption DEF Blocks
<1> DEFINE a == Chunks - b + NBlocks - 1
<1>2. n \in Int /\ a % NBlocks \in 0..(NBlocks - 1) /\ a = n * NBlocks + (a % NBlocks)
  <2>1. a \in Int /\ n = a \div NBlocks BY <1>1 DEF NSplits
  <2> HIDE DEF a, n
  <2> QED BY <1>1, <2>1, DivMod
<1> HIDE DEF n
<1>3. /\ n \in Int /\ n * NBlocks \in Int
      /\ n * NBlocks <= Chunks - b + NBlocks - 1 /\ n * NBlocks >= Chunks - b
  BY <1>1, <1>2
<1>4. n >= 1
  <2> SUFFICES ASSUME n <= 0 PROVE FALSE BY <1>2
  <2>1. (0 - n) * NBlocks >= 0 /\ (0 - n) * NBlocks = 0 - n * NBlocks BY <1>1, <1>2
  <2> QED BY <2>1, <1>3, <1>2, <1>1
<1>5. n <= Chunks
  <2> SUFFICES ASSUME n >= Chunks + 1 PROVE FALSE BY <1>2, <1>1
  <2>1. (Chunks + 1) * NBlocks <= n * NBlocks BY <1>1, <1>4, <1>2, MulMono
  <2>2. (Chunks + 1) * NBlocks = Chunks * NBlocks + NBlocks BY <1>1
  <2>3. Chunks * 1 <= Chunks * NBlocks /\ Chunks * NBlocks \in Int BY <1>1
  <2> QED BY <2>1, <2>2, <2>3, <1>3, <1>1
<1>6. ASSUME NEW i \in Nat PROVE SplitOf(b, i) \in 0..(Chunks - 1)
  <2>1. i % n \in 0..(n - 1) BY <1>2, <1>4
  <2>2. (i % n) * NBlocks <= (n - 1) * NBlocks BY <2>1, <1>4, <1>2, <1>1, MulMono
  <2>3. (n - 1) * NBlocks = n * NBlocks - NBlocks BY <1>1, <1>2
  <2>4. (i % n) * NBlocks \in Nat BY <2>1, <1>1
  <2>5. SplitOf(b, i) = b + (i % n) * NBlocks BY DEF SplitOf, n
  <2> QED BY <2>2, <2>3, <2>4, <2>5, <1>3, <1>1
<1> QED BY <1>2, <1>4, <1>5, <1>6, <1>1 DEF n

LEMMA RailRankFacts ==
    ASSUME NEW r \in Ranks, NEW node \in 0..(NNodes - 1)
    PROVE  RailRank(r, node) \in Ranks
<1>1. NNodes \in Nat \ {0} /\ NLocal \in Nat \ {0} /\ r \in Nat
  BY ConfigAssumption DEF Ranks
<1>2. LocalOf(r) \in 0..(NLocal - 1) BY <1>1, DivMod DEF LocalOf
<1> QED BY <1>1, <1>2, RowMajor DEF RailRank, Ranks

LEMMA NodeFacts == ASSUME NEW r \in Ranks PROVE NodeOf(r) \in 0..(NNodes - 1)
<1>1. NNodes \in Nat \ {0} /\ NLocal \in Nat \ {0} /\ NNodes * NLocal \in Nat
  BY ConfigAssumption
<1>2. r \in Nat /\ r < NNodes * NLocal BY <1>1 DEF Ranks
<1> QED BY <1>1, <1>2, DivLess DEF NodeOf

LEMMA NextPeerFacts == ASSUME NEW r \in Ranks PROVE NextPeer[r] \in Ranks
<1> DEFINE next == NodeOf(r) + 1
<1>1. next \in Int /\ NNodes \in Nat \ {0} BY NodeFacts, ConfigAssumption
<1>2. NextPeer[r] = RailRank(r, next % NNodes) BY DEF NextPeer
<1> HIDE DEF next
<1>3. next % NNodes \in 0..(NNodes - 1) BY <1>1, DivMod
<1> QED BY <1>2, <1>3, RailRankFacts

LEMMA ChunkOfFacts ==
    ASSUME NEW r \in Ranks, NEW b \in Blocks, NEW i \in 0..(WorkerLength(b) - 1)
    PROVE  ChunkOf[r][b][i] \in ChunkIds
<1>1. NNodes \in Nat \ {0} /\ NLocal \in Nat \ {0} /\ Chunks \in Nat \ {0}
  BY ConfigAssumption
<1>2. NSplits(b) \in 1..Chunks BY SplitFacts
<1>3. NSplits(b) * NNodes <= Chunks * NNodes BY <1>1, <1>2, MulMono
<1>4. WorkerLength(b) = NSplits(b) * NNodes BY <1>1, <1>2 DEF WorkerLength
<1>5. i \in 0..(NNodes * Chunks - 1) BY <1>1, <1>2, <1>3, <1>4
<1> DEFINE back == NodeOf(r) - StepOf(b, i) + NNodes
           node == back % NNodes
<1>6. StepOf(b, i) \in Int BY <1>2, <1>5 DEF StepOf
<1>7. node \in 0..(NNodes - 1)
  <2>1. back \in Int BY NodeFacts, <1>6, <1>1
  <2> HIDE DEF back
  <2> QED BY <2>1, <1>1, DivMod
<1>8. RailRank(r, node) \in Ranks BY <1>7, RailRankFacts
<1>9. SplitOf(b, i) \in 0..(Chunks - 1) BY SplitFacts, <1>5
<1>10. ChunkOf[r][b][i] = RailRank(r, node) * Chunks + SplitOf(b, i)
  BY <1>5 DEF ChunkOf
<1> HIDE DEF node
<1>11. RailRank(r, node) * Chunks + SplitOf(b, i) \in 0..((NNodes * NLocal) * Chunks - 1)
  BY <1>8, <1>9, <1>1, RowMajor DEF Ranks
<1> QED BY <1>10, <1>11 DEF ChunkIds

-----------------------------------------------------------------------------
(* The steps of the program keep IInv. *)

LEMMA LengthFacts ==
    ASSUME NEW b \in Blocks
    PROVE  /\ RingLength(b) \in Nat /\ WorkerLength(b) \in Nat
           /\ RingLength(b) <= WorkerLength(b)
<1>1. NSplits(b) \in Nat /\ NNodes \in Nat /\ NNodes > 1 BY SplitFacts, ConfigAssumption
<1>2. (NNodes - 1) * NSplits(b) <= NNodes * NSplits(b) BY <1>1
<1> QED BY <1>1, <1>2 DEF RingLength, WorkerLength

LEMMA BlocksFinite == IsFiniteSet(Blocks) /\ Cardinality(Blocks) = NBlocks
  BY FS_Interval, ConfigAssumption DEF Blocks

LEMMA InitIInv == Init => IInv
<1> SUFFICES ASSUME Init PROVE IInv OBVIOUS
<1>1. TypeOK BY LengthFacts, ConfigAssumption
             DEF Init, TypeOK, HostTypes, MemoryTypes, CtaTypes, Forwards
<1>2. ControlState BY DEF Init, ControlState
<1>3. ArrivalsCountForwards BY DEF Init, ArrivalsCountForwards, ArrivedNow
<1>4. ResidentCounts /\ ResidentBeforeGemm BY DEF Init, ResidentCounts, ResidentBeforeGemm
<1> QED BY <1>1, <1>2, <1>3, <1>4 DEF IInv

\* What only looks at the host and at blk survives a step that changes neither.
LEMMA CtasUnchanged ==
    ASSUME IInv, UNCHANGED <<commPc, commFwd, resident, producer, blk, arrived>>
    PROVE  ArrivalsCountForwards' /\ ResidentCounts'
<1>1. \A q \in Ranks : Started(q)' = Started(q) BY DEF Started
<1>2. ResidentCounts' BY <1>1 DEF ResidentCounts, IInv
<1>3. ArrivalsCountForwards' BY DEF ArrivalsCountForwards, ArrivedNow, IInv
<1> QED BY <1>2, <1>3

LEMMA ProduceInputIInv == ASSUME IInv, NEW r \in Ranks, ProduceInput(r) PROVE IInv'
<1> USE DEF ProduceInput, compute, control, IInv
<1>1. HostTypes' BY ConfigAssumption DEF TypeOK, HostTypes, Forwards, ControlState
<1>2. MemoryTypes' /\ CtaTypes' BY DEF TypeOK, MemoryTypes, CtaTypes
<1>3. ControlState' BY DEF ControlState, TypeOK, HostTypes
<1>4. ArrivalsCountForwards' /\ ResidentCounts' BY CtasUnchanged
<1>5. ResidentBeforeGemm' BY DEF ResidentBeforeGemm, TypeOK, HostTypes
<1> QED BY <1>1, <1>2, <1>3, <1>4, <1>5 DEF TypeOK

LEMMA GemmStartIInv == ASSUME IInv, NEW r \in Ranks, GemmStart(r) PROVE IInv'
<1> USE DEF GemmStart, compute, control, IInv
<1>1. HostTypes' BY DEF TypeOK, HostTypes
<1>2. MemoryTypes' /\ CtaTypes' BY DEF TypeOK, MemoryTypes, CtaTypes
<1>3. ControlState' BY DEF ControlState, TypeOK, HostTypes
<1>4. ArrivalsCountForwards' /\ ResidentCounts' BY CtasUnchanged
<1>5. \/ commFwd[r] > compFwd[r]
      \/ /\ commPc[r] = "kernel" /\ commFwd[r] = compFwd[r]
         /\ \A b \in Blocks : blk[r][b] # "launch"
  <2>1. CASE commPc[r] = "wait"
    BY <2>1 DEF GemmMayStart, ResetDone
  <2>2. CASE commPc[r] # "wait"
    <3>1. commPc[r] = "kernel" /\ Started(r) = Blocks
      BY <2>2 DEF TypeOK, HostTypes, GemmMayStart, ResidentCounts
    <3>2. commFwd[r] + 1 > compFwd[r] BY <3>1 DEF GemmMayStart, ResetDone
    <3> QED BY <3>1, <3>2 DEF Started, TypeOK, HostTypes, Forwards
  <2> QED BY <2>1, <2>2
<1>6. ResidentBeforeGemm' BY <1>5 DEF ResidentBeforeGemm, TypeOK, HostTypes
<1> QED BY <1>1, <1>2, <1>3, <1>4, <1>6 DEF TypeOK

LEMMA GemmTileIInv == ASSUME IInv, NEW r \in Ranks, NEW t \in Tiles, GemmTile(r, t) PROVE IInv'
<1> USE DEF GemmTile, compute, control, IInv
<1>1. compPc[r] = "gemm" /\ compFwd[r] \in Forwards /\ compFwd[r] + 1 \in Forwards
  BY ConfigAssumption DEF TypeOK, HostTypes, ControlState, Forwards
<1>2. stale' \in [Ranks -> BOOLEAN] BY Zenon DEF TypeOK, HostTypes
<1>3. HostTypes' BY <1>1, <1>2 DEF TypeOK, HostTypes
<1>4. MemoryTypes' /\ CtaTypes' BY DEF TypeOK, MemoryTypes, CtaTypes
<1>5. ControlState' BY <1>1 DEF ControlState, TypeOK, HostTypes
<1>6. ArrivalsCountForwards' /\ ResidentCounts' BY CtasUnchanged
<1>7. ResidentBeforeGemm' BY <1>1 DEF ResidentBeforeGemm, TypeOK, HostTypes
<1> QED BY <1>3, <1>4, <1>5, <1>6, <1>7 DEF TypeOK

LEMMA CommLaunchIInv == ASSUME IInv, NEW r \in Ranks, CommLaunch(r) PROVE IInv'
<1> USE DEF CommLaunch, compute, control, IInv
<1>1. HostTypes' BY DEF TypeOK, HostTypes
<1>2. window' \in [Ranks -> [ChunkIds -> Forwards]]
  BY DEF TypeOK, HostTypes, MemoryTypes
<1>3. MemoryTypes'
  <2>1. resident' \in [Ranks -> 0..NBlocks]
    BY ConfigAssumption DEF TypeOK, MemoryTypes, CountReset
  <2>2. ready' \in [Ranks -> [ChunkIds -> {0, 1}]] BY DEF TypeOK, MemoryTypes
  <2> QED BY <1>2, <2>1, <2>2 DEF TypeOK, MemoryTypes
<1>4. CtaTypes' BY DEF TypeOK, CtaTypes
<1>5. \A q \in Ranks, c \in Blocks :
        blk'[q][c] = IF q = r THEN "launch" ELSE blk[q][c]
  BY DEF TypeOK, CtaTypes
<1>6. \A q \in Ranks : commPc'[q] = IF q = r THEN "kernel" ELSE commPc[q]
  BY DEF TypeOK, HostTypes
<1>7. ControlState' BY <1>5, <1>6 DEF ControlState, TypeOK, HostTypes
<1>8. ArrivalsCountForwards'
  BY <1>5 DEF ArrivalsCountForwards, ArrivedNow, ControlState
<1>9. ResidentCounts'
  <2> SUFFICES ASSUME NEW q \in Ranks, commPc'[q] = "kernel"
               PROVE  /\ resident'[q] = Cardinality(Started(q)')
                      /\ producer'[q] = 1 => Started(q)' = Blocks
    BY DEF ResidentCounts
  <2>1. CASE q = r
    <3>1. Started(q)' = {} BY <1>5, <2>1 DEF Started
    <3>2. resident'[q] = 0 /\ producer'[q] = 0
      BY <2>1 DEF TypeOK, MemoryTypes, CountReset
    <3> QED BY <3>1, <3>2, FS_EmptySet
  <2>2. CASE q # r
    <3>1. Started(q)' = Started(q) BY <1>5, <2>2 DEF Started
    <3>2. resident'[q] = resident[q] /\ producer'[q] = producer[q] /\ commPc[q] = "kernel"
      BY <1>6, <2>2 DEF TypeOK, MemoryTypes
    <3> QED BY <3>1, <3>2 DEF ResidentCounts
  <2> QED BY <2>1, <2>2
<1>10. ResidentBeforeGemm'
  <2>1. compPc[r] # "gemm"
    BY DEF CommMayReset, ComputeDone, ResidentBeforeGemm, TypeOK, HostTypes, Forwards
  <2> QED BY <2>1, <1>5, <1>6 DEF ResidentBeforeGemm
<1> QED BY <1>1, <1>3, <1>4, <1>7, <1>8, <1>9, <1>10 DEF TypeOK

LEMMA CommDoneIInv == ASSUME IInv, NEW r \in Ranks, CommDone(r) PROVE IInv'
<1> USE DEF CommDone, compute, control, IInv
<1>1. commFwd[r] \in Forwards /\ commFwd[r] + 1 \in Forwards
  BY ConfigAssumption DEF TypeOK, HostTypes, ControlState, Forwards
<1>2. HostTypes' BY <1>1 DEF TypeOK, HostTypes
<1>3. MemoryTypes' /\ CtaTypes' BY DEF TypeOK, MemoryTypes, CtaTypes
<1>4. \A q \in Ranks, c \in Blocks :
        blk'[q][c] = IF q = r THEN "done" ELSE blk[q][c]
  BY DEF TypeOK, CtaTypes
<1>5. \A q \in Ranks : /\ commPc'[q] = IF q = r THEN "wait" ELSE commPc[q]
                       /\ commFwd'[q] = IF q = r THEN commFwd[q] + 1 ELSE commFwd[q]
  BY DEF TypeOK, HostTypes
<1>6. ControlState' BY <1>4, <1>5 DEF ControlState, TypeOK, HostTypes
<1>7. ArrivalsCountForwards'
  <2> SUFFICES ASSUME NEW q \in Ranks, NEW c \in Blocks
               PROVE  arrived[q][c] = 2 * commFwd'[q] + ArrivedNow(q, c)'
    BY DEF ArrivalsCountForwards
  <2>1. arrived[q][c] = 2 * commFwd[q] + ArrivedNow(q, c) /\ commFwd[q] \in Nat
    BY ConfigAssumption DEF ArrivalsCountForwards, TypeOK, HostTypes, Forwards
  <2>2. CASE q = r BY <2>1, <2>2, <1>4, <1>5 DEF ArrivedNow
  <2>3. CASE q # r BY <2>1, <2>3, <1>4, <1>5 DEF ArrivedNow
  <2> QED BY <2>2, <2>3
<1>8. ResidentCounts'
  <2>1. \A q \in Ranks : q # r => Started(q)' = Started(q) BY <1>4 DEF Started
  <2> QED BY <2>1, <1>5 DEF ResidentCounts
<1>9. ResidentBeforeGemm'
  <2> SUFFICES ASSUME NEW q \in Ranks, compPc[q] = "gemm"
               PROVE  \/ commFwd'[q] > compFwd[q]
                      \/ /\ commPc'[q] = "kernel" /\ commFwd'[q] = compFwd[q]
                         /\ \A c \in Blocks : blk'[q][c] # "launch"
    BY DEF ResidentBeforeGemm
  <2>1. CASE q # r BY <2>1, <1>4, <1>5 DEF ResidentBeforeGemm
  <2>2. CASE q = r
    <3>1. commFwd[r] >= compFwd[r]
      BY <2>2 DEF ResidentBeforeGemm, TypeOK, HostTypes, Forwards
    <3> QED BY <3>1, <2>2, <1>5 DEF TypeOK, HostTypes, Forwards
  <2> QED BY <2>1, <2>2
<1> QED BY <1>2, <1>3, <1>6, <1>7, <1>8, <1>9 DEF TypeOK

\* The CTAs that have started are known from blk.
LEMMA StartedKept ==
    ASSUME \A q \in Ranks, c \in Blocks : blk'[q][c] = "launch" <=> blk[q][c] = "launch"
    PROVE  \A q \in Ranks : Started(q)' = Started(q)
  BY DEF Started

\* A nested EXCEPT, element by element, and its type.
LEMMA UpdateAt ==
    ASSUME NEW S, NEW f \in [Ranks -> [Blocks -> S]], NEW r \in Ranks, NEW b \in Blocks, NEW v
    PROVE  \A q \in Ranks, c \in Blocks :
              [f EXCEPT ![r][b] = v][q][c] = IF q = r /\ c = b THEN v ELSE f[q][c]
  OBVIOUS

LEMMA UpdateType ==
    ASSUME NEW S, NEW f \in [Ranks -> [Blocks -> S]], NEW r \in Ranks, NEW b \in Blocks,
           NEW v \in S
    PROVE  [f EXCEPT ![r][b] = v] \in [Ranks -> [Blocks -> S]]
  OBVIOUS

\* A step of the worker warps disturbs ControlState in their position alone.
LEMMA WorkerControl ==
    ASSUME ControlState, UNCHANGED <<compPc, compFwd, commPc, commFwd, blk>>,
           \A q \in Ranks, c \in Blocks :
              worker'[q][c].copied => worker'[q][c].pos < WorkerLength(c)
    PROVE  ControlState'
  BY DEF ControlState

LEMMA SeqFacts ==
    ASSUME NEW S, NEW s \in Seq(S)
    PROVE  /\ \A e \in S : Append(s, e) \in Seq(S)
           /\ s # <<>> => Head(s) \in S /\ Tail(s) \in Seq(S)
  OBVIOUS

LEMMA BlockStartIInv == ASSUME IInv, NEW r \in Ranks, NEW b \in Blocks, BlockStart(r, b) PROVE IInv'
<1> USE DEF BlockStart, compute, control, IInv
<1> DEFINE next == IF b = 0 THEN "handshake" ELSE "start_sync"
<1>1. HostTypes' BY DEF TypeOK, HostTypes
<1>2. \A q \in Ranks, c \in Blocks :
        blk'[q][c] = IF q = r /\ c = b THEN next ELSE blk[q][c]
  BY DEF TypeOK, CtaTypes
<1>3. commPc[r] = "kernel" /\ commFwd[r] \in Nat /\ commFwd[r] < MaxForwards
  BY ConfigAssumption DEF TypeOK, HostTypes, ControlState, Forwards
<1>4. arrived[r][b] = 2 * commFwd[r]
  BY <1>3 DEF ArrivalsCountForwards, ArrivedNow
<1>5. \A q \in Ranks, c \in Blocks :
        arrived'[q][c] = IF q = r /\ c = b /\ b # 0 THEN arrived[q][c] + 1 ELSE arrived[q][c]
  BY DEF TypeOK, CtaTypes
<1>6. /\ Started(r)' = Started(r) \cup {b} /\ b \notin Started(r)
      /\ \A q \in Ranks : q # r => Started(q)' = Started(q)
  BY <1>2 DEF Started
<1>7. /\ resident'[r] = resident[r] + 1
      /\ \A q \in Ranks : q # r => resident'[q] = resident[q]
  BY DEF TypeOK, MemoryTypes
<1>8. /\ IsFiniteSet(Started(r)) /\ IsFiniteSet(Started(r) \cup {b})
      /\ Cardinality(Started(r) \cup {b}) <= NBlocks
      /\ Cardinality(Started(r) \cup {b}) = Cardinality(Started(r)) + 1
  <2>1. Started(r) \in SUBSET Blocks /\ Started(r) \cup {b} \in SUBSET Blocks
    BY DEF Started
  <2> QED BY <2>1, <1>6, BlocksFinite, FS_Subset, FS_AddElement
<1>9. resident[r] = Cardinality(Started(r)) BY <1>3 DEF ResidentCounts
<1>10. MemoryTypes'
  <2>1. resident[r] + 1 \in 0..NBlocks
    BY <1>8, <1>9, ConfigAssumption DEF TypeOK, MemoryTypes
  <2> QED BY <2>1 DEF TypeOK, MemoryTypes
<1>11. CtaTypes'
  <2>1. blk' \in [Ranks -> [Blocks -> {"launch", "handshake", "start_sync",
                                     "run", "end_sync", "done"}]]
    BY DEF TypeOK, CtaTypes
  <2>2. arrived[r][b] + 1 \in 0..(2 * MaxForwards) BY <1>3, <1>4, ConfigAssumption
  <2>3. arrived' \in [Ranks -> [Blocks -> 0..(2 * MaxForwards)]]
    BY <2>2 DEF TypeOK, CtaTypes
  <2>4. [pos |-> 0, sig |-> shadow[r][b]] \in [pos : Nat, sig : Nat]
    BY DEF TypeOK, MemoryTypes
  <2>5. ring' \in [Ranks -> [Blocks -> [pos : Nat, sig : Nat]]]
    BY <2>4 DEF TypeOK, CtaTypes
  <2>6. [pos |-> 0, sig |-> shadow[r][b], copied |-> FALSE]
            \in [pos : Nat, sig : Nat, copied : BOOLEAN]
    BY DEF TypeOK, MemoryTypes
  <2>7. worker' \in [Ranks -> [Blocks -> [pos : Nat, sig : Nat, copied : BOOLEAN]]]
    BY <2>6 DEF TypeOK, CtaTypes
  <2>8. \A q \in Ranks, c \in Blocks : /\ ring'[q][c].pos <= RingLength(c)
                                       /\ worker'[q][c].pos <= WorkerLength(c)
    BY LengthFacts DEF TypeOK, CtaTypes
  <2> QED BY <2>1, <2>3, <2>5, <2>7, <2>8 DEF CtaTypes
<1>12. ControlState'
  <2>1. \A q \in Ranks, c \in Blocks :
          worker'[q][c].copied => worker'[q][c].pos < WorkerLength(c)
    BY DEF ControlState, TypeOK, CtaTypes
  <2> QED BY <2>1, <1>2, <1>3 DEF ControlState
<1>13. ArrivalsCountForwards'
  <2> SUFFICES ASSUME NEW q \in Ranks, NEW c \in Blocks
               PROVE  arrived'[q][c] = 2 * commFwd[q] + ArrivedNow(q, c)'
    BY DEF ArrivalsCountForwards
  <2>1. CASE q = r /\ c = b BY <2>1, <1>2, <1>3, <1>4, <1>5 DEF ArrivedNow
  <2>2. CASE ~(q = r /\ c = b)
    BY <2>2, <1>2, <1>5 DEF ArrivedNow, ArrivalsCountForwards
  <2> QED BY <2>1, <2>2
<1>14. ResidentCounts'
  <2> SUFFICES ASSUME NEW q \in Ranks, commPc[q] = "kernel"
               PROVE  /\ resident'[q] = Cardinality(Started(q)')
                      /\ producer[q] = 1 => Started(q)' = Blocks
    BY DEF ResidentCounts
  <2>1. CASE q = r
    <3>1. producer[r] # 1 BY <1>3, <1>6 DEF ResidentCounts
    <3> QED BY <2>1, <3>1, <1>6, <1>7, <1>8, <1>9
  <2>2. CASE q # r BY <2>2, <1>6, <1>7 DEF ResidentCounts
  <2> QED BY <2>1, <2>2
<1>15. ResidentBeforeGemm' BY <1>2 DEF ResidentBeforeGemm
<1> QED BY <1>1, <1>10, <1>11, <1>12, <1>13, <1>14, <1>15 DEF TypeOK

LEMMA ReleaseProducerIInv == ASSUME IInv, NEW r \in Ranks, ReleaseProducer(r) PROVE IInv'
<1> USE DEF ReleaseProducer, compute, control, IInv
<1>1. 0 \in Blocks BY ConfigAssumption DEF Blocks
<1>2. \A q \in Ranks, c \in Blocks :
        blk'[q][c] = IF q = r /\ c = 0 THEN "start_sync" ELSE blk[q][c]
  BY <1>1 DEF TypeOK, CtaTypes
<1>0. \A q \in Ranks : Started(q)' = Started(q) BY <1>1, <1>2, StartedKept
<1>3. commPc[r] = "kernel" /\ commFwd[r] \in Nat /\ commFwd[r] < MaxForwards
  BY <1>1, ConfigAssumption DEF TypeOK, HostTypes, ControlState, Forwards
<1>4. arrived[r][0] = 2 * commFwd[r]
  BY <1>1, <1>3 DEF ArrivalsCountForwards, ArrivedNow
<1>5. \A q \in Ranks, c \in Blocks :
        arrived'[q][c] = IF q = r /\ c = 0 THEN arrived[q][c] + 1 ELSE arrived[q][c]
  BY <1>1 DEF TypeOK, CtaTypes
<1>6. HostTypes' /\ MemoryTypes' BY DEF TypeOK, HostTypes, MemoryTypes
<1>7. CtaTypes'
  <2>1. arrived[r][0] + 1 \in 0..(2 * MaxForwards) BY <1>3, <1>4, ConfigAssumption
  <2>2. arrived' \in [Ranks -> [Blocks -> 0..(2 * MaxForwards)]]
    BY <1>1, <2>1 DEF TypeOK, CtaTypes
  <2> QED BY <2>2 DEF TypeOK, CtaTypes
<1>8. ControlState' BY <1>1, <1>2 DEF ControlState
<1>9. ArrivalsCountForwards'
  <2> SUFFICES ASSUME NEW q \in Ranks, NEW c \in Blocks
               PROVE  arrived'[q][c] = 2 * commFwd[q] + ArrivedNow(q, c)'
    BY DEF ArrivalsCountForwards
  <2>1. CASE q = r /\ c = 0 BY <2>1, <1>2, <1>3, <1>4, <1>5 DEF ArrivedNow
  <2>2. CASE ~(q = r /\ c = 0)
    BY <2>2, <1>2, <1>5 DEF ArrivedNow, ArrivalsCountForwards
  <2> QED BY <2>1, <2>2
<1>10. Started(r) = Blocks
  <2>1. Started(r) \in SUBSET Blocks BY DEF Started
  <2>2. Cardinality(Started(r)) = NBlocks BY <1>3 DEF ResidentCounts, AllResident
  <2> QED BY <2>1, <2>2, BlocksFinite, FS_Subset
<1>11. ResidentCounts'
  <2>1. \A q \in Ranks : q # r => producer'[q] = producer[q]
    BY DEF TypeOK, MemoryTypes
  <2> QED BY <2>1, <1>0, <1>10 DEF ResidentCounts
<1>12. ResidentBeforeGemm' BY <1>2 DEF ResidentBeforeGemm
<1> QED BY <1>6, <1>7, <1>8, <1>9, <1>11, <1>12 DEF TypeOK

LEMMA StartPassIInv == ASSUME IInv, NEW r \in Ranks, NEW b \in Blocks, StartPass(r, b) PROVE IInv'
<1> USE DEF StartPass, compute, control, IInv
<1>1. \A q \in Ranks, c \in Blocks :
        blk'[q][c] = IF q = r /\ c = b THEN "run" ELSE blk[q][c]
  BY DEF TypeOK, CtaTypes
<1>0. \A q \in Ranks : Started(q)' = Started(q) BY <1>1, StartedKept
<1>2. HostTypes' /\ MemoryTypes' BY DEF TypeOK, HostTypes, MemoryTypes
<1>3. CtaTypes' BY DEF TypeOK, CtaTypes
<1>4. ControlState' BY <1>1 DEF ControlState
<1>5. ArrivalsCountForwards' BY <1>1 DEF ArrivalsCountForwards, ArrivedNow
<1>6. ResidentCounts' BY <1>0 DEF ResidentCounts
<1>7. ResidentBeforeGemm' BY <1>1 DEF ResidentBeforeGemm
<1> QED BY <1>2, <1>3, <1>4, <1>5, <1>6, <1>7 DEF TypeOK

LEMMA EndArriveIInv == ASSUME IInv, NEW r \in Ranks, NEW b \in Blocks, EndArrive(r, b) PROVE IInv'
<1> USE DEF EndArrive, compute, control, IInv
<1>1. \A q \in Ranks, c \in Blocks :
        blk'[q][c] = IF q = r /\ c = b THEN "end_sync" ELSE blk[q][c]
  BY DEF TypeOK, CtaTypes
<1>0. \A q \in Ranks : Started(q)' = Started(q) BY <1>1, StartedKept
<1>2. commFwd[r] \in Nat /\ commFwd[r] < MaxForwards
  BY ConfigAssumption DEF TypeOK, HostTypes, ControlState, Forwards
<1>3. arrived[r][b] = 2 * commFwd[r] + 1
  BY <1>2 DEF ArrivalsCountForwards, ArrivedNow
<1>4. \A q \in Ranks, c \in Blocks :
        arrived'[q][c] = IF q = r /\ c = b THEN arrived[q][c] + 1 ELSE arrived[q][c]
  BY DEF TypeOK, CtaTypes
<1>5. HostTypes' BY DEF TypeOK, HostTypes
<1>6. MemoryTypes'
  <2>1. Committed(r, b) \in Nat BY DEF TypeOK, CtaTypes, Committed
  <2> QED BY <2>1 DEF TypeOK, MemoryTypes
<1>7. CtaTypes'
  <2>1. arrived[r][b] + 1 \in 0..(2 * MaxForwards) BY <1>2, <1>3, ConfigAssumption
  <2>2. arrived' \in [Ranks -> [Blocks -> 0..(2 * MaxForwards)]]
    BY <2>1 DEF TypeOK, CtaTypes
  <2> QED BY <2>2 DEF TypeOK, CtaTypes
<1>8. ControlState' BY <1>1 DEF ControlState
<1>9. ArrivalsCountForwards'
  <2> SUFFICES ASSUME NEW q \in Ranks, NEW c \in Blocks
               PROVE  arrived'[q][c] = 2 * commFwd[q] + ArrivedNow(q, c)'
    BY DEF ArrivalsCountForwards
  <2>1. CASE q = r /\ c = b BY <2>1, <1>1, <1>2, <1>3, <1>4 DEF ArrivedNow
  <2>2. CASE ~(q = r /\ c = b)
    BY <2>2, <1>1, <1>4 DEF ArrivedNow, ArrivalsCountForwards
  <2> QED BY <2>1, <2>2
<1>10. ResidentCounts' BY <1>0 DEF ResidentCounts
<1>11. ResidentBeforeGemm' BY <1>1 DEF ResidentBeforeGemm
<1> QED BY <1>5, <1>6, <1>7, <1>8, <1>9, <1>10, <1>11 DEF TypeOK

LEMMA RingPutIInv == ASSUME IInv, NEW r \in Ranks, NEW b \in Blocks, RingPut(r, b) PROVE IInv'
<1> USE DEF RingPut, compute, control, IInv
<1> DEFINE i == ring[r][b].pos
           id == ChunkOf[r][b][i]
           put == [id |-> id, val |-> window[r][id]]
           after == [pos |-> i + 1,
                     sig |-> IF MustWait(b, i) THEN ring[r][b].sig + 1 ELSE ring[r][b].sig]
<1>1. i \in Nat /\ i < RingLength(b) BY DEF TypeOK, CtaTypes
<1>2. id \in ChunkIds
  <2>1. i \in 0..(WorkerLength(b) - 1) BY <1>1, LengthFacts
  <2> QED BY <2>1, ChunkOfFacts
<1>3. put \in [id : ChunkIds, val : Forwards] BY <1>2 DEF TypeOK, MemoryTypes
<1>4. after \in [pos : Nat, sig : Nat] BY DEF TypeOK, CtaTypes
<1> DEFINE queue == Append(wire[r][b], put)
<1>5. /\ wire' = [wire EXCEPT ![r][b] = queue]
      /\ ring' = [ring EXCEPT ![r][b] = after]
  OBVIOUS
<1>6. HostTypes' BY DEF TypeOK, HostTypes
<1>7. MemoryTypes'
  <2> HIDE DEF put
  <2>1. queue \in Seq([id : ChunkIds, val : Forwards])
    <3>1. wire[r][b] \in Seq([id : ChunkIds, val : Forwards]) BY DEF TypeOK, MemoryTypes
    <3> QED BY ONLY <3>1, <1>3, SeqFacts
  <2> HIDE DEF queue
  <2>2. wire' \in [Ranks -> [Blocks -> Seq([id : ChunkIds, val : Forwards])]]
    <3>1. wire \in [Ranks -> [Blocks -> Seq([id : ChunkIds, val : Forwards])]]
      BY DEF TypeOK, MemoryTypes
    <3> QED BY ONLY <3>1, <1>5, <2>1, r \in Ranks, b \in Blocks
  <2> QED BY <2>2 DEF TypeOK, MemoryTypes
<1>8. CtaTypes'
  <2>1. after.pos <= RingLength(b)
    <3>1. RingLength(b) \in Nat BY LengthFacts
    <3> HIDE DEF i
    <3> QED BY ONLY <1>1, <3>1
  <2> HIDE DEF after
  <2>2. ring' \in [Ranks -> [Blocks -> [pos : Nat, sig : Nat]]]
    <3>1. ring \in [Ranks -> [Blocks -> [pos : Nat, sig : Nat]]] BY DEF TypeOK, CtaTypes
    <3> QED BY ONLY <3>1, <1>4, <1>5, r \in Ranks, b \in Blocks, UpdateType
  <2>3. \A q \in Ranks, c \in Blocks :
            ring'[q][c] = IF q = r /\ c = b THEN after ELSE ring[q][c]
    <3>1. ring \in [Ranks -> [Blocks -> [pos : Nat, sig : Nat]]] BY DEF TypeOK, CtaTypes
    <3> QED BY ONLY <3>1, <1>5, r \in Ranks, b \in Blocks, UpdateAt
  <2> QED BY <2>1, <2>2, <2>3 DEF TypeOK, CtaTypes
<1>9. ControlState' BY DEF ControlState
<1>10. ArrivalsCountForwards' /\ ResidentCounts' BY CtasUnchanged
<1>11. ResidentBeforeGemm' BY DEF ResidentBeforeGemm
<1> QED BY <1>6, <1>7, <1>8, <1>9, <1>10, <1>11 DEF TypeOK

LEMMA GinDeliverIInv == ASSUME IInv, NEW r \in Ranks, NEW b \in Blocks, GinDeliver(r, b) PROVE IInv'
<1> USE DEF GinDeliver, compute, control, IInv
<1> DEFINE puts == wire[r][b]
<1>1. NextPeer[r] \in Ranks BY NextPeerFacts
<1>2. puts \in Seq([id : ChunkIds, val : Forwards]) /\ puts # <<>>
  BY DEF TypeOK, MemoryTypes
<1>3. Head(puts) \in [id : ChunkIds, val : Forwards]
      /\ Tail(puts) \in Seq([id : ChunkIds, val : Forwards])
  BY <1>2, SeqFacts
<1>4. MemoryTypes'
  <2>1. Head(puts).id \in ChunkIds /\ Head(puts).val \in Forwards BY <1>3
  <2>2. wire' \in [Ranks -> [Blocks -> Seq([id : ChunkIds, val : Forwards])]]
    BY <1>3 DEF TypeOK, MemoryTypes
  <2>3. window' \in [Ranks -> [ChunkIds -> Forwards]]
    BY <1>1, <2>1 DEF TypeOK, MemoryTypes
  <2>4. signal' \in [Ranks -> [Blocks -> Nat]] BY <1>1 DEF TypeOK, MemoryTypes
  <2> QED BY <2>2, <2>3, <2>4 DEF TypeOK, MemoryTypes
<1>5. HostTypes' /\ CtaTypes' BY DEF TypeOK, HostTypes, CtaTypes
<1>6. ControlState' BY DEF ControlState
<1>7. ArrivalsCountForwards' /\ ResidentCounts' BY CtasUnchanged
<1>8. ResidentBeforeGemm' BY DEF ResidentBeforeGemm
<1> QED BY <1>4, <1>5, <1>6, <1>7, <1>8 DEF TypeOK

LEMMA WorkerCopyIInv == ASSUME IInv, NEW r \in Ranks, NEW b \in Blocks, WorkerCopy(r, b) PROVE IInv'
<1> USE DEF WorkerCopy, compute, control, IInv
<1> DEFINE w == worker[r][b]
           id == ChunkOf[r][b][w.pos]
           after == [pos |-> w.pos, copied |-> TRUE,
                     sig |-> IF MustWait(b, w.pos) THEN w.sig + 1 ELSE w.sig]
<1>1. w \in [pos : Nat, sig : Nat, copied : BOOLEAN] BY DEF TypeOK, CtaTypes
<1>2. w.pos < WorkerLength(b) /\ WorkerLength(b) \in Nat
  BY LengthFacts DEF ControlState
<1>3. id \in ChunkIds
  <2>1. w.pos \in 0..(WorkerLength(b) - 1)
    <3> HIDE DEF w
    <3> QED BY ONLY <1>1, <1>2
  <2> QED BY ONLY <2>1, r \in Ranks, b \in Blocks, ChunkOfFacts
<1>4. after \in [pos : Nat, sig : Nat, copied : BOOLEAN] /\ after.pos <= WorkerLength(b)
      /\ (after.copied => after.pos < WorkerLength(b))
  <2> HIDE DEF w
  <2> QED BY ONLY <1>1, <1>2
<1>5. worker' = [worker EXCEPT ![r][b] = after] OBVIOUS
<1>6. MemoryTypes'
  <2>1. window \in [Ranks -> [ChunkIds -> Forwards]] BY DEF TypeOK, MemoryTypes
  <2>2. window' = [p \in Ranks |-> IF p \in CopyTargets(r)
                                   THEN [window[p] EXCEPT ![id] = window[r][id]]
                                   ELSE window[p]]
    OBVIOUS
  <2>3. window' \in [Ranks -> [ChunkIds -> Forwards]]
    <3> HIDE DEF id
    <3>1. window[r][id] \in Forwards BY ONLY <1>3, <2>1, r \in Ranks
    <3>2. \A p \in Ranks : [window[p] EXCEPT ![id] = window[r][id]] \in [ChunkIds -> Forwards]
      BY ONLY <2>1, <3>1
    <3> QED BY ONLY <2>1, <2>2, <3>2
  <2> QED BY <2>3 DEF TypeOK, MemoryTypes
<1>7. HostTypes' BY DEF TypeOK, HostTypes
<1> HIDE DEF after
<1>8. \A q \in Ranks, c \in Blocks :
        worker'[q][c] = IF q = r /\ c = b THEN after ELSE worker[q][c]
  <2>1. worker \in [Ranks -> [Blocks -> [pos : Nat, sig : Nat, copied : BOOLEAN]]]
    BY DEF TypeOK, CtaTypes
  <2> QED BY ONLY <2>1, <1>5, r \in Ranks, b \in Blocks, UpdateAt
<1>9. CtaTypes'
  <2>1. worker' \in [Ranks -> [Blocks -> [pos : Nat, sig : Nat, copied : BOOLEAN]]]
    <3>1. worker \in [Ranks -> [Blocks -> [pos : Nat, sig : Nat, copied : BOOLEAN]]]
      BY DEF TypeOK, CtaTypes
    <3> QED BY ONLY <3>1, <1>4, <1>5, r \in Ranks, b \in Blocks, UpdateType
  <2> QED BY <2>1, <1>4, <1>8 DEF TypeOK, CtaTypes
<1>10. ControlState'
  <2>1. \A q \in Ranks, c \in Blocks : worker[q][c].copied => worker[q][c].pos < WorkerLength(c)
    BY DEF ControlState
  <2>2. \A q \in Ranks, c \in Blocks : worker'[q][c].copied => worker'[q][c].pos < WorkerLength(c)
    BY ONLY <2>1, <1>4, <1>8
  <2>3. ControlState /\ UNCHANGED <<compPc, compFwd, commPc, commFwd, blk>> OBVIOUS
  <2> QED BY ONLY <2>2, <2>3, WorkerControl
<1>11. ArrivalsCountForwards' /\ ResidentCounts' BY CtasUnchanged
<1>12. ResidentBeforeGemm' BY DEF ResidentBeforeGemm
<1> QED BY <1>6, <1>7, <1>9, <1>10, <1>11, <1>12 DEF TypeOK

LEMMA WorkerPublishIInv == ASSUME IInv, NEW r \in Ranks, NEW b \in Blocks, WorkerPublish(r, b) PROVE IInv'
<1> USE DEF WorkerPublish, compute, control, IInv
<1> DEFINE w == worker[r][b]
           id == ChunkOf[r][b][w.pos]
           after == [pos |-> w.pos + 1, copied |-> FALSE, sig |-> w.sig]
<1>1. w \in [pos : Nat, sig : Nat, copied : BOOLEAN] BY DEF TypeOK, CtaTypes
<1>2. w.pos < WorkerLength(b) /\ WorkerLength(b) \in Nat
  BY LengthFacts DEF ControlState
<1>3. id \in ChunkIds
  <2>1. w.pos \in 0..(WorkerLength(b) - 1)
    <3> HIDE DEF w
    <3> QED BY ONLY <1>1, <1>2
  <2> QED BY ONLY <2>1, r \in Ranks, b \in Blocks, ChunkOfFacts
<1>4. after \in [pos : Nat, sig : Nat, copied : BOOLEAN] /\ after.pos <= WorkerLength(b)
      /\ (after.copied => after.pos < WorkerLength(b))
  <2> HIDE DEF w
  <2> QED BY ONLY <1>1, <1>2
<1>5. worker' = [worker EXCEPT ![r][b] = after] OBVIOUS
<1>6. MemoryTypes'
  <2>1. ready \in [Ranks -> [ChunkIds -> {0, 1}]] BY DEF TypeOK, MemoryTypes
  <2>2. ready' = [p \in Ranks |-> IF p \in LsaPeers[r]
                                  THEN [ready[p] EXCEPT ![id] = 1] ELSE ready[p]]
    OBVIOUS
  <2>3. ready' \in [Ranks -> [ChunkIds -> {0, 1}]]
    <3> HIDE DEF id
    <3> QED BY ONLY <2>1, <2>2
  <2> QED BY <2>3 DEF TypeOK, MemoryTypes
<1>7. HostTypes' BY DEF TypeOK, HostTypes
<1> HIDE DEF after
<1>8. \A q \in Ranks, c \in Blocks :
        worker'[q][c] = IF q = r /\ c = b THEN after ELSE worker[q][c]
  <2>1. worker \in [Ranks -> [Blocks -> [pos : Nat, sig : Nat, copied : BOOLEAN]]]
    BY DEF TypeOK, CtaTypes
  <2> QED BY ONLY <2>1, <1>5, r \in Ranks, b \in Blocks, UpdateAt
<1>9. CtaTypes'
  <2>1. worker' \in [Ranks -> [Blocks -> [pos : Nat, sig : Nat, copied : BOOLEAN]]]
    <3>1. worker \in [Ranks -> [Blocks -> [pos : Nat, sig : Nat, copied : BOOLEAN]]]
      BY DEF TypeOK, CtaTypes
    <3> QED BY ONLY <3>1, <1>4, <1>5, r \in Ranks, b \in Blocks, UpdateType
  <2> QED BY <2>1, <1>4, <1>8 DEF TypeOK, CtaTypes
<1>10. ControlState'
  <2>1. \A q \in Ranks, c \in Blocks : worker[q][c].copied => worker[q][c].pos < WorkerLength(c)
    BY DEF ControlState
  <2>2. \A q \in Ranks, c \in Blocks : worker'[q][c].copied => worker'[q][c].pos < WorkerLength(c)
    BY ONLY <2>1, <1>4, <1>8
  <2>3. ControlState /\ UNCHANGED <<compPc, compFwd, commPc, commFwd, blk>> OBVIOUS
  <2> QED BY ONLY <2>2, <2>3, WorkerControl
<1>11. ArrivalsCountForwards' /\ ResidentCounts' BY CtasUnchanged
<1>12. ResidentBeforeGemm' BY DEF ResidentBeforeGemm
<1> QED BY <1>6, <1>7, <1>9, <1>10, <1>11, <1>12 DEF TypeOK

LEMMA NextIInv == IInv /\ [Next]_vars => IInv'
<1> SUFFICES ASSUME IInv, [Next]_vars PROVE IInv' OBVIOUS
<1>1. CASE Next
  <2> PICK r \in Ranks : \/ Compute(r) \/ Comm(r) \/ ReleaseProducer(r)
                         \/ \E b \in Blocks : Block(r, b)
    BY <1>1 DEF Next
  <2>1. CASE Compute(r)
    BY <2>1, ProduceInputIInv, GemmStartIInv, GemmTileIInv DEF Compute
  <2>2. CASE Comm(r) BY <2>2, CommLaunchIInv, CommDoneIInv DEF Comm
  <2>3. CASE ReleaseProducer(r) BY <2>3, ReleaseProducerIInv
  <2>4. ASSUME NEW b \in Blocks, Block(r, b) PROVE IInv'
    BY <2>4, BlockStartIInv, StartPassIInv, RingPutIInv, GinDeliverIInv,
       WorkerCopyIInv, WorkerPublishIInv, EndArriveIInv DEF Block
  <2> QED BY <2>1, <2>2, <2>3, <2>4
<1>2. CASE UNCHANGED vars
  <2> USE <1>2 DEF vars
  <2>1. TypeOK' BY DEF IInv, TypeOK, HostTypes, MemoryTypes, CtaTypes
  <2>2. ArrivalsCountForwards' /\ ResidentCounts' BY CtasUnchanged
  <2>3. ControlState' /\ ResidentBeforeGemm'
    BY DEF IInv, ControlState, ResidentBeforeGemm
  <2> QED BY <2>1, <2>2, <2>3 DEF IInv
<1> QED BY <1>1, <1>2

-----------------------------------------------------------------------------
(* Theorems, for every number of nodes, GPUs, CTAs, chunks and forwards. *)

LEMMA IInvAlways == Safe => []IInv
  BY InitIInv, NextIInv, PTL DEF Safe

\* Every variable stays in its type: in particular every warp names a chunk of
\* the window at every iteration of its loops (chunk_offset), no CTA arrives at
\* the world barrier more than twice a forward, and resident_count never
\* exceeds p.nblocks, so that block 0's wait for exactly that value can end.
THEOREM TypeCorrect == Safe => []TypeOK
<1>1. IInv => TypeOK BY DEF IInv
<1> QED BY <1>1, IInvAlways, PTL

\* A persistent GEMM runs only when every communication CTA of its forward is
\* resident or done, so it cannot starve the CTAs it waits for: the residency
\* handshake of resident_count and producer_signal, with the reset_done and
\* compute_done events that keep it from seeing the last forward's values.
THEOREM GemmStartsResident == Safe => []ResidentBeforeGemm
<1>1. IInv => ResidentBeforeGemm BY DEF IInv
<1> QED BY <1>1, IInvAlways, PTL

-----------------------------------------------------------------------------
(***************************************************************************)
(* Part two: order.  The arithmetic of rails, chunks and tiles, then       *)
(* OrderInv: whoever has passed a world barrier has met everybody          *)
(* (BarriersHold), the two streams of a rank stay within one forward of    *)
(* each other (StreamsClose), and a chunk flag is up only when all ranks   *)
(* have reset theirs for the forward (FlagsFollowResets).  A GEMM tile     *)
(* waits for at least one flag, so no GEMM ends before every rank has      *)
(* provided its input.                                                     *)
(***************************************************************************)

\* CTA b of rank r is past the start barrier of its forward, and not yet at the
\* final one.
Working(r, b)  == blk[r][b] \in {"run", "end_sync"}
Entering(r, b) == blk[r][b] \in {"launch", "handshake", "start_sync", "run"}

\* Whoever is through with a forward, or past its start barrier, has met everybody.
BarriersHold ==
    \A r, q \in Ranks, b \in Blocks :
        /\ arrived[q][b] >= 2 * commFwd[r]
        /\ Working(r, b) => arrived[q][b] >= 2 * commFwd[r] + 1

\* The two streams of a rank keep within one forward of each other, and what the
\* communication stream stages is the input of its own forward.
StreamsClose ==
    \A r \in Ranks :
        /\ input[r] = InputReady(r)
        /\ ResetDone(r) <= InputReady(r)
        /\ ResetDone(r) \in {compFwd[r], compFwd[r] + 1}

\* A flag is up only when all ranks have reset theirs for the forward.
FlagsFollowResets ==
    \A r, q \in Ranks, id \in ChunkIds :
        ready[r][id] = 1 => ResetDone(q) >= ResetDone(r)

OrderInv == BarriersHold /\ StreamsClose /\ FlagsFollowResets


-----------------------------------------------------------------------------
(* Arithmetic of rails, loops and tiles. *)

LEMMA IntMulMono == ASSUME NEW x \in Int, NEW y \in Int, NEW k \in Nat, x <= y
                    PROVE  x * k <= y * k /\ x * k \in Int /\ y * k \in Int
<1>1. (y - x) * k >= 0 /\ (y - x) * k = y * k - x * k OBVIOUS
<1> QED BY <1>1

LEMMA DivUnique == ASSUME NEW q \in Int, NEW s \in Int, NEW k \in Nat \ {0}, 0 <= s, s < k
                   PROVE  (q * k + s) \div k = q /\ (q * k + s) % k = s
<1> DEFINE a == q * k + s
           d == a \div k
           m == a % k
<1>1. a \in Int OBVIOUS
<1>2. d \in Int /\ m \in 0..(k - 1) /\ a = d * k + m
  <2> HIDE DEF a
  <2> QED BY <1>1, DivMod
<1>3. q * k \in Int /\ d * k \in Int /\ q * k + s = d * k + m BY <1>2
<1> HIDE DEF d, m
<1>4. ~(d >= q + 1)
  <2> SUFFICES ASSUME d >= q + 1 PROVE FALSE OBVIOUS
  <2>1. (q + 1) * k <= d * k BY <1>2, IntMulMono
  <2>2. (q + 1) * k = q * k + k OBVIOUS
  <2> QED BY <2>1, <2>2, <1>2, <1>3
<1>5. ~(d <= q - 1)
  <2> SUFFICES ASSUME d <= q - 1 PROVE FALSE OBVIOUS
  <2>1. d * k <= (q - 1) * k BY <1>2, IntMulMono
  <2>2. (q - 1) * k = q * k - k OBVIOUS
  <2> QED BY <2>1, <2>2, <1>2, <1>3
<1>6. d = q BY <1>4, <1>5, <1>2
<1>7. m = s BY <1>6, <1>3, <1>2
<1> QED BY <1>6, <1>7 DEF d, m

LEMMA DivMono == ASSUME NEW x \in Int, NEW y \in Int, NEW k \in Nat \ {0}, x <= y
                 PROVE  x \div k <= y \div k
<1>1. /\ x \div k \in Int /\ x % k \in 0..(k - 1) /\ x = (x \div k) * k + (x % k)
      /\ y \div k \in Int /\ y % k \in 0..(k - 1) /\ y = (y \div k) * k + (y % k)
  BY DivMod
<1> SUFFICES ASSUME x \div k >= y \div k + 1 PROVE FALSE BY <1>1
<1>2. (y \div k + 1) * k <= (x \div k) * k BY <1>1, IntMulMono
<1>3. (y \div k + 1) * k = (y \div k) * k + k BY <1>1
<1> QED BY <1>1, <1>2, <1>3

\* The successor around a ring of n.
LEMMA RingStep == ASSUME NEW n \in Nat \ {0}, NEW x \in 0..(n - 1)
                  PROVE  (x + 1) % n = IF x = n - 1 THEN 0 ELSE x + 1
<1>1. CASE x = n - 1 BY <1>1, DivUnique, 1 * n + 0 = x + 1
<1>2. CASE x # n - 1
  <2>1. x + 1 < n /\ 0 * n + (x + 1) = x + 1 BY <1>2
  <2>2. (0 * n + (x + 1)) % n = x + 1 BY <2>1, DivUnique
  <2> QED BY <2>1, <2>2, <1>2
<1> QED BY <1>1, <1>2

\* d steps back around a ring of n.
LEMMA RingBack == ASSUME NEW n \in Nat \ {0}, NEW x \in 0..(n - 1), NEW d \in 0..n
                  PROVE  (x - d + n) % n = IF x >= d THEN x - d ELSE x - d + n
<1>1. CASE x >= d
  <2>1. 1 * n + (x - d) = x - d + n /\ 0 <= x - d /\ x - d < n BY <1>1
  <2>2. (1 * n + (x - d)) % n = x - d BY <2>1, DivUnique
  <2> QED BY <2>1, <2>2, <1>1
<1>2. CASE x < d
  <2>1. 0 * n + (x - d + n) = x - d + n /\ 0 <= x - d + n /\ x - d + n < n BY <1>2
  <2>2. (0 * n + (x - d + n)) % n = x - d + n BY <2>1, DivUnique
  <2> QED BY <2>1, <2>2, <1>2
<1> QED BY <1>1, <1>2

LEMMA RankFacts ==
    ASSUME NEW r \in Ranks
    PROVE  /\ LocalOf(r) \in 0..(NLocal - 1) /\ NodeOf(r) \in 0..(NNodes - 1)
           /\ r = NodeOf(r) * NLocal + LocalOf(r)
           /\ NNodes \in Nat \ {0} /\ NNodes > 1 /\ NLocal \in Nat \ {0} /\ Chunks \in Nat \ {0}
<1>1. NNodes \in Nat \ {0} /\ NNodes > 1 /\ NLocal \in Nat \ {0} /\ Chunks \in Nat \ {0}
  BY ConfigAssumption
<1>2. r \in Int BY DEF Ranks
<1> QED BY <1>1, <1>2, NodeFacts, DivMod DEF LocalOf, NodeOf

LEMMA RailFacts ==
    ASSUME NEW r \in Ranks, NEW node \in 0..(NNodes - 1)
    PROVE  /\ RailRank(r, node) \in Ranks
           /\ NodeOf(RailRank(r, node)) = node
           /\ LocalOf(RailRank(r, node)) = LocalOf(r)
<1>1. /\ (node * NLocal + LocalOf(r)) \div NLocal = node
      /\ (node * NLocal + LocalOf(r)) % NLocal = LocalOf(r)
  <2>1. node \in Int /\ LocalOf(r) \in Int /\ 0 <= LocalOf(r) /\ LocalOf(r) < NLocal
        /\ NLocal \in Nat \ {0} BY RankFacts
  <2> QED BY ONLY <2>1, DivUnique
<1> QED BY <1>1, RailRankFacts DEF RailRank, NodeOf, LocalOf

\* The next peer is one node on, in the same rail.
LEMMA NextFacts ==
    ASSUME NEW r \in Ranks
    PROVE  /\ NextPeer[r] \in Ranks
           /\ NodeOf(NextPeer[r]) = IF NodeOf(r) = NNodes - 1 THEN 0 ELSE NodeOf(r) + 1
           /\ LocalOf(NextPeer[r]) = LocalOf(r)
           /\ NextPeer[r] # r
<1> DEFINE next == IF NodeOf(r) = NNodes - 1 THEN 0 ELSE NodeOf(r) + 1
<1>0. NodeOf(r) \in 0..(NNodes - 1) /\ NNodes \in Nat \ {0} /\ NNodes > 1 BY RankFacts
<1>1. next \in 0..(NNodes - 1) /\ next # NodeOf(r) BY ONLY <1>0
<1>2. NextPeer[r] = RailRank(r, next)
  <2>1. (NodeOf(r) + 1) % NNodes = next BY ONLY <1>0, RingStep
  <2> QED BY <2>1 DEF NextPeer
<1> HIDE DEF next
<1>3. NodeOf(NextPeer[r]) = next /\ LocalOf(NextPeer[r]) = LocalOf(r) /\ NextPeer[r] \in Ranks
  BY <1>1, <1>2, RailFacts
<1> QED BY <1>1, <1>3 DEF next

LEMMA NextInjective ==
    ASSUME NEW r \in Ranks, NEW q \in Ranks, NextPeer[r] = NextPeer[q]
    PROVE  r = q
<1>1. LocalOf(r) = LocalOf(q) BY NextFacts
<1>2. NodeOf(r) = NodeOf(q) BY NextFacts, RankFacts
<1> QED BY <1>1, <1>2, RankFacts

LEMMA NextOnto ==
    ASSUME NEW r \in Ranks
    PROVE  \E p \in Ranks : NextPeer[p] = r
<1> DEFINE node == IF NodeOf(r) = 0 THEN NNodes - 1 ELSE NodeOf(r) - 1
           p == RailRank(r, node)
<1>1. node \in 0..(NNodes - 1) BY RankFacts
<1>2. p \in Ranks /\ NodeOf(p) = node /\ LocalOf(p) = LocalOf(r) BY <1>1, RailFacts
<1>3. NodeOf(NextPeer[p]) = NodeOf(r)
  <2>1. NodeOf(NextPeer[p]) = IF node = NNodes - 1 THEN 0 ELSE node + 1
    <3> HIDE DEF node, p
    <3> QED BY <1>2, NextFacts
  <2> HIDE DEF p
  <2> QED BY <2>1, RankFacts
<1>4. LocalOf(NextPeer[p]) = LocalOf(r) /\ NextPeer[p] \in Ranks
  <2> HIDE DEF p, node
  <2> QED BY <1>2, NextFacts
<1>5. NextPeer[p] = r
  <2> HIDE DEF p, node
  <2>1. r = NodeOf(r) * NLocal + LocalOf(r) BY RankFacts
  <2>2. NextPeer[p] = NodeOf(NextPeer[p]) * NLocal + LocalOf(NextPeer[p]) BY <1>4, RankFacts
  <2> QED BY <2>1, <2>2, <1>3, <1>4
<1> QED BY <1>2, <1>5

\* NSplits(b) iterations make one step of the outer loop.
LEMMA StepFacts ==
    ASSUME NEW b \in Blocks, NEW i \in Nat
    PROVE  /\ MustWait(b, i) <=> i >= NSplits(b)
           /\ i < NSplits(b) => StepOf(b, i) = 0
           /\ StepOf(b, i + NSplits(b)) = StepOf(b, i) + 1
           /\ SplitOf(b, i + NSplits(b)) = SplitOf(b, i)
           /\ StepOf(b, i) \in Nat
           /\ i < RingLength(b) => StepOf(b, i) <= NNodes - 2
           /\ i < WorkerLength(b) => StepOf(b, i) <= NNodes - 1
<1> DEFINE n == NSplits(b)
           d == i \div n
           m == i % n
<1>1. n \in Nat \ {0} BY SplitFacts
<1>2. d \in Int /\ m \in 0..(n - 1) /\ i = d * n + m
  <2> HIDE DEF n
  <2> QED BY <1>1, DivMod
<1>3. StepOf(b, i) = d /\ SplitOf(b, i) = b + m * NBlocks BY DEF StepOf, SplitOf
<1> HIDE DEF n, d, m
<1>4. d * n \in Int /\ (d <= -1 => d * n <= (-1) * n) /\ (d >= 1 => 1 * n <= d * n)
  BY <1>1, <1>2, IntMulMono
<1>5. d \in Nat BY <1>1, <1>2, <1>4
<1>6. d > 0 <=> i >= n
  <2>1. CASE d = 0 BY <2>1, <1>1, <1>2
  <2>2. CASE d >= 1 BY <2>2, <1>1, <1>2, <1>4
  <2> QED BY <2>1, <2>2, <1>5
<1>7. /\ (i + n) \div n = d + 1
      /\ (i + n) % n = m
  <2>1. (d + 1) * n + m = i + n BY <1>1, <1>2
  <2>2. /\ ((d + 1) * n + m) \div n = d + 1
        /\ ((d + 1) * n + m) % n = m
    BY <1>1, <1>2, DivUnique
  <2> QED BY <2>1, <2>2
<1>8. /\ StepOf(b, i + n) = d + 1
      /\ SplitOf(b, i + n) = b + m * NBlocks
  BY <1>7 DEF StepOf, SplitOf, n
<1>9. NNodes \in Nat /\ NNodes > 1 BY ConfigAssumption
<1>10. i < (NNodes - 1) * n => d <= NNodes - 2
  <2>1. d >= NNodes - 1 => (NNodes - 1) * n <= d * n BY <1>1, <1>2, <1>9, IntMulMono
  <2>2. (NNodes - 1) * n \in Int /\ d * n \in Int BY <1>1, <1>2, <1>9, IntMulMono
  <2> QED BY ONLY <2>1, <2>2, <1>1, <1>2, <1>9
<1>11. i < NNodes * n => d <= NNodes - 1
  <2>1. d >= NNodes => NNodes * n <= d * n BY <1>1, <1>2, <1>9, IntMulMono
  <2>2. NNodes * n \in Int /\ d * n \in Int BY <1>1, <1>2, <1>9, IntMulMono
  <2> QED BY ONLY <2>1, <2>2, <1>1, <1>2, <1>9
<1>12. /\ MustWait(b, i) <=> d > 0
       /\ RingLength(b) = (NNodes - 1) * n /\ WorkerLength(b) = NNodes * n
  BY <1>3 DEF n, MustWait, RingLength, WorkerLength
<1>13. i < n => d = 0 BY <1>5, <1>6, <1>1
<1> QED BY <1>3, <1>5, <1>6, <1>8, <1>10, <1>11, <1>12, <1>13 DEF n

LEMMA RingIsWorkerLess ==
    ASSUME NEW b \in Blocks
    PROVE  /\ WorkerLength(b) = RingLength(b) + NSplits(b)
           /\ RingLength(b) \in Nat \ {0} /\ NSplits(b) \in Nat \ {0}
<1>1. NSplits(b) \in Nat \ {0} /\ NNodes \in Nat /\ NNodes > 1 BY SplitFacts, ConfigAssumption
<1>2. NNodes * NSplits(b) = (NNodes - 1) * NSplits(b) + NSplits(b) BY <1>1
<1>3. 1 * NSplits(b) <= (NNodes - 1) * NSplits(b) BY <1>1, IntMulMono
<1> QED BY <1>1, <1>2, <1>3 DEF RingLength, WorkerLength

LEMMA ChunkIndex ==
    ASSUME NEW b \in Blocks, NEW i \in 0..(WorkerLength(b) - 1)
    PROVE  i \in 0..(NNodes * Chunks - 1)
<1>1. NNodes \in Nat \ {0} /\ Chunks \in Nat \ {0} BY ConfigAssumption
<1>2. NSplits(b) \in 1..Chunks BY SplitFacts
<1>3. NSplits(b) * NNodes <= Chunks * NNodes BY <1>1, <1>2, MulMono
<1>4. WorkerLength(b) = NSplits(b) * NNodes BY <1>1, <1>2 DEF WorkerLength
<1> QED BY <1>1, <1>2, <1>3, <1>4

\* What the i-th put of r brings, its next peer passes on NSplits(b) iterations later.
LEMMA ChunkShift ==
    ASSUME NEW r \in Ranks, NEW b \in Blocks, NEW i \in 0..(RingLength(b) - 1)
    PROVE  ChunkOf[NextPeer[r]][b][i + NSplits(b)] = ChunkOf[r][b][i]
<1> DEFINE s == StepOf(b, i)
           p == NextPeer[r]
           n == NSplits(b)
<1>1. /\ WorkerLength(b) = RingLength(b) + n /\ RingLength(b) \in Nat \ {0} /\ n \in Nat \ {0}
      /\ i \in Nat
  BY RingIsWorkerLess
<1>2. i \in 0..(NNodes * Chunks - 1) /\ i + n \in 0..(NNodes * Chunks - 1)
  <2>1. i \in 0..(WorkerLength(b) - 1) /\ i + n \in 0..(WorkerLength(b) - 1) BY <1>1
  <2> QED BY ONLY <2>1, b \in Blocks, ChunkIndex
<1>3. s \in Nat /\ s <= NNodes - 2 /\ StepOf(b, i + n) = s + 1 /\ SplitOf(b, i + n) = SplitOf(b, i)
  BY <1>1, StepFacts
<1>4. p \in Ranks /\ LocalOf(p) = LocalOf(r)
      /\ NodeOf(p) = IF NodeOf(r) = NNodes - 1 THEN 0 ELSE NodeOf(r) + 1
  BY NextFacts
<1> HIDE DEF s, p, n
<1>5. (NodeOf(p) - (s + 1) + NNodes) % NNodes = (NodeOf(r) - s + NNodes) % NNodes
  <2>1. /\ NodeOf(p) \in 0..(NNodes - 1) /\ NodeOf(r) \in 0..(NNodes - 1)
        /\ NNodes \in Nat \ {0} /\ s + 1 \in 0..NNodes /\ s \in 0..NNodes
    BY <1>3, <1>4, RankFacts
  <2>2. (NodeOf(p) - (s + 1) + NNodes) % NNodes
            = IF NodeOf(p) >= s + 1 THEN NodeOf(p) - (s + 1) ELSE NodeOf(p) - (s + 1) + NNodes
    BY ONLY <2>1, RingBack
  <2>3. (NodeOf(r) - s + NNodes) % NNodes
            = IF NodeOf(r) >= s THEN NodeOf(r) - s ELSE NodeOf(r) - s + NNodes
    BY ONLY <2>1, RingBack
  <2> QED BY <2>1, <2>2, <2>3, <1>3, <1>4
<1>6. ChunkOf[r][b][i] = RailRank(r, (NodeOf(r) - s + NNodes) % NNodes) * Chunks + SplitOf(b, i)
  BY <1>2 DEF ChunkOf, s
<1>7. ChunkOf[p][b][i + n]
        = RailRank(p, (NodeOf(p) - (s + 1) + NNodes) % NNodes) * Chunks + SplitOf(b, i)
  BY <1>2, <1>3, <1>4 DEF ChunkOf
<1> QED BY <1>4, <1>5, <1>6, <1>7 DEF RailRank, p, n

\* The first NSplits(b) iterations are about the own segment.
LEMMA OwnFirst ==
    ASSUME NEW r \in Ranks, NEW b \in Blocks, NEW i \in 0..(WorkerLength(b) - 1),
           i < NSplits(b)
    PROVE  ChunkOf[r][b][i] \in OwnChunks[r]
<1>1. i \in 0..(NNodes * Chunks - 1) /\ i \in Nat BY ChunkIndex, LengthFacts
<1>2. StepOf(b, i) = 0 /\ SplitOf(b, i) \in 0..(Chunks - 1) BY <1>1, StepFacts, SplitFacts
<1>3. (NodeOf(r) - 0 + NNodes) % NNodes = NodeOf(r)
  BY RankFacts, RingBack
<1>4. ChunkOf[r][b][i] = RailRank(r, NodeOf(r)) * Chunks + SplitOf(b, i)
  BY <1>1, <1>2, <1>3 DEF ChunkOf
<1>5. ChunkOf[r][b][i] = r * Chunks + SplitOf(b, i) BY <1>4, RankFacts DEF RailRank
<1>6. (r * Chunks + SplitOf(b, i)) \div Chunks = r
  <2>1. r \in Int /\ Chunks \in Nat \ {0} BY RankFacts DEF Ranks
  <2>2. SplitOf(b, i) \in Int /\ 0 <= SplitOf(b, i) /\ SplitOf(b, i) < Chunks BY <2>1, <1>2
  <2> QED BY ONLY <2>1, <2>2, DivUnique
<1>7. ChunkOf[r][b][i] \in ChunkIds BY ChunkOfFacts
<1> QED BY <1>5, <1>6, <1>7 DEF OwnChunks

\* A tile reads only what it waits for, and waits for something.
LEMMA TileFacts ==
    ASSUME NEW t \in Tiles
    PROVE  TileReads[t] \subseteq TileWaits[t] /\ TileWaits[t] # {}
<1> DEFINE first == (t * TileM) \div ChunkM
           last  == (t * TileM + TileM - 1) \div ChunkM
           total == NNodes * NLocal * Chunks
<1>1. /\ TileM \in Nat \ {0} /\ ChunkM \in Nat \ {0}
      /\ total \in Nat
  BY ConfigAssumption
<1>2. GemmM = total * ChunkM /\ GemmM \in Nat BY <1>1, ConfigAssumption DEF GemmM
<1>3. t \in Nat /\ t < (GemmM + TileM - 1) \div TileM
  <2>1. (GemmM + TileM - 1) \div TileM \in Int
    <3>1. GemmM + TileM - 1 \in Int BY <1>1, <1>2
    <3> QED BY ONLY <3>1, <1>1, DivMod
  <2> QED BY <2>1 DEF Tiles
<1>4. t * TileM \in Nat /\ t * TileM < GemmM
  <2> DEFINE x == GemmM + TileM - 1
             q == x \div TileM
  <2>1. x \in Int /\ x = GemmM + TileM - 1 BY <1>1, <1>2
  <2>2. q \in Int /\ t + 1 <= q
    <3>1. t \in Nat /\ t < q BY <1>3
    <3> HIDE DEF x
    <3>2. q \in Int BY <2>1, <1>1, DivMod
    <3> QED BY ONLY <3>1, <3>2
  <2>3. x % TileM \in 0..(TileM - 1) /\ x = q * TileM + (x % TileM)
    <3> HIDE DEF x
    <3> QED BY <2>1, <1>1, DivMod
  <2> HIDE DEF x, q
  <2>4. (t + 1) * TileM <= q * TileM /\ q * TileM \in Int BY <2>2, <1>1, <1>3, IntMulMono
  <2>5. (t + 1) * TileM = t * TileM + TileM /\ t * TileM \in Nat BY <1>1, <1>3
  <2> QED BY <2>1, <2>3, <2>4, <2>5, <1>1, <1>2
<1>5. TileWaits[t] = {id \in ChunkIds : first <= id /\ id <= last} BY DEF TileWaits
<1>6. TileReads[t] = {id \in ChunkIds : \E row \in (t * TileM)..(t * TileM + TileM - 1) :
                            row < GemmM /\ id = row \div ChunkM}
  BY DEF TileReads
<1>7. ASSUME NEW id \in TileReads[t] PROVE id \in TileWaits[t]
  <2>1. PICK row \in (t * TileM)..(t * TileM + TileM - 1) : id = row \div ChunkM
    BY <1>6
  <2>2. first <= id /\ id <= last
    <3>1. row \in Int /\ t * TileM <= row /\ row <= t * TileM + TileM - 1
          /\ t * TileM + TileM - 1 \in Int
      BY <2>1, <1>4, <1>1
    <3>2. t * TileM \in Int BY <1>4
    <3>3. (t * TileM) \div ChunkM <= row \div ChunkM BY ONLY <3>1, <3>2, <1>1, DivMono
    <3>4. row \div ChunkM <= (t * TileM + TileM - 1) \div ChunkM
      BY ONLY <3>1, <1>1, DivMono
    <3> QED BY <3>3, <3>4, <2>1
  <2> QED BY <2>2, <1>5, <1>6
<1>8. first \in TileWaits[t]
  <2>1. first \in 0..(total - 1)
    <3> HIDE DEF total
    <3> QED BY <1>1, <1>2, <1>4, DivLess
  <2>2. first \in ChunkIds BY <2>1 DEF ChunkIds
  <2>3. first <= last
    <3>1. t * TileM <= t * TileM + TileM - 1 /\ t * TileM + TileM - 1 \in Int
      BY <1>1, <1>4
    <3> QED BY ONLY <3>1, <1>1, <1>4, DivMono
  <2> QED BY <2>1, <2>2, <2>3, <1>5
<1> QED BY <1>7, <1>8

-----------------------------------------------------------------------------
(* The order of forwards: what barriers and streams give. *)

LEMMA RankTypes ==
    ASSUME IInv, NEW r \in Ranks
    PROVE  /\ commFwd[r] \in Nat /\ compFwd[r] \in Nat
           /\ commPc[r] \in {"wait", "kernel"} /\ compPc[r] \in {"input", "signal", "gemm"}
           /\ ResetDone(r) = IF commPc[r] = "wait" THEN commFwd[r] ELSE commFwd[r] + 1
           /\ InputReady(r) = IF compPc[r] = "input" THEN compFwd[r] ELSE compFwd[r] + 1
           /\ ResetDone(r) \in Nat /\ InputReady(r) \in Nat
  BY ConfigAssumption DEF IInv, TypeOK, HostTypes, Forwards, ResetDone, InputReady

LEMMA CtaFacts ==
    ASSUME IInv, NEW r \in Ranks, NEW b \in Blocks
    PROVE  /\ blk[r][b] \in {"launch", "handshake", "start_sync", "run", "end_sync", "done"}
           /\ blk[r][b] = "done" <=> commPc[r] = "wait"
           /\ arrived[r][b] \in Nat
           /\ arrived[r][b] = 2 * commFwd[r] + (IF blk[r][b] \in {"start_sync", "run"} THEN 1
                                                ELSE IF blk[r][b] = "end_sync" THEN 2 ELSE 0)
<1>1. /\ blk[r][b] \in {"launch", "handshake", "start_sync", "run", "end_sync", "done"}
      /\ arrived[r][b] \in 0..(2 * MaxForwards)
  BY DEF IInv, TypeOK, CtaTypes
<1>2. blk[r][b] = "done" <=> commPc[r] = "wait" BY DEF IInv, ControlState
<1>3. arrived[r][b] = 2 * commFwd[r] + ArrivedNow(r, b) BY DEF IInv, ArrivalsCountForwards
<1> QED BY <1>1, <1>2, <1>3, ConfigAssumption DEF ArrivedNow

LEMMA MeetArith ==
    ASSUME NEW cr \in Nat, NEW cq \in Nat, NEW nr \in 0..2, NEW nq \in 0..2,
           2 * cq + nq >= 2 * cr, 2 * cr + nr >= 2 * cq
    PROVE  /\ cq >= cr \/ (cq = cr - 1 /\ nq = 2)
           /\ 2 * cq + nq >= 2 * cr + 1 => cq >= cr + 1 \/ (cq = cr /\ nq >= 1)
           /\ nr <= 1 => cq <= cr
  OBVIOUS

\* Where the CTA b of another rank can be.
LEMMA Meeting ==
    ASSUME IInv, BarriersHold, NEW r \in Ranks, NEW q \in Ranks, NEW b \in Blocks
    PROVE  /\ commFwd[q] >= commFwd[r]
                \/ (commFwd[q] = commFwd[r] - 1 /\ blk[q][b] = "end_sync")
           /\ Working(r, b) =>
                \/ commFwd[q] >= commFwd[r] + 1
                \/ commFwd[q] = commFwd[r] /\ blk[q][b] \in {"start_sync", "run", "end_sync"}
           /\ Entering(r, b) => commFwd[q] <= commFwd[r]
           /\ ResetDone(q) >= commFwd[r]
           /\ Working(r, b) => ResetDone(q) >= commFwd[r] + 1
           /\ Entering(r, b) => ResetDone(q) <= commFwd[r] + 1
<1> DEFINE nowq == IF blk[q][b] \in {"start_sync", "run"} THEN 1
                   ELSE IF blk[q][b] = "end_sync" THEN 2 ELSE 0
           nowr == IF blk[r][b] \in {"start_sync", "run"} THEN 1
                   ELSE IF blk[r][b] = "end_sync" THEN 2 ELSE 0
<1>1. /\ commFwd[r] \in Nat /\ commFwd[q] \in Nat
      /\ arrived[q][b] = 2 * commFwd[q] + nowq /\ arrived[r][b] = 2 * commFwd[r] + nowr
  BY RankTypes, CtaFacts
<1>2. /\ nowq \in 0..2 /\ (nowq = 2 <=> blk[q][b] = "end_sync") /\ nowr \in 0..2
      /\ nowq >= 1 => blk[q][b] \in {"start_sync", "run", "end_sync"}
  OBVIOUS
<1>3. Entering(r, b) => nowr <= 1 BY DEF Entering
<1>4. /\ arrived[q][b] >= 2 * commFwd[r]
      /\ Working(r, b) => arrived[q][b] >= 2 * commFwd[r] + 1
      /\ arrived[r][b] >= 2 * commFwd[q]
  BY DEF BarriersHold
<1>5. blk[q][b] # "done" => ResetDone(q) = commFwd[q] + 1 BY RankTypes, CtaFacts
<1>6. ResetDone(q) \in {commFwd[q], commFwd[q] + 1} BY RankTypes
<1> HIDE DEF nowq, nowr
<1>7. /\ commFwd[q] >= commFwd[r] \/ (commFwd[q] = commFwd[r] - 1 /\ nowq = 2)
      /\ arrived[q][b] >= 2 * commFwd[r] + 1 =>
            commFwd[q] >= commFwd[r] + 1 \/ (commFwd[q] = commFwd[r] /\ nowq >= 1)
      /\ nowr <= 1 => commFwd[q] <= commFwd[r]
  BY <1>1, <1>2, <1>4, MeetArith
<1>8. /\ commFwd[q] >= commFwd[r] \/ (commFwd[q] = commFwd[r] - 1 /\ blk[q][b] = "end_sync")
      /\ Working(r, b) =>
            \/ commFwd[q] >= commFwd[r] + 1
            \/ commFwd[q] = commFwd[r] /\ blk[q][b] \in {"start_sync", "run", "end_sync"}
      /\ Entering(r, b) => commFwd[q] <= commFwd[r]
  BY <1>2, <1>3, <1>4, <1>7
<1> QED BY <1>1, <1>5, <1>6, <1>8

LEMMA InitOrder == Init => OrderInv
  BY DEF Init, OrderInv, BarriersHold, StreamsClose, FlagsFollowResets, Working,
         InputReady, ResetDone

\* Steps that only move a CTA, or make it arrive.
LEMMA BarriersKept ==
    ASSUME IInv, IInv', BarriersHold, UNCHANGED commFwd,
           \A q \in Ranks, c \in Blocks : /\ arrived'[q][c] >= arrived[q][c]
                                          /\ Working(q, c)' => Working(q, c)
    PROVE  BarriersHold'
<1> SUFFICES ASSUME NEW r \in Ranks, NEW q \in Ranks, NEW b \in Blocks
             PROVE  /\ arrived'[q][b] >= 2 * commFwd[r]
                    /\ Working(r, b)' => arrived'[q][b] >= 2 * commFwd[r] + 1
  BY DEF BarriersHold
<1>1. arrived'[q][b] \in Int /\ arrived[q][b] \in Int /\ commFwd[r] \in Int
  <2>1. arrived'[q][b] \in 0..(2 * MaxForwards) BY DEF IInv, TypeOK, CtaTypes
  <2> QED BY <2>1, RankTypes, CtaFacts, ConfigAssumption
<1>2. /\ arrived[q][b] >= 2 * commFwd[r]
      /\ Working(r, b) => arrived[q][b] >= 2 * commFwd[r] + 1
  BY DEF BarriersHold
<1> QED BY <1>1, <1>2

\* Steps of which the streams see nothing.
LEMMA StreamsKept ==
    ASSUME StreamsClose, UNCHANGED <<input, compFwd, compPc, commFwd, commPc>>
    PROVE  StreamsClose'
  BY DEF StreamsClose, InputReady, ResetDone

LEMMA FlagsKept ==
    ASSUME FlagsFollowResets, UNCHANGED <<commFwd, commPc, ready>>
    PROVE  FlagsFollowResets'
  BY DEF FlagsFollowResets, ResetDone

LEMMA ComputeOrder ==
    ASSUME IInv, IInv', OrderInv, NEW r \in Ranks, Compute(r)
    PROVE  OrderInv'
<1>1. UNCHANGED <<commFwd, commPc, ready, arrived, blk>>
  BY DEF Compute, ProduceInput, GemmStart, GemmTile
<1>2. BarriersHold' BY <1>1 DEF OrderInv, BarriersHold, Working
<1>3. FlagsFollowResets' BY <1>1, FlagsKept DEF OrderInv
<1>4. \A q \in Ranks : ResetDone(q)' = ResetDone(q) BY <1>1 DEF ResetDone
<1>5. \A q \in Ranks : q # r => input'[q] = input[q] /\ InputReady(q)' = InputReady(q)
                                /\ compFwd'[q] = compFwd[q]
  BY DEF Compute, ProduceInput, GemmStart, GemmTile, InputReady, IInv, TypeOK, HostTypes
<1>6. /\ input'[r] = InputReady(r)'
      /\ ResetDone(r) <= InputReady(r)'
      /\ ResetDone(r) \in {compFwd'[r], compFwd'[r] + 1}
  <2>0. /\ input[r] = InputReady(r)
        /\ ResetDone(r) <= InputReady(r)
        /\ ResetDone(r) \in {compFwd[r], compFwd[r] + 1}
    BY DEF OrderInv, StreamsClose
  <2>1. CASE ProduceInput(r)
    <3>1. /\ input'[r] = compFwd[r] + 1 /\ compFwd'[r] = compFwd[r]
          /\ compPc[r] = "input" /\ compPc'[r] = "signal"
      BY <2>1 DEF ProduceInput, IInv, TypeOK, HostTypes
    <3> QED BY <2>0, <3>1, RankTypes DEF InputReady
  <2>2. CASE GemmStart(r)
    <3>1. /\ input'[r] = input[r] /\ compFwd'[r] = compFwd[r]
          /\ compPc[r] = "signal" /\ compPc'[r] = "gemm"
      BY <2>2 DEF GemmStart, IInv, TypeOK, HostTypes
    <3> QED BY <2>0, <3>1, RankTypes DEF InputReady
  <2>3. ASSUME NEW t \in Tiles, GemmTile(r, t)
        PROVE  /\ input'[r] = InputReady(r)'
               /\ ResetDone(r) <= InputReady(r)'
               /\ ResetDone(r) \in {compFwd'[r], compFwd'[r] + 1}
    <3>1. compPc[r] = "gemm" /\ input'[r] = input[r] BY <2>3 DEF GemmTile
    <3>2. \/ compFwd'[r] = compFwd[r] /\ compPc'[r] = "gemm"
          \/ compFwd'[r] = compFwd[r] + 1 /\ compPc'[r] = "input"
      BY <2>3, <3>1 DEF GemmTile, IInv, TypeOK, HostTypes
    <3>3. ResetDone(r) >= compFwd[r] + 1
      BY <3>1, RankTypes DEF IInv, ResidentBeforeGemm
    <3> QED BY <2>0, <3>1, <3>2, <3>3, RankTypes DEF InputReady
  <2> QED BY <2>1, <2>2, <2>3 DEF Compute
<1>7. StreamsClose' BY <1>4, <1>5, <1>6 DEF OrderInv, StreamsClose
<1> QED BY <1>2, <1>3, <1>7 DEF OrderInv

LEMMA CommLaunchOrder ==
    ASSUME IInv, IInv', OrderInv, NEW r \in Ranks, CommLaunch(r)
    PROVE  OrderInv'
<1> USE DEF CommLaunch, compute
<1>1. \A q \in Ranks, c \in Blocks : blk'[q][c] = IF q = r THEN "launch" ELSE blk[q][c]
  BY DEF IInv, TypeOK, CtaTypes
<1>2. \A q \in Ranks : /\ commPc'[q] = IF q = r THEN "kernel" ELSE commPc[q]
                       /\ commFwd'[q] = commFwd[q]
  BY DEF IInv, TypeOK, HostTypes
<1>3. /\ \A q \in Ranks : ResetDone(q)' = IF q = r THEN ResetDone(q) + 1 ELSE ResetDone(q)
      /\ ResetDone(r) = commFwd[r]
  BY <1>2 DEF ResetDone
<1>4. BarriersHold'
  <2>1. \A q \in Ranks, c \in Blocks : arrived'[q][c] >= arrived[q][c]
    BY CtaFacts
  <2>2. \A q \in Ranks, c \in Blocks : Working(q, c)' => Working(q, c)
    BY <1>1 DEF Working
  <2> QED BY <2>1, <2>2, BarriersKept DEF OrderInv
<1>5. StreamsClose'
  <2>1. InputReady(r) > commFwd[r] /\ compFwd[r] >= commFwd[r]
    BY DEF CommMayReset, ComputeDone
  <2>2. InputReady(r) \in {compFwd[r], compFwd[r] + 1} BY DEF InputReady
  <2>3. /\ input[r] = InputReady(r) /\ ResetDone(r) <= InputReady(r)
        /\ ResetDone(r) \in {compFwd[r], compFwd[r] + 1}
    BY DEF OrderInv, StreamsClose
  <2>4. /\ ResetDone(r)' <= InputReady(r)
        /\ ResetDone(r)' \in {compFwd[r], compFwd[r] + 1}
    BY <1>3, <2>1, <2>2, <2>3, RankTypes
  <2>5. \A q \in Ranks : InputReady(q)' = InputReady(q) BY DEF InputReady
  <2> QED BY <1>3, <2>3, <2>4, <2>5 DEF OrderInv, StreamsClose
<1>6. FlagsFollowResets'
  <2> SUFFICES ASSUME NEW p \in Ranks, NEW q \in Ranks, NEW id \in ChunkIds, ready'[p][id] = 1
               PROVE  ResetDone(q)' >= ResetDone(p)'
    BY DEF FlagsFollowResets
  <2>1. p # r /\ ready[p][id] = 1 BY DEF IInv, TypeOK, MemoryTypes
  <2>2. ResetDone(q) >= ResetDone(p) BY <2>1 DEF OrderInv, FlagsFollowResets
  <2> QED BY <2>1, <2>2, <1>3, RankTypes
<1> QED BY <1>4, <1>5, <1>6 DEF OrderInv

LEMMA CommDoneOrder ==
    ASSUME IInv, IInv', OrderInv, NEW r \in Ranks, CommDone(r)
    PROVE  OrderInv'
<1> USE DEF CommDone, compute, control
<1>1. \A q \in Ranks, c \in Blocks : blk'[q][c] = IF q = r THEN "done" ELSE blk[q][c]
  BY DEF IInv, TypeOK, CtaTypes
<1>2. \A q \in Ranks : /\ commPc'[q] = IF q = r THEN "wait" ELSE commPc[q]
                       /\ commFwd'[q] = IF q = r THEN commFwd[q] + 1 ELSE commFwd[q]
  BY DEF IInv, TypeOK, HostTypes
<1>3. \A q \in Ranks : ResetDone(q)' = ResetDone(q) BY <1>2 DEF ResetDone
<1>4. BarriersHold'
  <2> SUFFICES ASSUME NEW p \in Ranks, NEW q \in Ranks, NEW b \in Blocks
               PROVE  /\ arrived[q][b] >= 2 * commFwd'[p]
                      /\ Working(p, b)' => arrived[q][b] >= 2 * commFwd'[p] + 1
    BY DEF BarriersHold
  <2>1. CASE p = r
    <3>1. arrived[q][b] >= arrived[r][b] /\ blk[r][b] = "end_sync"
      BY DEF EndMayPass, Synced
    <3>2. arrived[r][b] = 2 * commFwd[r] + 2 BY <3>1, CtaFacts
    <3>3. commFwd'[r] = commFwd[r] + 1 /\ commFwd[r] \in Nat BY <1>2, RankTypes
    <3>4. ~Working(r, b)' BY <1>1 DEF Working
    <3> QED BY <2>1, <3>1, <3>2, <3>3, <3>4
  <2>2. CASE p # r BY <2>2, <1>1, <1>2 DEF OrderInv, BarriersHold, Working
  <2> QED BY <2>1, <2>2
<1>5. StreamsClose'
  <2>1. \A q \in Ranks : InputReady(q)' = InputReady(q) BY DEF InputReady
  <2> QED BY <1>3, <2>1 DEF OrderInv, StreamsClose
<1>6. FlagsFollowResets' BY <1>3 DEF OrderInv, FlagsFollowResets
<1> QED BY <1>4, <1>5, <1>6 DEF OrderInv

\* Arriving at a barrier.
LEMMA ArriveOrder ==
    ASSUME IInv, IInv', OrderInv, NEW r \in Ranks, NEW b \in Blocks,
           UNCHANGED <<input, compFwd, compPc, commFwd, commPc, ready>>,
           NEW at, at = "end_sync" => blk[r][b] = "run",
           at \in {"handshake", "start_sync", "end_sync"},
           blk' = [blk EXCEPT ![r][b] = at],
           \/ arrived' = arrived
           \/ arrived' = [arrived EXCEPT ![r][b] = @ + 1]
    PROVE  OrderInv'
<1>1. \A q \in Ranks, c \in Blocks : arrived'[q][c] >= arrived[q][c]
  <2> SUFFICES ASSUME NEW q \in Ranks, NEW c \in Blocks PROVE arrived'[q][c] >= arrived[q][c]
    OBVIOUS
  <2>1. CASE arrived' = arrived BY <2>1, CtaFacts
  <2>2. CASE arrived' = [arrived EXCEPT ![r][b] = @ + 1]
    <3>1. arrived'[q][c] = IF q = r /\ c = b THEN arrived[q][c] + 1 ELSE arrived[q][c]
      BY <2>2 DEF IInv, TypeOK, CtaTypes
    <3> QED BY <3>1, CtaFacts
  <2> QED BY <2>1, <2>2
<1>2. \A q \in Ranks, c \in Blocks : Working(q, c)' => Working(q, c)
  <2> SUFFICES ASSUME NEW q \in Ranks, NEW c \in Blocks, Working(q, c)' PROVE Working(q, c)
    OBVIOUS
  <2>1. blk'[q][c] = IF q = r /\ c = b THEN at ELSE blk[q][c]
    BY DEF IInv, TypeOK, CtaTypes
  <2> QED BY <2>1 DEF Working
<1>3. BarriersHold' BY <1>1, <1>2, BarriersKept DEF OrderInv
<1> QED BY <1>3, StreamsKept, FlagsKept DEF OrderInv

LEMMA BlockStartOrder ==
    ASSUME IInv, IInv', OrderInv, NEW r \in Ranks, NEW b \in Blocks, BlockStart(r, b)
    PROVE  OrderInv'
<1> DEFINE at == IF b = 0 THEN "handshake" ELSE "start_sync"
<1>1. /\ blk' = [blk EXCEPT ![r][b] = at]
      /\ arrived' = arrived \/ arrived' = [arrived EXCEPT ![r][b] = @ + 1]
      /\ UNCHANGED <<input, compFwd, compPc, commFwd, commPc, ready>>
  BY DEF BlockStart, compute
<1>2. at \in {"handshake", "start_sync", "end_sync"} /\ at # "end_sync" OBVIOUS
<1> HIDE DEF at
<1> QED BY <1>1, <1>2, ArriveOrder

LEMMA EndArriveOrder ==
    ASSUME IInv, IInv', OrderInv, NEW r \in Ranks, NEW b \in Blocks, EndArrive(r, b)
    PROVE  OrderInv'
<1>1. /\ blk' = [blk EXCEPT ![r][b] = "end_sync"] /\ blk[r][b] = "run"
      /\ arrived' = [arrived EXCEPT ![r][b] = @ + 1]
      /\ UNCHANGED <<input, compFwd, compPc, commFwd, commPc, ready>>
  BY DEF EndArrive, compute
<1> QED BY <1>1, ArriveOrder

LEMMA ReleaseOrder ==
    ASSUME IInv, IInv', OrderInv, NEW r \in Ranks, ReleaseProducer(r)
    PROVE  OrderInv'
<1>1. /\ blk' = [blk EXCEPT ![r][0] = "start_sync"]
      /\ arrived' = [arrived EXCEPT ![r][0] = @ + 1]
      /\ UNCHANGED <<input, compFwd, compPc, commFwd, commPc, ready>>
  BY DEF ReleaseProducer, compute
<1>2. 0 \in Blocks BY ConfigAssumption DEF Blocks
<1> QED BY <1>1, <1>2, ArriveOrder

LEMMA StartPassOrder ==
    ASSUME IInv, IInv', OrderInv, NEW r \in Ranks, NEW b \in Blocks, StartPass(r, b)
    PROVE  OrderInv'
<1> USE DEF StartPass, compute, control
<1>1. \A q \in Ranks, c \in Blocks :
        blk'[q][c] = IF q = r /\ c = b THEN "run" ELSE blk[q][c]
  BY DEF IInv, TypeOK, CtaTypes
<1>2. BarriersHold'
  <2> SUFFICES ASSUME NEW p \in Ranks, NEW q \in Ranks, NEW c \in Blocks
               PROVE  /\ arrived[q][c] >= 2 * commFwd[p]
                      /\ Working(p, c)' => arrived[q][c] >= 2 * commFwd[p] + 1
    BY DEF BarriersHold
  <2>1. CASE p = r /\ c = b
    <3>1. arrived[q][b] >= arrived[r][b] BY DEF StartMayPass, Synced
    <3>2. arrived[r][b] = 2 * commFwd[r] + 1 BY CtaFacts
    <3> QED BY <2>1, <3>1, <3>2, CtaFacts, RankTypes
  <2>2. CASE ~(p = r /\ c = b) BY <2>2, <1>1 DEF OrderInv, BarriersHold, Working
  <2> QED BY <2>1, <2>2
<1> QED BY <1>2, StreamsKept, FlagsKept DEF OrderInv

\* The warps of a CTA; only WorkerPublish raises flags.
LEMMA WarpOrder ==
    ASSUME IInv, IInv', OrderInv, NEW r \in Ranks, NEW b \in Blocks,
           RingPut(r, b) \/ GinDeliver(r, b) \/ WorkerCopy(r, b) \/ WorkerPublish(r, b)
    PROVE  OrderInv'
<1>1. UNCHANGED <<input, compFwd, compPc, commFwd, commPc, blk, arrived>>
  BY DEF RingPut, GinDeliver, WorkerCopy, WorkerPublish, compute
<1>2. BarriersHold' BY <1>1 DEF OrderInv, BarriersHold, Working
<1>3. FlagsFollowResets'
  <2>1. CASE UNCHANGED ready BY <2>1, <1>1, FlagsKept DEF OrderInv
  <2>2. CASE WorkerPublish(r, b)
    <3>1. Working(r, b) /\ Entering(r, b) BY <2>2 DEF WorkerPublish, Working, Entering
    <3>2. \A q \in Ranks : ResetDone(q) = commFwd[r] + 1
      <4> TAKE q \in Ranks
      <4> QED BY <3>1, Meeting, RankTypes DEF OrderInv
    <3>3. \A q \in Ranks : ResetDone(q)' = ResetDone(q) /\ ResetDone(q) \in Nat
      BY <1>1, RankTypes DEF ResetDone
    <3> QED BY <3>2, <3>3 DEF FlagsFollowResets
  <2> QED BY <2>1, <2>2 DEF RingPut, GinDeliver, WorkerCopy
<1> QED BY <1>1, <1>2, <1>3, StreamsKept DEF OrderInv

LEMMA NextOrder == IInv /\ IInv' /\ OrderInv /\ [Next]_vars => OrderInv'
<1> SUFFICES ASSUME IInv, IInv', OrderInv, [Next]_vars PROVE OrderInv' OBVIOUS
<1>1. CASE Next
  <2> PICK r \in Ranks : \/ Compute(r) \/ Comm(r) \/ ReleaseProducer(r)
                         \/ \E b \in Blocks : Block(r, b)
    BY <1>1 DEF Next
  <2>1. CASE Compute(r) BY <2>1, ComputeOrder
  <2>2. CASE Comm(r) BY <2>2, CommLaunchOrder, CommDoneOrder DEF Comm
  <2>3. CASE ReleaseProducer(r) BY <2>3, ReleaseOrder
  <2>4. ASSUME NEW b \in Blocks, Block(r, b) PROVE OrderInv'
    <3>1. CASE BlockStart(r, b) BY <3>1, BlockStartOrder
    <3>2. CASE StartPass(r, b) BY <3>2, StartPassOrder
    <3>3. CASE RingPut(r, b) \/ GinDeliver(r, b) \/ WorkerCopy(r, b) \/ WorkerPublish(r, b)
      BY <3>3, WarpOrder
    <3>4. CASE EndArrive(r, b) BY <3>4, EndArriveOrder
    <3> QED BY <2>4, <3>1, <3>2, <3>3, <3>4 DEF Block
  <2> QED BY <2>1, <2>2, <2>3, <2>4
<1>2. CASE UNCHANGED vars
  BY <1>2 DEF vars, OrderInv, BarriersHold, Working, StreamsClose, FlagsFollowResets,
              InputReady, ResetDone
<1> QED BY <1>1, <1>2

LEMMA OrderAlways == Safe => [](IInv /\ OrderInv)
<1>1. Init => IInv /\ OrderInv BY InitIInv, InitOrder
<1>2. IInv /\ OrderInv /\ [Next]_vars => (IInv /\ OrderInv)' BY NextIInv, NextOrder
<1> QED BY <1>1, <1>2, PTL DEF Safe

-----------------------------------------------------------------------------
(* The refinement of the abstract barrier. *)

LEMMA StepRefines == IInv /\ OrderInv /\ [Next]_vars => [Abstract!Next]_(Abstract!vars)
<1> SUFFICES ASSUME IInv, OrderInv, [Next]_vars PROVE [Abstract!Next]_(Abstract!vars)
  OBVIOUS
<1> DEFINE ready_ == [r \in Ranks |-> InputReady(r)]
<1>1. ASSUME NEW r \in Ranks, ProduceInput(r) PROVE Abstract!Next
  <2>1. /\ compPc[r] = "input" /\ compFwd[r] < MaxForwards
        /\ compPc' = [compPc EXCEPT ![r] = "signal"] /\ UNCHANGED compFwd
    BY <1>1 DEF ProduceInput
  <2>2. \A q \in Ranks : InputReady(q)' = IF q = r THEN InputReady(q) + 1 ELSE InputReady(q)
    BY <2>1 DEF InputReady, IInv, TypeOK, HostTypes
  <2>3. InputReady(r) = compFwd[r] BY <2>1 DEF InputReady
  <2>4. ready_' = [ready_ EXCEPT ![r] = @ + 1] BY <2>2
  <2> QED BY <2>1, <2>3, <2>4 DEF Abstract!Next, Abstract!Enter
<1>2. ASSUME NEW r \in Ranks, GemmStart(r) PROVE UNCHANGED Abstract!vars
  BY <1>2 DEF GemmStart, InputReady, IInv, TypeOK, HostTypes, Abstract!vars
<1>3. ASSUME NEW r \in Ranks, NEW t \in Tiles, GemmTile(r, t)
      PROVE  [Abstract!Next]_(Abstract!vars)
  <2>1. /\ compPc[r] = "gemm"
        /\ \A id \in TileWaits[t] : ready[r][id] = 1
    BY <1>3 DEF GemmTile
  <2>2. InputReady(r) = compFwd[r] + 1 BY <2>1, RankTypes
  <2>3. CASE compPc' = compPc /\ compFwd' = compFwd
    BY <2>3 DEF InputReady, Abstract!vars
  <2>4. CASE /\ compFwd' = [compFwd EXCEPT ![r] = @ + 1]
             /\ compPc' = [compPc EXCEPT ![r] = "input"]
    <3>1. \A q \in Ranks : InputReady(q)' = InputReady(q)
      BY <2>1, <2>4 DEF InputReady, IInv, TypeOK, HostTypes
    <3>2. ready_' = ready_ BY <3>1
    <3>3. \A q \in Ranks : compFwd[r] < InputReady(q)
      <4> TAKE q \in Ranks
      <4>1. PICK id \in TileWaits[t] : ready[r][id] = 1 BY <2>1, TileFacts
      <4>2. id \in ChunkIds BY DEF TileWaits
      <4>3. ResetDone(q) >= ResetDone(r) BY <4>1, <4>2 DEF OrderInv, FlagsFollowResets
      <4>4. ResetDone(r) >= compFwd[r] + 1
        BY <2>1, RankTypes DEF IInv, ResidentBeforeGemm
      <4>5. ResetDone(q) <= InputReady(q) BY DEF OrderInv, StreamsClose
      <4> QED BY <4>3, <4>4, <4>5, RankTypes
    <3> QED BY <2>4, <3>2, <3>3 DEF Abstract!Next, Abstract!Leave
  <2> QED BY <1>3, <2>1, <2>3, <2>4 DEF GemmTile, IInv, TypeOK, HostTypes
<1>4. CASE UNCHANGED <<compFwd, compPc>> BY <1>4 DEF InputReady, Abstract!vars
<1>5. ASSUME NEW r \in Ranks, \/ Comm(r) \/ ReleaseProducer(r)
                              \/ \E b \in Blocks : Block(r, b)
      PROVE  UNCHANGED <<compFwd, compPc>>
  BY <1>5 DEF Comm, CommLaunch, CommDone, ReleaseProducer, Block, BlockStart, StartPass,
              RingPut, GinDeliver, WorkerCopy, WorkerPublish, EndArrive, compute
<1>6. CASE UNCHANGED vars BY <1>6, <1>4 DEF vars
<1>7. CASE Next
  <2> PICK r \in Ranks : \/ Compute(r) \/ Comm(r) \/ ReleaseProducer(r)
                         \/ \E b \in Blocks : Block(r, b)
    BY <1>7 DEF Next
  <2> QED BY <1>1, <1>2, <1>3, <1>4, <1>5 DEF Compute
<1> QED BY <1>6, <1>7

\* The gather orders the forwards of all ranks as a barrier does: no rank's GEMM ends in
\* a forward before every rank has provided the input of that forward.
THEOREM Refinement == Safe => ForwardsAreBarrier
<1>1. Init => Abstract!Init BY DEF Init, Abstract!Init, InputReady
<1> QED BY <1>1, StepRefines, OrderAlways, PTL DEF Safe, ForwardsAreBarrier, Abstract!Safe


-----------------------------------------------------------------------------
(***************************************************************************)
(* Part three: data.  Flags stand for the data of their forward, tiles     *)
(* read it, puts stay in their forward and no signal is left over.         *)
(* SignalsCount counts signals, puts under way, shadows and local signal   *)
(* values from the number of completed forwards (Base).  DataInv says      *)
(* which chunks of a window hold the data of its rank's forward: the own   *)
(* segment once staged, the chunks whose signals have come, those the      *)
(* workers have copied, and those whose flag is up.  The signals say who   *)
(* is at work, barriers then say that all ranks have reset for the same    *)
(* forward, and every write into a window is of that forward.              *)
(***************************************************************************)

\* The signals of block b that belong to completed forwards.
Base(r, b) == commFwd[r] * RingLength(b)

\* How many of the first n iterations of a warp's loops have waited for a signal.
Waited(b, n) == IF n <= NSplits(b) THEN 0 ELSE n - NSplits(b)

\* The puts CTA b of rank r has issued, in all forwards.
Issued(r, b) == Base(r, b) + (IF blk[r][b] = "run" THEN ring[r][b].pos
                              ELSE IF blk[r][b] = "end_sync" THEN RingLength(b) ELSE 0)

\* The iterations a worker has waited for.
Begun(r, b) == worker[r][b].pos + (IF worker[r][b].copied THEN 1 ELSE 0)

\* A put is under way or has been signalled, and shadows and local signal values
\* are counts of the waits that have been passed.
Counted(r, b) ==
    /\ signal[NextPeer[r]][b] + Len(wire[r][b]) = Issued(r, b)
    /\ shadow[r][b] = IF blk[r][b] = "end_sync" THEN Base(r, b) + RingLength(b)
                      ELSE Base(r, b)
    /\ shadow[r][b] <= signal[r][b]
    /\ blk[r][b] \in {"handshake", "start_sync"} =>
          /\ ring[r][b] = [pos |-> 0, sig |-> Base(r, b)]
          /\ worker[r][b] = [pos |-> 0, sig |-> Base(r, b), copied |-> FALSE]
    /\ blk[r][b] = "run" =>
          /\ ring[r][b].sig = Base(r, b) + Waited(b, ring[r][b].pos)
          /\ worker[r][b].sig = Base(r, b) + Waited(b, Begun(r, b))
          /\ ring[r][b].sig <= signal[r][b] /\ worker[r][b].sig <= signal[r][b]

SignalsCount == \A r \in Ranks, b \in Blocks : Counted(r, b)

\* The own segment, from its staging to the end of the kernel.
Staged(r) ==
    commPc[r] = "kernel" => \A id \in OwnChunks[r] : window[r][id] = ResetDone(r)

\* The chunks whose signals have come.
Received(r, b) ==
    \A j \in 0..(RingLength(b) - 1) :
        Base(r, b) + j < signal[r][b] =>
            window[r][ChunkOf[r][b][j + NSplits(b)]] = ResetDone(r)

\* The chunk the workers have stored to the LSA peers and not yet published.
Copied(r, b) ==
    blk[r][b] = "run" /\ worker[r][b].copied =>
        \A p \in LsaPeers[r] :
            window[p][ChunkOf[r][b][worker[r][b].pos]] = ResetDone(p)

\* The n-th put under way is the one the n-th next signal announces.
Wired(r, b) ==
    \A n \in 1..Len(wire[r][b]) :
        /\ wire[r][b][n].id =
              ChunkOf[r][b][signal[NextPeer[r]][b] - Base(r, b) + n - 1]
        /\ wire[r][b][n].val = ResetDone(r)

DataInv == /\ \A r \in Ranks : Staged(r)
           /\ \A r \in Ranks, b \in Blocks : Received(r, b) /\ Copied(r, b) /\ Wired(r, b)
           /\ ReadyMeansCurrent

-----------------------------------------------------------------------------
(* How many signals there are. *)

LEMMA BaseFacts ==
    ASSUME IInv, NEW r \in Ranks, NEW q \in Ranks, NEW b \in Blocks
    PROVE  /\ Base(r, b) \in Nat /\ RingLength(b) \in Nat \ {0}
           /\ commFwd[q] = commFwd[r] => Base(q, b) = Base(r, b)
           /\ commFwd[q] = commFwd[r] + 1 => Base(q, b) = Base(r, b) + RingLength(b)
           /\ commFwd[q] >= commFwd[r] => Base(q, b) >= Base(r, b)
           /\ commFwd[q] >= commFwd[r] + 1 => Base(q, b) >= Base(r, b) + RingLength(b)
<1> DEFINE len == RingLength(b)
           fr == commFwd[r]
           fq == commFwd[q]
<1>1. len \in Nat \ {0} /\ fr \in Nat /\ fq \in Nat BY RingIsWorkerLess, RankTypes
<1>2. Base(r, b) = fr * len /\ Base(q, b) = fq * len BY DEF Base
<1> HIDE DEF len, fr, fq
<1>3. fr * len \in Nat /\ (fr + 1) * len = fr * len + len /\ (fr + 1) * len \in Nat BY <1>1
<1>4. fq >= fr => fr * len <= fq * len BY <1>1, MulMono
<1>5. fq >= fr + 1 => (fr + 1) * len <= fq * len BY <1>1, MulMono
<1>6. /\ fr * len \in Nat
      /\ fq = fr => fq * len = fr * len
      /\ fq = fr + 1 => fq * len = fr * len + len
      /\ fq >= fr => fq * len >= fr * len
      /\ fq >= fr + 1 => fq * len >= fr * len + len
  <2>1. fq = fr + 1 => fq * len = fr * len + len BY <1>3
  <2>2. fq * len \in Nat BY <1>1
  <2> QED BY <2>1, <2>2, <1>1, <1>3, <1>4, <1>5
<1> QED BY <1>1, <1>2, <1>6 DEF len, fr, fq

LEMMA CountTypes ==
    ASSUME IInv, NEW r \in Ranks, NEW b \in Blocks
    PROVE  /\ signal[r][b] \in Nat /\ shadow[r][b] \in Nat
           /\ wire[r][b] \in Seq([id : ChunkIds, val : Forwards])
           /\ Len(wire[r][b]) \in Nat
           /\ ring[r][b] \in [pos : Nat, sig : Nat]
           /\ worker[r][b] \in [pos : Nat, sig : Nat, copied : BOOLEAN]
           /\ ring[r][b].pos \in Nat /\ ring[r][b].pos <= RingLength(b)
           /\ worker[r][b].pos \in Nat /\ worker[r][b].pos <= WorkerLength(b)
           /\ worker[r][b].copied => worker[r][b].pos < WorkerLength(b)
<1>1. wire[r][b] \in Seq([id : ChunkIds, val : Forwards])
  BY DEF IInv, TypeOK, MemoryTypes
<1>2. signal[r][b] \in Nat /\ shadow[r][b] \in Nat BY DEF IInv, TypeOK, MemoryTypes
<1>3. /\ ring[r][b] \in [pos : Nat, sig : Nat]
      /\ worker[r][b] \in [pos : Nat, sig : Nat, copied : BOOLEAN]
      /\ ring[r][b].pos <= RingLength(b) /\ worker[r][b].pos <= WorkerLength(b)
  BY DEF IInv, TypeOK, CtaTypes
<1>4. worker[r][b].copied => worker[r][b].pos < WorkerLength(b)
  BY DEF IInv, ControlState
<1> QED BY <1>1, <1>2, <1>3, <1>4

LEMMA WaitedFacts ==
    ASSUME NEW b \in Blocks
    PROVE  /\ Waited(b, 0) = 0 /\ Waited(b, WorkerLength(b)) = RingLength(b)
           /\ \A n \in Nat : /\ Waited(b, n) \in Nat
                             /\ Waited(b, n + 1) = IF MustWait(b, n) THEN Waited(b, n) + 1
                                                   ELSE Waited(b, n)
                             /\ MustWait(b, n) => Waited(b, n) = n - NSplits(b)
<1>1. NSplits(b) \in Nat \ {0} /\ WorkerLength(b) = RingLength(b) + NSplits(b)
      /\ RingLength(b) \in Nat \ {0}
  BY RingIsWorkerLess
<1>2. \A n \in Nat : MustWait(b, n) <=> n >= NSplits(b) BY StepFacts
<1> QED BY <1>1, <1>2 DEF Waited

\* What CTA b of r has issued is in its forward, and its next peer is not behind.
LEMMA IssuedFacts ==
    ASSUME IInv, OrderInv, SignalsCount, NEW r \in Ranks, NEW b \in Blocks
    PROVE  /\ Issued(r, b) \in Base(r, b)..(Base(r, b) + RingLength(b))
           /\ ~Working(r, b) => Issued(r, b) = Base(r, b)
           /\ signal[NextPeer[r]][b] + Len(wire[r][b]) = Issued(r, b)
           /\ signal[NextPeer[r]][b] >= Base(r, b)
<1> DEFINE p == NextPeer[r]
<1>1. p \in Ranks BY NextFacts
<1>2. /\ Base(r, b) \in Nat /\ RingLength(b) \in Nat \ {0}
      /\ ring[r][b].pos \in Nat /\ ring[r][b].pos <= RingLength(b)
  BY BaseFacts, CountTypes
<1>3. Issued(r, b) \in Base(r, b)..(Base(r, b) + RingLength(b)) BY <1>2 DEF Issued
<1>4. ~Working(r, b) => Issued(r, b) = Base(r, b) BY <1>2 DEF Issued, Working
<1>5. signal[p][b] + Len(wire[r][b]) = Issued(r, b) BY DEF SignalsCount, Counted
<1>6. /\ shadow[p][b] = IF blk[p][b] = "end_sync" THEN Base(p, b) + RingLength(b)
                        ELSE Base(p, b)
      /\ shadow[p][b] <= signal[p][b]
  BY <1>1 DEF SignalsCount, Counted
<1> HIDE DEF p
<1>7. signal[p][b] >= Base(r, b)
  <2>1. signal[p][b] \in Nat /\ Base(p, b) \in Nat BY <1>1, CountTypes, BaseFacts
  <2>2. CASE commFwd[p] >= commFwd[r]
    <3>1. Base(p, b) >= Base(r, b) BY <1>1, <2>2, BaseFacts
    <3> QED BY <3>1, <2>1, <1>2, <1>6
  <2>3. CASE commFwd[p] = commFwd[r] - 1 /\ blk[p][b] = "end_sync"
    <3>1. commFwd[r] = commFwd[p] + 1 BY <2>3, <1>1, RankTypes
    <3>2. Base(r, b) = Base(p, b) + RingLength(b) BY <1>1, <3>1, BaseFacts
    <3> QED BY <3>2, <2>1, <2>3, <1>6
  <2> QED BY <1>1, <2>2, <2>3, Meeting DEF OrderInv
<1> QED BY <1>3, <1>4, <1>5, <1>7 DEF p

\* While a put is under way, its sender and its receiver are in one forward, and
\* all ranks have reset their flags for it.
LEMMA WireFacts ==
    ASSUME IInv, OrderInv, SignalsCount, NEW r \in Ranks, NEW b \in Blocks,
           wire[r][b] # <<>>
    PROVE  /\ Working(r, b) /\ commFwd[NextPeer[r]] = commFwd[r]
           /\ blk[NextPeer[r]][b] \in {"start_sync", "run"}
           /\ \A q \in Ranks : ResetDone(q) = commFwd[r] + 1
           /\ signal[NextPeer[r]][b] < Base(r, b) + RingLength(b)
           /\ Len(wire[r][b]) > 0
<1> DEFINE p == NextPeer[r]
<1>1. p \in Ranks BY NextFacts
<1>2. Len(wire[r][b]) > 0 /\ Len(wire[r][b]) \in Nat BY CountTypes
<1>3. /\ Issued(r, b) \in Base(r, b)..(Base(r, b) + RingLength(b))
      /\ ~Working(r, b) => Issued(r, b) = Base(r, b)
      /\ signal[p][b] + Len(wire[r][b]) = Issued(r, b)
      /\ signal[p][b] >= Base(r, b)
  BY IssuedFacts
<1>4. /\ shadow[p][b] = IF blk[p][b] = "end_sync" THEN Base(p, b) + RingLength(b)
                        ELSE Base(p, b)
      /\ shadow[p][b] <= signal[p][b]
  BY <1>1 DEF SignalsCount, Counted
<1>5. /\ signal[p][b] \in Nat /\ Base(p, b) \in Nat /\ Base(r, b) \in Nat
      /\ RingLength(b) \in Nat
  BY <1>1, CountTypes, BaseFacts
<1> HIDE DEF p
<1>6. Working(r, b) BY <1>2, <1>3, <1>5
<1>7. signal[p][b] < Base(r, b) + RingLength(b) BY <1>2, <1>3, <1>5
<1>8. ~(commFwd[p] >= commFwd[r] + 1)
  <2> SUFFICES ASSUME commFwd[p] >= commFwd[r] + 1 PROVE FALSE OBVIOUS
  <2>1. Base(p, b) >= Base(r, b) + RingLength(b) BY <1>1, BaseFacts
  <2> QED BY <2>1, <1>4, <1>5, <1>7
<1>9. commFwd[p] = commFwd[r] /\ blk[p][b] \in {"start_sync", "run", "end_sync"}
  BY <1>1, <1>6, <1>8, Meeting DEF OrderInv
<1>10. blk[p][b] # "end_sync"
  <2>1. Base(p, b) = Base(r, b) BY <1>1, <1>9, BaseFacts
  <2> QED BY <2>1, <1>4, <1>5, <1>7
<1>11. \A q \in Ranks : ResetDone(q) = commFwd[r] + 1
  <2> TAKE q \in Ranks
  <2>1. Entering(p, b) BY <1>9, <1>10 DEF Entering
  <2>2. ResetDone(q) >= commFwd[r] + 1 BY <1>6, Meeting DEF OrderInv
  <2>3. ResetDone(q) <= commFwd[r] + 1 BY <1>1, <1>9, <2>1, Meeting DEF OrderInv
  <2> QED BY <2>2, <2>3, RankTypes
<1> QED BY <1>2, <1>6, <1>7, <1>9, <1>10, <1>11 DEF p

\* A CTA that works finds all ranks in its forward.
LEMMA RunFacts ==
    ASSUME IInv, OrderInv, NEW r \in Ranks, NEW b \in Blocks, blk[r][b] = "run"
    PROVE  /\ \A q \in Ranks : /\ ResetDone(q) = commFwd[r] + 1 /\ ResetDone(q) = ResetDone(r)
                               /\ commPc[q] = "kernel"
           /\ commPc[r] = "kernel"
<1>1. Working(r, b) /\ Entering(r, b) BY DEF Working, Entering
<1>2. ASSUME NEW q \in Ranks PROVE ResetDone(q) = commFwd[r] + 1 /\ commPc[q] = "kernel"
  <2>1. /\ ResetDone(q) >= commFwd[r] + 1 /\ ResetDone(q) <= commFwd[r] + 1
        /\ commFwd[q] <= commFwd[r]
    BY <1>1, Meeting DEF OrderInv
  <2> QED BY <2>1, RankTypes
<1> QED BY <1>2

\* Signals of the forward a rank is in come when its CTA waits for them.
LEMMA SignalPlace ==
    ASSUME IInv, OrderInv, SignalsCount, NEW r \in Ranks, NEW b \in Blocks,
           signal[r][b] > Base(r, b)
    PROVE  /\ blk[r][b] \in {"start_sync", "run", "end_sync"}
           /\ signal[r][b] <= Base(r, b) + RingLength(b)
<1>1. PICK p \in Ranks : NextPeer[p] = r BY NextOnto
<1>2. /\ Issued(p, b) \in Base(p, b)..(Base(p, b) + RingLength(b))
      /\ ~Working(p, b) => Issued(p, b) = Base(p, b)
      /\ signal[r][b] + Len(wire[p][b]) = Issued(p, b)
  BY <1>1, IssuedFacts
<1>3. /\ signal[r][b] \in Nat /\ Base(p, b) \in Nat /\ Base(r, b) \in Nat
      /\ RingLength(b) \in Nat /\ Len(wire[p][b]) \in Nat
      /\ commFwd[p] \in Nat /\ commFwd[r] \in Nat
  BY CountTypes, BaseFacts, RankTypes
<1>4. CASE commFwd[p] < commFwd[r]
  <2>1. commFwd[r] >= commFwd[p] + 1 BY <1>3, <1>4
  <2>2. Base(r, b) >= Base(p, b) + RingLength(b) BY <2>1, BaseFacts
  <2> QED BY <2>2, <1>2, <1>3
<1>5. CASE commFwd[p] = commFwd[r]
  <2>1. Base(p, b) = Base(r, b) BY <1>5, BaseFacts
  <2>2. Working(p, b) BY <2>1, <1>2, <1>3
  <2>3. blk[r][b] \in {"start_sync", "run", "end_sync"}
    BY <1>3, <1>5, <2>2, Meeting DEF OrderInv
  <2> QED BY <2>1, <2>3, <1>2, <1>3
<1>6. CASE commFwd[p] > commFwd[r]
  <2>1. commFwd[r] = commFwd[p] - 1 /\ blk[r][b] = "end_sync"
    BY <1>3, <1>6, Meeting DEF OrderInv
  <2>2. ~Working(p, b) BY <1>3, <1>6, Meeting DEF OrderInv
  <2>3. commFwd[p] = commFwd[r] + 1 BY <1>3, <2>1
  <2>4. Base(p, b) = Base(r, b) + RingLength(b) BY <2>3, BaseFacts
  <2> QED BY <2>1, <2>2, <2>4, <1>2, <1>3
<1> QED BY <1>3, <1>4, <1>5, <1>6

-----------------------------------------------------------------------------
(* Every step keeps the counts. *)

LEMMA InitCounts == Init => SignalsCount
<1> SUFFICES ASSUME Init, NEW r \in Ranks, NEW b \in Blocks PROVE Counted(r, b)
  BY DEF SignalsCount
<1>1. RingLength(b) \in Nat BY RingIsWorkerLess
<1>2. NextPeer[r] \in Ranks BY NextFacts
<1>3. commFwd[r] = 0 /\ blk[r][b] = "done" /\ shadow[r][b] = 0 /\ signal[r][b] = 0
      /\ signal[NextPeer[r]][b] = 0 /\ wire[r][b] = <<>>
  BY <1>2 DEF Init
<1>4. Base(r, b) = 0 /\ Issued(r, b) = 0 BY <1>1, <1>3 DEF Base, Issued
<1> QED BY <1>3, <1>4 DEF Counted

\* A CTA of which a step sees nothing but a signal that comes.
LEMMA CountedKept ==
    ASSUME IInv, IInv', NEW r \in Ranks, NEW b \in Blocks, Counted(r, b),
           commFwd'[r] = commFwd[r], blk'[r][b] = blk[r][b], ring'[r][b] = ring[r][b],
           worker'[r][b] = worker[r][b], shadow'[r][b] = shadow[r][b],
           signal'[r][b] >= signal[r][b],
           signal'[NextPeer[r]][b] + Len(wire'[r][b])
                = signal[NextPeer[r]][b] + Len(wire[r][b])
    PROVE  Counted(r, b)'
<1>1. Base(r, b)' = Base(r, b) /\ Issued(r, b)' = Issued(r, b) /\ Begun(r, b)' = Begun(r, b)
  BY DEF Base, Issued, Begun
<1>2. /\ signal[r][b] \in Nat /\ shadow[r][b] \in Nat
      /\ ring[r][b].sig \in Nat /\ worker[r][b].sig \in Nat
  BY CountTypes
<1>3. signal'[r][b] \in Nat BY DEF IInv, TypeOK, MemoryTypes
<1> QED BY <1>1, <1>2, <1>3 DEF Counted

LEMMA BlockStartCounts ==
    ASSUME IInv, IInv', SignalsCount, NEW r \in Ranks, NEW b \in Blocks, BlockStart(r, b)
    PROVE  SignalsCount'
<1> SUFFICES ASSUME NEW q \in Ranks, NEW c \in Blocks PROVE Counted(q, c)'
  BY DEF SignalsCount
<1> DEFINE at == IF b = 0 THEN "handshake" ELSE "start_sync"
           warp == [pos |-> 0, sig |-> shadow[r][b]]
           work == [pos |-> 0, sig |-> shadow[r][b], copied |-> FALSE]
<1>1. /\ blk[r][b] = "launch" /\ UNCHANGED <<commFwd, signal, shadow, wire>>
      /\ blk'[q][c] = IF q = r /\ c = b THEN at ELSE blk[q][c]
      /\ ring'[q][c] = IF q = r /\ c = b THEN warp ELSE ring[q][c]
      /\ worker'[q][c] = IF q = r /\ c = b THEN work ELSE worker[q][c]
  BY DEF BlockStart, IInv, TypeOK, CtaTypes
<1>2. at \in {"handshake", "start_sync"} OBVIOUS
<1>3. Counted(q, c) BY DEF SignalsCount
<1>4. signal[q][c] \in Nat BY CountTypes
<1> HIDE DEF at
<1>5. CASE q = r /\ c = b
  <2>1. Base(q, c)' = Base(q, c) /\ Issued(q, c)' = Issued(q, c)
    BY <1>1, <1>2, <1>5 DEF Base, Issued
  <2>2. shadow[q][c] = Base(q, c) BY <1>1, <1>3, <1>5 DEF Counted
  <2> QED BY <1>1, <1>2, <1>3, <1>5, <2>1, <2>2 DEF Counted
<1>6. CASE ~(q = r /\ c = b) BY <1>1, <1>3, <1>4, <1>6, CountedKept
<1> QED BY <1>5, <1>6

LEMMA PassCounts ==
    ASSUME IInv, IInv', SignalsCount, NEW r \in Ranks, NEW b \in Blocks,
           NEW from, NEW to,
           (from = "handshake" /\ to = "start_sync") \/ (from = "start_sync" /\ to = "run"),
           blk[r][b] = from, blk' = [blk EXCEPT ![r][b] = to],
           UNCHANGED <<commFwd, ring, worker, signal, shadow, wire>>
    PROVE  SignalsCount'
<1> SUFFICES ASSUME NEW q \in Ranks, NEW c \in Blocks PROVE Counted(q, c)'
  BY DEF SignalsCount
<1>1. blk'[q][c] = IF q = r /\ c = b THEN to ELSE blk[q][c]
  BY DEF IInv, TypeOK, CtaTypes
<1>2. Counted(q, c) BY DEF SignalsCount
<1>3. signal[q][c] \in Nat /\ shadow[q][c] \in Nat BY CountTypes
<1>4. CASE q = r /\ c = b
  <2>1. /\ ring[q][c] = [pos |-> 0, sig |-> Base(q, c)]
        /\ worker[q][c] = [pos |-> 0, sig |-> Base(q, c), copied |-> FALSE]
        /\ shadow[q][c] = Base(q, c) /\ Issued(q, c) = Base(q, c)
    BY <1>2, <1>4, BaseFacts DEF Counted, Issued
  <2>2. Base(q, c)' = Base(q, c) /\ Begun(q, c)' = 0 BY <2>1 DEF Base, Begun
  <2>3. Issued(q, c)' = Base(q, c) BY <1>1, <1>4, <2>1, <2>2, BaseFacts DEF Issued
  <2>4. Waited(c, 0) = 0 BY WaitedFacts
  <2>5. ring'[q][c].pos = 0 /\ ring'[q][c].sig = Base(q, c) /\ worker'[q][c].sig = Base(q, c)
    BY <2>1
  <2>6. Base(q, c) \in Nat BY BaseFacts
  <2> QED BY <1>1, <1>2, <1>3, <1>4, <2>1, <2>2, <2>3, <2>4, <2>5, <2>6 DEF Counted
<1>5. CASE ~(q = r /\ c = b) BY <1>1, <1>2, <1>3, <1>5, CountedKept
<1> QED BY <1>4, <1>5

\* One put more is under way, or one signal more has come for one put less.
LEMMA PutMoves ==
    ASSUME NEW s \in Nat, NEW n \in Nat, NEW total
    PROVE  /\ s + n = total => s + (n + 1) = total + 1
           /\ (s + 1) + (n - 1) = s + n
  OBVIOUS

LEMMA RingPutCounts ==
    ASSUME IInv, IInv', SignalsCount, NEW r \in Ranks, NEW b \in Blocks, RingPut(r, b)
    PROVE  SignalsCount'
<1> SUFFICES ASSUME NEW q \in Ranks, NEW c \in Blocks PROVE Counted(q, c)'
  BY DEF SignalsCount
<1> DEFINE i == ring[r][b].pos
           put == [id |-> ChunkOf[r][b][i], val |-> window[r][ChunkOf[r][b][i]]]
           sig == IF MustWait(b, i) THEN ring[r][b].sig + 1 ELSE ring[r][b].sig
<1>1. /\ blk[r][b] = "run" /\ UNCHANGED <<commFwd, blk, worker, signal, shadow>>
      /\ MustWait(b, i) => signal[r][b] >= ring[r][b].sig + 1
      /\ wire' = [wire EXCEPT ![r][b] = Append(@, put)]
      /\ ring' = [ring EXCEPT ![r][b] = [pos |-> i + 1, sig |-> sig]]
  BY DEF RingPut, SignalAbove
<1>2. ring'[q][c] = IF q = r /\ c = b THEN [pos |-> i + 1, sig |-> sig] ELSE ring[q][c]
  BY <1>1 DEF IInv, TypeOK, CtaTypes
<1>3. wire'[q][c] = IF q = r /\ c = b THEN Append(wire[r][b], put) ELSE wire[q][c]
  BY <1>1 DEF IInv, TypeOK, MemoryTypes
<1>4. Counted(q, c) BY DEF SignalsCount
<1>5. signal[q][c] \in Nat /\ Len(wire[q][c]) \in Nat BY CountTypes
<1> HIDE DEF put
<1>6. CASE q = r /\ c = b
  <2>1. Base(r, b)' = Base(r, b) /\ Begun(r, b)' = Begun(r, b) BY <1>1 DEF Base, Begun
  <2>2. i \in Nat /\ ring[r][b].sig \in Nat /\ Base(r, b) \in Nat BY CountTypes, BaseFacts
  <2>3. ring'[r][b].pos = i + 1 /\ ring'[r][b].sig = sig BY <1>2, <1>6
  <2>4. Issued(r, b) = Base(r, b) + i /\ Issued(r, b)' = Base(r, b) + (i + 1)
    BY <1>1, <2>1, <2>3 DEF Issued
  <2>5. Len(wire'[r][b]) = Len(wire[r][b]) + 1
    <3>1. wire[r][b] \in Seq([id : ChunkIds, val : Forwards]) BY CountTypes
    <3> QED BY <1>3, <1>6, <3>1
  <2>6. /\ signal[NextPeer[r]][b] + Len(wire[r][b]) = Base(r, b) + i
        /\ ring[r][b].sig = Base(r, b) + Waited(b, i) /\ ring[r][b].sig <= signal[r][b]
    BY <1>1, <1>4, <1>6, <2>4 DEF Counted
  <2>7. sig = Base(r, b) + Waited(b, i + 1) /\ sig <= signal[r][b]
    <3>1. /\ Waited(b, i) \in Nat
          /\ Waited(b, i + 1) = IF MustWait(b, i) THEN Waited(b, i) + 1 ELSE Waited(b, i)
      BY <2>2, WaitedFacts
    <3>2. signal[r][b] \in Nat BY <1>5, <1>6
    <3> QED BY <1>1, <2>2, <2>6, <3>1, <3>2
  <2>8. signal[NextPeer[r]][b] \in Nat /\ Len(wire[r][b]) \in Nat
    BY NextFacts, CountTypes
  <2> HIDE DEF i, sig
  <2>9. signal[NextPeer[r]][b] + Len(wire'[r][b]) = Base(r, b) + (i + 1)
    <3>1. signal[NextPeer[r]][b] + (Len(wire[r][b]) + 1) = (Base(r, b) + i) + 1
      BY <2>6, <2>8, PutMoves
    <3> QED BY <2>2, <2>5, <3>1
  <2> QED BY <1>1, <1>4, <1>6, <2>1, <2>3, <2>4, <2>7, <2>9 DEF Counted
<1>7. CASE ~(q = r /\ c = b)
  <2>1. /\ commFwd'[q] = commFwd[q] /\ blk'[q][c] = blk[q][c]
        /\ ring'[q][c] = ring[q][c] /\ worker'[q][c] = worker[q][c]
        /\ shadow'[q][c] = shadow[q][c] /\ wire'[q][c] = wire[q][c]
        /\ signal' = signal
    BY <1>1, <1>2, <1>3, <1>7
  <2> QED BY <1>4, <1>5, <2>1, CountedKept
<1> QED BY <1>6, <1>7

\* The window's part of a delivery is left out here.
LEMMA GinDeliverSteps ==
    ASSUME IInv, NEW r \in Ranks, NEW b \in Blocks, GinDeliver(r, b), NEW q \in Ranks,
           NEW c \in Blocks
    PROVE  /\ signal'[q][c] = IF q = NextPeer[r] /\ c = b THEN signal[q][c] + 1
                              ELSE signal[q][c]
           /\ wire'[q][c] = IF q = r /\ c = b THEN Tail(wire[r][b]) ELSE wire[q][c]
           /\ wire[r][b] # <<>>
           /\ Len(Tail(wire[r][b])) = Len(wire[r][b]) - 1
<1>1. NextPeer[r] \in Ranks BY NextFacts
<1>2. signal'[q][c] = IF q = NextPeer[r] /\ c = b THEN signal[q][c] + 1 ELSE signal[q][c]
  BY <1>1 DEF GinDeliver, IInv, TypeOK, MemoryTypes
<1>3. wire'[q][c] = IF q = r /\ c = b THEN Tail(wire[r][b]) ELSE wire[q][c]
  BY DEF GinDeliver, IInv, TypeOK, MemoryTypes
<1>4. wire[r][b] \in Seq([id : ChunkIds, val : Forwards]) /\ wire[r][b] # <<>>
  BY CountTypes DEF GinDeliver
<1>5. Len(Tail(wire[r][b])) = Len(wire[r][b]) - 1 BY <1>4
<1> QED BY <1>2, <1>3, <1>4, <1>5

LEMMA GinDeliverCounts ==
    ASSUME IInv, IInv', SignalsCount, NEW r \in Ranks, NEW b \in Blocks, GinDeliver(r, b)
    PROVE  SignalsCount'
<1> SUFFICES ASSUME NEW q \in Ranks, NEW c \in Blocks PROVE Counted(q, c)'
  BY DEF SignalsCount
<1>1. NextPeer[q] \in Ranks /\ (NextPeer[q] = NextPeer[r] => q = r)
  BY NextFacts, NextInjective
<1>2. UNCHANGED <<commFwd, blk, ring, worker, shadow>> BY DEF GinDeliver
<1>3. signal'[q][c] >= signal[q][c]
  <2>1. signal[q][c] \in Nat BY CountTypes
  <2> QED BY <2>1, GinDeliverSteps
<1>4. signal'[NextPeer[q]][c] + Len(wire'[q][c]) = signal[NextPeer[q]][c] + Len(wire[q][c])
  <2>1. signal[NextPeer[q]][c] \in Nat /\ Len(wire[q][c]) \in Nat BY <1>1, CountTypes
  <2>2. signal'[NextPeer[q]][c] = IF q = r /\ c = b THEN signal[NextPeer[q]][c] + 1
                                  ELSE signal[NextPeer[q]][c]
    BY <1>1, GinDeliverSteps
  <2>3. Len(wire'[q][c]) = IF q = r /\ c = b THEN Len(wire[q][c]) - 1 ELSE Len(wire[q][c])
    <3>1. /\ wire'[q][c] = IF q = r /\ c = b THEN Tail(wire[r][b]) ELSE wire[q][c]
          /\ Len(Tail(wire[r][b])) = Len(wire[r][b]) - 1
      BY GinDeliverSteps
    <3>2. CASE q = r /\ c = b BY <3>1, <3>2
    <3>3. CASE ~(q = r /\ c = b) BY <3>1, <3>3
    <3> QED BY <3>2, <3>3
  <2>4. CASE q = r /\ c = b
    <3>1. /\ signal'[NextPeer[q]][c] = signal[NextPeer[q]][c] + 1
          /\ Len(wire'[q][c]) = Len(wire[q][c]) - 1
      BY <2>2, <2>3, <2>4
    <3>2. (signal[NextPeer[q]][c] + 1) + (Len(wire[q][c]) - 1)
            = signal[NextPeer[q]][c] + Len(wire[q][c])
      BY <2>1, PutMoves
    <3> QED BY <3>1, <3>2
  <2>5. CASE ~(q = r /\ c = b) BY <2>2, <2>3, <2>5
  <2> QED BY <2>4, <2>5
<1>5. Counted(q, c) BY DEF SignalsCount
<1> QED BY <1>2, <1>3, <1>4, <1>5, CountedKept

\* A step of the worker warps, by what it does to their counters.
LEMMA WorkerCounts ==
    ASSUME IInv, IInv', SignalsCount, NEW r \in Ranks, NEW b \in Blocks,
           blk[r][b] = "run", UNCHANGED <<commFwd, blk, ring, signal, shadow, wire>>,
           NEW after \in [pos : Nat, sig : Nat, copied : BOOLEAN],
           worker' = [worker EXCEPT ![r][b] = after],
           after.sig = Base(r, b) + Waited(b, after.pos + (IF after.copied THEN 1 ELSE 0)),
           after.sig <= signal[r][b]
    PROVE  SignalsCount'
<1> SUFFICES ASSUME NEW q \in Ranks, NEW c \in Blocks PROVE Counted(q, c)'
  BY DEF SignalsCount
<1>1. worker'[q][c] = IF q = r /\ c = b THEN after ELSE worker[q][c]
  BY DEF IInv, TypeOK, CtaTypes
<1>2. Counted(q, c) BY DEF SignalsCount
<1>3. signal[q][c] \in Nat BY CountTypes
<1>4. CASE q = r /\ c = b
  <2>1. Base(r, b)' = Base(r, b) /\ Issued(r, b)' = Issued(r, b) BY DEF Base, Issued
  <2>2. Begun(r, b)' = after.pos + (IF after.copied THEN 1 ELSE 0)
    BY <1>1, <1>4 DEF Begun
  <2>3. worker'[r][b].sig = after.sig BY <1>1, <1>4
  <2> QED BY <1>2, <1>4, <2>1, <2>2, <2>3 DEF Counted
<1>5. CASE ~(q = r /\ c = b) BY <1>1, <1>2, <1>3, <1>5, CountedKept
<1> QED BY <1>4, <1>5

LEMMA WorkerCopyCounts ==
    ASSUME IInv, IInv', SignalsCount, NEW r \in Ranks, NEW b \in Blocks, WorkerCopy(r, b)
    PROVE  SignalsCount'
<1> DEFINE w == worker[r][b]
           sig == IF MustWait(b, w.pos) THEN w.sig + 1 ELSE w.sig
           after == [pos |-> w.pos, copied |-> TRUE, sig |-> sig]
<1>1. /\ blk[r][b] = "run" /\ ~w.copied
      /\ MustWait(b, w.pos) => signal[r][b] >= w.sig + 1
      /\ worker' = [worker EXCEPT ![r][b] = after]
      /\ UNCHANGED <<commFwd, blk, ring, signal, shadow, wire>>
  BY DEF WorkerCopy, SignalAbove
<1>2. w.pos \in Nat /\ w.sig \in Nat /\ Base(r, b) \in Nat /\ signal[r][b] \in Nat
  BY CountTypes, BaseFacts
<1>3. Counted(r, b) BY DEF SignalsCount
<1>4. w.sig = Base(r, b) + Waited(b, w.pos) /\ w.sig <= signal[r][b]
  <2>1. Begun(r, b) = w.pos BY <1>1, <1>2 DEF Begun
  <2> QED BY <1>1, <1>3, <2>1 DEF Counted
<1>5. sig \in Nat /\ sig = Base(r, b) + Waited(b, w.pos + 1) /\ sig <= signal[r][b]
  BY <1>1, <1>2, <1>4, WaitedFacts
<1>6. /\ after \in [pos : Nat, sig : Nat, copied : BOOLEAN]
      /\ after.sig = sig /\ after.pos = w.pos /\ after.copied = TRUE
  BY <1>2, <1>5
<1> HIDE DEF w, sig, after
<1> QED BY <1>1, <1>5, <1>6, WorkerCounts

LEMMA WorkerPublishCounts ==
    ASSUME IInv, IInv', SignalsCount, NEW r \in Ranks, NEW b \in Blocks, WorkerPublish(r, b)
    PROVE  SignalsCount'
<1> DEFINE w == worker[r][b]
           after == [pos |-> w.pos + 1, copied |-> FALSE, sig |-> w.sig]
<1>1. /\ blk[r][b] = "run" /\ w.copied
      /\ worker' = [worker EXCEPT ![r][b] = after]
      /\ UNCHANGED <<commFwd, blk, ring, signal, shadow, wire>>
  BY DEF WorkerPublish
<1>2. w.pos \in Nat /\ w.sig \in Nat BY CountTypes
<1>3. Counted(r, b) BY DEF SignalsCount
<1>4. w.sig = Base(r, b) + Waited(b, w.pos + 1) /\ w.sig <= signal[r][b]
  <2>1. Begun(r, b) = w.pos + 1 BY <1>1, <1>2 DEF Begun
  <2> QED BY <1>1, <1>3, <2>1 DEF Counted
<1>5. /\ after \in [pos : Nat, sig : Nat, copied : BOOLEAN]
      /\ after.sig = w.sig /\ after.pos = w.pos + 1 /\ after.copied = FALSE
  BY <1>2
<1>6. after.pos + (IF after.copied THEN 1 ELSE 0) = w.pos + 1 BY <1>2, <1>5
<1> HIDE DEF w, after
<1> QED BY <1>1, <1>4, <1>5, <1>6, WorkerCounts

LEMMA EndArriveCounts ==
    ASSUME IInv, IInv', SignalsCount, NEW r \in Ranks, NEW b \in Blocks, EndArrive(r, b)
    PROVE  SignalsCount'
<1> SUFFICES ASSUME NEW q \in Ranks, NEW c \in Blocks PROVE Counted(q, c)'
  BY DEF SignalsCount
<1> DEFINE w == worker[r][b]
<1>1. /\ blk[r][b] = "run" /\ UNCHANGED <<commFwd, ring, worker, signal, wire>>
      /\ ring[r][b].pos = RingLength(b) /\ w.pos = WorkerLength(b)
      /\ blk' = [blk EXCEPT ![r][b] = "end_sync"]
      /\ shadow' = [shadow EXCEPT ![r][b] = w.sig]
  BY DEF EndArrive, Committed
<1>0. /\ blk'[q][c] = IF q = r /\ c = b THEN "end_sync" ELSE blk[q][c]
      /\ shadow'[q][c] = IF q = r /\ c = b THEN w.sig ELSE shadow[q][c]
  <2>1. blk'[q][c] = IF q = r /\ c = b THEN "end_sync" ELSE blk[q][c]
    BY <1>1 DEF IInv, TypeOK, CtaTypes
  <2> HIDE DEF w
  <2>2. shadow'[q][c] = IF q = r /\ c = b THEN w.sig ELSE shadow[q][c]
    BY <1>1 DEF IInv, TypeOK, MemoryTypes
  <2> QED BY <2>1, <2>2
<1>2. Counted(q, c) BY DEF SignalsCount
<1>3. signal[q][c] \in Nat BY CountTypes
<1>4. CASE q = r /\ c = b
  <2>1. ~w.copied /\ w.pos \in Nat BY <1>1, CountTypes
  <2>2. Begun(r, b) = WorkerLength(b) BY <1>1, <2>1 DEF Begun
  <2>3. w.sig = Base(r, b) + RingLength(b) /\ w.sig <= signal[r][b]
    BY <1>0, <1>1, <1>2, <1>4, <2>2, WaitedFacts DEF Counted
  <2>4. Base(r, b)' = Base(r, b) /\ Issued(r, b)' = Issued(r, b)
    BY <1>0, <1>1, <1>4 DEF Base, Issued
  <2> QED BY <1>0, <1>1, <1>2, <1>4, <2>3, <2>4 DEF Counted
<1>5. CASE ~(q = r /\ c = b) BY <1>0, <1>1, <1>2, <1>3, <1>5, CountedKept
<1> QED BY <1>4, <1>5

LEMMA CommLaunchCounts ==
    ASSUME IInv, IInv', SignalsCount, NEW r \in Ranks, CommLaunch(r)
    PROVE  SignalsCount'
<1> SUFFICES ASSUME NEW q \in Ranks, NEW c \in Blocks PROVE Counted(q, c)'
  BY DEF SignalsCount
<1>1. /\ commPc[r] = "wait" /\ UNCHANGED <<commFwd, ring, worker, signal, shadow, wire>>
      /\ blk'[q][c] = IF q = r THEN "launch" ELSE blk[q][c]
  BY DEF CommLaunch, IInv, TypeOK, CtaTypes
<1>2. Counted(q, c) BY DEF SignalsCount
<1>3. signal[q][c] \in Nat BY CountTypes
<1>4. CASE q = r
  <2>1. blk[r][c] = "done" BY <1>1, CtaFacts
  <2>2. Base(r, c)' = Base(r, c) /\ Issued(r, c)' = Issued(r, c)
    BY <1>1, <1>4, <2>1 DEF Base, Issued
  <2> QED BY <1>1, <1>2, <1>4, <2>1, <2>2 DEF Counted
<1>5. CASE q # r BY <1>1, <1>2, <1>3, <1>5, CountedKept
<1> QED BY <1>4, <1>5

LEMMA CommDoneCounts ==
    ASSUME IInv, IInv', SignalsCount, NEW r \in Ranks, CommDone(r)
    PROVE  SignalsCount'
<1> SUFFICES ASSUME NEW q \in Ranks, NEW c \in Blocks PROVE Counted(q, c)'
  BY DEF SignalsCount
<1>1. /\ \A b \in Blocks : blk[r][b] = "end_sync"
      /\ UNCHANGED <<ring, worker, signal, shadow, wire>>
      /\ blk'[q][c] = IF q = r THEN "done" ELSE blk[q][c]
      /\ commFwd'[q] = IF q = r THEN commFwd[q] + 1 ELSE commFwd[q]
  BY DEF CommDone, IInv, TypeOK, CtaTypes, HostTypes
<1>2. Counted(q, c) BY DEF SignalsCount
<1>3. signal[q][c] \in Nat BY CountTypes
<1>4. CASE q = r
  <2> DEFINE f == commFwd[r]
             len == RingLength(c)
  <2>1. f \in Nat /\ len \in Nat BY RankTypes, RingIsWorkerLess
  <2>2. Base(r, c) = f * len /\ Base(r, c)' = (f + 1) * len BY <1>1, <1>4 DEF Base
  <2>3. (f + 1) * len = f * len + len BY <2>1
  <2>4. Base(r, c)' = Base(r, c) + RingLength(c) /\ Base(r, c) \in Nat
    BY <2>2, <2>3, BaseFacts
  <2>5. Issued(r, c) = Base(r, c) + RingLength(c) BY <1>1 DEF Issued
  <2>6. Issued(r, c)' = Base(r, c) + RingLength(c)
    BY <1>1, <1>4, <2>1, <2>4 DEF Issued
  <2> HIDE DEF f, len
  <2> QED BY <1>1, <1>2, <1>4, <2>4, <2>5, <2>6 DEF Counted
<1>5. CASE q # r BY <1>1, <1>2, <1>3, <1>5, CountedKept
<1> QED BY <1>4, <1>5

LEMMA NextCounts == IInv /\ IInv' /\ SignalsCount /\ [Next]_vars => SignalsCount'
<1> SUFFICES ASSUME IInv, IInv', SignalsCount, [Next]_vars PROVE SignalsCount' OBVIOUS
<1>1. CASE UNCHANGED <<commFwd, blk, ring, worker, signal, shadow, wire>>
  BY <1>1 DEF SignalsCount, Counted, Base, Issued, Begun
<1>2. CASE UNCHANGED vars BY <1>1, <1>2 DEF vars
<1>3. CASE Next
  <2> PICK r \in Ranks : \/ Compute(r) \/ Comm(r) \/ ReleaseProducer(r)
                         \/ \E b \in Blocks : Block(r, b)
    BY <1>3 DEF Next
  <2>1. CASE Compute(r) BY <1>1, <2>1 DEF Compute, ProduceInput, GemmStart, GemmTile
  <2>2. CASE Comm(r) BY <2>2, CommLaunchCounts, CommDoneCounts DEF Comm
  <2>3. CASE ReleaseProducer(r)
    <3>1. /\ blk[r][0] = "handshake" /\ blk' = [blk EXCEPT ![r][0] = "start_sync"]
          /\ UNCHANGED <<commFwd, ring, worker, signal, shadow, wire>>
      BY <2>3 DEF ReleaseProducer
    <3>2. 0 \in Blocks BY ConfigAssumption DEF Blocks
    <3> QED BY <3>1, <3>2, PassCounts
  <2>4. ASSUME NEW b \in Blocks, Block(r, b) PROVE SignalsCount'
    <3>1. CASE BlockStart(r, b) BY <3>1, BlockStartCounts
    <3>2. CASE StartPass(r, b)
      <4>1. /\ blk[r][b] = "start_sync" /\ blk' = [blk EXCEPT ![r][b] = "run"]
            /\ UNCHANGED <<commFwd, ring, worker, signal, shadow, wire>>
        BY <3>2 DEF StartPass
      <4> QED BY <4>1, PassCounts
    <3>3. CASE RingPut(r, b) BY <3>3, RingPutCounts
    <3>4. CASE GinDeliver(r, b) BY <3>4, GinDeliverCounts
    <3>5. CASE WorkerCopy(r, b) BY <3>5, WorkerCopyCounts
    <3>6. CASE WorkerPublish(r, b) BY <3>6, WorkerPublishCounts
    <3>7. CASE EndArrive(r, b) BY <3>7, EndArriveCounts
    <3> QED BY <2>4, <3>1, <3>2, <3>3, <3>4, <3>5, <3>6, <3>7 DEF Block
  <2> QED BY <2>1, <2>2, <2>3, <2>4
<1> QED BY <1>2, <1>3

-----------------------------------------------------------------------------
(* The data. *)

\* What holds the data of its rank's forward still does.
Kept == \A p \in Ranks, id \in ChunkIds :
            window[p][id] = ResetDone(p) => window'[p][id] = ResetDone(p)'

LEMMA ChunkFacts ==
    ASSUME IInv, NEW r \in Ranks, NEW b \in Blocks
    PROVE  /\ \A j \in 0..(RingLength(b) - 1) : /\ ChunkOf[r][b][j + NSplits(b)] \in ChunkIds
                                                /\ ChunkOf[r][b][j] \in ChunkIds
           /\ worker[r][b].copied => ChunkOf[r][b][worker[r][b].pos] \in ChunkIds
           /\ OwnChunks[r] \subseteq ChunkIds
           /\ LsaPeers[r] \subseteq Ranks /\ r \in LsaPeers[r]
<1>1. /\ WorkerLength(b) = RingLength(b) + NSplits(b)
      /\ RingLength(b) \in Nat \ {0} /\ NSplits(b) \in Nat \ {0}
  BY RingIsWorkerLess
<1>2. ASSUME NEW j \in 0..(RingLength(b) - 1)
      PROVE  ChunkOf[r][b][j + NSplits(b)] \in ChunkIds /\ ChunkOf[r][b][j] \in ChunkIds
  <2>1. j \in 0..(WorkerLength(b) - 1) /\ j + NSplits(b) \in 0..(WorkerLength(b) - 1)
    BY <1>1
  <2> QED BY <2>1, ChunkOfFacts
<1>3. worker[r][b].copied => ChunkOf[r][b][worker[r][b].pos] \in ChunkIds
  <2> SUFFICES ASSUME worker[r][b].copied PROVE ChunkOf[r][b][worker[r][b].pos] \in ChunkIds
    OBVIOUS
  <2>1. worker[r][b].pos \in 0..(WorkerLength(b) - 1) BY <1>1, CountTypes
  <2> QED BY <2>1, ChunkOfFacts
<1>4. OwnChunks[r] \subseteq ChunkIds /\ LsaPeers[r] \subseteq Ranks /\ r \in LsaPeers[r]
  BY DEF OwnChunks, LsaPeers
<1> QED BY <1>2, <1>3, <1>4

LEMMA StagedKept ==
    ASSUME Kept, NEW r \in Ranks, Staged(r), commPc'[r] = "kernel" => commPc[r] = "kernel"
    PROVE  Staged(r)'
  BY DEF Kept, Staged, OwnChunks

LEMMA ReceivedKept ==
    ASSUME IInv, Kept, NEW r \in Ranks, NEW b \in Blocks, Received(r, b),
           commFwd'[r] = commFwd[r], signal'[r][b] = signal[r][b]
    PROVE  Received(r, b)'
<1>1. Base(r, b)' = Base(r, b) BY DEF Base
<1> SUFFICES ASSUME NEW j \in 0..(RingLength(b) - 1), Base(r, b) + j < signal[r][b]
             PROVE  window'[r][ChunkOf[r][b][j + NSplits(b)]] = ResetDone(r)'
  BY <1>1 DEF Received
<1>2. window[r][ChunkOf[r][b][j + NSplits(b)]] = ResetDone(r) BY DEF Received
<1>3. ChunkOf[r][b][j + NSplits(b)] \in ChunkIds BY ChunkFacts
<1> QED BY <1>2, <1>3 DEF Kept

LEMMA CopiedKept ==
    ASSUME IInv, Kept, NEW r \in Ranks, NEW b \in Blocks, Copied(r, b),
           blk'[r][b] = "run" /\ worker'[r][b].copied =>
                blk[r][b] = "run" /\ worker'[r][b] = worker[r][b]
    PROVE  Copied(r, b)'
<1> SUFFICES ASSUME blk'[r][b] = "run", worker'[r][b].copied, NEW p \in LsaPeers[r]
             PROVE  window'[p][ChunkOf[r][b][worker'[r][b].pos]] = ResetDone(p)'
  BY DEF Copied
<1>1. blk[r][b] = "run" /\ worker[r][b].copied /\ worker'[r][b] = worker[r][b] OBVIOUS
<1>2. window[p][ChunkOf[r][b][worker[r][b].pos]] = ResetDone(p) BY <1>1 DEF Copied
<1>3. ChunkOf[r][b][worker[r][b].pos] \in ChunkIds /\ p \in Ranks BY <1>1, ChunkFacts
<1> QED BY <1>1, <1>2, <1>3 DEF Kept

LEMMA WiredKept ==
    ASSUME NEW r \in Ranks, NEW b \in Blocks, Wired(r, b),
           commFwd'[r] = commFwd[r], commPc'[r] = commPc[r], wire'[r][b] = wire[r][b],
           signal'[NextPeer[r]][b] = signal[NextPeer[r]][b]
    PROVE  Wired(r, b)'
<1>1. Base(r, b)' = Base(r, b) /\ ResetDone(r)' = ResetDone(r) BY DEF Base, ResetDone
<1> QED BY <1>1 DEF Wired

LEMMA ReadyKept ==
    ASSUME ReadyMeansCurrent, Kept,
           \A p \in Ranks, id \in ChunkIds : ready'[p][id] = 1 => ready[p][id] = 1
    PROVE  ReadyMeansCurrent'
  BY DEF ReadyMeansCurrent, Kept

\* Steps that only move CTAs, or raise no flag and forget no copy.
LEMMA QuietData ==
    ASSUME IInv, DataInv, UNCHANGED <<commFwd, commPc, window, ready, signal, wire>>,
           \A r \in Ranks, b \in Blocks :
                blk'[r][b] = "run" /\ worker'[r][b].copied =>
                    blk[r][b] = "run" /\ worker'[r][b] = worker[r][b]
    PROVE  DataInv'
<1>1. Kept BY DEF Kept, ResetDone
<1>2. ReadyMeansCurrent' BY <1>1, ReadyKept DEF DataInv
<1>3. ASSUME NEW r \in Ranks PROVE Staged(r)' BY <1>1, StagedKept DEF DataInv
<1>4. ASSUME NEW r \in Ranks, NEW b \in Blocks
      PROVE  Received(r, b)' /\ Copied(r, b)' /\ Wired(r, b)'
  <2>1. Received(r, b) /\ Copied(r, b) /\ Wired(r, b) BY DEF DataInv
  <2> QED BY <1>1, <2>1, ReceivedKept, CopiedKept, WiredKept
<1> QED BY <1>2, <1>3, <1>4 DEF DataInv

\* The chunk a warp may pass on is there.
LEMMA ChunkThere ==
    ASSUME IInv, OrderInv, SignalsCount, DataInv, NEW r \in Ranks, NEW b \in Blocks,
           blk[r][b] = "run", NEW i \in 0..(WorkerLength(b) - 1),
           NEW sig, sig = Base(r, b) + Waited(b, i),
           MustWait(b, i) => signal[r][b] >= sig + 1
    PROVE  window[r][ChunkOf[r][b][i]] = ResetDone(r)
<1>1. commPc[r] = "kernel" BY RunFacts
<1>2. /\ WorkerLength(b) = RingLength(b) + NSplits(b)
      /\ RingLength(b) \in Nat \ {0} /\ NSplits(b) \in Nat \ {0}
  BY RingIsWorkerLess
<1>3. i \in Nat /\ i < WorkerLength(b) BY <1>2
<1>4. MustWait(b, i) <=> i >= NSplits(b) BY <1>3, StepFacts
<1>5. CASE i < NSplits(b)
  <2>1. ChunkOf[r][b][i] \in OwnChunks[r] BY <1>5, OwnFirst
  <2> QED BY <1>1, <2>1 DEF DataInv, Staged
<1>6. CASE i >= NSplits(b)
  <2> DEFINE j == i - NSplits(b)
  <2>1. j \in 0..(RingLength(b) - 1) /\ j + NSplits(b) = i BY <1>2, <1>3, <1>6
  <2>2. Waited(b, i) = j BY <1>3, <1>4, <1>6, WaitedFacts
  <2>3. Base(r, b) \in Nat /\ signal[r][b] \in Nat BY BaseFacts, CountTypes
  <2>4. Base(r, b) + j < signal[r][b] BY <1>4, <1>6, <2>1, <2>2, <2>3
  <2>5. Received(r, b) BY DEF DataInv
  <2> HIDE DEF j
  <2>6. window[r][ChunkOf[r][b][j + NSplits(b)]] = ResetDone(r)
    BY <2>1, <2>4, <2>5 DEF Received
  <2> QED BY <2>1, <2>6
<1> QED BY <1>2, <1>3, <1>5, <1>6

LEMMA RingPutData ==
    ASSUME IInv, OrderInv, SignalsCount, DataInv, NEW r \in Ranks, NEW b \in Blocks,
           RingPut(r, b)
    PROVE  DataInv'
<1> DEFINE i == ring[r][b].pos
           id == ChunkOf[r][b][i]
           put == [id |-> id, val |-> window[r][id]]
           puts == wire[r][b]
<1>1. /\ blk[r][b] = "run" /\ i < RingLength(b)
      /\ UNCHANGED <<commFwd, commPc, window, ready, signal, blk, worker>>
      /\ MustWait(b, i) => signal[r][b] >= ring[r][b].sig + 1
      /\ wire' = [wire EXCEPT ![r][b] = Append(@, put)]
  BY DEF RingPut, SignalAbove
<1>2. \A q \in Ranks, c \in Blocks :
        wire'[q][c] = IF q = r /\ c = b THEN Append(puts, put) ELSE wire[q][c]
  BY <1>1 DEF IInv, TypeOK, MemoryTypes
<1>3. Kept BY <1>1 DEF Kept, ResetDone
<1>4. ReadyMeansCurrent' BY <1>1, <1>3, ReadyKept DEF DataInv
<1>5. ASSUME NEW q \in Ranks PROVE Staged(q)' BY <1>1, <1>3, StagedKept DEF DataInv
<1>6. ASSUME NEW q \in Ranks, NEW c \in Blocks PROVE Received(q, c)' /\ Copied(q, c)'
  <2>1. Received(q, c) /\ Copied(q, c) BY DEF DataInv
  <2> QED BY <1>1, <1>3, <2>1, ReceivedKept, CopiedKept
<1>7. ASSUME NEW q \in Ranks, NEW c \in Blocks, ~(q = r /\ c = b) PROVE Wired(q, c)'
  <2>1. Wired(q, c) BY DEF DataInv
  <2>2. wire'[q][c] = wire[q][c] BY <1>2, <1>7
  <2> QED BY <1>1, <2>1, <2>2, WiredKept
<1>8. i \in Nat /\ puts \in Seq([id : ChunkIds, val : Forwards]) /\ Len(puts) \in Nat
  BY CountTypes
<1>9. put.id = id /\ put.val = ResetDone(r)
  <2>1. i \in 0..(WorkerLength(b) - 1) BY <1>1, <1>8, RingIsWorkerLess
  <2>2. ring[r][b].sig = Base(r, b) + Waited(b, i)
    BY <1>1 DEF SignalsCount, Counted
  <2> HIDE DEF i
  <2>3. window[r][id] = ResetDone(r) BY <1>1, <2>1, <2>2, ChunkThere
  <2> QED BY <2>3
<1>10. Wired(r, b)'
  <2>1. Base(r, b)' = Base(r, b) /\ ResetDone(r)' = ResetDone(r) BY <1>1 DEF Base, ResetDone
  <2>2. wire'[r][b] = Append(puts, put) BY <1>2
  <2>3. /\ Len(Append(puts, put)) = Len(puts) + 1
        /\ \A n \in 1..Len(puts) : Append(puts, put)[n] = puts[n]
        /\ Append(puts, put)[Len(puts) + 1] = put
    <3> HIDE DEF put, puts
    <3> QED BY <1>8
  <2>4. \A n \in 1..Len(puts) :
          /\ puts[n].id = ChunkOf[r][b][signal[NextPeer[r]][b] - Base(r, b) + n - 1]
          /\ puts[n].val = ResetDone(r)
    BY DEF DataInv, Wired
  <2>5. signal[NextPeer[r]][b] - Base(r, b) + (Len(puts) + 1) - 1 = i
    <3>1. signal[NextPeer[r]][b] + Len(puts) = Base(r, b) + i
      BY <1>1 DEF SignalsCount, Counted, Issued
    <3>2. signal[NextPeer[r]][b] \in Nat /\ Base(r, b) \in Nat
      BY NextFacts, CountTypes, BaseFacts
    <3> HIDE DEF i, puts
    <3> QED BY <1>8, <3>1, <3>2
  <2> SUFFICES ASSUME NEW n \in 1..(Len(puts) + 1)
               PROVE  /\ wire'[r][b][n].id =
                            ChunkOf[r][b][signal[NextPeer[r]][b] - Base(r, b) + n - 1]
                      /\ wire'[r][b][n].val = ResetDone(r)
    BY <1>1, <2>1, <2>2, <2>3 DEF Wired
  <2>6. CASE n = Len(puts) + 1
    <3>1. wire'[r][b][n] = put BY <2>2, <2>3, <2>6
    <3> HIDE DEF put
    <3>2. wire'[r][b][n].id = ChunkOf[r][b][i] /\ wire'[r][b][n].val = ResetDone(r)
      BY <1>9, <3>1
    <3> HIDE DEF i, puts
    <3> QED BY <2>5, <2>6, <3>2
  <2>7. CASE n # Len(puts) + 1
    <3>1. n \in 1..Len(puts) BY <1>8, <2>7
    <3>2. wire'[r][b][n] = puts[n] BY <2>2, <2>3, <3>1
    <3> QED BY <2>4, <3>1, <3>2
  <2> QED BY <2>6, <2>7
<1> QED BY <1>4, <1>5, <1>6, <1>7, <1>10 DEF DataInv

LEMMA GinDeliverData ==
    ASSUME IInv, OrderInv, SignalsCount, DataInv, NEW r \in Ranks, NEW b \in Blocks,
           GinDeliver(r, b)
    PROVE  DataInv'
<1> DEFINE p == NextPeer[r]
           puts == wire[r][b]
           k == signal[p][b] - Base(r, b)
           id == ChunkOf[r][b][k]
<1>1. /\ puts # <<>> /\ UNCHANGED <<commFwd, commPc, ready, blk, worker>>
      /\ window' = [window EXCEPT ![p][puts[1].id] = puts[1].val]
  BY DEF GinDeliver
<1>2. p \in Ranks BY NextFacts
<1>3. puts \in Seq([id : ChunkIds, val : Forwards]) /\ Len(puts) \in Nat /\ Len(puts) > 0
  <2>1. wire[r][b] # <<>> BY <1>1
  <2> QED BY <2>1, CountTypes, WireFacts
<1>4. /\ \A q \in Ranks : ResetDone(q) = commFwd[r] + 1
      /\ commFwd[p] = commFwd[r] /\ signal[p][b] < Base(r, b) + RingLength(b)
  BY <1>1, WireFacts
<1>5. signal[p][b] >= Base(r, b) /\ signal[p][b] \in Nat /\ Base(r, b) \in Nat
      /\ RingLength(b) \in Nat
  BY <1>2, IssuedFacts, CountTypes, BaseFacts
<1>6. k \in 0..(RingLength(b) - 1) /\ k + 1 - 1 = k /\ Base(r, b) + k = signal[p][b]
  BY <1>4, <1>5
<1>7. puts[1].id = id /\ puts[1].val = ResetDone(r)
  <2>1. 1 \in 1..Len(puts) BY <1>3
  <2>2. /\ puts[1].id = ChunkOf[r][b][signal[NextPeer[r]][b] - Base(r, b) + 1 - 1]
        /\ puts[1].val = ResetDone(r)
    BY <2>1 DEF DataInv, Wired
  <2> QED BY <1>6, <2>2
<1>8. id \in ChunkIds BY <1>6, ChunkFacts
<1>9. \A q \in Ranks : ResetDone(q)' = ResetDone(q) BY <1>1 DEF ResetDone
<1> HIDE DEF k
<1>10. \A q \in Ranks, x \in ChunkIds :
         window'[q][x] = IF q = p /\ x = id THEN ResetDone(p) ELSE window[q][x]
  <2>1. ResetDone(r) = ResetDone(p) BY <1>2, <1>4
  <2>2. window' = [window EXCEPT ![p][id] = ResetDone(p)] BY <1>1, <1>7, <2>1
  <2> HIDE DEF p, id
  <2> QED BY <1>2, <1>8, <2>2 DEF IInv, TypeOK, MemoryTypes
<1>11. Kept BY <1>9, <1>10 DEF Kept
<1>12. ReadyMeansCurrent' BY <1>1, <1>11, ReadyKept DEF DataInv
<1>13. ASSUME NEW q \in Ranks PROVE Staged(q)' BY <1>1, <1>11, StagedKept DEF DataInv
<1>14. ASSUME NEW q \in Ranks, NEW c \in Blocks PROVE Copied(q, c)'
  BY <1>1, <1>11, CopiedKept DEF DataInv
<1>15. ASSUME NEW q \in Ranks, NEW c \in Blocks, ~(q = p /\ c = b) PROVE Received(q, c)'
  <2>1. Received(q, c) BY DEF DataInv
  <2>2. signal'[q][c] = signal[q][c] BY <1>15, GinDeliverSteps
  <2> QED BY <1>1, <1>11, <2>1, <2>2, ReceivedKept
<1>16. Received(p, b)'
  <2>1. Base(p, b)' = Base(p, b) /\ Base(p, b) = Base(r, b)
    <3>1. Base(p, b)' = Base(p, b) BY <1>1 DEF Base
    <3>2. Base(p, b) = Base(r, b) BY <1>2, <1>4, BaseFacts
    <3> QED BY <3>1, <3>2
  <2>2. signal'[p][b] = signal[p][b] + 1 BY <1>2, GinDeliverSteps
  <2> SUFFICES ASSUME NEW j \in 0..(RingLength(b) - 1), Base(r, b) + j < signal[p][b] + 1
               PROVE  window'[p][ChunkOf[p][b][j + NSplits(b)]] = ResetDone(p)
    BY <1>2, <1>9, <2>1, <2>2 DEF Received
  <2>3. ChunkOf[p][b][j + NSplits(b)] \in ChunkIds BY <1>2, ChunkFacts
  <2>4. CASE j = k
    <3>1. ChunkOf[p][b][j + NSplits(b)] = id BY <2>4, ChunkShift
    <3> QED BY <1>2, <1>10, <2>3, <3>1
  <2>5. CASE j # k
    <3>1. Base(r, b) + j < signal[p][b] BY <1>5, <1>6, <2>5
    <3>2. window[p][ChunkOf[p][b][j + NSplits(b)]] = ResetDone(p)
      BY <1>2, <2>1, <3>1 DEF DataInv, Received
    <3> QED BY <1>2, <1>10, <2>3, <3>2
  <2> QED BY <2>4, <2>5
<1>17. ASSUME NEW q \in Ranks, NEW c \in Blocks, ~(q = r /\ c = b) PROVE Wired(q, c)'
  <2>1. NextPeer[q] \in Ranks /\ (NextPeer[q] = NextPeer[r] => q = r)
    BY NextFacts, NextInjective
  <2>2. wire'[q][c] = wire[q][c] BY <1>17, GinDeliverSteps
  <2>3. signal'[NextPeer[q]][c] = signal[NextPeer[q]][c]
    BY <1>17, <2>1, GinDeliverSteps
  <2> QED BY <1>1, <2>2, <2>3, WiredKept DEF DataInv
<1>18. Wired(r, b)'
  <2>1. /\ wire'[r][b] = Tail(puts) /\ signal'[p][b] = signal[p][b] + 1
        /\ Len(Tail(puts)) = Len(puts) - 1
    BY <1>2, GinDeliverSteps
  <2>2. Base(r, b)' = Base(r, b) /\ ResetDone(r)' = ResetDone(r)
    BY <1>1, <1>9 DEF Base
  <2> SUFFICES ASSUME NEW n \in 1..Len(wire'[r][b])
               PROVE  /\ wire'[r][b][n].id =
                            ChunkOf[r][b][signal'[NextPeer[r]][b] - Base(r, b) + n - 1]
                      /\ wire'[r][b][n].val = ResetDone(r)
    BY <2>2 DEF Wired
  <2>0. n \in 1..(Len(puts) - 1) BY <2>1
  <2>3. n + 1 \in 1..Len(puts) BY <1>3, <2>0
  <2>4. wire'[r][b][n] = puts[n + 1]
    <3> HIDE DEF puts
    <3> QED BY <1>3, <2>0, <2>1
  <2>5. /\ puts[n + 1].id = ChunkOf[r][b][signal[p][b] - Base(r, b) + (n + 1) - 1]
        /\ puts[n + 1].val = ResetDone(r)
    BY <2>3 DEF DataInv, Wired
  <2>6. signal[p][b] - Base(r, b) + (n + 1) - 1 = signal'[p][b] - Base(r, b) + n - 1
    BY <1>5, <2>0, <2>1
  <2> QED BY <2>4, <2>5, <2>6
<1> QED BY <1>12, <1>13, <1>14, <1>15, <1>16, <1>17, <1>18 DEF DataInv

LEMMA WorkerCopyData ==
    ASSUME IInv, OrderInv, SignalsCount, DataInv, NEW r \in Ranks, NEW b \in Blocks,
           WorkerCopy(r, b)
    PROVE  DataInv'
<1> DEFINE w == worker[r][b]
           id == ChunkOf[r][b][w.pos]
           after == [pos |-> w.pos, copied |-> TRUE,
                     sig |-> IF MustWait(b, w.pos) THEN w.sig + 1 ELSE w.sig]
<1>1. /\ blk[r][b] = "run" /\ ~w.copied /\ w.pos < WorkerLength(b)
      /\ UNCHANGED <<commFwd, commPc, ready, signal, blk, wire>>
      /\ MustWait(b, w.pos) => signal[r][b] >= w.sig + 1
      /\ worker' = [worker EXCEPT ![r][b] = after]
      /\ window' = [p \in Ranks |-> IF p \in LsaPeers[r]
                                    THEN [window[p] EXCEPT ![id] = window[r][id]]
                                    ELSE window[p]]
  BY DEF WorkerCopy, SignalAbove, CopyTargets
<1>2. w.pos \in Nat /\ w.pos \in 0..(WorkerLength(b) - 1)
  BY <1>1, CountTypes, RingIsWorkerLess
<1>3. id \in ChunkIds BY <1>2, ChunkOfFacts
<1>4. window[r][id] = ResetDone(r)
  <2>1. w.sig = Base(r, b) + Waited(b, w.pos)
    <3>1. Begun(r, b) = w.pos BY <1>1, <1>2 DEF Begun
    <3> QED BY <1>1, <3>1 DEF SignalsCount, Counted
  <2> QED BY <1>1, <1>2, <2>1, ChunkThere
<1>5. \A q \in Ranks : ResetDone(q) = ResetDone(r) BY <1>1, RunFacts
<1>6. \A q \in Ranks : ResetDone(q)' = ResetDone(q) BY <1>1 DEF ResetDone
<1>7. \A p \in Ranks, x \in ChunkIds :
        window'[p][x] = IF p \in LsaPeers[r] /\ x = id THEN ResetDone(p) ELSE window[p][x]
  <2>1. window \in [Ranks -> [ChunkIds -> Forwards]] BY DEF IInv, TypeOK, MemoryTypes
  <2> HIDE DEF id
  <2> SUFFICES ASSUME NEW p \in Ranks, NEW x \in ChunkIds
               PROVE  window'[p][x] = IF p \in LsaPeers[r] /\ x = id THEN ResetDone(p)
                                      ELSE window[p][x]
    OBVIOUS
  <2>2. window'[p] = IF p \in LsaPeers[r] THEN [window[p] EXCEPT ![id] = window[r][id]]
                     ELSE window[p]
    BY <1>1
  <2> QED BY <1>3, <1>4, <1>5, <2>1, <2>2
<1>8. \A q \in Ranks, c \in Blocks :
        worker'[q][c] = IF q = r /\ c = b THEN after ELSE worker[q][c]
  <2> HIDE DEF after
  <2> QED BY <1>1 DEF IInv, TypeOK, CtaTypes
<1> HIDE DEF id
<1>9. Kept BY <1>6, <1>7 DEF Kept
<1>10. ReadyMeansCurrent' BY <1>1, <1>9, ReadyKept DEF DataInv
<1>11. ASSUME NEW q \in Ranks PROVE Staged(q)' BY <1>1, <1>9, StagedKept DEF DataInv
<1>12. ASSUME NEW q \in Ranks, NEW c \in Blocks PROVE Received(q, c)' /\ Wired(q, c)'
  <2>1. Received(q, c) /\ Wired(q, c) BY DEF DataInv
  <2> QED BY <1>1, <1>9, <2>1, ReceivedKept, WiredKept
<1>13. ASSUME NEW q \in Ranks, NEW c \in Blocks, ~(q = r /\ c = b) PROVE Copied(q, c)'
  <2>1. Copied(q, c) BY DEF DataInv
  <2>2. worker'[q][c] = worker[q][c] BY <1>8, <1>13
  <2> QED BY <1>1, <1>9, <2>1, <2>2, CopiedKept
<1>14. Copied(r, b)'
  <2>1. worker'[r][b].pos = w.pos BY <1>8
  <2> SUFFICES ASSUME NEW p \in LsaPeers[r]
               PROVE  window'[p][ChunkOf[r][b][worker'[r][b].pos]] = ResetDone(p)'
    BY DEF Copied
  <2>2. p \in Ranks BY ChunkFacts
  <2>3. ChunkOf[r][b][worker'[r][b].pos] = id BY <2>1 DEF id
  <2> QED BY <1>3, <1>6, <1>7, <2>2, <2>3
<1> QED BY <1>10, <1>11, <1>12, <1>13, <1>14 DEF DataInv

LEMMA WorkerPublishData ==
    ASSUME IInv, OrderInv, SignalsCount, DataInv, NEW r \in Ranks, NEW b \in Blocks,
           WorkerPublish(r, b)
    PROVE  DataInv'
<1> DEFINE w == worker[r][b]
           id == ChunkOf[r][b][w.pos]
           after == [pos |-> w.pos + 1, copied |-> FALSE, sig |-> w.sig]
<1>1. /\ blk[r][b] = "run" /\ w.copied
      /\ UNCHANGED <<commFwd, commPc, window, signal, blk, wire>>
      /\ worker' = [worker EXCEPT ![r][b] = after]
      /\ ready' = [p \in Ranks |-> IF p \in LsaPeers[r] THEN [ready[p] EXCEPT ![id] = 1]
                                   ELSE ready[p]]
  BY DEF WorkerPublish
<1>2. \A q \in Ranks, c \in Blocks :
        worker'[q][c] = IF q = r /\ c = b THEN after ELSE worker[q][c]
  <2> HIDE DEF after
  <2> QED BY <1>1 DEF IInv, TypeOK, CtaTypes
<1>3. Kept BY <1>1 DEF Kept, ResetDone
<1>4. ReadyMeansCurrent'
  <2> SUFFICES ASSUME NEW p \in Ranks, NEW x \in ChunkIds, ready'[p][x] = 1
               PROVE  window'[p][x] = ResetDone(p)'
    BY DEF ReadyMeansCurrent
  <2>1. window[p][x] = ResetDone(p) => window'[p][x] = ResetDone(p)' BY <1>3 DEF Kept
  <2>2. CASE ready[p][x] = 1 BY <2>1, <2>2 DEF DataInv, ReadyMeansCurrent
  <2>3. CASE ready[p][x] # 1
    <3>1. ready \in [Ranks -> [ChunkIds -> {0, 1}]] BY DEF IInv, TypeOK, MemoryTypes
    <3>2. p \in LsaPeers[r] /\ x = id BY <1>1, <2>3, <3>1
    <3>3. window[p][id] = ResetDone(p) BY <1>1, <3>2 DEF DataInv, Copied
    <3> QED BY <2>1, <3>2, <3>3
  <2> QED BY <2>2, <2>3
<1>5. ASSUME NEW q \in Ranks PROVE Staged(q)' BY <1>1, <1>3, StagedKept DEF DataInv
<1>6. ASSUME NEW q \in Ranks, NEW c \in Blocks
      PROVE  Received(q, c)' /\ Copied(q, c)' /\ Wired(q, c)'
  <2>1. Received(q, c) /\ Copied(q, c) /\ Wired(q, c) BY DEF DataInv
  <2>2. worker'[q][c].copied => worker'[q][c] = worker[q][c] BY <1>2
  <2> QED BY <1>1, <1>3, <2>1, <2>2, ReceivedKept, CopiedKept, WiredKept
<1> QED BY <1>4, <1>5, <1>6 DEF DataInv

LEMMA CommLaunchData ==
    ASSUME IInv, OrderInv, SignalsCount, DataInv, NEW r \in Ranks, CommLaunch(r)
    PROVE  DataInv'
<1>1. /\ commPc[r] = "wait" /\ CommMayReset(r)
      /\ UNCHANGED <<commFwd, worker, signal, wire>>
      /\ window' = [window EXCEPT ![r] =
            [id \in ChunkIds |-> IF id \in OwnChunks[r] THEN input[r] ELSE @[id]]]
      /\ ready' = [ready EXCEPT ![r] = [id \in ChunkIds |-> 0]]
  BY DEF CommLaunch
<1>2. \A q \in Ranks : commPc'[q] = IF q = r THEN "kernel" ELSE commPc[q]
  BY DEF CommLaunch, IInv, TypeOK, HostTypes
<1>3. \A q \in Ranks, c \in Blocks : blk'[q][c] = IF q = r THEN "launch" ELSE blk[q][c]
  BY DEF CommLaunch, IInv, TypeOK, CtaTypes
<1>4. ResetDone(r) = commFwd[r] /\ ResetDone(r)' = commFwd[r] + 1
      /\ \A q \in Ranks : q # r => ResetDone(q)' = ResetDone(q)
  BY <1>1, <1>2 DEF ResetDone
\* What is staged is the input of this forward.
<1>5. input[r] = commFwd[r] + 1
  <2>1. InputReady(r) > commFwd[r] /\ compFwd[r] >= commFwd[r]
    BY <1>1 DEF CommMayReset, ComputeDone
  <2>2. /\ input[r] = InputReady(r) /\ ResetDone(r) <= InputReady(r)
        /\ ResetDone(r) \in {compFwd[r], compFwd[r] + 1}
    BY DEF OrderInv, StreamsClose
  <2>3. InputReady(r) \in {compFwd[r], compFwd[r] + 1} BY DEF InputReady
  <2> QED BY <1>4, <2>1, <2>2, <2>3, RankTypes
<1>6. \A q \in Ranks, x \in ChunkIds :
        /\ window'[q][x] = IF q = r /\ x \in OwnChunks[r] THEN input[r] ELSE window[q][x]
        /\ ready'[q][x] = IF q = r THEN 0 ELSE ready[q][x]
  BY <1>1 DEF IInv, TypeOK, MemoryTypes
\* No CTA of any rank is at work, and no signal of this forward has come.
<1>7. \A q \in Ranks, c \in Blocks : blk[q][c] # "run" BY <1>1, RunFacts
<1>8. \A c \in Blocks : blk[r][c] = "done" BY <1>1, CtaFacts
<1>9. \A c \in Blocks : wire[r][c] = <<>> /\ ~(signal[r][c] > Base(r, c))
  BY <1>8, WireFacts, SignalPlace DEF Working
<1>10. ReadyMeansCurrent'
  <2> SUFFICES ASSUME NEW q \in Ranks, NEW x \in ChunkIds, ready'[q][x] = 1
               PROVE  window'[q][x] = ResetDone(q)'
    BY DEF ReadyMeansCurrent
  <2>1. q # r /\ ready[q][x] = 1 BY <1>6
  <2> QED BY <1>4, <1>6, <2>1 DEF DataInv, ReadyMeansCurrent
<1>11. ASSUME NEW q \in Ranks PROVE Staged(q)'
  <2>1. CASE q = r BY <1>4, <1>5, <1>6, <2>1 DEF Staged, OwnChunks
  <2>2. CASE q # r BY <1>2, <1>4, <1>6, <2>2 DEF DataInv, Staged, OwnChunks
  <2> QED BY <2>1, <2>2
<1>12. ASSUME NEW q \in Ranks, NEW c \in Blocks PROVE Copied(q, c)'
  BY <1>3, <1>7 DEF Copied
<1>13. ASSUME NEW q \in Ranks, NEW c \in Blocks PROVE Received(q, c)'
  <2> SUFFICES ASSUME NEW j \in 0..(RingLength(c) - 1), Base(q, c) + j < signal[q][c]
               PROVE  window'[q][ChunkOf[q][c][j + NSplits(c)]] = ResetDone(q)'
    BY <1>1 DEF Received, Base
  <2>1. ChunkOf[q][c][j + NSplits(c)] \in ChunkIds BY ChunkFacts
  <2>2. window[q][ChunkOf[q][c][j + NSplits(c)]] = ResetDone(q) BY DEF DataInv, Received
  <2>3. q # r
    <3>1. signal[q][c] \in Nat /\ Base(q, c) \in Nat BY CountTypes, BaseFacts
    <3>2. signal[q][c] > Base(q, c) BY <3>1, RingIsWorkerLess
    <3> QED BY <1>9, <3>2
  <2> QED BY <1>4, <1>6, <2>1, <2>2, <2>3
<1>14. ASSUME NEW q \in Ranks, NEW c \in Blocks PROVE Wired(q, c)'
  <2>1. CASE q = r BY <1>1, <1>9, <2>1 DEF Wired
  <2>2. CASE q # r
    <3>1. commPc'[q] = commPc[q] BY <1>2, <2>2
    <3> QED BY <1>1, <3>1, WiredKept DEF DataInv
  <2> QED BY <2>1, <2>2
<1> QED BY <1>10, <1>11, <1>12, <1>13, <1>14 DEF DataInv

LEMMA CommDoneData ==
    ASSUME IInv, OrderInv, SignalsCount, DataInv, NEW r \in Ranks, CommDone(r)
    PROVE  DataInv'
<1>1. /\ commPc[r] = "kernel" /\ UNCHANGED <<window, ready, worker, signal, wire>>
      /\ \A b \in Blocks : blk[r][b] = "end_sync" /\ Synced(r, b)
  BY DEF CommDone, EndMayPass
<1>2. \A q \in Ranks : /\ commPc'[q] = IF q = r THEN "wait" ELSE commPc[q]
                       /\ commFwd'[q] = IF q = r THEN commFwd[q] + 1 ELSE commFwd[q]
  BY DEF CommDone, IInv, TypeOK, HostTypes
<1>3. \A q \in Ranks, c \in Blocks : blk'[q][c] = IF q = r THEN "done" ELSE blk[q][c]
  BY DEF CommDone, IInv, TypeOK, CtaTypes
<1>4. \A q \in Ranks : ResetDone(q)' = ResetDone(q) BY <1>1, <1>2 DEF ResetDone
<1>5. Kept BY <1>1, <1>4 DEF Kept
<1>6. ReadyMeansCurrent' BY <1>1, <1>5, ReadyKept DEF DataInv
<1>7. ASSUME NEW q \in Ranks PROVE Staged(q)' BY <1>2, <1>5, StagedKept DEF DataInv
<1>8. ASSUME NEW q \in Ranks, NEW c \in Blocks PROVE Copied(q, c)'
  BY <1>1, <1>3, <1>5, CopiedKept DEF DataInv
\* All signals of the forward have come, none of the next one, and nothing is under way.
<1>9. ASSUME NEW c \in Blocks PROVE wire[r][c] = <<>>
  <2> DEFINE p == NextPeer[r]
  <2> SUFFICES ASSUME wire[r][c] # <<>> PROVE FALSE OBVIOUS
  <2>1. p \in Ranks BY NextFacts
  <2>2. commFwd[p] = commFwd[r] /\ blk[p][c] \in {"start_sync", "run"} BY WireFacts
  <2>3. arrived[p][c] = 2 * commFwd[r] + 1 BY <2>1, <2>2, CtaFacts
  <2>4. arrived[r][c] = 2 * commFwd[r] + 2 BY <1>1, CtaFacts
  <2>5. arrived[p][c] >= arrived[r][c] BY <1>1, <2>1 DEF Synced
  <2> QED BY <2>3, <2>4, <2>5, RankTypes
<1>10. ASSUME NEW q \in Ranks, NEW c \in Blocks PROVE Wired(q, c)'
  <2>1. CASE q = r BY <1>1, <1>9, <2>1 DEF Wired
  <2>2. CASE q # r
    <3>1. commFwd'[q] = commFwd[q] /\ commPc'[q] = commPc[q] BY <1>2, <2>2
    <3> QED BY <1>1, <3>1, WiredKept DEF DataInv
  <2> QED BY <2>1, <2>2
<1>11. ASSUME NEW q \in Ranks, NEW c \in Blocks PROVE Received(q, c)'
  <2>1. CASE q = r
    <3> DEFINE f == commFwd[r]
               len == RingLength(c)
    <3>1. f \in Nat /\ len \in Nat /\ Base(r, c) \in Nat /\ signal[r][c] \in Nat
      BY RankTypes, RingIsWorkerLess, BaseFacts, CountTypes
    <3>2. Base(r, c) = f * len /\ Base(r, c)' = (f + 1) * len BY <1>2 DEF Base
    <3>3. (f + 1) * len = f * len + len BY <3>1
    <3>4. Base(r, c)' = Base(r, c) + RingLength(c) BY <3>2, <3>3
    <3>5. signal[r][c] <= Base(r, c) + RingLength(c) BY <3>1, SignalPlace
    <3> HIDE DEF f
    <3> SUFFICES ASSUME NEW j \in 0..(RingLength(c) - 1), Base(r, c)' + j < signal[r][c]
                 PROVE  FALSE
      BY <1>1, <2>1 DEF Received
    <3> QED BY <3>1, <3>4, <3>5
  <2>2. CASE q # r
    <3>1. commFwd'[q] = commFwd[q] BY <1>2, <2>2
    <3> QED BY <1>1, <1>5, <3>1, ReceivedKept DEF DataInv
  <2> QED BY <2>1, <2>2
<1> QED BY <1>6, <1>7, <1>8, <1>10, <1>11 DEF DataInv

LEMMA InitData == Init => DataInv
<1> SUFFICES ASSUME Init PROVE DataInv OBVIOUS
<1>1. ASSUME NEW r \in Ranks PROVE Staged(r) BY DEF Init, Staged
<1>2. ASSUME NEW r \in Ranks, NEW b \in Blocks PROVE Received(r, b) /\ Copied(r, b) /\ Wired(r, b)
  <2>1. RingLength(b) \in Nat BY RingIsWorkerLess
  <2>2. commFwd[r] = 0 /\ signal[r][b] = 0 /\ blk[r][b] = "done" /\ wire[r][b] = <<>>
    BY DEF Init
  <2>3. Base(r, b) = 0 BY <2>1, <2>2 DEF Base
  <2> QED BY <2>1, <2>2, <2>3 DEF Received, Copied, Wired
<1>3. ReadyMeansCurrent BY DEF Init, ReadyMeansCurrent
<1> QED BY <1>1, <1>2, <1>3 DEF DataInv

LEMMA NextData == IInv /\ OrderInv /\ SignalsCount /\ DataInv /\ [Next]_vars => DataInv'
<1> SUFFICES ASSUME IInv, OrderInv, SignalsCount, DataInv, [Next]_vars PROVE DataInv'
  OBVIOUS
<1>1. CASE UNCHANGED <<commFwd, commPc, window, ready, signal, wire, blk, worker>>
  BY <1>1, QuietData
<1>2. CASE UNCHANGED vars BY <1>1, <1>2 DEF vars
<1>3. CASE Next
  <2> PICK r \in Ranks : \/ Compute(r) \/ Comm(r) \/ ReleaseProducer(r)
                         \/ \E b \in Blocks : Block(r, b)
    BY <1>3 DEF Next
  <2>1. CASE Compute(r) BY <1>1, <2>1 DEF Compute, ProduceInput, GemmStart, GemmTile
  <2>2. CASE Comm(r) BY <2>2, CommLaunchData, CommDoneData DEF Comm
  <2>3. CASE ReleaseProducer(r)
    <3>1. UNCHANGED <<commFwd, commPc, window, ready, signal, wire, worker>>
          /\ blk' = [blk EXCEPT ![r][0] = "start_sync"]
      BY <2>3 DEF ReleaseProducer
    <3>2. 0 \in Blocks BY ConfigAssumption DEF Blocks
    <3>3. \A q \in Ranks, c \in Blocks : blk'[q][c] = "run" => blk[q][c] = "run"
      BY <3>1, <3>2 DEF IInv, TypeOK, CtaTypes
    <3> QED BY <3>1, <3>3, QuietData
  <2>4. ASSUME NEW b \in Blocks, Block(r, b) PROVE DataInv'
    <3>1. CASE BlockStart(r, b)
      <4> DEFINE at == IF b = 0 THEN "handshake" ELSE "start_sync"
                 work == [pos |-> 0, sig |-> shadow[r][b], copied |-> FALSE]
      <4>1. /\ UNCHANGED <<commFwd, commPc, window, ready, signal, wire>>
            /\ \A q \in Ranks, c \in Blocks :
                 /\ blk'[q][c] = IF q = r /\ c = b THEN at ELSE blk[q][c]
                 /\ worker'[q][c] = IF q = r /\ c = b THEN work ELSE worker[q][c]
        BY <3>1 DEF BlockStart, IInv, TypeOK, CtaTypes
      <4>2. at # "run" OBVIOUS
      <4> HIDE DEF at
      <4> QED BY <4>1, <4>2, QuietData
    <3>2. CASE StartPass(r, b)
      <4>1. /\ UNCHANGED <<commFwd, commPc, window, ready, signal, wire, worker>>
            /\ blk[r][b] = "start_sync"
            /\ \A q \in Ranks, c \in Blocks :
                  blk'[q][c] = IF q = r /\ c = b THEN "run" ELSE blk[q][c]
        <5>1. /\ UNCHANGED <<commFwd, commPc, window, ready, signal, wire, worker>>
              /\ blk[r][b] = "start_sync" /\ blk' = [blk EXCEPT ![r][b] = "run"]
          BY <3>2 DEF StartPass
        <5> QED BY <5>1 DEF IInv, TypeOK, CtaTypes
      <4>2. ~worker[r][b].copied
        <5>1. worker[r][b] = [pos |-> 0, sig |-> Base(r, b), copied |-> FALSE]
          BY <4>1 DEF SignalsCount, Counted
        <5> QED BY <5>1
      <4> QED BY <4>1, <4>2, QuietData
    <3>3. CASE RingPut(r, b) BY <3>3, RingPutData
    <3>4. CASE GinDeliver(r, b) BY <3>4, GinDeliverData
    <3>5. CASE WorkerCopy(r, b) BY <3>5, WorkerCopyData
    <3>6. CASE WorkerPublish(r, b) BY <3>6, WorkerPublishData
    <3>7. CASE EndArrive(r, b)
      <4>1. /\ UNCHANGED <<commFwd, commPc, window, ready, signal, wire, worker>>
            /\ \A q \in Ranks, c \in Blocks :
                  blk'[q][c] = IF q = r /\ c = b THEN "end_sync" ELSE blk[q][c]
        BY <3>7 DEF EndArrive, IInv, TypeOK, CtaTypes
      <4> QED BY <4>1, QuietData
    <3> QED BY <2>4, <3>1, <3>2, <3>3, <3>4, <3>5, <3>6, <3>7 DEF Block
  <2> QED BY <2>1, <2>2, <2>3, <2>4
<1> QED BY <1>2, <1>3

LEMMA NextTiles ==
    IInv /\ OrderInv /\ DataInv /\ TilesReadCurrent /\ [Next]_vars => TilesReadCurrent'
<1> SUFFICES ASSUME IInv, OrderInv, DataInv, TilesReadCurrent, [Next]_vars
             PROVE  TilesReadCurrent'
  OBVIOUS
<1>1. CASE stale' = stale BY <1>1 DEF TilesReadCurrent
<1>2. ASSUME NEW r \in Ranks, NEW t \in Tiles, GemmTile(r, t) PROVE TilesReadCurrent'
  <2>1. /\ compPc[r] = "gemm" /\ \A id \in TileWaits[t] : ready[r][id] = 1
        /\ stale' = [stale EXCEPT ![r] =
                @ \/ \E id \in TileReads[t] : window[r][id] # compFwd[r] + 1]
    BY <1>2 DEF GemmTile
  <2>2. ResetDone(r) = compFwd[r] + 1
    <3>1. ResetDone(r) >= compFwd[r] + 1
      BY <2>1, RankTypes DEF IInv, ResidentBeforeGemm
    <3>2. ResetDone(r) \in {compFwd[r], compFwd[r] + 1} BY DEF OrderInv, StreamsClose
    <3> QED BY <3>1, <3>2, RankTypes
  <2>3. \A id \in TileReads[t] : window[r][id] = compFwd[r] + 1
    <3> TAKE id \in TileReads[t]
    <3>1. id \in ChunkIds /\ ready[r][id] = 1 BY <2>1, TileFacts DEF TileWaits
    <3> QED BY <2>2, <3>1 DEF DataInv, ReadyMeansCurrent
  <2> DEFINE read == stale[r] \/ \E id \in TileReads[t] : window[r][id] # compFwd[r] + 1
  <2>4. ~read BY <2>3 DEF TilesReadCurrent
  <2>5. stale' = [stale EXCEPT ![r] = read] BY <2>1
  <2>6. stale \in [Ranks -> BOOLEAN] BY DEF IInv, TypeOK, HostTypes
  <2> HIDE DEF read
  <2> QED BY <2>4, <2>5, <2>6, Zenon DEF TilesReadCurrent
<1>3. CASE UNCHANGED vars BY <1>1, <1>3 DEF vars
<1>4. CASE Next
  <2> PICK r \in Ranks : \/ Compute(r) \/ Comm(r) \/ ReleaseProducer(r)
                         \/ \E b \in Blocks : Block(r, b)
    BY <1>4 DEF Next
  <2>1. CASE Compute(r) BY <1>1, <1>2, <2>1 DEF Compute, ProduceInput, GemmStart
  <2>2. ASSUME Comm(r) \/ ReleaseProducer(r) \/ \E b \in Blocks : Block(r, b)
        PROVE  stale' = stale
    BY <2>2 DEF Comm, CommLaunch, CommDone, ReleaseProducer, Block, BlockStart, StartPass,
                RingPut, GinDeliver, WorkerCopy, WorkerPublish, EndArrive, compute
  <2> QED BY <1>1, <2>1, <2>2
<1> QED BY <1>3, <1>4

-----------------------------------------------------------------------------
LEMMA DataAlways ==
    Safe => [](IInv /\ OrderInv /\ SignalsCount /\ DataInv /\ TilesReadCurrent)
<1>1. Init => IInv /\ OrderInv /\ SignalsCount /\ DataInv /\ TilesReadCurrent
  BY InitIInv, InitOrder, InitCounts, InitData DEF Init, TilesReadCurrent
<1>2. IInv /\ OrderInv /\ SignalsCount /\ DataInv /\ TilesReadCurrent /\ [Next]_vars
        => (IInv /\ OrderInv /\ SignalsCount /\ DataInv /\ TilesReadCurrent)'
  BY NextIInv, NextOrder, NextCounts, NextData, NextTiles
<1> QED BY <1>1, <1>2, PTL DEF Safe

\* A chunk flag that is up stands for the data of the forward of this rank's latest
\* reset, for every interleaving of streams, CTAs and puts (publish_ready against the
\* memset of the barrier window and the stores of earlier and later forwards).
THEOREM ReadyDataCurrent == Safe => []ReadyMeansCurrent
<1>1. DataInv => ReadyMeansCurrent BY DEF DataInv
<1> QED BY <1>1, DataAlways, PTL

\* No GEMM tile reads a chunk of another forward, for all tile and chunk sizes: the
\* chunks a tile reads are among those it waits for, however tiles straddle chunks.
THEOREM TilesCurrent == Safe => []TilesReadCurrent
  BY DataAlways, PTL

\* A put carries data of its sender's forward, and none is under way while its sender
\* or its receiver is outside the kernel.
THEOREM PutsInForward == Safe => []PutsStayInForward
<1>1. ASSUME IInv, OrderInv, SignalsCount, DataInv PROVE PutsStayInForward
  <2> SUFFICES ASSUME NEW r \in Ranks, NEW b \in Blocks
               PROVE  /\ \A i \in DOMAIN wire[r][b] : wire[r][b][i].val = ResetDone(r)
                      /\ Idle(r) \/ Idle(NextPeer[r]) => wire[r][b] = <<>>
    BY DEF PutsStayInForward
  <2>1. wire[r][b] \in Seq([id : ChunkIds, val : Forwards]) BY <1>1, CountTypes
  <2>2. \A i \in 1..Len(wire[r][b]) : wire[r][b][i].val = ResetDone(r)
    BY <1>1 DEF DataInv, Wired
  <2>3. ASSUME wire[r][b] # <<>> PROVE ~Idle(r) /\ ~Idle(NextPeer[r])
    <3>1. NextPeer[r] \in Ranks BY NextFacts
    <3>2. blk[r][b] # "done" /\ blk[NextPeer[r]][b] # "done"
      BY <1>1, <2>3, WireFacts DEF Working
    <3> QED BY <1>1, <3>1, <3>2, CtaFacts, RankTypes DEF Idle
  <2> QED BY <2>1, <2>2, <2>3
<1> QED BY <1>1, DataAlways, PTL

\* Signals are never reset: at the start of a kernel there are exactly as many as the
\* shadow has counted, so the first wait cannot take a signal of the last forward.
THEOREM SignalsAllCounted == Safe => []NoLeftoverSignal
<1>1. ASSUME IInv, OrderInv, SignalsCount PROVE NoLeftoverSignal
  <2> SUFFICES ASSUME NEW r \in Ranks, NEW b \in Blocks,
                      blk[r][b] \in {"launch", "handshake", "done"}
               PROVE  signal[r][b] = shadow[r][b]
    BY DEF NoLeftoverSignal
  <2>1. shadow[r][b] = Base(r, b) /\ shadow[r][b] <= signal[r][b]
    BY <1>1 DEF SignalsCount, Counted
  <2>2. ~(signal[r][b] > Base(r, b)) BY <1>1, SignalPlace
  <2> QED BY <1>1, <2>1, <2>2, CountTypes, BaseFacts
<1> QED BY <1>1, DataAlways, PTL
===============================================================================
