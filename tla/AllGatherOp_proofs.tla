--------------------------- MODULE AllGatherOp_proofs ---------------------------
(***************************************************************************)
(* The safety properties of AllGatherOp and its refinement of the abstract *)
(* barrier, for every number of ranks and forwards and every sequence of   *)
(* options, and that no forward is ever stuck.                             *)
(*                                                                         *)
(* IInv says where the streams and CTAs are, counts the arrivals at the    *)
(* barriers, of which not every forward has the same (ArrivalsCounted),    *)
(* and concludes whom a barrier has met (BarriersHold).  While a rank is   *)
(* in its transfer all ranks have then reset their flags and copied their  *)
(* input for the same forward, and for no later one (AllPrepared): flags   *)
(* stand (FlagsStand), and what is copied and read is of that forward      *)
(* (DataInv).  The fused preparation signals before the whole own segment  *)
(* is copied, so the data needs PullsUnfused; order and flags do not.      *)
(*                                                                         *)
(* If no rank could move, all would have prepared the same forward: those  *)
(* behind meet each other at their barriers (OneIsThrough).  A hop waits   *)
(* only for what the hop before it brings (HopWaits), so the earliest hop  *)
(* left could be done; with none left every flag is up (FlagsArrive), and  *)
(* ag_signal, which no GEMM keeps from rising (SignalKept).                *)
(***************************************************************************)
EXTENDS AllGatherOp, FiniteSetTheorems, WellFoundedInduction, TLAPS

-----------------------------------------------------------------------------
(* The state of a rank's preparation. *)

\* Forwards cp_stream of rank r has begun to prepare, and those it has prepared.
Begun(r)    == IF commPc[r] = "idle" THEN commFwd[r] ELSE commFwd[r] + 1
Prepared(r) == LocalPrepareEvent(r)

\* The last forward for which rank r has done x: copied a part of the own
\* segment, or reset the flags.
Done(r, x) == IF commPc[r] = "prepare" /\ x \in work[r] THEN Prepared(r) + 1
              ELSE Prepared(r)

\* How many of the first n forwards have a CTA c, and how often it has arrived in
\* the one under way.
Turns(c, n) == Cardinality({f \in 1..n : c \in CtasOf(opts[f])})
Arrivals(r, c) == IF cta[r][c] \in {"launch", "done"} THEN 0
                  ELSE IF cta[r][c] \in {"sync1", "work"} THEN 1 ELSE 2

\* Rank r is past a first barrier of its preparation.
Passed(r) == \E c \in Ctas : cta[r][c] \in {"work", "sync2"}

\* The last forward for which rank r has raised the flag of hop i.
SentBy(r, i) == IF i \in sent[r] THEN commFwd[r] + 1 ELSE commFwd[r]

-----------------------------------------------------------------------------
(* The invariants. *)

\* Where the streams are, and how far they may be apart.
StreamsInOrder ==
    \A r \in Ranks :
        /\ input[r] = ReadyEvent(r)
        /\ compFwd[r] <= Prepared(r) /\ Begun(r) <= ReadyEvent(r)
        /\ compPc[r] # "input" => compFwd[r] < MaxForwards
        /\ compPc[r] = "gemm" => compFwd[r] < Prepared(r)
        /\ commPc[r] # "idle" => commFwd[r] < MaxForwards
        /\ commPc[r] # "transfer" => copied[r] = {} /\ sent[r] = {}

\* The CTAs of the options run in a preparation, and have done their work.
CtasInOrder ==
    \A r \in Ranks, c \in Ctas :
        /\ cta[r][c] # "done" <=> commPc[r] = "prepare" /\ c \in CtasOf(CommOpt(r))
        /\ cta[r][c] = "sync2" => WorkBefore(c) \subseteq work[r]

\* A CTA arrives twice at its barriers in every forward that has it.
ArrivalsCounted ==
    \A r \in Ranks, c \in Ctas :
        arrived[r][c] = 2 * Turns(c, Prepared(r)) + Arrivals(r, c)

\* Who is past a first barrier has met everybody in this preparation; who has
\* prepared a forward finds everybody behind the second barrier of it.
BarriersHold ==
    \A r, q \in Ranks :
        /\ commPc[r] = "prepare" /\ (Passed(r) \/ work[r] # {}) => Begun(q) >= Begun(r)
        /\ Prepared(q) < Prepared(r) =>
              /\ Prepared(q) = Prepared(r) - 1 /\ commPc[q] = "prepare"
              /\ \A c \in CtasOf(CommOpt(q)) : cta[q][c] = "sync2"

\* The flags a hop has waited for and the one it has raised stand until the
\* sender is through.
FlagsStand ==
    \A r \in Ranks :
        /\ sent[r] \subseteq copied[r]
        /\ \A i \in copied[r] :
              LET h == Hop(CommOpt(r), r, i)
              IN  /\ \A q \in h.waits : ready[q][h.seg] = 1
                  /\ i \in sent[r] => ready[h.to][h.seg] = 1

\* The own segment is that of the last preparation, part by part; a segment whose
\* flag is up, or that a hop has just written, is that of the last reset.
OwnCurrent    == \A q \in Ranks : \A p \in Parts : window[q][q][p] = Done(q, p)
OthersCurrent == \A q \in Ranks : \A s \in Ranks \ {q} : \A p \in Parts :
                    ready[q][s] = 1 => window[q][s][p] = Done(q, "flags")
CopiesCurrent == \A r \in Ranks : \A i \in copied[r] : \A p \in Parts :
                    LET h == Hop(CommOpt(r), r, i)
                    IN  window[h.to][h.seg][p] = Prepared(r)

IInv    == TypeOK /\ StreamsInOrder /\ CtasInOrder /\ ArrivalsCounted /\ BarriersHold
DataInv == OwnCurrent /\ OthersCurrent /\ CopiesCurrent /\ TilesReadCurrent

\* The own flag is up since the first reset, and the flag of a hop is once both its
\* receiver has reset its flags for the forward and its sender has sent it.
OwnFlagUp   == \A q \in Ranks : Done(q, "flags") > 0 => ready[q][q] = 1
HopFlagsUp  == \A r \in Ranks, i \in Hops, f \in 1..MaxForwards :
                  LET h == Hop(opts[f], r, i)
                  IN  f <= SentBy(r, i) /\ Done(h.to, "flags") = f => ready[h.to][h.seg] = 1
FlagsArrive == OwnFlagUp /\ HopFlagsUp

\* A transfer has a hop left, a GEMM a tile, and the plain copy kernel does all its work
\* in one step.
WorkRemains ==
    \A r \in Ranks :
        /\ commPc[r] = "transfer" => sent[r] # Hops
        /\ tiles[r] # Ranks /\ (compPc[r] # "gemm" => tiles[r] = {})
        /\ commPc[r] = "prepare" /\ ~CommOpt(r).fuse => work[r] \in {{}, WorkOf("all")}

\* ag_signal is down from the reset until the launch of the transfer kernel, and up from
\* there until the next reset: no GEMM can hold the SMs the kernel needs.
SignalKept ==
    \A r \in Ranks :
        /\ commPc[r] = "launch" =>
              CommOpt(r).cores /\ agSignal[r] = 0 /\ compPc[r] # "gemm"
        /\ commPc[r] = "prepare" /\ "flags" \in work[r] => agSignal[r] = 0
        /\ commPc[r] \in {"transfer", "idle"} /\ Prepared(r) > 0 /\ opts[Prepared(r)].cores =>
              agSignal[r] = 1

\* What keeps the forwards going.
ProgressInv == IInv /\ FlagsArrive /\ WorkRemains /\ SignalKept

\* The options under which no transfer reads the own segment of a peer right after a
\* fused preparation, whose copy no barrier waits for.
PullsUnfused == \A o \in Options : o.fuse => o.mode \in {"RingPush", "RingPush2D"}

-----------------------------------------------------------------------------
(* Ranks, hops and counts. *)

LEMMA Consts == /\ WorldSize \in Nat /\ WorldSize > 1 /\ MaxForwards \in Nat
                /\ NumaSize \in Nat \ {0} /\ Options \subseteq AllOptions
                /\ (\E o \in Options : o.mode = "RingPush2D") => WorldSize = 2 * NumaSize
  BY OptionsAssumption

LEMMA ModFacts == ASSUME NEW x \in Int
                  PROVE  /\ Mod(x) \in Ranks
                         /\ \E k \in Int : x = k * WorldSize + Mod(x)
<1>1. WorldSize \in Nat /\ WorldSize > 0 BY Consts
<1>2. x % WorldSize \in 0..(WorldSize - 1) /\ x \div WorldSize \in Int
      /\ x = (x \div WorldSize) * WorldSize + (x % WorldSize)
  BY <1>1
<1> QED BY <1>2 DEF Mod, Ranks

\* Two numbers a rank apart have different remainders.
LEMMA ModApart == ASSUME NEW x \in Int, NEW d \in 1..(WorldSize - 1)
                  PROVE  Mod(x) # Mod(x + d)
<1>1. WorldSize \in Nat /\ WorldSize > 0 BY Consts
<1>2. PICK k \in Int : x = k * WorldSize + Mod(x) BY ModFacts
<1>11. x + d \in Int OBVIOUS
<1>3. PICK m \in Int : x + d = m * WorldSize + Mod(x + d) BY ModFacts, <1>11
<1>4. SUFFICES ASSUME Mod(x) = Mod(x + d) PROVE FALSE OBVIOUS
<1>5. k * WorldSize \in Int /\ m * WorldSize \in Int /\ Mod(x) \in Int
  BY <1>1, ModFacts DEF Ranks
<1>6. m * WorldSize - k * WorldSize = d BY <1>1, <1>2, <1>3, <1>4, <1>5
<1>7. (m - k) * WorldSize = d BY <1>1, <1>6
<1> DEFINE n == m - k
<1>8. n \in Int /\ n * WorldSize = d BY <1>7
<1> HIDE DEF n
<1>9. n >= 1 => n * WorldSize >= WorldSize BY <1>1, <1>8
<1>10. n <= 0 => n * WorldSize <= 0 BY <1>1, <1>8
<1> QED BY <1>1, <1>8, <1>9, <1>10

\* A remainder is the only rank a multiple of the number of ranks away.
LEMMA ModUnique ==
    ASSUME NEW s \in Ranks, NEW k \in Int, NEW x \in Int, x = k * WorldSize + s
    PROVE  Mod(x) = s
<1>1. WorldSize \in Nat /\ WorldSize > 0 /\ s \in 0..(WorldSize - 1) BY Consts DEF Ranks
<1>2. PICK m \in Int : x = m * WorldSize + Mod(x) BY ModFacts
<1>3. Mod(x) \in 0..(WorldSize - 1) BY ModFacts DEF Ranks
<1> DEFINE n == m - k
<1>4. n \in Int OBVIOUS
<1>5. n * WorldSize = m * WorldSize - k * WorldSize BY <1>1
<1>6. m * WorldSize \in Int /\ k * WorldSize \in Int BY <1>1
<1> HIDE DEF n
<1>7. n * WorldSize = s - Mod(x)
  <2> DEFINE a == k * WorldSize  b == m * WorldSize
  <2>1. a \in Int /\ b \in Int BY <1>6
  <2>2. x = a + s /\ x = b + Mod(x) BY <1>2
  <2>3. n * WorldSize = b - a BY <1>5
  <2> HIDE DEF a, b
  <2> QED BY <1>1, <1>3, <2>1, <2>2, <2>3
<1>8. n >= 1 => n * WorldSize >= WorldSize BY <1>1, <1>4
<1>9. n <= -1 => n * WorldSize <= -WorldSize BY <1>1, <1>4
<1>10. n = 0 BY <1>1, <1>3, <1>4, <1>7, <1>8, <1>9
<1> QED BY <1>1, <1>3, <1>7, <1>10

LEMMA ModOfRank == ASSUME NEW r \in Ranks
                   PROVE  Mod(r) = r /\ Mod(r + WorldSize) = r
<1>1. WorldSize \in Nat /\ r \in Int BY Consts DEF Ranks
<1>2. r = 0 * WorldSize + r /\ r + WorldSize = 1 * WorldSize + r /\ r + WorldSize \in Int
  BY <1>1
<1>3. 0 \in Int /\ 1 \in Int OBVIOUS
<1>4. Mod(r) = r BY <1>1, <1>2, <1>3, ModUnique
<1> QED BY <1>2, <1>3, <1>4, ModUnique

\* A remainder can be taken before adding.
LEMMA ModAdd == ASSUME NEW x \in Int, NEW y \in Int PROVE Mod(Mod(x) + y) = Mod(x + y)
<1>1. WorldSize \in Nat /\ WorldSize > 0 BY Consts
<1>2. PICK k \in Int : x = k * WorldSize + Mod(x) BY ModFacts
<1>3. Mod(x) \in Int BY <1>1, ModFacts DEF Ranks
<1>4. Mod(x) + y \in Int BY <1>3
<1>5. PICK m \in Int : Mod(x) + y = m * WorldSize + Mod(Mod(x) + y) BY <1>4, ModFacts
<1>6. Mod(Mod(x) + y) \in Ranks /\ Mod(Mod(x) + y) \in Int BY <1>1, <1>4, ModFacts DEF Ranks
<1>7. (k + m) * WorldSize = k * WorldSize + m * WorldSize BY <1>1
<1>8. x + y = (k + m) * WorldSize + Mod(Mod(x) + y)
  <2> DEFINE a == k * WorldSize  b == m * WorldSize  c == Mod(x)  d == Mod(Mod(x) + y)
  <2>1. a \in Int /\ b \in Int /\ c \in Int /\ d \in Int BY <1>1, <1>3, <1>6
  <2>2. x = a + c /\ c + y = b + d BY <1>2, <1>5
  <2>3. (k + m) * WorldSize = a + b BY <1>7
  <2> HIDE DEF a, b, c, d
  <2>4. x + y = (a + b) + d BY <2>1, <2>2
  <2> QED BY <2>3, <2>4 DEF d
<1> QED BY <1>6, <1>8, ModUnique

\* Adding the number of ranks changes no remainder.
LEMMA ModPeriod == ASSUME NEW x \in Int PROVE Mod(x + WorldSize) = Mod(x)
<1>1. WorldSize \in Int /\ Mod(x) \in Ranks BY Consts, ModFacts
<1>2. Mod(x) + WorldSize \in Int BY <1>1, Consts DEF Ranks
<1> QED BY <1>1, ModAdd, ModOfRank

\* The first rank of a NUMA node sends to the last.
LEMMA LeaderSends ==
    ASSUME WorldSize = 2 * NumaSize, NEW r \in Ranks, r % NumaSize = 0
    PROVE  r \in {0, NumaSize} /\ RankToSub(r) = r + NumaSize - 1
<1>1. WorldSize \in Nat /\ r \in 0..(WorldSize - 1) /\ NumaSize \in Nat \ {0}
  BY Consts DEF Ranks
<1>2. r \in {0, NumaSize}
  <2>1. r = (r \div NumaSize) * NumaSize /\ r \div NumaSize \in Int
    BY <1>1
  <2> DEFINE k == r \div NumaSize
  <2>2. r = k * NumaSize /\ k \in Int BY <2>1
  <2> HIDE DEF k
  <2>3. k >= 2 => k * NumaSize >= 2 * NumaSize BY <1>1, <2>2
  <2>4. k <= -1 => k * NumaSize <= -NumaSize BY <1>1, <2>2
  <2>5. k \in {0, 1} BY <1>1, <2>2, <2>3, <2>4
  <2> QED BY <1>1, <2>2, <2>5
<1>3. CASE r = 0
  <2>1. 0 \div NumaSize = 0 /\ (0 - 1 + NumaSize) % NumaSize = NumaSize - 1
    BY <1>1
  <2> QED BY <1>3, <2>1, <1>1 DEF RankToSub
<1>4. CASE r = NumaSize
  <2>1. NumaSize \div NumaSize = 1 /\ NumaSize - 1 + NumaSize = 2 * NumaSize - 1
    BY <1>1
  <2>2. (2 * NumaSize - 1) % NumaSize = NumaSize - 1
    <3>1. (NumaSize - 1 + 1 * NumaSize) % NumaSize = NumaSize - 1 BY <1>1
    <3>2. NumaSize - 1 + 1 * NumaSize = 2 * NumaSize - 1 BY <1>1
    <3> QED BY <3>1, <3>2
  <2> QED BY <1>4, <2>1, <2>2, <1>1 DEF RankToSub
<1> QED BY <1>2, <1>3, <1>4

LEMMA HopFacts ==
    ASSUME NEW o \in Options, NEW r \in Ranks, NEW i \in Hops
    PROVE  LET h == Hop(o, r, i)
           IN  /\ h.seg \in Ranks /\ h.from \in Ranks /\ h.to \in Ranks
               /\ h.waits \in SUBSET Ranks /\ h.seg # h.to
<1>1. /\ WorldSize \in Nat /\ r \in 0..(WorldSize - 1) /\ i \in 0..(WorldSize - 2)
      /\ NumaSize \in Nat \ {0}
  BY Consts DEF Ranks, Hops
<1>2. Mod(r + 1 + i) \in Ranks /\ Mod(r + 1 + i) # r
  <2>3. r \in Int /\ 1 + i \in 1..(WorldSize - 1) BY <1>1
  <2>1. Mod(r) # Mod(r + (1 + i)) BY <2>3, ModApart
  <2>2. r + 1 + i = r + (1 + i) BY <1>1
  <2> QED BY <1>1, <2>1, <2>2, ModFacts, ModOfRank
<1>3. Mod(r + i) \in Ranks /\ Mod(r - 1 + WorldSize) \in Ranks
      /\ Mod(r + i) # Mod(r - 1 + WorldSize)
  <2>3. r + i \in Int /\ WorldSize - 1 - i \in 1..(WorldSize - 1) BY <1>1
  <2>1. Mod(r + i) # Mod(r + i + (WorldSize - 1 - i)) BY <2>3, ModApart
  <2>2. r + i + (WorldSize - 1 - i) = r - 1 + WorldSize BY <1>1
  <2> QED BY <1>1, <2>1, <2>2, ModFacts
<1>4. CASE o.mode = "All2All"
  BY <1>1, <1>2, <1>4 DEF Hop, All2AllHop
<1>5. CASE o.mode = "RingPush"
  BY <1>1, <1>3, <1>5 DEF Hop, RingPushHop
<1>6. CASE o.mode = "RingPull"
  <2>1. r + i + 1 = r + 1 + i BY <1>1
  <2>2. Mod(r + 1) \in Ranks BY <1>1, ModFacts
  <2> QED BY <1>1, <1>2, <1>6, <2>1, <2>2 DEF Hop, RingPullHop
<1>7. CASE o.mode = "RingPush2D"
  <2>1. WorldSize = 2 * NumaSize BY <1>7, Consts
  <2>2. CASE i >= NumaSize /\ r % NumaSize = 0
    <3>1. r \in {0, NumaSize} BY <2>1, <2>2, LeaderSends
    <3>2. RankToSub(r) = r + NumaSize - 1 BY <2>1, <2>2, LeaderSends
    <3>3. RankToSub(r) \in Ranks BY <3>1, <3>2, <2>1, <1>1 DEF Ranks
    <3>4. Mod(r + i + NumaSize) # RankToSub(r)
      <4>3. r + NumaSize - 1 \in Int /\ i + 1 \in 1..(WorldSize - 1) BY <1>1
      <4>1. Mod(r + NumaSize - 1) # Mod(r + NumaSize - 1 + (i + 1))
        BY <4>3, ModApart
      <4>2. r + NumaSize - 1 + (i + 1) = r + i + NumaSize BY <1>1
      <4> QED BY <4>1, <4>2, <3>2, <3>3, ModOfRank
    <3>5. Mod(r + i + NumaSize) \in Ranks BY <1>1, ModFacts
    <3> QED BY <1>7, <2>2, <3>3, <3>4, <3>5 DEF Hop, RingPush2DHop
  <2>3. CASE ~(i >= NumaSize /\ r % NumaSize = 0)
    BY <1>1, <1>3, <1>7, <2>3 DEF Hop, RingPush2DHop, RingPushHop
  <2> QED BY <2>2, <2>3
<1> QED BY <1>4, <1>5, <1>6, <1>7, Consts DEF AllOptions

\* Where a hop reads: the own segment of a peer, the own segment of the sender, one
\* whose flag it has waited for, or one the sender has sent in an earlier hop.
LEMMA HopReads ==
    ASSUME NEW o \in Options, NEW r \in Ranks, NEW i \in Hops
    PROVE  LET h == Hop(o, r, i)
           IN  \/ o.mode \in {"All2All", "RingPull"} /\ h.seg = h.from
               \/ h.from = r /\ h.seg = r
               \/ h.from \in h.waits
               \/ /\ h.from = r /\ o.mode = "RingPush2D"
                  /\ \E j \in Hops : /\ j < i /\ Hop(o, r, j).seg = h.seg
                                     /\ h.seg = r \/ r \in Hop(o, r, j).waits
<1>1. /\ WorldSize \in Nat /\ r \in 0..(WorldSize - 1) /\ i \in 0..(WorldSize - 2)
      /\ NumaSize \in Nat \ {0}
  BY Consts DEF Ranks, Hops
<1>2. Mod(r + 0) = r BY <1>1, ModOfRank
<1>3. CASE o.mode = "All2All" BY <1>3 DEF Hop, All2AllHop
<1>4. CASE o.mode = "RingPush"
  BY <1>2, <1>4 DEF Hop, RingPushHop
<1>5. CASE o.mode = "RingPull"
  <2>1. i = 0 => r + i + 1 = r + 1 BY <1>1
  <2> QED BY <1>5, <2>1 DEF Hop, RingPullHop
<1>6. CASE o.mode = "RingPush2D"
  <2>1. WorldSize = 2 * NumaSize BY <1>6, Consts
  <2>2. CASE i >= NumaSize /\ r % NumaSize = 0
    <3> DEFINE j == i - NumaSize
    <3>1. j \in Hops /\ j < i /\ j < NumaSize BY <1>1, <2>1, <2>2 DEF Hops
    <3>2. Mod(r + i + NumaSize) = Mod(r + j)
      <4>1. r + i + NumaSize = (r + j) + WorldSize BY <1>1, <2>1
      <4> QED BY <4>1, <1>1, <3>1, ModPeriod DEF Hops
    <3>3. Hop(o, r, j) = RingPushHop(r, j)
      BY <1>6, <3>1, <1>1 DEF Hop, RingPush2DHop
    <3>4. Hop(o, r, i).seg = Mod(r + j) /\ Hop(o, r, i).from = r
      BY <1>6, <2>2, <3>2 DEF Hop, RingPush2DHop
    <3>5. Hop(o, r, j).seg = Mod(r + j) /\ Hop(o, r, j).waits = IF j = 0 THEN {} ELSE {r}
      BY <3>3 DEF RingPushHop
    <3>6. j = 0 => Mod(r + j) = r BY <1>2
    <3> HIDE DEF j
    <3> QED BY <1>6, <3>1, <3>4, <3>5, <3>6
  <2>3. CASE ~(i >= NumaSize /\ r % NumaSize = 0)
    BY <1>2, <1>6, <2>3 DEF Hop, RingPush2DHop, RingPushHop
  <2> QED BY <2>2, <2>3
<1> QED BY <1>3, <1>4, <1>5, <1>6, Consts DEF AllOptions

\* In every mode hop i of some rank brings rank q the segment i + 1 ranks after it.
LEMMA HopArrives ==
    ASSUME NEW o \in Options, NEW q \in Ranks, NEW i \in Hops
    PROVE  \E p \in Ranks : Hop(o, p, i).to = q /\ Hop(o, p, i).seg = Mod(q + 1 + i)
<1>1. /\ WorldSize \in Nat /\ q \in 0..(WorldSize - 1) /\ i \in 0..(WorldSize - 2)
      /\ NumaSize \in Nat \ {0}
  BY Consts DEF Ranks, Hops
<1>2. CASE o.mode = "All2All"
  BY <1>2 DEF Hop, All2AllHop
<1>3. CASE o.mode = "RingPull"
  <2>1. q + i + 1 = q + 1 + i BY <1>1
  <2>2. Hop(o, q, i).to = q /\ Hop(o, q, i).seg = Mod(q + i + 1)
    BY <1>3 DEF Hop, RingPullHop
  <2> QED BY <2>1, <2>2
<1> DEFINE p == Mod(q + 1)
<1>4. p \in Ranks BY <1>1, ModFacts
<1>5. RingPushHop(p, i).to = q /\ RingPushHop(p, i).seg = Mod(q + 1 + i)
  <2>1. q + 1 \in Int /\ -1 + WorldSize \in Int /\ i \in Int BY <1>1
  <2>2. /\ Mod(p + (-1 + WorldSize)) = Mod(q + 1 + (-1 + WorldSize))
        /\ Mod(p + i) = Mod(q + 1 + i)
    BY <2>1, ModAdd
  <2>3. q + 1 + (-1 + WorldSize) = q + WorldSize BY <1>1
  <2>4. p \in Int BY <1>1, <1>4 DEF Ranks
  <2> HIDE DEF p
  <2>5. p - 1 + WorldSize = p + (-1 + WorldSize) BY <2>4, <1>1
  <2> QED BY <2>2, <2>3, <2>5, ModOfRank DEF RingPushHop
<1> HIDE DEF p
<1>6. CASE o.mode = "RingPush"
  <2>1. Hop(o, p, i) = RingPushHop(p, i) BY <1>6 DEF Hop
  <2> QED BY <1>4, <1>5, <2>1
<1>7. CASE o.mode = "RingPush2D"
  <2>1. WorldSize = 2 * NumaSize BY <1>7, Consts
  <2>2. Hop(o, p, i) = RingPush2DHop(p, i) BY <1>7 DEF Hop
  <2>3. CASE ~(i >= NumaSize /\ p % NumaSize = 0)
    <3>1. RingPush2DHop(p, i) = RingPushHop(p, i) BY <2>3 DEF RingPush2DHop
    <3> QED BY <1>4, <1>5, <2>2, <3>1
  <2>4. CASE i >= NumaSize /\ p % NumaSize = 0
    <3>1. p \in {0, NumaSize} BY <1>4, <2>1, <2>4, LeaderSends
    <3>2. q + 1 \in {NumaSize, WorldSize}
      <4>1. q + 1 < WorldSize => p = q + 1
        <5> HAVE q + 1 < WorldSize
        <5>1. q + 1 \in Ranks BY <1>1 DEF Ranks
        <5> QED BY <5>1, ModOfRank DEF p
      <4> QED BY <1>1, <2>1, <3>1, <4>1
    <3> DEFINE l == q + 1 - NumaSize
    <3>3. l \in {0, NumaSize} /\ l \in Ranks BY <1>1, <2>1, <3>2 DEF Ranks
    <3>4. l % NumaSize = 0
      <4>1. 0 % NumaSize = 0 /\ NumaSize % NumaSize = 0 BY <1>1
      <4> QED BY <3>3, <4>1
    <3>5. RankToSub(l) = l + NumaSize - 1 BY <2>1, <3>3, <3>4, LeaderSends
    <3>6. Hop(o, l, i).to = RankToSub(l) /\ Hop(o, l, i).seg = Mod(l + i + NumaSize)
      BY <1>7, <2>4, <3>4 DEF Hop, RingPush2DHop
    <3>7. l + NumaSize - 1 = q /\ l + i + NumaSize = q + 1 + i BY <1>1
    <3> QED BY <3>3, <3>5, <3>6, <3>7
  <2> QED BY <2>3, <2>4
<1> QED BY <1>2, <1>3, <1>6, <1>7, Consts DEF AllOptions

\* A hop waits only for what the hop before it brings.
LEMMA HopWaits ==
    ASSUME NEW o \in Options, NEW r \in Ranks, NEW i \in Hops, NEW w \in Hop(o, r, i).waits
    PROVE  w \in Ranks /\ i > 0 /\ Hop(o, r, i).seg = Mod(w + i)
<1>1. /\ WorldSize \in Nat /\ r \in 0..(WorldSize - 1) /\ i \in 0..(WorldSize - 2)
  BY Consts DEF Ranks, Hops
<1>2. w \in RingPushHop(r, i).waits => w = r /\ i > 0 /\ RingPushHop(r, i).seg = Mod(w + i)
  BY <1>1 DEF RingPushHop
<1>3. CASE o.mode = "All2All" BY <1>3 DEF Hop, All2AllHop
<1>4. CASE o.mode = "RingPush" BY <1>2, <1>4 DEF Hop
<1>5. CASE o.mode = "RingPull"
  <2>1. r + 1 \in Int /\ i \in Int /\ r + 1 + i = r + i + 1 BY <1>1
  <2>2. Mod(Mod(r + 1) + i) = Mod(r + 1 + i) /\ Mod(r + 1) \in Ranks BY <2>1, ModAdd, ModFacts
  <2>3. i # 0 /\ w = Mod(r + 1) /\ Hop(o, r, i).seg = Mod(r + i + 1)
    BY <1>5 DEF Hop, RingPullHop
  <2> QED BY <1>1, <2>1, <2>2, <2>3
<1>6. CASE o.mode = "RingPush2D"
  <2>1. ~(i >= NumaSize /\ r % NumaSize = 0) BY <1>6 DEF Hop, RingPush2DHop
  <2> QED BY <1>2, <1>6, <2>1 DEF Hop, RingPush2DHop
<1> QED BY <1>3, <1>4, <1>5, <1>6, Consts DEF AllOptions

\* The segments the hops bring are all but the own one.
LEMMA SegmentsComeIn ==
    ASSUME NEW q \in Ranks, NEW s \in Ranks \ {q}
    PROVE  \E i \in Hops : Mod(q + 1 + i) = s
<1>1. WorldSize \in Nat /\ q \in 0..(WorldSize - 1) /\ s \in 0..(WorldSize - 1) /\ s # q
  BY Consts DEF Ranks
<1>2. CASE s > q
  <2>1. s - q - 1 \in Hops /\ q + 1 + (s - q - 1) = s BY <1>1, <1>2 DEF Hops
  <2> QED BY <2>1, ModOfRank
<1>3. CASE s < q
  <2>1. s - q - 1 + WorldSize \in Hops /\ q + 1 + (s - q - 1 + WorldSize) = s + WorldSize
    BY <1>1, <1>3 DEF Hops
  <2> QED BY <2>1, ModOfRank
<1> QED BY <1>1, <1>2, <1>3

\* The count of the forwards that have a CTA.
LEMMA TurnFacts ==
    ASSUME NEW c, NEW n \in Nat
    PROVE  /\ Turns(c, n) \in Nat /\ Turns(c, n) <= n
           /\ Turns(c, 0) = 0
           /\ \A m \in Nat : n <= m => Turns(c, n) <= Turns(c, m)
           /\ Turns(c, n + 1) =
                 Turns(c, n) + (IF c \in CtasOf(opts[n + 1]) THEN 1 ELSE 0)
<1> DEFINE S(m) == {f \in 1..m : c \in CtasOf(opts[f])}
<1>1. \A m \in Nat : IsFiniteSet(1..m) /\ Cardinality(1..m) = m
  BY FS_Interval
<1>2. \A m \in Nat : IsFiniteSet(S(m)) /\ Cardinality(S(m)) \in Nat /\ Cardinality(S(m)) <= m
  <2> TAKE m \in Nat
  <2>1. S(m) \subseteq 1..m OBVIOUS
  <2> HIDE DEF S
  <2> QED BY <1>1, <2>1, FS_Subset, FS_CardinalityType
<1>3. \A m \in Nat : n <= m => Cardinality(S(n)) <= Cardinality(S(m))
  <2> TAKE m \in Nat
  <2> HAVE n <= m
  <2>1. S(n) \subseteq S(m) OBVIOUS
  <2> HIDE DEF S
  <2> QED BY <1>2, <2>1, FS_Subset
<1>4. S(0) = {} OBVIOUS
<1>5. S(n + 1) = IF c \in CtasOf(opts[n + 1]) THEN S(n) \cup {n + 1} ELSE S(n)
  <2>1. 1..(n + 1) = 1..n \cup {n + 1} OBVIOUS
  <2> QED BY <2>1
<1>6. n + 1 \notin S(n) OBVIOUS
<1>7. \A m : Turns(c, m) = Cardinality(S(m)) BY DEF Turns
<1> HIDE DEF S
<1>8. Cardinality(S(n) \cup {n + 1}) = Cardinality(S(n)) + 1
  BY <1>2, <1>6, FS_AddElement
<1>9. Cardinality(S(0)) = 0 BY <1>4, FS_EmptySet
<1> QED BY <1>2, <1>3, <1>5, <1>7, <1>8, <1>9

LEMMA OptFacts ==
    ASSUME TypeOK, NEW r \in Ranks
    PROVE  /\ commFwd[r] < MaxForwards => CommOpt(r) \in Options
           /\ commFwd[r] < MaxForwards => CtasOf(CommOpt(r)) # {}
           /\ CtasOf(CommOpt(r)) \subseteq Ctas
<1>1. commFwd[r] < MaxForwards => CommOpt(r) \in Options
  <2> HAVE commFwd[r] < MaxForwards
  <2>1. commFwd[r] + 1 \in 1..MaxForwards BY Consts DEF TypeOK, Forwards
  <2> QED BY <2>1 DEF TypeOK, CommOpt
<1> QED BY <1>1 DEF CtasOf, Ctas

LEMMA CtaFacts == ASSUME NEW c \in Ctas
                  PROVE  /\ WorkBefore(c) \subseteq WorkOf(c)
                         /\ "flags" \in WorkOf(c) => "flags" \in WorkBefore(c)
                         /\ c # "copy" => WorkBefore(c) = WorkOf(c)
                         /\ "head" \in WorkOf(c) => "head" \in WorkBefore(c)
                         /\ WorkOf(c) \subseteq Parts \cup {"flags"}
                         /\ \A step \in WorkSteps(c) : step \subseteq WorkOf(c)
  BY DEF Ctas, WorkBefore, WorkOf, WorkSteps, Parts

LEMMA RankFacts ==
    ASSUME TypeOK, NEW r \in Ranks
    PROVE  /\ compFwd[r] \in Nat /\ commFwd[r] \in Nat /\ MaxForwards \in Nat
           /\ compFwd[r] <= MaxForwards /\ commFwd[r] <= MaxForwards
           /\ Prepared(r) \in Nat /\ Begun(r) \in Nat /\ ReadyEvent(r) \in Nat
           /\ commPc[r] \in {"idle", "prepare", "launch", "transfer"}
           /\ commPc[r] = "idle" => Prepared(r) = commFwd[r] /\ Begun(r) = commFwd[r]
           /\ commPc[r] = "prepare" => Prepared(r) = commFwd[r] /\ Begun(r) = commFwd[r] + 1
           /\ commPc[r] \in {"launch", "transfer"} =>
                 Prepared(r) = commFwd[r] + 1 /\ Begun(r) = commFwd[r] + 1
  BY Consts DEF TypeOK, Forwards, Prepared, LocalPrepareEvent, Begun, ReadyEvent

\* What the steps leave alone.
ProgressKept == UNCHANGED <<opts, commFwd, commPc, cta, work>>

LEMMA KeptFacts ==
    ASSUME UNCHANGED <<opts, commFwd, commPc>>, NEW r
    PROVE  Prepared(r)' = Prepared(r) /\ Begun(r)' = Begun(r) /\ CommOpt(r)' = CommOpt(r)
  BY DEF Prepared, LocalPrepareEvent, Begun, CommOpt

LEMMA TurnsKept == ASSUME UNCHANGED opts, NEW c, NEW n PROVE Turns(c, n)' = Turns(c, n)
  BY DEF Turns

-----------------------------------------------------------------------------
(* IInv. *)

LEMMA TypeInit == Init => TypeOK
  BY Consts DEF Init, TypeOK, Forwards, Ctas, Hops, Parts

LEMMA TypeStep == IInv /\ [Next]_vars => TypeOK'
<1> SUFFICES ASSUME IInv, [Next]_vars PROVE TypeOK' OBVIOUS
<1> USE DEF IInv
<1>1. ASSUME NEW r \in Ranks, ProduceInput(r) PROVE TypeOK'
  BY <1>1, Consts DEF TypeOK, ProduceInput, MayProduce, prepare, Forwards
<1>2. ASSUME NEW r \in Ranks, GemmStart(r) PROVE TypeOK'
  BY <1>2 DEF TypeOK, GemmStart, prepare
<1>3. ASSUME NEW r \in Ranks, NEW s \in Ranks, GemmTile(r, s) PROVE TypeOK'
  <2>1. compFwd[r] < MaxForwards BY <1>3 DEF GemmTile, TileReady, StreamsInOrder
  <2>2. tiles' \in [Ranks -> SUBSET Ranks] BY <1>3 DEF TypeOK, GemmTile
  <2>6. \/ compFwd' = [compFwd EXCEPT ![r] = compFwd[r] + 1]
        \/ compFwd' = [compFwd EXCEPT ![r] = compFwd[r]]
    BY <1>3 DEF GemmTile
  <2>7. compFwd[r] + 1 \in Forwards /\ compFwd[r] \in Forwards
    BY <2>1, Consts DEF TypeOK, Forwards
  <2>3. compFwd' \in [Ranks -> Forwards] BY <2>6, <2>7 DEF TypeOK
  <2>4. compPc' \in [Ranks -> {"input", "wait", "gemm"}] BY <1>3 DEF TypeOK, GemmTile
  <2>5. stale' \in [Ranks -> BOOLEAN] BY <1>3 DEF TypeOK, GemmTile
  <2> QED BY <1>3, <2>2, <2>3, <2>4, <2>5 DEF TypeOK, GemmTile, prepare
<1>4. ASSUME NEW r \in Ranks, PrepareStart(r) PROVE TypeOK'
  BY <1>4 DEF TypeOK, PrepareStart, compute
<1>5. ASSUME NEW r \in Ranks, NEW c \in Ctas, CtaStart(r, c) \/ CtaArrive(r, c)
      PROVE  TypeOK'
  <2>1. arrived[r][c] + 1 \in 0..(2 * MaxForwards)
    <3>1. cta[r][c] \in {"launch", "work"} BY <1>5 DEF CtaStart, CtaArrive, MayArrive
    <3>2. commPc[r] = "prepare" BY <3>1 DEF CtasInOrder
    <3>3. commFwd[r] < MaxForwards /\ Prepared(r) = commFwd[r]
      BY <3>2, RankFacts DEF StreamsInOrder
    <3>4. Arrivals(r, c) \in {0, 1} BY <3>1 DEF Arrivals
    <3>5. arrived[r][c] = 2 * Turns(c, Prepared(r)) + Arrivals(r, c)
      BY DEF ArrivalsCounted
    <3>6. Turns(c, Prepared(r)) \in Nat /\ Turns(c, Prepared(r)) <= Prepared(r)
      BY TurnFacts, RankFacts
    <3> QED BY <3>3, <3>4, <3>5, <3>6, RankFacts
  <2> DEFINE N == 0..(2 * MaxForwards)
             n == arrived[r][c] + 1
  <2>4. arrived' = [arrived EXCEPT ![r][c] = n] BY <1>5 DEF CtaStart, CtaArrive
  <2>5. arrived \in [Ranks -> [Ctas -> N]] /\ n \in N BY <2>1 DEF TypeOK
  <2> HIDE DEF N, n
  <2>2. arrived' \in [Ranks -> [Ctas -> N]] BY <2>4, <2>5
  <2> DEFINE V == {"launch", "sync1", "work", "sync2", "done"}
  <2>6. \E v \in V : cta' = [cta EXCEPT ![r][c] = v] BY <1>5 DEF CtaStart, CtaArrive
  <2>7. cta \in [Ranks -> [Ctas -> V]] BY DEF TypeOK
  <2> HIDE DEF V
  <2>3. cta' \in [Ranks -> [Ctas -> V]] BY <2>6, <2>7
  <2> USE DEF N, V
  <2> QED BY <1>5, <2>2, <2>3 DEF TypeOK, CtaStart, CtaArrive, compute
<1>6. ASSUME NEW r \in Ranks, NEW c \in Ctas, CtaPass(r, c) PROVE TypeOK'
  BY <1>6 DEF TypeOK, CtaPass, compute
<1>7. ASSUME NEW r \in Ranks, NEW c \in Ctas, NEW step \in WorkSteps(c), Work(r, c, step)
      PROVE  TypeOK'
  <2>1. step \subseteq Parts \cup {"flags"} BY CtaFacts
  <2>2. work' \in [Ranks -> SUBSET (Parts \cup {"flags"})] BY <1>7, <2>1 DEF TypeOK, Work
  <2>3. window' \in [Ranks -> [Ranks -> [Parts -> Forwards]]]
    BY <1>7 DEF TypeOK, Work
  <2>4. ready' \in [Ranks -> [Ranks -> {0, 1}]] /\ agSignal' \in [Ranks -> {0, 1}]
    <3>1. CASE "flags" \in step
      <4>1. /\ ready' = [ready EXCEPT ![r] = [s \in Ranks |-> OwnFlag(r, s)]]
            /\ agSignal' = [agSignal EXCEPT ![r] = 0]
        BY <1>7, <3>1 DEF Work
      <4>2. [s \in Ranks |-> OwnFlag(r, s)] \in [Ranks -> {0, 1}] BY DEF OwnFlag
      <4> QED BY <4>1, <4>2 DEF TypeOK
    <3>2. CASE "flags" \notin step BY <1>7, <3>2 DEF TypeOK, Work
    <3> QED BY <3>1, <3>2
  <2> QED BY <1>7, <2>2, <2>3, <2>4 DEF TypeOK, Work, compute
<1>8. ASSUME NEW r \in Ranks, PrepareDone(r) PROVE TypeOK'
  BY <1>8 DEF TypeOK, PrepareDone, compute
<1>9. ASSUME NEW r \in Ranks, KernelLaunch(r) PROVE TypeOK'
  BY <1>9 DEF TypeOK, KernelLaunch, compute, prepare
<1>10. ASSUME NEW r \in Ranks, NEW i \in Hops, CopyHop(r, i) PROVE TypeOK'
  <2> DEFINE h == Hop(CommOpt(r), r, i)
  <2>1. h.from \in Ranks /\ h.to \in Ranks /\ h.seg \in Ranks
    BY <1>10, OptFacts, HopFacts DEF CopyHop, MayCopy, StreamsInOrder
  <2>2. window' = [window EXCEPT ![h.to][h.seg] = window[h.from][h.seg]]
    BY <1>10 DEF CopyHop
  <2> HIDE DEF h
  <2>3. window' \in [Ranks -> [Ranks -> [Parts -> Forwards]]] BY <2>1, <2>2 DEF TypeOK
  <2>4. copied' \in [Ranks -> SUBSET Hops] BY <1>10 DEF TypeOK, CopyHop
  <2> QED BY <1>10, <2>3, <2>4 DEF TypeOK, CopyHop, compute, prepare
<1>11. ASSUME NEW r \in Ranks, NEW i \in Hops, SetReady(r, i) PROVE TypeOK'
  <2> DEFINE h == Hop(CommOpt(r), r, i)
  <2>1. h.to \in Ranks /\ h.seg \in Ranks
    BY <1>11, OptFacts, HopFacts DEF SetReady, MaySet, StreamsInOrder
  <2>2. ready' = [ready EXCEPT ![h.to][h.seg] = 1] BY <1>11 DEF SetReady
  <2> HIDE DEF h
  <2>3. ready' \in [Ranks -> [Ranks -> {0, 1}]] BY <2>1, <2>2 DEF TypeOK
  <2>4. sent' \in [Ranks -> SUBSET Hops] /\ copied' \in [Ranks -> SUBSET Hops]
    BY <1>11 DEF TypeOK, SetReady
  <2>5. commFwd[r] < MaxForwards BY <1>11 DEF SetReady, MaySet, StreamsInOrder
  <2>6. commFwd' \in [Ranks -> Forwards]
    BY <1>11, <2>5, Consts DEF TypeOK, SetReady, Forwards
  <2>7. commPc' \in [Ranks -> {"idle", "prepare", "launch", "transfer"}]
    BY <1>11 DEF TypeOK, SetReady
  <2> QED BY <1>11, <2>3, <2>4, <2>6, <2>7 DEF TypeOK, SetReady, compute, prepare
<1>12. CASE UNCHANGED vars BY <1>12 DEF TypeOK, vars
<1> QED
  BY <1>1, <1>2, <1>3, <1>4, <1>5, <1>6, <1>7, <1>8, <1>9, <1>10, <1>11, <1>12
     DEF Next, Compute, Comm, Cta

LEMMA StreamsStep == IInv /\ [Next]_vars => StreamsInOrder'
<1> SUFFICES ASSUME IInv, [Next]_vars, NEW r \in Ranks PROVE StreamsInOrder!(r)'
  BY DEF StreamsInOrder
<1> USE DEF IInv
<1> DEFINE Streams(q) == /\ UNCHANGED <<commFwd, commPc, copied, sent>>
                         /\ UNCHANGED <<input, compFwd, compPc>>
<1>1. StreamsInOrder!(r) BY DEF StreamsInOrder
<1>2. ASSUME NEW q \in Ranks, ProduceInput(q) PROVE StreamsInOrder!(r)'
  BY <1>1, <1>2, RankFacts
     DEF TypeOK, ProduceInput, MayProduce, ReadyEvent, Prepared, LocalPrepareEvent, Begun
<1>3. ASSUME NEW q \in Ranks, GemmStart(q) PROVE StreamsInOrder!(r)'
  BY <1>1, <1>3, RankFacts
     DEF TypeOK, GemmStart, GemmMayStart, ReadyEvent, Prepared, LocalPrepareEvent, Begun
<1>4. ASSUME NEW q \in Ranks, NEW s \in Ranks, GemmTile(q, s) PROVE StreamsInOrder!(r)'
  <2>1. UNCHANGED <<input, commFwd, commPc, copied, sent>> BY <1>4 DEF GemmTile
  <2>2. compPc[q] = "gemm" BY <1>4 DEF GemmTile, TileReady
  <2>3. \/ UNCHANGED <<compFwd, compPc>>
        \/ /\ compFwd' = [compFwd EXCEPT ![q] = compFwd[q] + 1]
           /\ compPc' = [compPc EXCEPT ![q] = "input"]
    <3>1. CASE tiles[q] \cup {s} = Ranks BY <1>4, <3>1 DEF GemmTile
    <3>2. CASE tiles[q] \cup {s} # Ranks BY <1>4, <3>2 DEF GemmTile, TypeOK
    <3> QED BY <3>1, <3>2
  <2>4. CASE UNCHANGED <<compFwd, compPc>>
    BY <1>1, <2>1, <2>4 DEF ReadyEvent, Prepared, LocalPrepareEvent, Begun
  <2>5. CASE /\ compFwd' = [compFwd EXCEPT ![q] = compFwd[q] + 1]
             /\ compPc' = [compPc EXCEPT ![q] = "input"]
    BY <1>1, <2>1, <2>2, <2>5, RankFacts
       DEF TypeOK, ReadyEvent, Prepared, LocalPrepareEvent, Begun
  <2> QED BY <2>3, <2>4, <2>5
<1>5. ASSUME NEW q \in Ranks, PrepareStart(q) PROVE StreamsInOrder!(r)'
  BY <1>1, <1>5, RankFacts
     DEF TypeOK, PrepareStart, MayPrepare, CommMayStart, compute, ReadyEvent, Prepared,
         LocalPrepareEvent, Begun
<1>6. ASSUME NEW q \in Ranks, PrepareDone(q) PROVE StreamsInOrder!(r)'
  BY <1>1, <1>6, RankFacts
     DEF TypeOK, PrepareDone, PrepareOver, compute, ReadyEvent, Prepared,
         LocalPrepareEvent, Begun
<1>7. ASSUME NEW q \in Ranks, KernelLaunch(q) PROVE StreamsInOrder!(r)'
  BY <1>1, <1>7, RankFacts
     DEF TypeOK, KernelLaunch, MayLaunch, compute, ReadyEvent, Prepared,
         LocalPrepareEvent, Begun
<1>8. ASSUME NEW q \in Ranks, NEW i \in Hops, CopyHop(q, i) PROVE StreamsInOrder!(r)'
  BY <1>1, <1>8, RankFacts
     DEF TypeOK, CopyHop, MayCopy, compute, ReadyEvent, Prepared, LocalPrepareEvent, Begun
<1>9. ASSUME NEW q \in Ranks, NEW i \in Hops, SetReady(q, i) PROVE StreamsInOrder!(r)'
  BY <1>1, <1>9, RankFacts
     DEF TypeOK, SetReady, MaySet, compute, ReadyEvent, Prepared, LocalPrepareEvent, Begun
<1>10. CASE Streams(r)
  BY <1>1, <1>10 DEF ReadyEvent, Prepared, LocalPrepareEvent, Begun
<1>11. ASSUME NEW q \in Ranks, NEW c \in Ctas, Cta(q, c) PROVE Streams(r)
  BY <1>11 DEF Cta, CtaStart, CtaPass, Work, CtaArrive, compute
<1>12. CASE UNCHANGED vars BY <1>12, <1>10 DEF vars
<1> QED
  BY <1>2, <1>3, <1>4, <1>5, <1>6, <1>7, <1>8, <1>9, <1>10, <1>11, <1>12
     DEF Next, Compute, Comm

LEMMA CtasStep == IInv /\ [Next]_vars => CtasInOrder'
<1> SUFFICES ASSUME IInv, [Next]_vars, NEW r \in Ranks, NEW c \in Ctas
             PROVE  CtasInOrder!(r, c)'
  BY DEF CtasInOrder
<1> USE DEF IInv
<1>1. CtasInOrder!(r, c) BY DEF CtasInOrder
<1>2. CASE UNCHANGED <<opts, commFwd, commPc, cta, work>>
  BY <1>1, <1>2, KeptFacts
<1>3. ASSUME NEW q \in Ranks, PrepareStart(q) PROVE CtasInOrder!(r, c)'
  <2>1. commFwd' = commFwd /\ opts' = opts BY <1>3 DEF PrepareStart
  <2>2. CommOpt(r)' = CommOpt(r) BY <2>1 DEF CommOpt
  <2>3. CASE q = r
    <3>1. commPc[r]' = "prepare" BY <1>3, <2>3 DEF PrepareStart, TypeOK
    <3>2. cta'[r][c] = IF c \in CtasOf(CommOpt(r)) THEN "launch" ELSE "done"
      BY <1>3, <2>3 DEF PrepareStart, TypeOK
    <3> QED BY <2>2, <3>1, <3>2
  <2>4. CASE q # r
    <3>1. commPc'[r] = commPc[r] /\ cta'[r] = cta[r] /\ work'[r] = work[r]
      BY <1>3, <2>4 DEF PrepareStart, TypeOK
    <3> QED BY <1>1, <2>2, <3>1
  <2> QED BY <2>3, <2>4
<1>4. ASSUME NEW q \in Ranks, NEW d \in Ctas,
             CtaStart(q, d) \/ CtaPass(q, d) \/ CtaArrive(q, d)
      PROVE  CtasInOrder!(r, c)'
  <2>1. UNCHANGED <<opts, commFwd, commPc, work>>
    BY <1>4 DEF CtaStart, CtaPass, CtaArrive
  <2>2. CommOpt(r)' = CommOpt(r) BY <2>1, KeptFacts
  <2>3. CASE q = r /\ d = c
    <3>1. \/ cta[r][c] = "launch" /\ cta'[r][c] = "sync1"
          \/ cta[r][c] = "sync1" /\ cta'[r][c] = "work"
          \/ cta[r][c] = "work" /\ cta'[r][c] = "sync2" /\ WorkBefore(c) \subseteq work[r]
      BY <1>4, <2>3 DEF CtaStart, CtaPass, CtaArrive, MayArrive, TypeOK
    <3> QED BY <1>1, <2>1, <2>2, <3>1
  <2>4. CASE ~(q = r /\ d = c)
    <3>1. cta'[r][c] = cta[r][c] BY <1>4, <2>4 DEF CtaStart, CtaPass, CtaArrive, TypeOK
    <3> QED BY <1>1, <2>1, <2>2, <3>1
  <2> QED BY <2>3, <2>4
<1>5. ASSUME NEW q \in Ranks, NEW d \in Ctas, NEW step \in WorkSteps(d), Work(q, d, step)
      PROVE  CtasInOrder!(r, c)'
  <2>1. UNCHANGED <<opts, commFwd, commPc, cta>> /\ work[r] \subseteq work'[r]
    BY <1>5 DEF Work, TypeOK
  <2>2. CommOpt(r)' = CommOpt(r) BY <2>1, KeptFacts
  <2> QED BY <1>1, <2>1, <2>2
<1>6. ASSUME NEW q \in Ranks, PrepareDone(q) \/ KernelLaunch(q) PROVE CtasInOrder!(r, c)'
  <2>1. commFwd' = commFwd /\ opts' = opts /\ work' = work
    BY <1>6 DEF PrepareDone, KernelLaunch, prepare
  <2>2. CommOpt(r)' = CommOpt(r) BY <2>1 DEF CommOpt
  <2>3. CASE q = r
    <3>1. commPc'[r] # "prepare" BY <1>6, <2>3 DEF PrepareDone, KernelLaunch, TypeOK
    <3>2. cta'[r][c] = "done"
      <4>1. CASE PrepareDone(q) BY <4>1, <2>3 DEF PrepareDone, TypeOK
      <4>2. CASE KernelLaunch(q)
        BY <1>1, <4>2, <2>3 DEF KernelLaunch, MayLaunch, prepare
      <4> QED BY <1>6, <4>1, <4>2
    <3> QED BY <3>1, <3>2
  <2>4. CASE q # r
    <3>1. commPc'[r] = commPc[r] /\ cta'[r] = cta[r]
      BY <1>6, <2>4 DEF PrepareDone, KernelLaunch, TypeOK, prepare
    <3> QED BY <1>1, <2>1, <2>2, <3>1
  <2> QED BY <2>3, <2>4
<1>7. ASSUME NEW q \in Ranks, NEW i \in Hops, SetReady(q, i) PROVE CtasInOrder!(r, c)'
  <2>1. UNCHANGED <<opts, cta, work>> BY <1>7 DEF SetReady, prepare
  <2>2. \/ UNCHANGED <<commFwd, commPc>>
        \/ q = r /\ commPc[r] = "transfer" /\ commPc'[r] = "idle"
        \/ q # r /\ commFwd'[r] = commFwd[r] /\ commPc'[r] = commPc[r]
    BY <1>7 DEF SetReady, MaySet, TypeOK
  <2> QED BY <1>1, <2>1, <2>2 DEF CommOpt
<1>8. ASSUME NEW q \in Ranks,
             Compute(q) \/ \E i \in Hops : CopyHop(q, i)
      PROVE  UNCHANGED <<opts, commFwd, commPc, cta, work>>
  BY <1>8 DEF Compute, ProduceInput, GemmStart, GemmTile, CopyHop, prepare
<1>9. UNCHANGED vars => UNCHANGED <<opts, commFwd, commPc, cta, work>> BY DEF vars
<1> QED
  BY <1>2, <1>3, <1>4, <1>5, <1>6, <1>7, <1>8, <1>9 DEF Next, Comm, Cta

LEMMA ArrivalsStep == IInv /\ [Next]_vars => ArrivalsCounted'
<1> SUFFICES ASSUME IInv, [Next]_vars, NEW r \in Ranks, NEW c \in Ctas
             PROVE  ArrivalsCounted!(r, c)'
  BY DEF ArrivalsCounted
<1> USE DEF IInv
<1>1. ArrivalsCounted!(r, c) BY DEF ArrivalsCounted
<1>2. CASE /\ Prepared(r)' = Prepared(r) /\ Arrivals(r, c)' = Arrivals(r, c)
           /\ arrived'[r][c] = arrived[r][c] /\ opts' = opts
  BY <1>1, <1>2, TurnsKept DEF Turns
<1>3. ASSUME NEW q \in Ranks, PrepareStart(q) PROVE ArrivalsCounted!(r, c)'
  <2>1. opts' = opts /\ arrived' = arrived /\ commFwd' = commFwd BY <1>3 DEF PrepareStart
  <2>2. CASE q = r
    <3>1. commPc[r] = "idle" /\ commPc'[r] = "prepare"
      BY <1>3, <2>2 DEF PrepareStart, MayPrepare, TypeOK
    <3>2. Prepared(r)' = Prepared(r) BY <2>1, <3>1 DEF Prepared, LocalPrepareEvent
    <3>3. cta[r][c] = "done" BY <3>1 DEF CtasInOrder
    <3>4. cta'[r][c] \in {"launch", "done"} BY <1>3, <2>2 DEF PrepareStart, TypeOK
    <3> QED BY <1>2, <2>1, <3>2, <3>3, <3>4 DEF Arrivals
  <2>3. CASE q # r
    <3>1. commPc'[r] = commPc[r] /\ cta'[r] = cta[r]
      BY <1>3, <2>3 DEF PrepareStart, TypeOK
    <3> QED BY <1>2, <2>1, <3>1 DEF Arrivals, Prepared, LocalPrepareEvent
  <2> QED BY <2>2, <2>3
<1>4. ASSUME NEW q \in Ranks, NEW d \in Ctas,
             CtaStart(q, d) \/ CtaPass(q, d) \/ CtaArrive(q, d)
      PROVE  ArrivalsCounted!(r, c)'
  <2>1. UNCHANGED <<opts, commFwd, commPc>>
    BY <1>4 DEF CtaStart, CtaPass, CtaArrive
  <2>2. Prepared(r)' = Prepared(r) BY <2>1, KeptFacts
  <2>3. CASE q = r /\ d = c
    <3>1. \/ /\ cta[r][c] = "launch" /\ cta'[r][c] = "sync1"
             /\ arrived'[r][c] = arrived[r][c] + 1
          \/ /\ cta[r][c] = "sync1" /\ cta'[r][c] = "work"
             /\ arrived'[r][c] = arrived[r][c]
          \/ /\ cta[r][c] = "work" /\ cta'[r][c] = "sync2"
             /\ arrived'[r][c] = arrived[r][c] + 1
      BY <1>4, <2>3 DEF CtaStart, CtaPass, CtaArrive, MayArrive, TypeOK
    <3>2. Turns(c, Prepared(r)) \in Nat /\ Turns(c, Prepared(r))' = Turns(c, Prepared(r))
      BY <2>1, <2>2, RankFacts, TurnFacts DEF Turns
    <3> QED BY <1>1, <3>1, <3>2 DEF Arrivals
  <2>4. CASE ~(q = r /\ d = c)
    <3>1. cta'[r][c] = cta[r][c] /\ arrived'[r][c] = arrived[r][c]
      BY <1>4, <2>4 DEF CtaStart, CtaPass, CtaArrive, TypeOK
    <3> QED BY <1>2, <2>1, <2>2, <3>1 DEF Arrivals
  <2> QED BY <2>3, <2>4
<1>5. ASSUME NEW q \in Ranks, PrepareDone(q) PROVE ArrivalsCounted!(r, c)'
  <2>1. opts' = opts /\ arrived' = arrived /\ commFwd' = commFwd BY <1>5 DEF PrepareDone
  <2>2. CASE q = r
    <3>1. commPc[r] = "prepare" /\ commPc'[r] \in {"launch", "transfer"}
      BY <1>5, <2>2 DEF PrepareDone, PrepareOver, TypeOK
    <3>2. Prepared(r) = commFwd[r] /\ Prepared(r)' = commFwd[r] + 1
      BY <2>1, <3>1 DEF Prepared, LocalPrepareEvent
    <3>3. cta'[r][c] = "done" BY <1>5, <2>2 DEF PrepareDone, TypeOK
    <3>4. cta[r][c] = IF c \in CtasOf(CommOpt(r)) THEN "sync2" ELSE "done"
      BY <1>5, <2>2, <3>1 DEF PrepareDone, PrepareOver, CtasInOrder
    <3>5. commFwd[r] \in Nat BY RankFacts
    <3>6. Turns(c, commFwd[r] + 1) =
             Turns(c, commFwd[r]) + (IF c \in CtasOf(CommOpt(r)) THEN 1 ELSE 0)
      BY <3>5, TurnFacts DEF CommOpt
    <3>7. Turns(c, commFwd[r]) \in Nat /\ Turns(c, Prepared(r))' = Turns(c, commFwd[r] + 1)
      BY <2>1, <3>2, <3>5, TurnFacts DEF Turns
    <3> QED BY <1>1, <2>1, <3>2, <3>3, <3>4, <3>6, <3>7 DEF Arrivals
  <2>3. CASE q # r
    <3>1. commPc'[r] = commPc[r] /\ cta'[r] = cta[r]
      BY <1>5, <2>3 DEF PrepareDone, TypeOK
    <3> QED BY <1>2, <2>1, <3>1 DEF Arrivals, Prepared, LocalPrepareEvent
  <2> QED BY <2>2, <2>3
<1>6. ASSUME NEW q \in Ranks,
             KernelLaunch(q) \/ \E i \in Hops : SetReady(q, i)
      PROVE  ArrivalsCounted!(r, c)'
  <2>1. UNCHANGED <<opts, cta, arrived>> BY <1>6 DEF KernelLaunch, SetReady, prepare
  <2>2. Prepared(r)' = Prepared(r)
    <3>1. CASE KernelLaunch(q)
      BY <3>1 DEF KernelLaunch, MayLaunch, TypeOK, Prepared, LocalPrepareEvent
    <3>2. ASSUME NEW i \in Hops, SetReady(q, i) PROVE Prepared(r)' = Prepared(r)
      BY <3>2 DEF SetReady, MaySet, TypeOK, Prepared, LocalPrepareEvent
    <3> QED BY <1>6, <3>1, <3>2
  <2> QED BY <1>2, <2>1, <2>2 DEF Arrivals
<1>7. CASE UNCHANGED <<opts, commFwd, commPc, cta, arrived>>
  BY <1>2, <1>7, KeptFacts DEF Arrivals
<1>8. ASSUME NEW q \in Ranks,
             \/ Compute(q) \/ \E i \in Hops : CopyHop(q, i)
             \/ \E d \in Ctas : \E step \in WorkSteps(d) : Work(q, d, step)
      PROVE  UNCHANGED <<opts, commFwd, commPc, cta, arrived>>
  BY <1>8 DEF Compute, ProduceInput, GemmStart, GemmTile, CopyHop, Work, prepare
<1>9. UNCHANGED vars => UNCHANGED <<opts, commFwd, commPc, cta, arrived>> BY DEF vars
<1> QED BY <1>3, <1>4, <1>5, <1>6, <1>7, <1>8, <1>9 DEF Next, Comm, Cta

\* Who is behind a barrier of CTA c has met everybody there: the count of the arrivals
\* tells, although not every forward has this CTA.
LEMMA Met ==
    ASSUME TypeOK, StreamsInOrder, CtasInOrder, ArrivalsCounted,
           NEW r \in Ranks, NEW q \in Ranks, NEW c \in CtasOf(CommOpt(r)),
           commPc[r] = "prepare", cta[r][c] \in {"sync1", "sync2"}, Synced(r, c)
    PROVE  /\ Begun(q) >= Begun(r)
           /\ cta[r][c] = "sync2" =>
                 \/ Prepared(q) > Prepared(r)
                 \/ /\ Prepared(q) = Prepared(r) /\ commPc[q] = "prepare"
                    /\ cta[q][c] = "sync2"
<1> DEFINE f == Prepared(r)
           g == Prepared(q)
<1>1. c \in Ctas BY OptFacts
<1>2. f = commFwd[r] /\ Begun(r) = f + 1 /\ f \in Nat BY RankFacts
<1>3. g \in Nat /\ Begun(q) \in Nat /\ Begun(q) >= g BY RankFacts
<1>4. Turns(c, f + 1) = Turns(c, f) + 1 BY <1>2, TurnFacts DEF CommOpt
<1>5. /\ Turns(c, f) \in Nat /\ Turns(c, g) \in Nat /\ Turns(c, g + 1) \in Nat
      /\ g + 1 <= f => Turns(c, g + 1) <= Turns(c, f)
      /\ g <= f => Turns(c, g) <= Turns(c, f)
  BY <1>2, <1>3, TurnFacts
<1>6. /\ arrived[r][c] = 2 * Turns(c, f) + Arrivals(r, c)
      /\ arrived[q][c] = 2 * Turns(c, g) + Arrivals(q, c)
      /\ arrived[q][c] >= arrived[r][c]
  BY <1>1 DEF ArrivalsCounted, Synced
<1>7. /\ Arrivals(r, c) = IF cta[r][c] = "sync2" THEN 2 ELSE 1
      /\ Arrivals(q, c) \in {0, 1, 2}
      /\ Arrivals(q, c) = 2 => cta[q][c] = "sync2"
  BY <1>1 DEF Arrivals, TypeOK
<1>8. Arrivals(q, c) > 0 => /\ commPc[q] = "prepare" /\ c \in CtasOf(CommOpt(q))
                            /\ Begun(q) = g + 1
  <2> HAVE Arrivals(q, c) > 0
  <2>1. cta[q][c] # "done" BY DEF Arrivals
  <2>2. commPc[q] = "prepare" /\ c \in CtasOf(CommOpt(q)) BY <1>1, <2>1 DEF CtasInOrder
  <2> QED BY <2>2, RankFacts
<1>9. Arrivals(q, c) > 0 => Turns(c, g + 1) = Turns(c, g) + 1
  <2> HAVE Arrivals(q, c) > 0
  <2>1. g = commFwd[q] BY <1>8, RankFacts
  <2> QED BY <1>3, <1>8, <2>1, TurnFacts DEF CommOpt
<1>10. g >= f
  <2> SUFFICES ASSUME g + 1 <= f PROVE FALSE BY <1>2, <1>3
  <2> HIDE DEF f, g
  <2>1. CASE Arrivals(q, c) = 0 BY <1>2, <1>3, <1>5, <1>6, <1>7, <2>1
  <2>2. CASE Arrivals(q, c) > 0 BY <1>2, <1>3, <1>5, <1>6, <1>7, <1>9, <2>2
  <2> QED BY <1>7, <2>1, <2>2
<1>11. CASE g > f BY <1>2, <1>3, <1>11
<1>12. CASE g = f
  <2>1. Arrivals(q, c) >= Arrivals(r, c)
    <3> HIDE DEF f, g
    <3> QED BY <1>5, <1>6, <1>7, <1>12
  <2>2. Begun(q) = g + 1 /\ commPc[q] = "prepare" BY <1>7, <1>8, <2>1
  <2>3. cta[r][c] = "sync2" => cta[q][c] = "sync2" BY <1>7, <2>1
  <2> QED BY <1>2, <1>12, <2>2, <2>3
<1> QED BY <1>2, <1>3, <1>10, <1>11, <1>12

LEMMA BarriersStep == IInv /\ [Next]_vars => BarriersHold'
<1> SUFFICES ASSUME IInv, [Next]_vars, NEW r \in Ranks, NEW q \in Ranks
             PROVE  BarriersHold!(r, q)'
  BY DEF BarriersHold
<1> USE DEF IInv
<1>1. BarriersHold!(r, q) BY DEF BarriersHold
<1>2. /\ Prepared(r) \in Nat /\ Prepared(q) \in Nat /\ Begun(r) \in Nat /\ Begun(q) \in Nat
  BY RankFacts
<1> DEFINE Same(x) == /\ Prepared(x)' = Prepared(x) /\ Begun(x)' = Begun(x)
                      /\ commPc'[x] = commPc[x] /\ CommOpt(x)' = CommOpt(x)
                      /\ cta'[x] = cta[x] /\ work'[x] = work[x]
<1>3. CASE Same(r) /\ Same(q) BY <1>1, <1>3 DEF Passed
<1>4. ASSUME NEW x \in Ranks, PrepareStart(x) PROVE BarriersHold!(r, q)'
  <2>1. commFwd' = commFwd /\ opts' = opts BY <1>4 DEF PrepareStart
  <2>2. \A y \in Ranks : y # x => Same(y)
    BY <1>4, <2>1 DEF PrepareStart, TypeOK, Prepared, LocalPrepareEvent, Begun, CommOpt
  <2>3. commPc[x] = "idle" /\ commPc'[x] = "prepare" /\ work'[x] = {}
    BY <1>4 DEF PrepareStart, MayPrepare, TypeOK
  <2>4. Prepared(x)' = Prepared(x) /\ Begun(x)' >= Begun(x)
    BY <2>1, <2>3, RankFacts DEF Prepared, LocalPrepareEvent, Begun
  <2>5. ~Passed(x)'
    <3>1. \A c \in Ctas : cta'[x][c] \in {"launch", "done"}
      BY <1>4 DEF PrepareStart, TypeOK
    <3> QED BY <3>1 DEF Passed
  <2>6. Prepared(q)' = Prepared(q) /\ Prepared(r)' = Prepared(r)
    BY <2>2, <2>4
  <2>7. commPc'[r] = "prepare" /\ (Passed(r)' \/ work'[r] # {}) => Begun(q)' >= Begun(r)'
    <3> HAVE commPc'[r] = "prepare" /\ (Passed(r)' \/ work'[r] # {})
    <3>1. r # x BY <2>3, <2>5
    <3>2. Begun(q) >= Begun(r) /\ Begun(r)' = Begun(r) BY <1>1, <2>2, <3>1 DEF Passed
    <3>3. Begun(q)' >= Begun(q) /\ Begun(q)' \in Nat
      <4>1. CASE q = x
        <5>1. Begun(x)' = commFwd[x] + 1 BY <2>1, <2>3 DEF Begun
        <5> QED BY <4>1, <5>1, <2>4, RankFacts
      <4>2. CASE q # x BY <4>2, <2>2, <1>2
      <4> QED BY <4>1, <4>2
    <3> QED BY <3>2, <3>3, <1>2
  <2>8. Prepared(q)' < Prepared(r)' => Same(q)
    <3> HAVE Prepared(q)' < Prepared(r)'
    <3>1. commPc[q] = "prepare" BY <1>1, <2>6
    <3> QED BY <2>2, <2>3, <3>1
  <2> QED BY <1>1, <2>6, <2>7, <2>8
<1>5. ASSUME NEW x \in Ranks, NEW c \in Ctas,
             \/ CtaStart(x, c) \/ CtaPass(x, c) \/ CtaArrive(x, c)
             \/ \E step \in WorkSteps(c) : Work(x, c, step)
      PROVE  BarriersHold!(r, q)'
  <2>1. UNCHANGED <<opts, commFwd, commPc>>
    BY <1>5 DEF CtaStart, CtaPass, CtaArrive, Work
  <2>2. \A y \in Ranks : /\ Prepared(y)' = Prepared(y) /\ Begun(y)' = Begun(y)
                         /\ CommOpt(y)' = CommOpt(y)
    BY <2>1, KeptFacts
  <2>3. \A y \in Ranks : y # x => cta'[y] = cta[y] /\ work'[y] = work[y]
    BY <1>5 DEF CtaStart, CtaPass, CtaArrive, Work, TypeOK
  <2>4. \A d \in Ctas : d # c => cta'[x][d] = cta[x][d]
    BY <1>5 DEF CtaStart, CtaPass, CtaArrive, Work, TypeOK
  <2>5. \/ cta[x][c] = "launch" /\ cta'[x][c] = "sync1" /\ work'[x] = work[x]
        \/ cta[x][c] = "sync1" /\ Synced(x, c) /\ work'[x] = work[x]
        \/ cta[x][c] = "work" /\ cta'[x][c] = "sync2" /\ work'[x] = work[x]
        \/ cta[x][c] \in {"work", "sync2"} /\ cta'[x][c] = cta[x][c]
    BY <1>5 DEF CtaStart, CtaPass, CtaArrive, MayArrive, Work, MayWork, MayPass, TypeOK
  <2>6. commPc'[r] = "prepare" /\ (Passed(r)' \/ work'[r] # {}) => Begun(q)' >= Begun(r)'
    <3> SUFFICES ASSUME commPc[r] = "prepare", Passed(r)' \/ work'[r] # {}
                 PROVE  Begun(q) >= Begun(r)
      BY <2>1, <2>2
    <3>1. CASE r # x BY <1>1, <2>3, <3>1 DEF Passed
    <3>2. CASE r = x /\ cta[x][c] \in {"work", "sync2"} BY <1>1, <3>2 DEF Passed
    <3>3. CASE r = x /\ cta[x][c] = "launch"
      <4>1. cta'[x][c] = "sync1" /\ work'[x] = work[x] BY <2>5, <3>3
      <4>2. Passed(x)' => Passed(x) BY <2>4, <4>1 DEF Passed
      <4> QED BY <1>1, <3>3, <4>1, <4>2
    <3>4. CASE r = x /\ cta[x][c] = "sync1" /\ Synced(x, c)
      <4>1. c \in CtasOf(CommOpt(r)) BY <3>4 DEF CtasInOrder
      <4> QED BY <3>4, <4>1, Met
    <3> QED BY <2>5, <3>1, <3>2, <3>3, <3>4
  <2>7. Prepared(q) < Prepared(r) => \A d \in CtasOf(CommOpt(q)) : cta'[q][d] = "sync2"
    <3> SUFFICES ASSUME Prepared(q) < Prepared(r), NEW d \in CtasOf(CommOpt(q))
                 PROVE  cta'[q][d] = "sync2"
      OBVIOUS
    <3>1. cta[q][d] = "sync2" /\ commPc[q] = "prepare" BY <1>1
    <3>2. d \in Ctas BY OptFacts
    <3>3. CASE q = x /\ d = c BY <2>5, <3>1, <3>3
    <3>4. CASE ~(q = x /\ d = c) BY <2>3, <2>4, <3>1, <3>2, <3>4
    <3> QED BY <3>3, <3>4
  <2> QED BY <1>1, <2>1, <2>2, <2>6, <2>7
<1>6. ASSUME NEW x \in Ranks, PrepareDone(x) PROVE BarriersHold!(r, q)'
  <2>1. commFwd' = commFwd /\ opts' = opts /\ work' = work BY <1>6 DEF PrepareDone
  <2>2. \A y \in Ranks : y # x => Same(y)
    BY <1>6, <2>1 DEF PrepareDone, TypeOK, Prepared, LocalPrepareEvent, Begun, CommOpt
  <2>3. commPc[x] = "prepare" /\ commPc'[x] \in {"launch", "transfer"}
    BY <1>6 DEF PrepareDone, PrepareOver, TypeOK
  <2>4. Prepared(x)' = Prepared(x) + 1 /\ Begun(x)' = Begun(x)
    BY <2>1, <2>3 DEF Prepared, LocalPrepareEvent, Begun
  <2>5. \A y \in Ranks : Begun(y)' = Begun(y) BY <2>2, <2>4
  <2>6. commPc'[r] = "prepare" /\ (Passed(r)' \/ work'[r] # {}) => Begun(q)' >= Begun(r)'
    <3> HAVE commPc'[r] = "prepare" /\ (Passed(r)' \/ work'[r] # {})
    <3>1. r # x BY <2>3
    <3>2. Begun(q) >= Begun(r) BY <1>1, <2>2, <3>1 DEF Passed
    <3> QED BY <2>5, <3>2
  <2>7. PICK c \in CtasOf(CommOpt(x)) : c \in Ctas
    BY <2>3, OptFacts DEF StreamsInOrder
  <2>8. \A d \in CtasOf(CommOpt(x)) :
           \/ Prepared(q) > Prepared(x)
           \/ Prepared(q) = Prepared(x) /\ commPc[q] = "prepare" /\ cta[q][d] = "sync2"
    BY <1>6, <2>3, Met DEF PrepareDone, PrepareOver
  <2>9. ASSUME Prepared(q)' < Prepared(r)', r = x PROVE BarriersHold!(r, q)'
    <3>1. q # x BY <2>9, RankFacts, <2>4
    <3>2. Same(q) BY <2>2, <3>1
    <3>3. ~(Prepared(q) > Prepared(x)) BY <1>2, <2>4, <2>9, <3>2
    <3>4. Prepared(q) = Prepared(x) /\ commPc[q] = "prepare" BY <2>7, <2>8, <3>3
    <3>5. CommOpt(q) = CommOpt(x)
      <4>1. commFwd[q] = commFwd[x] BY <3>4, <2>3, RankFacts
      <4> QED BY <4>1 DEF CommOpt
    <3>6. \A d \in CtasOf(CommOpt(q)) : cta[q][d] = "sync2" BY <2>8, <3>3, <3>5
    <3> QED BY <1>2, <2>4, <2>6, <2>9, <3>2, <3>4, <3>6
  <2>10. ASSUME Prepared(q)' < Prepared(r)', r # x PROVE BarriersHold!(r, q)'
    <3>1. Same(r) BY <2>2, <2>10
    <3>2. CASE q # x
      <4>1. Same(q) BY <2>2, <3>2
      <4> QED BY <1>3, <3>1, <4>1
    <3>3. CASE q = x
      <4>1. Prepared(q) = Prepared(r) - 1 BY <1>1, <1>2, <2>4, <2>10, <3>1, <3>3
      <4> QED BY <1>2, <2>4, <2>10, <3>1, <3>3, <4>1
    <3> QED BY <3>2, <3>3
  <2> QED BY <2>6, <2>9, <2>10
<1>7. ASSUME NEW x \in Ranks, KernelLaunch(x) PROVE BarriersHold!(r, q)'
  <2>1. \A y \in Ranks : /\ Prepared(y)' = Prepared(y) /\ Begun(y)' = Begun(y)
                         /\ CommOpt(y)' = CommOpt(y)
                         /\ commPc'[y] = "prepare" <=> commPc[y] = "prepare"
    BY <1>7 DEF KernelLaunch, MayLaunch, TypeOK, Prepared, LocalPrepareEvent, Begun, CommOpt
  <2>2. cta' = cta /\ work' = work BY <1>7 DEF KernelLaunch, prepare
  <2> QED BY <1>1, <2>1, <2>2 DEF Passed
<1>8. ASSUME NEW x \in Ranks, NEW i \in Hops, SetReady(x, i) PROVE BarriersHold!(r, q)'
  <2>1. cta' = cta /\ work' = work /\ opts' = opts BY <1>8 DEF SetReady, prepare
  <2>2. \A y \in Ranks : /\ Prepared(y)' = Prepared(y) /\ Begun(y)' = Begun(y)
                         /\ commPc'[y] = "prepare" <=> commPc[y] = "prepare"
                         /\ commPc'[y] = "prepare" => commFwd'[y] = commFwd[y]
    BY <1>8 DEF SetReady, MaySet, TypeOK, Prepared, LocalPrepareEvent, Begun
  <2>3. \A y \in Ranks : commPc'[y] = "prepare" => CommOpt(y)' = CommOpt(y)
    BY <2>1, <2>2 DEF CommOpt
  <2> QED BY <1>1, <2>1, <2>2, <2>3 DEF Passed
<1>9. CASE UNCHANGED <<opts, commFwd, commPc, cta, work>>
  BY <1>3, <1>9, KeptFacts
<1>10. ASSUME NEW x \in Ranks,
             Compute(x) \/ \E i \in Hops : CopyHop(x, i)
      PROVE  UNCHANGED <<opts, commFwd, commPc, cta, work>>
  BY <1>10 DEF Compute, ProduceInput, GemmStart, GemmTile, CopyHop, prepare
<1>11. UNCHANGED vars => UNCHANGED <<opts, commFwd, commPc, cta, work>> BY DEF vars
<1> QED
  BY <1>4, <1>5, <1>6, <1>7, <1>8, <1>9, <1>10, <1>11 DEF Next, Comm, Cta

LEMMA IInvInit == Init => IInv
<1> SUFFICES ASSUME Init PROVE IInv OBVIOUS
<1>1. TypeOK BY TypeInit
<1>2. \A r \in Ranks : Prepared(r) = 0 /\ Begun(r) = 0 /\ ReadyEvent(r) = 0
  BY DEF Init, Prepared, LocalPrepareEvent, Begun, ReadyEvent
<1>3. StreamsInOrder BY <1>2 DEF Init, StreamsInOrder
<1>4. CtasInOrder BY DEF Init, CtasInOrder
<1>5. ArrivalsCounted BY <1>2, TurnFacts DEF Init, ArrivalsCounted, Arrivals
<1>6. BarriersHold BY <1>2 DEF Init, BarriersHold
<1> QED BY <1>1, <1>3, <1>4, <1>5, <1>6 DEF IInv

LEMMA IInvAlways == Safe => []IInv
<1>1. IInv /\ [Next]_vars => IInv'
  BY TypeStep, StreamsStep, CtasStep, ArrivalsStep, BarriersStep DEF IInv
<1> QED BY IInvInit, <1>1, PTL DEF Safe

\* Every variable has its type; CTAs arrive at their barriers no more than twice a
\* forward.
THEOREM TypeCorrect == Safe => []TypeOK
<1>1. IInv => TypeOK BY DEF IInv
<1> QED BY <1>1, IInvAlways, PTL

-----------------------------------------------------------------------------
(* The refinement of the barrier. *)

LEMMA StepRefines == IInv /\ [Next]_vars => [Abstract!Next]_(Abstract!vars)
<1> SUFFICES ASSUME IInv, [Next]_vars PROVE [Abstract!Next]_(Abstract!vars)
  OBVIOUS
<1> USE DEF IInv
<1> DEFINE entered == [r \in Ranks |-> ReadyEvent(r)]
<1>1. ASSUME NEW r \in Ranks, ProduceInput(r) PROVE Abstract!Next
  <2>1. /\ compPc[r] = "input" /\ compFwd[r] < MaxForwards /\ compFwd' = compFwd
        /\ compPc' = [compPc EXCEPT ![r] = "wait"]
    BY <1>1 DEF ProduceInput, MayProduce
  <2>2. ReadyEvent(r) = compFwd[r] /\ ReadyEvent(r)' = compFwd[r] + 1
    BY <2>1 DEF ReadyEvent, TypeOK
  <2>3. \A q \in Ranks : q # r => ReadyEvent(q)' = ReadyEvent(q)
    BY <2>1 DEF ReadyEvent, TypeOK
  <2>4. entered' = [entered EXCEPT ![r] = @ + 1] BY <2>2, <2>3
  <2> QED BY <2>1, <2>2, <2>4 DEF Abstract!Next, Abstract!Enter
<1>2. ASSUME NEW r \in Ranks, NEW s \in Ranks, GemmTile(r, s), compFwd' # compFwd
      PROVE  Abstract!Next
  <2>1. /\ compPc[r] = "gemm" /\ compFwd' = [compFwd EXCEPT ![r] = @ + 1]
        /\ compPc' = [compPc EXCEPT ![r] = "input"]
    BY <1>2 DEF GemmTile, TileReady, TypeOK
  <2>2. ReadyEvent(r) = compFwd[r] + 1 /\ ReadyEvent(r)' = compFwd[r] + 1
    BY <2>1 DEF ReadyEvent, TypeOK
  <2>3. \A q \in Ranks : q # r => ReadyEvent(q)' = ReadyEvent(q)
    BY <2>1 DEF ReadyEvent, TypeOK
  <2>4. entered' = entered BY <2>2, <2>3
  <2>5. \A q \in Ranks : compFwd[r] < ReadyEvent(q)
    <3> TAKE q \in Ranks
    <3>1. compFwd[r] < Prepared(r) BY <2>1 DEF StreamsInOrder
    <3>2. Begun(q) >= Prepared(r)
      <4>1. Prepared(q) < Prepared(r) =>
               Prepared(q) = Prepared(r) - 1 /\ commPc[q] = "prepare"
        BY DEF BarriersHold
      <4> QED BY <4>1, RankFacts
    <3>3. Begun(q) <= ReadyEvent(q) BY DEF StreamsInOrder
    <3> QED BY <3>1, <3>2, <3>3, RankFacts
  <2>6. compFwd[r] < ReadyEvent(r) BY <2>2, RankFacts
  <2> QED BY <2>1, <2>4, <2>5, <2>6 DEF Abstract!Next, Abstract!Leave
<1>3. CASE UNCHANGED <<compFwd, compPc>>
  BY <1>3 DEF Abstract!vars, ReadyEvent
<1>4. ASSUME NEW r \in Ranks, GemmStart(r) PROVE UNCHANGED Abstract!vars
  BY <1>4 DEF GemmStart, Abstract!vars, ReadyEvent, TypeOK
<1>5. ASSUME NEW r \in Ranks, NEW s \in Ranks, GemmTile(r, s), compFwd' = compFwd
      PROVE  UNCHANGED <<compFwd, compPc>>
  <2>1. CASE tiles[r] \cup {s} = Ranks
    <3>1. compFwd'[r] = compFwd[r] + 1 BY <1>5, <2>1 DEF GemmTile, TypeOK
    <3> QED BY <1>5, <3>1, RankFacts
  <2>2. CASE tiles[r] \cup {s} # Ranks BY <1>5, <2>2 DEF GemmTile, TypeOK
  <2> QED BY <2>1, <2>2
<1>6. ASSUME NEW r \in Ranks, Comm(r) PROVE UNCHANGED <<compFwd, compPc>>
  BY <1>6 DEF Comm, PrepareStart, Cta, CtaStart, CtaPass, Work, CtaArrive, PrepareDone,
              KernelLaunch, CopyHop, SetReady, compute
<1>7. UNCHANGED vars => UNCHANGED <<compFwd, compPc>> BY DEF vars
<1> QED BY <1>1, <1>2, <1>3, <1>4, <1>5, <1>6, <1>7 DEF Next, Compute

\* Forwards order the ranks as a barrier does, whatever options the forwards have: no
\* GEMM ends before every rank has provided its input of the same forward.
THEOREM Refinement == Safe => ForwardsAreBarrier
<1>1. Init => Abstract!Init BY DEF Init, Abstract!Init, ReadyEvent
<1> QED BY <1>1, StepRefines, IInvAlways, PTL DEF Safe, ForwardsAreBarrier, Abstract!Safe

-----------------------------------------------------------------------------
(* The flags. *)

\* While a rank is in its transfer, everybody has done for its forward what the second
\* barrier waits for, and nobody has done anything for the next one.
LEMMA AllPrepared ==
    ASSUME IInv, NEW r \in Ranks, commPc[r] \in {"launch", "transfer"}, NEW q \in Ranks
    PROVE  /\ Done(q, "flags") = Prepared(r)
           /\ ~CommOpt(r).fuse => \A p \in Parts : Done(q, p) = Prepared(r)
           /\ \A p \in Parts : Done(r, p) = Prepared(r)
<1> USE DEF IInv
<1>1. /\ Prepared(r) = Begun(r) /\ Prepared(r) = commFwd[r] + 1
      /\ Prepared(r) \in Nat /\ Prepared(q) \in Nat /\ Begun(q) \in Nat
  BY RankFacts
<1>2. \A p \in Parts : Done(r, p) = Prepared(r) BY DEF Done
<1>3. ~(Prepared(q) > Prepared(r))
  <2> SUFFICES ASSUME Prepared(r) < Prepared(q) PROVE FALSE BY <1>1
  <2> QED BY DEF BarriersHold
<1>4. CASE Prepared(q) = Prepared(r)
  <2>1. ~(commPc[q] = "prepare" /\ work[q] # {})
    <3> SUFFICES ASSUME commPc[q] = "prepare", work[q] # {} PROVE FALSE OBVIOUS
    <3>1. Begun(r) >= Begun(q) BY DEF BarriersHold
    <3>2. Begun(q) = Prepared(q) + 1 BY RankFacts
    <3> QED BY <1>1, <1>4, <3>1, <3>2
  <2>2. \A x : Done(q, x) = Prepared(q) BY <2>1 DEF Done
  <2> QED BY <1>2, <1>4, <2>2
<1>5. CASE Prepared(q) < Prepared(r)
  <2>1. /\ Prepared(q) = Prepared(r) - 1 /\ commPc[q] = "prepare"
        /\ \A c \in CtasOf(CommOpt(q)) : cta[q][c] = "sync2"
    BY <1>5 DEF BarriersHold
  <2>2. \A c \in CtasOf(CommOpt(q)) : WorkBefore(c) \subseteq work[q]
    <3> TAKE c \in CtasOf(CommOpt(q))
    <3>1. c \in Ctas BY OptFacts
    <3> QED BY <2>1, <3>1 DEF CtasInOrder
  <2>3. CommOpt(q) = CommOpt(r)
    <3>1. commFwd[q] = commFwd[r] BY <1>1, <2>1, RankFacts
    <3> QED BY <3>1 DEF CommOpt
  <2>4. \A x \in work[q] : Done(q, x) = Prepared(r) BY <1>1, <2>1 DEF Done
  <2>5. CASE CommOpt(r).fuse
    <3>1. "reset" \in CtasOf(CommOpt(q)) BY <2>3, <2>5 DEF CtasOf
    <3>2. "flags" \in work[q] BY <2>2, <3>1 DEF WorkBefore, WorkOf
    <3> QED BY <1>2, <2>4, <2>5, <3>2
  <2>6. CASE ~CommOpt(r).fuse
    <3>1. "all" \in CtasOf(CommOpt(q)) BY <2>3, <2>6 DEF CtasOf
    <3>2. Parts \cup {"flags"} \subseteq work[q]
      BY <2>2, <3>1 DEF WorkBefore, WorkOf
    <3> QED BY <1>2, <2>4, <3>2
  <2> QED BY <2>5, <2>6
<1> QED BY <1>1, <1>3, <1>4, <1>5

\* A rank that resets its flags finds nobody in a transfer.
LEMMA ResetIsAlone ==
    ASSUME IInv, NEW q \in Ranks, NEW c \in Ctas, NEW step \in WorkSteps(c),
           Work(q, c, step), "flags" \in step, NEW r \in Ranks
    PROVE  commPc[r] \notin {"launch", "transfer"}
<1> USE DEF IInv
<1> SUFFICES ASSUME commPc[r] \in {"launch", "transfer"} PROVE FALSE OBVIOUS
<1>1. cta[q][c] \in {"work", "sync2"} /\ "flags" \notin work[q] BY DEF Work, MayWork
<1>2. commPc[q] = "prepare" /\ Passed(q) BY <1>1 DEF CtasInOrder, Passed
<1>3. Begun(r) >= Begun(q) BY <1>2 DEF BarriersHold
<1>4. Done(q, "flags") = Prepared(q) BY <1>1 DEF Done
<1>5. Done(q, "flags") = Prepared(r) BY AllPrepared
<1> QED BY <1>2, <1>3, <1>4, <1>5, RankFacts

LEMMA FlagsStep == IInv /\ FlagsStand /\ [Next]_vars => FlagsStand'
<1> SUFFICES ASSUME IInv, FlagsStand, [Next]_vars, NEW r \in Ranks
             PROVE  FlagsStand!(r)'
  BY DEF FlagsStand
<1> USE DEF IInv
<1>1. FlagsStand!(r) BY DEF FlagsStand
<1>2. CASE copied'[r] = {} /\ sent'[r] = {} BY <1>2
<1>3. commPc[r] # "transfer" => copied[r] = {} /\ sent[r] = {} BY DEF StreamsInOrder
<1>4. CASE UNCHANGED <<opts, copied, sent>> /\ (copied[r] # {} => UNCHANGED <<commFwd, ready>>)
  <2>1. CASE copied[r] = {} BY <1>1, <1>4, <2>1
  <2>2. CASE copied[r] # {}
    <3>1. CommOpt(r)' = CommOpt(r) BY <1>4, <2>2 DEF CommOpt
    <3> QED BY <1>1, <1>4, <2>2, <3>1
  <2> QED BY <2>1, <2>2
<1>5. ASSUME NEW q \in Ranks, NEW c \in Ctas, NEW step \in WorkSteps(c), Work(q, c, step)
      PROVE  FlagsStand!(r)'
  <2>1. UNCHANGED <<opts, copied, sent, commFwd>> BY <1>5 DEF Work
  <2>2. CASE "flags" \in step
    <3>1. commPc[r] # "transfer" BY <1>5, <2>2, ResetIsAlone
    <3> QED BY <1>2, <1>3, <2>1, <3>1
  <2>3. CASE "flags" \notin step
    <3>1. ready' = ready BY <1>5, <2>3 DEF Work
    <3> QED BY <1>4, <2>1, <3>1
  <2> QED BY <2>2, <2>3
<1>6. ASSUME NEW q \in Ranks, NEW i \in Hops, CopyHop(q, i) PROVE FlagsStand!(r)'
  <2>1. UNCHANGED <<opts, sent, commFwd, ready>> BY <1>6 DEF CopyHop
  <2>2. CommOpt(r)' = CommOpt(r) BY <2>1 DEF CommOpt
  <2>3. CASE q # r
    <3>1. copied'[r] = copied[r] BY <1>6, <2>3 DEF CopyHop, TypeOK
    <3> QED BY <1>1, <2>1, <2>2, <3>1
  <2>4. CASE q = r
    <3>1. copied'[r] = copied[r] \cup {i} BY <1>6, <2>4 DEF CopyHop, TypeOK
    <3>2. i \notin sent[r] BY <1>1, <1>6, <2>4 DEF CopyHop, MayCopy
    <3>3. LET h == Hop(CommOpt(r), r, i) IN \A x \in h.waits : ready[x][h.seg] = 1
      BY <1>6, <2>4 DEF CopyHop, MayCopy
    <3> QED BY <1>1, <2>1, <2>2, <3>1, <3>2, <3>3
  <2> QED BY <2>3, <2>4
<1>7. ASSUME NEW q \in Ranks, NEW i \in Hops, SetReady(q, i) PROVE FlagsStand!(r)'
  <2> DEFINE g == Hop(CommOpt(q), q, i)
  <2>1. g.to \in Ranks /\ g.seg \in Ranks
    BY <1>7, OptFacts, HopFacts DEF SetReady, MaySet, StreamsInOrder
  <2>2. ready' = [ready EXCEPT ![g.to][g.seg] = 1] /\ opts' = opts
    BY <1>7 DEF SetReady
  <2>3. /\ ready'[g.to][g.seg] = 1
        /\ \A x, s : ready[x][s] = 1 /\ x \in Ranks /\ s \in Ranks => ready'[x][s] = 1
    <3> HIDE DEF g
    <3> QED BY <2>1, <2>2 DEF TypeOK
  <2>4. \A j \in copied[r] :
           LET h == Hop(CommOpt(r), r, j)
           IN  /\ h.seg \in Ranks /\ h.to \in Ranks /\ h.waits \subseteq Ranks
    <3> TAKE j \in copied[r]
    <3>1. commPc[r] = "transfer" BY <1>3
    <3>2. j \in Hops /\ CommOpt(r) \in Options
      BY <3>1, OptFacts DEF TypeOK, StreamsInOrder
    <3> QED BY <3>2, HopFacts
  <2>5. CASE q # r
    <3>1. copied'[r] = copied[r] /\ sent'[r] = sent[r] /\ commFwd'[r] = commFwd[r]
      BY <1>7, <2>5 DEF SetReady, TypeOK
    <3>2. CommOpt(r)' = CommOpt(r) BY <2>2, <3>1 DEF CommOpt
    <3> HIDE DEF g
    <3> QED BY <1>1, <2>3, <2>4, <3>1, <3>2
  <2>6. CASE q = r /\ sent[r] \cup {i} # Hops
    <3>1. copied'[r] = copied[r] /\ sent'[r] = sent[r] \cup {i} /\ commFwd'[r] = commFwd[r]
      BY <1>7, <2>6 DEF SetReady, TypeOK
    <3>2. CommOpt(r)' = CommOpt(r) BY <2>2, <3>1 DEF CommOpt
    <3>3. i \in copied[r] BY <1>7, <2>6 DEF SetReady, MaySet
    <3>4. g = Hop(CommOpt(r), r, i) BY <2>6
    <3> HIDE DEF g
    <3>5. sent'[r] \subseteq copied'[r] BY <1>1, <3>1, <3>3
    <3>6. ASSUME NEW j \in copied'[r]
          PROVE  LET h == Hop(CommOpt(r), r, j)
                 IN  /\ \A x \in h.waits : ready'[x][h.seg] = 1
                     /\ j \in sent'[r] => ready'[h.to][h.seg] = 1
      <4>1. j \in copied[r] BY <3>1
      <4>2. CASE j = i BY <1>1, <2>3, <2>4, <3>4, <4>1, <4>2
      <4>3. CASE j # i BY <1>1, <2>3, <2>4, <3>1, <4>1, <4>3
      <4> QED BY <4>2, <4>3
    <3> QED BY <3>2, <3>5, <3>6
  <2>7. CASE q = r /\ sent[r] \cup {i} = Hops
    <3>1. copied'[r] = {} /\ sent'[r] = {} BY <1>7, <2>7 DEF SetReady, TypeOK
    <3> QED BY <1>2, <3>1
  <2> QED BY <2>5, <2>6, <2>7
<1>8. ASSUME NEW q \in Ranks,
             \/ Compute(q) \/ PrepareStart(q) \/ PrepareDone(q) \/ KernelLaunch(q)
             \/ \E c \in Ctas : CtaStart(q, c) \/ CtaPass(q, c) \/ CtaArrive(q, c)
      PROVE  UNCHANGED <<opts, copied, sent, commFwd, ready>>
  BY <1>8 DEF Compute, ProduceInput, GemmStart, GemmTile, PrepareStart, PrepareDone,
              KernelLaunch, CtaStart, CtaPass, CtaArrive
<1>9. UNCHANGED vars => UNCHANGED <<opts, copied, sent, commFwd, ready>> BY DEF vars
<1> QED BY <1>4, <1>5, <1>6, <1>7, <1>8, <1>9 DEF Next, Comm, Cta

LEMMA FlagsAlways == Safe => [](IInv /\ FlagsStand)
<1>1. Init => FlagsStand BY DEF Init, FlagsStand
<1> QED BY <1>1, FlagsStep, IInvAlways, PTL DEF Safe

\* A flag a hop has raised is not erased by the reset of a slower rank, whatever
\* options the forwards have: the barriers of the preparation keep the resets of one
\* forward before all transfers of it, and those of the next after them.
THEOREM FlagsAreKept == Safe => []NoFlagErased
<1>1. FlagsStand => NoFlagErased BY DEF FlagsStand, NoFlagErased
<1> QED BY <1>1, FlagsAlways, PTL

-----------------------------------------------------------------------------
(* The data. *)

\* What a hop copies is the segment of the sender's forward.
LEMMA CopiedIsCurrent ==
    ASSUME PullsUnfused, IInv, FlagsStand, DataInv,
           NEW r \in Ranks, NEW i \in Hops, CopyHop(r, i), NEW p \in Parts
    PROVE  LET h == Hop(CommOpt(r), r, i) IN window[h.from][h.seg][p] = Prepared(r)
<1> USE DEF IInv
<1> DEFINE o == CommOpt(r)
           h == Hop(o, r, i)
<1> SUFFICES window[h.from][h.seg][p] = Prepared(r) OBVIOUS
<1>1. /\ commPc[r] = "transfer" /\ HopMayStart(o, r, i)
      /\ \A q \in h.waits : ready[q][h.seg] = 1
  BY DEF CopyHop, MayCopy
<1>2. o \in Options BY <1>1, OptFacts DEF StreamsInOrder
<1>3. h.seg \in Ranks /\ h.from \in Ranks /\ h.waits \subseteq Ranks BY <1>2, HopFacts
<1>4. /\ \A q \in Ranks : Done(q, "flags") = Prepared(r)
      /\ ~o.fuse => \A q \in Ranks : Done(q, p) = Prepared(r)
      /\ Done(r, p) = Prepared(r)
  BY <1>1, AllPrepared
<1>5. \A s \in Ranks : ready[r][s] = 1 \/ s = r => window[r][s][p] = Prepared(r)
  BY <1>4 DEF DataInv, OwnCurrent, OthersCurrent
<1>6. CASE o.mode \in {"All2All", "RingPull"} /\ h.seg = h.from
  <2>1. ~o.fuse BY <1>2, <1>6 DEF PullsUnfused
  <2> QED BY <1>3, <1>4, <1>6, <2>1 DEF DataInv, OwnCurrent
<1>7. CASE h.from = r /\ h.seg = r BY <1>5, <1>7
<1>8. CASE h.from \in h.waits
  <2>1. ready[h.from][h.seg] = 1 BY <1>1, <1>8
  <2>2. CASE h.from = r BY <1>3, <1>5, <2>1, <2>2
  <2>3. CASE h.seg # h.from
    BY <1>3, <1>4, <2>1, <2>3 DEF DataInv, OthersCurrent
  <2>4. CASE h.seg = h.from /\ h.from # r
    <3>1. o.mode \in {"All2All", "RingPull"}
      BY <1>2, <1>8, <2>4, Consts
         DEF AllOptions, Hop, RingPushHop, RingPush2DHop
    <3> QED BY <1>6, <2>4, <3>1
  <2> QED BY <2>2, <2>3, <2>4
<1>9. CASE /\ h.from = r /\ o.mode = "RingPush2D"
           /\ \E j \in Hops : /\ j < i /\ Hop(o, r, j).seg = h.seg
                              /\ h.seg = r \/ r \in Hop(o, r, j).waits
  <2>1. PICK j \in Hops : /\ j < i /\ Hop(o, r, j).seg = h.seg
                          /\ h.seg = r \/ r \in Hop(o, r, j).waits
    BY <1>9
  <2>2. j \in sent[r] BY <1>1, <1>9, <2>1 DEF HopMayStart
  <2>3. j \in copied[r] BY <2>2 DEF FlagsStand
  <2>4. \A q \in Hop(o, r, j).waits : ready[q][Hop(o, r, j).seg] = 1
    BY <2>3 DEF FlagsStand
  <2>5. h.seg = r \/ ready[r][h.seg] = 1 BY <2>1, <2>4
  <2> QED BY <1>3, <1>5, <1>9, <2>5
<1>10. \/ o.mode \in {"All2All", "RingPull"} /\ h.seg = h.from
       \/ h.from = r /\ h.seg = r
       \/ h.from \in h.waits
       \/ /\ h.from = r /\ o.mode = "RingPush2D"
          /\ \E j \in Hops : /\ j < i /\ Hop(o, r, j).seg = h.seg
                             /\ h.seg = r \/ r \in Hop(o, r, j).waits
  BY <1>2, HopReads
<1> HIDE DEF o, h
<1> QED BY <1>6, <1>7, <1>8, <1>9, <1>10

\* The effect of a hop's copy, with the hop's fields named.
Copies(r, i, from, to, seg) ==
    /\ commPc[r] = "transfer" /\ from \in Ranks /\ to \in Ranks /\ seg \in Ranks \ {to}
    /\ \A p \in Parts : window[from][seg][p] = Prepared(r)
    /\ window' = [window EXCEPT ![to][seg] = window[from][seg]]
    /\ copied' = [copied EXCEPT ![r] = @ \cup {i}]

LEMMA CopyEffect ==
    ASSUME PullsUnfused, IInv, FlagsStand, DataInv,
           NEW r \in Ranks, NEW i \in Hops, CopyHop(r, i)
    PROVE  LET h == Hop(CommOpt(r), r, i) IN Copies(r, i, h.from, h.to, h.seg)
<1> DEFINE h == Hop(CommOpt(r), r, i)
<1>1. /\ commPc[r] = "transfer"
      /\ window' = [window EXCEPT ![h.to][h.seg] = window[h.from][h.seg]]
      /\ copied' = [copied EXCEPT ![r] = @ \cup {i}]
  BY DEF CopyHop, MayCopy
<1>2. CommOpt(r) \in Options BY <1>1, OptFacts DEF IInv, StreamsInOrder
<1>3. h.from \in Ranks /\ h.to \in Ranks /\ h.seg \in Ranks /\ h.seg # h.to
  BY <1>2, HopFacts
<1>4. \A p \in Parts : window[h.from][h.seg][p] = Prepared(r) BY CopiedIsCurrent
<1> HIDE DEF h
<1>5. Copies(r, i, h.from, h.to, h.seg) BY <1>1, <1>3, <1>4 DEF Copies
<1> QED BY <1>5 DEF h

\* Where the hops that are done have written.
LEMMA CopiedPlaces ==
    ASSUME IInv, NEW r \in Ranks, NEW i \in copied[r]
    PROVE  LET h == Hop(CommOpt(r), r, i)
           IN  /\ commPc[r] = "transfer" /\ i \in Hops
               /\ h.to \in Ranks /\ h.seg \in Ranks /\ h.seg # h.to
<1>1. commPc[r] = "transfer" BY DEF IInv, StreamsInOrder
<1>2. i \in Hops /\ CommOpt(r) \in Options
  BY <1>1, OptFacts DEF IInv, TypeOK, StreamsInOrder
<1> QED BY <1>1, <1>2, HopFacts

\* The work of the preparation is done on the input of the forward under way.
LEMMA WorkEffect ==
    ASSUME IInv, NEW q \in Ranks, NEW c \in Ctas, NEW step \in WorkSteps(c),
           Work(q, c, step)
    PROVE  /\ commPc[q] = "prepare" /\ commPc' = commPc
           /\ UNCHANGED <<opts, commFwd, copied, sent>>
           /\ work' = [work EXCEPT ![q] = @ \cup step] /\ step \cap work[q] = {}
           /\ input[q] = Prepared(q) + 1
           /\ window' = [window EXCEPT ![q][q] =
                  [p \in Parts |-> IF p \in step THEN input[q] ELSE window[q][q][p]]]
<1> USE DEF IInv
<1>1. cta[q][c] \in {"work", "sync2"} BY DEF Work, MayWork
<1>2. commPc[q] = "prepare" BY <1>1 DEF CtasInOrder
<1>3. input[q] = Prepared(q) + 1
  <2>1. /\ input[q] = ReadyEvent(q) /\ compFwd[q] <= Prepared(q)
        /\ Begun(q) <= ReadyEvent(q)
    BY DEF StreamsInOrder
  <2>2. ReadyEvent(q) <= compFwd[q] + 1 BY RankFacts DEF ReadyEvent
  <2> QED BY <1>2, <2>1, <2>2, RankFacts
<1> QED BY <1>2, <1>3 DEF Work, MayWork

LEMMA DoneKept ==
    ASSUME UNCHANGED <<commFwd, commPc, work>>, NEW q, NEW x
    PROVE  Done(q, x)' = Done(q, x) /\ Prepared(q)' = Prepared(q)
  BY DEF Done, Prepared, LocalPrepareEvent

\* The start and the end of a preparation do not change what has been done.
LEMMA DoneAcross ==
    ASSUME IInv, NEW x \in Ranks,
           \/ PrepareStart(x) \/ PrepareDone(x) \/ KernelLaunch(x)
           \/ \E i \in Hops : SetReady(x, i),
           NEW q \in Ranks, NEW y \in Parts \cup {"flags"}
    PROVE  /\ Done(q, y)' = Done(q, y)
           /\ copied'[q] # {} => Prepared(q)' = Prepared(q) /\ CommOpt(q)' = CommOpt(q)
<1> USE DEF IInv
<1>1. CASE PrepareStart(x)
  BY <1>1 DEF PrepareStart, MayPrepare, TypeOK, StreamsInOrder, Done, Prepared,
              LocalPrepareEvent, CommOpt
<1>2. CASE PrepareDone(x)
  <2>1. /\ opts' = opts /\ commFwd' = commFwd /\ work' = work /\ copied' = copied
        /\ commPc[x] = "prepare" /\ commPc'[x] \in {"launch", "transfer"}
        /\ \A r \in Ranks : r # x => commPc'[r] = commPc[r]
    BY <1>2 DEF PrepareDone, PrepareOver, TypeOK
  <2>2. CASE q # x BY <2>1, <2>2 DEF Done, Prepared, LocalPrepareEvent, CommOpt
  <2>3. CASE q = x
    <3>1. \A c \in CtasOf(CommOpt(x)) : WorkOf(c) \subseteq work[x]
      BY <1>2 DEF PrepareDone, PrepareOver
    <3>2. y \in work[x] BY <3>1 DEF CtasOf, WorkOf
    <3>3. copied[q] = {} BY <2>1, <2>3 DEF StreamsInOrder
    <3> QED BY <2>1, <2>3, <3>2, <3>3 DEF Done, Prepared, LocalPrepareEvent
  <2> QED BY <2>2, <2>3
<1>3. CASE KernelLaunch(x)
  BY <1>3 DEF KernelLaunch, MayLaunch, prepare, TypeOK, StreamsInOrder, Done, Prepared,
              LocalPrepareEvent, CommOpt
<1>4. ASSUME NEW i \in Hops, SetReady(x, i)
      PROVE  /\ Done(q, y)' = Done(q, y)
             /\ copied'[q] # {} => Prepared(q)' = Prepared(q) /\ CommOpt(q)' = CommOpt(q)
  <2>1. /\ opts' = opts /\ work' = work /\ commPc[x] = "transfer"
        /\ \A r \in Ranks : r # x => commPc'[r] = commPc[r] /\ commFwd'[r] = commFwd[r]
    BY <1>4 DEF SetReady, MaySet, prepare, TypeOK
  <2>2. \/ commPc'[x] = commPc[x] /\ commFwd'[x] = commFwd[x]
        \/ /\ commPc'[x] = "idle" /\ commFwd'[x] = commFwd[x] + 1
           /\ copied'[x] = {}
    BY <1>4 DEF SetReady, TypeOK
  <2>3. CASE q # x BY <2>1, <2>3 DEF Done, Prepared, LocalPrepareEvent, CommOpt
  <2>4. CASE q = x BY <2>1, <2>2, <2>4 DEF Done, Prepared, LocalPrepareEvent, CommOpt
  <2> QED BY <2>3, <2>4
<1> QED BY <1>1, <1>2, <1>3, <1>4

LEMMA OwnStep == PullsUnfused /\ IInv /\ FlagsStand /\ DataInv /\ [Next]_vars => OwnCurrent'
<1> SUFFICES ASSUME PullsUnfused, IInv, FlagsStand, DataInv, [Next]_vars,
                    NEW q \in Ranks, NEW p \in Parts
             PROVE  window'[q][q][p] = Done(q, p)'
  BY DEF OwnCurrent
<1>1. window[q][q][p] = Done(q, p) BY DEF DataInv, OwnCurrent
<1>2. CASE window' = window /\ UNCHANGED <<commFwd, commPc, work>>
  BY <1>1, <1>2, DoneKept
<1>3. CASE window' = window /\ Done(q, p)' = Done(q, p) BY <1>1, <1>3
<1>4. ASSUME NEW x \in Ranks,
             \/ PrepareStart(x) \/ PrepareDone(x) \/ KernelLaunch(x)
             \/ \E i \in Hops : SetReady(x, i)
      PROVE  window' = window /\ Done(q, p)' = Done(q, p)
  <2>1. window' = window BY <1>4 DEF PrepareStart, PrepareDone, KernelLaunch, SetReady
  <2> QED BY <1>4, <2>1, DoneAcross
<1>5. ASSUME NEW x \in Ranks, NEW i \in Hops, CopyHop(x, i)
      PROVE  window'[q][q][p] = Done(q, p)'
  <2>1. PICK from, to, seg : Copies(x, i, from, to, seg) BY <1>5, CopyEffect
  <2>2. window'[q][q] = window[q][q] BY <2>1 DEF Copies, IInv, TypeOK
  <2>3. UNCHANGED <<commFwd, commPc, work>> BY <1>5 DEF CopyHop, prepare
  <2> QED BY <1>1, <2>2, <2>3, DoneKept
<1>6. ASSUME NEW x \in Ranks, NEW c \in Ctas, NEW step \in WorkSteps(c), Work(x, c, step)
      PROVE  window'[q][q][p] = Done(q, p)'
  <2>1. /\ commPc[x] = "prepare" /\ commPc' = commPc /\ commFwd' = commFwd
        /\ work' = [work EXCEPT ![x] = @ \cup step] /\ step \cap work[x] = {}
        /\ input[x] = Prepared(x) + 1
        /\ window' = [window EXCEPT ![x][x] =
               [y \in Parts |-> IF y \in step THEN input[x] ELSE window[x][x][y]]]
    BY <1>6, WorkEffect
  <2>2. Prepared(q)' = Prepared(q) BY <2>1 DEF Prepared, LocalPrepareEvent
  <2>3. CASE q # x
    <3>1. work'[q] = work[q] /\ window'[q][q] = window[q][q]
      BY <2>1, <2>3 DEF IInv, TypeOK
    <3> QED BY <1>1, <2>1, <2>2, <3>1 DEF Done
  <2>4. CASE q = x
    <3>1. /\ work'[q] = work[q] \cup step
          /\ window'[q][q][p] = IF p \in step THEN input[q] ELSE window[q][q][p]
      BY <2>1, <2>4 DEF IInv, TypeOK
    <3> QED BY <1>1, <2>1, <2>2, <2>4, <3>1 DEF Done
  <2> QED BY <2>3, <2>4
<1>7. ASSUME NEW x \in Ranks,
             \/ Compute(x)
             \/ \E c \in Ctas : CtaStart(x, c) \/ CtaPass(x, c) \/ CtaArrive(x, c)
      PROVE  window' = window /\ UNCHANGED <<commFwd, commPc, work>>
  BY <1>7 DEF Compute, ProduceInput, GemmStart, GemmTile, CtaStart, CtaPass, CtaArrive,
              prepare
<1>8. UNCHANGED vars => window' = window /\ UNCHANGED <<commFwd, commPc, work>> BY DEF vars
<1> QED BY <1>2, <1>3, <1>4, <1>5, <1>6, <1>7, <1>8 DEF Next, Comm, Cta

LEMMA OthersStep ==
    PullsUnfused /\ IInv /\ FlagsStand /\ DataInv /\ [Next]_vars => OthersCurrent'
<1> SUFFICES ASSUME PullsUnfused, IInv, FlagsStand, DataInv, [Next]_vars,
                    NEW q \in Ranks, NEW s \in Ranks \ {q}, NEW p \in Parts,
                    ready'[q][s] = 1
             PROVE  window'[q][s][p] = Done(q, "flags")'
  BY DEF OthersCurrent
<1>1. ready[q][s] = 1 => window[q][s][p] = Done(q, "flags") BY DEF DataInv, OthersCurrent
<1>2. CASE UNCHANGED <<window, ready>> /\ Done(q, "flags")' = Done(q, "flags")
  BY <1>1, <1>2
<1>3. ASSUME NEW x \in Ranks, PrepareStart(x) \/ PrepareDone(x) \/ KernelLaunch(x)
      PROVE  UNCHANGED <<window, ready>> /\ Done(q, "flags")' = Done(q, "flags")
  <2>1. UNCHANGED <<window, ready>> BY <1>3 DEF PrepareStart, PrepareDone, KernelLaunch
  <2> QED BY <1>3, <2>1, DoneAcross
<1>4. ASSUME NEW x \in Ranks, NEW i \in Hops, SetReady(x, i)
      PROVE  window'[q][s][p] = Done(q, "flags")'
  <2> DEFINE h == Hop(CommOpt(x), x, i)
  <2>1. Done(q, "flags")' = Done(q, "flags") BY <1>4, DoneAcross
  <2>2. window' = window /\ ready' = [ready EXCEPT ![h.to][h.seg] = 1] /\ i \in copied[x]
    BY <1>4 DEF SetReady, MaySet
  <2>3. h.to \in Ranks /\ h.seg \in Ranks /\ commPc[x] = "transfer" BY <2>2, CopiedPlaces
  <2>4. window[h.to][h.seg][p] = Prepared(x) BY <2>2 DEF DataInv, CopiesCurrent
  <2>5. Done(q, "flags") = Prepared(x) BY <2>3, AllPrepared
  <2> HIDE DEF h
  <2>6. CASE q = h.to /\ s = h.seg BY <2>1, <2>2, <2>4, <2>5, <2>6
  <2>7. CASE ~(q = h.to /\ s = h.seg)
    <3>1. ready'[q][s] = ready[q][s] BY <2>2, <2>3, <2>7 DEF IInv, TypeOK
    <3> QED BY <1>1, <2>1, <2>2, <3>1
  <2> QED BY <2>6, <2>7
<1>5. ASSUME NEW x \in Ranks, NEW i \in Hops, CopyHop(x, i)
      PROVE  window'[q][s][p] = Done(q, "flags")'
  <2>1. PICK from, to, seg : Copies(x, i, from, to, seg) BY <1>5, CopyEffect
  <2>2. UNCHANGED <<commFwd, commPc, work, ready>> BY <1>5 DEF CopyHop, prepare
  <2>3. Done(q, "flags")' = Done(q, "flags") BY <2>2, DoneKept
  <2>4. CASE q = to /\ s = seg
    <3>1. window'[q][s][p] = Prepared(x) BY <2>1, <2>4 DEF Copies, IInv, TypeOK
    <3>2. Done(q, "flags") = Prepared(x) BY <2>1, AllPrepared DEF Copies
    <3> QED BY <2>3, <3>1, <3>2
  <2>5. CASE ~(q = to /\ s = seg)
    <3>1. window'[q][s] = window[q][s] BY <2>1, <2>5 DEF Copies, IInv, TypeOK
    <3> QED BY <1>1, <2>2, <2>3, <3>1
  <2> QED BY <2>4, <2>5
<1>6. ASSUME NEW x \in Ranks, NEW c \in Ctas, NEW step \in WorkSteps(c), Work(x, c, step)
      PROVE  window'[q][s][p] = Done(q, "flags")'
  <2>1. /\ commPc' = commPc /\ commFwd' = commFwd
        /\ work' = [work EXCEPT ![x] = @ \cup step]
        /\ window' = [window EXCEPT ![x][x] =
               [y \in Parts |-> IF y \in step THEN input[x] ELSE window[x][x][y]]]
    BY <1>6, WorkEffect
  <2>2. window'[q][s] = window[q][s] BY <2>1 DEF IInv, TypeOK
  <2>3. ready'[q][s] = ready[q][s] /\ ("flags" \in work'[q] <=> "flags" \in work[q])
    <3>1. CASE "flags" \in step /\ x = q
      <4>1. ready'[q][s] = 0
        BY <1>6, <3>1 DEF Work, OwnFlag, IInv, TypeOK
      <4> QED BY <4>1
    <3>2. CASE "flags" \in step /\ x # q
      BY <1>6, <2>1, <3>2 DEF Work, IInv, TypeOK
    <3>3. CASE "flags" \notin step
      BY <1>6, <2>1, <3>3 DEF Work, IInv, TypeOK
    <3> QED BY <3>1, <3>2, <3>3
  <2>4. Done(q, "flags")' = Done(q, "flags")
    BY <2>1, <2>3 DEF Done, Prepared, LocalPrepareEvent
  <2> QED BY <1>1, <2>2, <2>3, <2>4
<1>7. ASSUME NEW x \in Ranks,
             \/ Compute(x)
             \/ \E c \in Ctas : CtaStart(x, c) \/ CtaPass(x, c) \/ CtaArrive(x, c)
      PROVE  UNCHANGED <<window, ready, commFwd, commPc, work>>
  BY <1>7 DEF Compute, ProduceInput, GemmStart, GemmTile, CtaStart, CtaPass, CtaArrive,
              prepare
<1>8. UNCHANGED vars => UNCHANGED <<window, ready, commFwd, commPc, work>> BY DEF vars
<1>9. CASE UNCHANGED <<window, ready, commFwd, commPc, work>> BY <1>2, <1>9, DoneKept
<1> QED BY <1>2, <1>3, <1>4, <1>5, <1>6, <1>7, <1>8, <1>9 DEF Next, Comm, Cta

LEMMA CopiesStep ==
    PullsUnfused /\ IInv /\ FlagsStand /\ DataInv /\ [Next]_vars => CopiesCurrent'
<1> SUFFICES ASSUME PullsUnfused, IInv, FlagsStand, DataInv, [Next]_vars,
                    NEW r \in Ranks, NEW i \in copied'[r], NEW p \in Parts
             PROVE  (LET h == Hop(CommOpt(r), r, i)
                     IN  window[h.to][h.seg][p] = Prepared(r))'
  BY DEF CopiesCurrent
<1> DEFINE h == Hop(CommOpt(r), r, i)
<1>1. i \in copied[r] => /\ window[h.to][h.seg][p] = Prepared(r)
                         /\ commPc[r] = "transfer" /\ i \in Hops
                         /\ h.to \in Ranks /\ h.seg \in Ranks /\ h.seg # h.to
  <2> HAVE i \in copied[r]
  <2>1. window[h.to][h.seg][p] = Prepared(r) BY DEF DataInv, CopiesCurrent
  <2> QED BY <2>1, CopiedPlaces
<1>2. CASE /\ i \in copied[r] /\ CommOpt(r)' = CommOpt(r) /\ Prepared(r)' = Prepared(r)
           /\ window'[h.to][h.seg][p] = window[h.to][h.seg][p]
  BY <1>1, <1>2
<1>3. ASSUME NEW x \in Ranks,
             \/ PrepareStart(x) \/ PrepareDone(x) \/ KernelLaunch(x)
             \/ \E j \in Hops : SetReady(x, j)
      PROVE  /\ i \in copied[r] /\ CommOpt(r)' = CommOpt(r) /\ Prepared(r)' = Prepared(r)
             /\ window'[h.to][h.seg][p] = window[h.to][h.seg][p]
  <2>1. window' = window /\ copied'[r] \subseteq copied[r]
    <3>1. ASSUME NEW j \in Hops, SetReady(x, j)
          PROVE  window' = window /\ copied'[r] \subseteq copied[r]
      BY <3>1 DEF SetReady, IInv, TypeOK
    <3>2. CASE PrepareStart(x) \/ PrepareDone(x) \/ KernelLaunch(x)
      BY <3>2 DEF PrepareStart, PrepareDone, KernelLaunch
    <3> QED BY <1>3, <3>1, <3>2
  <2>2. CommOpt(r)' = CommOpt(r) /\ Prepared(r)' = Prepared(r) BY <1>3, DoneAcross
  <2> QED BY <2>1, <2>2
<1>4. ASSUME NEW x \in Ranks, NEW j \in Hops, CopyHop(x, j)
      PROVE  (LET g == Hop(CommOpt(r), r, i)
              IN  window[g.to][g.seg][p] = Prepared(r))'
  <2> DEFINE g == Hop(CommOpt(x), x, j)
  <2>1. Copies(x, j, g.from, g.to, g.seg) BY <1>4, CopyEffect
  <2>2. UNCHANGED <<opts, commFwd, commPc, work>> BY <1>4 DEF CopyHop, prepare
  <2>3. CommOpt(r)' = CommOpt(r) /\ Prepared(r)' = Prepared(r) BY <2>2, KeptFacts
  <2>4. r = x /\ i = j => h = g OBVIOUS
  <2>5. i \in copied[r] \/ (r = x /\ i = j) BY <2>1 DEF Copies, IInv, TypeOK
  <2>6. window'[g.to][g.seg][p] = Prepared(x)
    <3> HIDE DEF g
    <3> QED BY <2>1 DEF Copies, IInv, TypeOK
  <2>7. CASE h.to = g.to /\ h.seg = g.seg
    <3>1. i \in copied[r] => Prepared(r) = Prepared(x)
      <4> HAVE i \in copied[r]
      <4>1. Done(x, "flags") = Prepared(r) BY <1>1, AllPrepared
      <4>2. Done(x, "flags") = Prepared(x) BY <2>1, AllPrepared DEF Copies
      <4> QED BY <4>1, <4>2
    <3> QED BY <2>3, <2>5, <2>6, <2>7, <3>1
  <2>8. CASE ~(h.to = g.to /\ h.seg = g.seg)
    <3>1. i \in copied[r] BY <2>4, <2>5, <2>8
    <3>2. h.to \in Ranks /\ h.seg \in Ranks BY <1>1, <3>1
    <3>3. window'[h.to][h.seg] = window[h.to][h.seg]
      <4> HIDE DEF g, h
      <4> QED BY <2>1, <2>8, <3>2 DEF Copies, IInv, TypeOK
    <3> QED BY <1>1, <2>3, <3>1, <3>3
  <2> QED BY <2>7, <2>8
<1>5. ASSUME NEW x \in Ranks, NEW c \in Ctas, NEW step \in WorkSteps(c), Work(x, c, step)
      PROVE  /\ i \in copied[r] /\ CommOpt(r)' = CommOpt(r) /\ Prepared(r)' = Prepared(r)
             /\ window'[h.to][h.seg][p] = window[h.to][h.seg][p]
  <2>1. /\ UNCHANGED <<opts, commFwd, commPc, copied>>
        /\ window' = [window EXCEPT ![x][x] =
               [y \in Parts |-> IF y \in step THEN input[x] ELSE window[x][x][y]]]
    BY <1>5, WorkEffect
  <2>2. CommOpt(r)' = CommOpt(r) /\ Prepared(r)' = Prepared(r) BY <2>1, KeptFacts
  <2>3. i \in copied[r] /\ h.to \in Ranks /\ h.seg \in Ranks /\ h.seg # h.to
    BY <1>1, <2>1
  <2>4. window'[h.to][h.seg] = window[h.to][h.seg]
    <3> HIDE DEF h
    <3> QED BY <2>1, <2>3 DEF IInv, TypeOK
  <2> QED BY <2>2, <2>3, <2>4
<1>6. ASSUME NEW x \in Ranks,
             \/ Compute(x)
             \/ \E c \in Ctas : CtaStart(x, c) \/ CtaPass(x, c) \/ CtaArrive(x, c)
      PROVE  UNCHANGED <<opts, window, commFwd, commPc, copied>>
  BY <1>6 DEF Compute, ProduceInput, GemmStart, GemmTile, CtaStart, CtaPass, CtaArrive
<1>7. UNCHANGED vars => UNCHANGED <<opts, window, commFwd, commPc, copied>> BY DEF vars
<1>8. CASE UNCHANGED <<opts, window, commFwd, commPc, copied>> BY <1>2, <1>8, KeptFacts
<1> QED BY <1>2, <1>3, <1>4, <1>5, <1>6, <1>7, <1>8 DEF Next, Comm, Cta

\* A tile whose flag is up reads the forward of its GEMM: the preparation of the next
\* one cannot begin while the GEMM runs.
LEMMA TilesStep == IInv /\ DataInv /\ [Next]_vars => TilesReadCurrent'
<1> SUFFICES ASSUME IInv, DataInv, [Next]_vars, NEW r \in Ranks PROVE ~stale'[r]
  BY DEF TilesReadCurrent
<1>1. ~stale[r] BY DEF DataInv, TilesReadCurrent
<1>2. ASSUME NEW q \in Ranks, NEW s \in Ranks, GemmTile(q, s) PROVE ~stale'[r]
  <2>1. compPc[q] = "gemm" /\ ready[q][s] = 1 BY <1>2 DEF GemmTile, TileReady
  <2>2. Prepared(q) = compFwd[q] + 1 /\ commPc[q] # "prepare"
    <3>1. compFwd[q] < Prepared(q) /\ Begun(q) <= ReadyEvent(q)
      BY <2>1 DEF IInv, StreamsInOrder
    <3>2. ReadyEvent(q) = compFwd[q] + 1 BY <2>1 DEF ReadyEvent
    <3> QED BY <3>1, <3>2, RankFacts DEF IInv
  <2>3. \A x : Done(q, x) = compFwd[q] + 1 BY <2>2 DEF Done
  <2>4. \A p \in Parts : window[q][s][p] = compFwd[q] + 1
    BY <2>1, <2>3 DEF DataInv, OwnCurrent, OthersCurrent
  <2>5. stale' = [stale EXCEPT ![q] = stale[q]]
    <3>1. ~stale[q] BY DEF DataInv, TilesReadCurrent
    <3>2. ~(\E p \in Parts : window[q][s][p] # compFwd[q] + 1) BY <2>4
    <3>3. stale' = [stale EXCEPT ![q] =
              stale[q] \/ \E p \in Parts : window[q][s][p] # compFwd[q] + 1]
      BY <1>2 DEF GemmTile
    <3>4. (stale[q] \/ \E p \in Parts : window[q][s][p] # compFwd[q] + 1) = stale[q]
      BY <3>1, <3>2 DEF IInv, TypeOK
    <3> QED BY <3>3, <3>4
  <2> QED BY <1>1, <2>5 DEF IInv, TypeOK
<1>3. ASSUME NEW q \in Ranks, ProduceInput(q) \/ GemmStart(q) \/ Comm(q)
      PROVE  stale' = stale
  BY <1>3 DEF ProduceInput, GemmStart, Comm, PrepareStart, Cta, CtaStart, CtaPass, Work,
              CtaArrive, PrepareDone, KernelLaunch, CopyHop, SetReady, compute
<1>4. UNCHANGED vars => stale' = stale BY DEF vars
<1> QED BY <1>1, <1>2, <1>3, <1>4 DEF Next, Compute

LEMMA DataAlways == PullsUnfused => (Safe => [](IInv /\ DataInv))
<1> SUFFICES ASSUME PullsUnfused PROVE Safe => [](IInv /\ DataInv) OBVIOUS
<1>1. Init => DataInv
  <2> SUFFICES ASSUME Init PROVE DataInv OBVIOUS
  <2>1. \A r \in Ranks, x \in Parts \cup {"flags"} : Done(r, x) = 0
    BY DEF Init, Done, Prepared, LocalPrepareEvent
  <2>2. OwnCurrent BY <2>1 DEF Init, OwnCurrent
  <2>3. OthersCurrent BY DEF Init, OthersCurrent
  <2>4. CopiesCurrent BY DEF Init, CopiesCurrent
  <2>5. TilesReadCurrent BY DEF Init, TilesReadCurrent
  <2> QED BY <2>2, <2>3, <2>4, <2>5 DEF DataInv
<1>2. IInv /\ FlagsStand /\ DataInv /\ [Next]_vars => DataInv'
  BY OwnStep, OthersStep, CopiesStep, TilesStep DEF DataInv
<1> QED BY <1>1, <1>2, FlagsAlways, PTL DEF Safe

\* No GEMM tile reads a segment, or half of one, of another forward, whatever modes the
\* forwards before and after have, if no transfer pulls from a fused preparation.
THEOREM TilesCurrent == PullsUnfused => (Safe => []TilesReadCurrent)
<1> SUFFICES ASSUME PullsUnfused PROVE Safe => []TilesReadCurrent OBVIOUS
<1>1. IInv /\ DataInv => TilesReadCurrent BY DEF DataInv
<1> QED BY <1>1, DataAlways, PTL

\* Outside a preparation a flag that is up stands for the whole segment of the forward
\* the rank has last prepared, under the same condition.
THEOREM ReadyDataCurrent == PullsUnfused => (Safe => []ReadyMeansCurrent)
<1> SUFFICES ASSUME PullsUnfused PROVE Safe => []ReadyMeansCurrent OBVIOUS
<1>1. IInv /\ DataInv => ReadyMeansCurrent
  <2> SUFFICES ASSUME IInv, DataInv, NEW r \in Ranks, NEW s \in Ranks,
                      commPc[r] # "prepare", ready[r][s] = 1, NEW p \in Parts
               PROVE  window[r][s][p] = LocalPrepareEvent(r)
    BY DEF ReadyMeansCurrent
  <2>1. \A x : Done(r, x) = LocalPrepareEvent(r) BY DEF Done, Prepared
  <2> QED BY <2>1 DEF DataInv, OwnCurrent, OthersCurrent
<1> QED BY <1>1, DataAlways, PTL

-----------------------------------------------------------------------------
(* What keeps the forwards going. *)

\* A rank that has not prepared what another one has is behind its reset.
LEMMA BehindHasReset ==
    ASSUME IInv, NEW r \in Ranks, NEW q \in Ranks, Prepared(q) < Prepared(r)
    PROVE  "flags" \in work[q] /\ commPc[q] = "prepare"
<1> USE DEF IInv
<1>1. commPc[q] = "prepare" /\ \A c \in CtasOf(CommOpt(q)) : cta[q][c] = "sync2"
  BY DEF BarriersHold
<1>2. PICK c \in CtasOf(CommOpt(q)) : "flags" \in WorkBefore(c) /\ c \in Ctas
  BY DEF CtasOf, WorkBefore, WorkOf, Ctas
<1>3. WorkBefore(c) \subseteq work[q] BY <1>1, <1>2 DEF CtasInOrder
<1> QED BY <1>1, <1>2, <1>3

\* Only a reset takes a flag down, and not the own one.
LEMMA ReadyEffect ==
    ASSUME IInv, [Next]_vars, NEW q \in Ranks, NEW s \in Ranks,
           ready[q][s] = 1, ready'[q][s] # 1
    PROVE  s # q /\ \E c \in Ctas : \E step \in WorkSteps(c) :
                        Work(q, c, step) /\ "flags" \in step
<1> USE DEF IInv
<1>1. ASSUME NEW x \in Ranks, NEW i \in Hops, SetReady(x, i) PROVE FALSE
  <2> DEFINE g == Hop(CommOpt(x), x, i)
  <2>1. g.to \in Ranks /\ g.seg \in Ranks
    BY <1>1, OptFacts, HopFacts DEF SetReady, MaySet, StreamsInOrder
  <2>2. ready' = [ready EXCEPT ![g.to][g.seg] = 1] BY <1>1 DEF SetReady
  <2> HIDE DEF g
  <2> QED BY <2>1, <2>2 DEF TypeOK
<1>2. ASSUME NEW x \in Ranks, NEW c \in Ctas, NEW step \in WorkSteps(c), Work(x, c, step)
      PROVE  x = q /\ s # q /\ "flags" \in step
  <2>1. "flags" \in step BY <1>2 DEF Work
  <2>2. ready' = [ready EXCEPT ![x] = [t \in Ranks |-> OwnFlag(x, t)]] BY <1>2, <2>1 DEF Work
  <2> QED BY <2>1, <2>2 DEF TypeOK, OwnFlag
<1>3. ASSUME NEW x \in Ranks,
             \/ Compute(x) \/ PrepareStart(x) \/ PrepareDone(x) \/ KernelLaunch(x)
             \/ \E i \in Hops : CopyHop(x, i)
             \/ \E c \in Ctas : CtaStart(x, c) \/ CtaPass(x, c) \/ CtaArrive(x, c)
      PROVE  ready' = ready
  BY <1>3 DEF Compute, ProduceInput, GemmStart, GemmTile, PrepareStart, PrepareDone,
              KernelLaunch, CopyHop, CtaStart, CtaPass, CtaArrive
<1>4. UNCHANGED vars => ready' = ready BY DEF vars
<1> QED BY <1>1, <1>2, <1>3, <1>4 DEF Next, Comm, Cta

\* Done changes only with the work itself.
LEMMA DoneChanges ==
    ASSUME IInv, [Next]_vars, NEW q \in Ranks, Done(q, "flags")' # Done(q, "flags")
    PROVE  \E c \in Ctas : \E step \in WorkSteps(c) : Work(q, c, step) /\ "flags" \in step
<1>1. ASSUME NEW x \in Ranks,
             \/ PrepareStart(x) \/ PrepareDone(x) \/ KernelLaunch(x)
             \/ \E i \in Hops : SetReady(x, i)
      PROVE  FALSE
  BY <1>1, DoneAcross
<1>2. ASSUME UNCHANGED <<commFwd, commPc, work>> PROVE FALSE BY <1>2, DoneKept
<1>3. ASSUME NEW x \in Ranks, NEW c \in Ctas, NEW step \in WorkSteps(c), Work(x, c, step)
      PROVE  x = q /\ "flags" \in step
  <2>1. commPc' = commPc /\ commFwd' = commFwd /\ work' = [work EXCEPT ![x] = @ \cup step]
    BY <1>3, WorkEffect
  <2>2. ("flags" \in work'[q]) # ("flags" \in work[q])
    BY <2>1 DEF Done, Prepared, LocalPrepareEvent
  <2> QED BY <2>1, <2>2 DEF IInv, TypeOK
<1>4. ASSUME NEW x \in Ranks,
             \/ Compute(x)
             \/ \E i \in Hops : CopyHop(x, i)
             \/ \E c \in Ctas : CtaStart(x, c) \/ CtaPass(x, c) \/ CtaArrive(x, c)
      PROVE  UNCHANGED <<commFwd, commPc, work>>
  BY <1>4 DEF Compute, ProduceInput, GemmStart, GemmTile, CopyHop, CtaStart, CtaPass,
              CtaArrive, prepare
<1>5. UNCHANGED vars => UNCHANGED <<commFwd, commPc, work>> BY DEF vars
<1> QED BY <1>1, <1>2, <1>3, <1>4, <1>5 DEF Next, Comm, Cta

\* A reset is of a forward no flag of which has been sent yet.
LEMMA ResetComesFirst ==
    ASSUME IInv, NEW q \in Ranks, NEW c \in Ctas, NEW step \in WorkSteps(c),
           Work(q, c, step), "flags" \in step, NEW r \in Ranks, NEW i \in Hops
    PROVE  /\ SentBy(r, i)' <= Prepared(q) /\ ready'[q][q] = 1
           /\ Done(q, "flags")' = Prepared(q) + 1 /\ Prepared(q) \in Nat
<1> USE DEF IInv
<1>1. /\ commPc[q] = "prepare" /\ commPc' = commPc /\ UNCHANGED <<commFwd, sent>>
      /\ work' = [work EXCEPT ![q] = @ \cup step] /\ "flags" \notin work[q]
  BY WorkEffect
<1>2. commPc[r] \notin {"launch", "transfer"} BY ResetIsAlone
<1>3. sent[r] = {} /\ commFwd[r] = Prepared(r)
  BY <1>2, RankFacts DEF StreamsInOrder
<1>4. SentBy(r, i)' = Prepared(r) BY <1>1, <1>3 DEF SentBy
<1>5. ~(Prepared(q) < Prepared(r)) BY <1>1, BehindHasReset
<1>6. Done(q, "flags")' = Prepared(q) + 1
  BY <1>1 DEF Done, Prepared, LocalPrepareEvent, TypeOK
<1>7. ready'[q][q] = 1 BY DEF Work, OwnFlag, TypeOK
<1> QED BY <1>4, <1>5, <1>6, <1>7, RankFacts

\* The last forward a flag was sent for changes only when it is sent.
LEMMA SentChanges ==
    ASSUME IInv, [Next]_vars, NEW r \in Ranks, NEW i \in Hops, SentBy(r, i)' # SentBy(r, i)
    PROVE  /\ SetReady(r, i) /\ SentBy(r, i)' = commFwd[r] + 1 /\ SentBy(r, i) = commFwd[r]
           /\ commFwd[r] < MaxForwards
<1> USE DEF IInv
<1>1. ASSUME NEW x \in Ranks, NEW j \in Hops, SetReady(x, j)
      PROVE  /\ x = r /\ j = i /\ SentBy(r, i)' = commFwd[r] + 1 /\ SentBy(r, i) = commFwd[r]
             /\ commFwd[r] < MaxForwards
  <2>1. commPc[x] = "transfer" /\ j \notin sent[x] /\ commFwd[x] < MaxForwards
    BY <1>1 DEF SetReady, MaySet, StreamsInOrder
  <2>2. CASE x # r
    <3>1. sent'[r] = sent[r] /\ commFwd'[r] = commFwd[r] BY <1>1, <2>2 DEF SetReady, TypeOK
    <3> QED BY <3>1 DEF SentBy
  <2>3. CASE x = r /\ sent[r] \cup {j} = Hops
    <3>1. sent'[r] = {} /\ commFwd'[r] = commFwd[r] + 1 BY <1>1, <2>3 DEF SetReady, TypeOK
    <3>2. i # j => i \in sent[r] BY <2>3
    <3> QED BY <2>1, <2>3, <3>1, <3>2 DEF SentBy
  <2>4. CASE x = r /\ sent[r] \cup {j} # Hops
    <3>1. sent'[r] = sent[r] \cup {j} /\ commFwd'[r] = commFwd[r]
      BY <1>1, <2>4 DEF SetReady, TypeOK
    <3> QED BY <2>1, <2>4, <3>1 DEF SentBy
  <2> QED BY <2>2, <2>3, <2>4
<1>2. ASSUME NEW x \in Ranks,
             \/ Compute(x) \/ PrepareStart(x) \/ PrepareDone(x) \/ KernelLaunch(x)
             \/ \E j \in Hops : CopyHop(x, j)
             \/ \E c \in Ctas : \/ CtaStart(x, c) \/ CtaPass(x, c) \/ CtaArrive(x, c)
                                \/ \E step \in WorkSteps(c) : Work(x, c, step)
      PROVE  UNCHANGED <<sent, commFwd>>
  BY <1>2 DEF Compute, ProduceInput, GemmStart, GemmTile, PrepareStart, PrepareDone,
              KernelLaunch, CopyHop, CtaStart, CtaPass, CtaArrive, Work
<1>3. UNCHANGED vars => UNCHANGED <<sent, commFwd>> BY DEF vars
<1>4. UNCHANGED <<sent, commFwd>> => FALSE BY DEF SentBy
<1> QED BY <1>1, <1>2, <1>3, <1>4 DEF Next, Comm, Cta

\* ProgressInv is kept.
LEMMA ArriveStep == IInv /\ FlagsArrive /\ [Next]_vars => FlagsArrive'
<1> SUFFICES ASSUME IInv, FlagsArrive, [Next]_vars PROVE FlagsArrive' OBVIOUS
<1>1. ASSUME NEW q \in Ranks, Done(q, "flags")' > 0 PROVE ready'[q][q] = 1
  <2>1. 0 \in Hops BY Consts DEF Hops
  <2>2. CASE Done(q, "flags")' # Done(q, "flags")
    BY <2>1, <2>2, DoneChanges, ResetComesFirst
  <2>3. CASE Done(q, "flags")' = Done(q, "flags")
    <3>1. ready[q][q] = 1 BY <1>1, <2>3 DEF FlagsArrive, OwnFlagUp
    <3> QED BY <3>1, ReadyEffect
  <2> QED BY <2>2, <2>3
<1>2. ASSUME NEW r \in Ranks, NEW i \in Hops, NEW f \in 1..MaxForwards,
             NEW to \in Ranks, NEW seg \in Ranks,
             to = Hop(opts[f], r, i).to, seg = Hop(opts[f], r, i).seg,
             f <= SentBy(r, i)', Done(to, "flags")' = f
      PROVE  ready'[to][seg] = 1
  <2>1. ASSUME NEW c \in Ctas, NEW step \in WorkSteps(c), Work(to, c, step), "flags" \in step
        PROVE  FALSE
    <3>1. /\ SentBy(r, i)' <= Prepared(to) /\ Done(to, "flags")' = Prepared(to) + 1
          /\ Prepared(to) \in Nat
      BY <2>1, ResetComesFirst
    <3>2. SentBy(r, i)' \in Int
      <4>1. commFwd' = commFwd BY <2>1 DEF Work
      <4> QED BY <4>1, RankFacts DEF SentBy, IInv
    <3> QED BY <1>2, <3>1, <3>2
  <2>2. Done(to, "flags") = f BY <1>2, <2>1, DoneChanges
  <2>3. CASE f <= SentBy(r, i)
    <3>1. ready[to][seg] = 1 BY <1>2, <2>2, <2>3 DEF FlagsArrive, HopFlagsUp
    <3> QED BY <2>1, <3>1, ReadyEffect
  <2>4. CASE ~(f <= SentBy(r, i))
    <3>1. /\ SetReady(r, i) /\ SentBy(r, i)' = commFwd[r] + 1 /\ SentBy(r, i) = commFwd[r]
          /\ commFwd[r] \in Nat
      BY <1>2, <2>4, SentChanges, RankFacts DEF IInv
    <3>2. f = commFwd[r] + 1 BY <1>2, <2>4, <3>1
    <3>3. CommOpt(r) = opts[f] BY <3>2 DEF CommOpt
    <3>4. ready' = [ready EXCEPT ![to][seg] = 1] BY <1>2, <3>1, <3>3 DEF SetReady
    <3> QED BY <3>4 DEF IInv, TypeOK
  <2> QED BY <2>3, <2>4
<1>3. opts' = opts
  BY DEF Next, Compute, ProduceInput, GemmStart, GemmTile, Comm, PrepareStart, Cta,
         CtaStart, CtaPass, Work, CtaArrive, PrepareDone, KernelLaunch, CopyHop, SetReady,
         vars
<1>4. \A r \in Ranks, i \in Hops, f \in 1..MaxForwards :
         Hop(opts[f], r, i).to \in Ranks /\ Hop(opts[f], r, i).seg \in Ranks
  <2> TAKE r \in Ranks, i \in Hops, f \in 1..MaxForwards
  <2>1. opts[f] \in Options BY DEF IInv, TypeOK
  <2> QED BY <2>1, HopFacts
<1>5. OwnFlagUp' BY <1>1 DEF OwnFlagUp
<1>6. HopFlagsUp'
  <2> SUFFICES ASSUME NEW r \in Ranks, NEW i \in Hops, NEW f \in 1..MaxForwards
               PROVE  HopFlagsUp!(r, i, f)'
    BY DEF HopFlagsUp
  <2>1. PICK to \in Ranks : to = Hop(opts[f], r, i).to BY <1>4
  <2>2. PICK seg \in Ranks : seg = Hop(opts[f], r, i).seg BY <1>4
  <2>3. f <= SentBy(r, i)' /\ Done(to, "flags")' = f => ready'[to][seg] = 1
    BY <1>2, <2>1, <2>2
  <2> QED BY <1>3, <2>1, <2>2, <2>3
<1> QED BY <1>5, <1>6 DEF FlagsArrive

LEMMA RemainsStep == IInv /\ WorkRemains /\ [Next]_vars => WorkRemains'
<1> SUFFICES ASSUME IInv, WorkRemains, [Next]_vars, NEW r \in Ranks PROVE WorkRemains!(r)'
  BY DEF WorkRemains
<1> USE DEF IInv
<1>1. WorkRemains!(r) BY DEF WorkRemains
<1>2. Hops # {} /\ Ranks # {}
  <2>1. 0 \in Hops /\ 0 \in Ranks BY Consts DEF Hops, Ranks
  <2> QED BY <2>1
<1>3. CASE UNCHANGED <<opts, commFwd, commPc, compPc, work, sent, tiles>>
  BY <1>1, <1>3, KeptFacts
<1>4. ASSUME NEW x \in Ranks, ProduceInput(x) \/ GemmStart(x) PROVE WorkRemains!(r)'
  <2>1. UNCHANGED <<opts, commFwd, commPc, work, sent, tiles>>
    BY <1>4 DEF ProduceInput, GemmStart, prepare
  <2>2. compPc'[r] = "gemm" \/ compPc[r] # "gemm" \/ compPc'[r] = compPc[r]
    BY <1>4 DEF ProduceInput, MayProduce, GemmStart, TypeOK
  <2>3. CommOpt(r)' = CommOpt(r) BY <2>1, KeptFacts
  <2> QED BY <1>1, <2>1, <2>2, <2>3
<1>5. ASSUME NEW x \in Ranks, NEW s \in Ranks, GemmTile(x, s) PROVE WorkRemains!(r)'
  <2>1. UNCHANGED <<opts, commFwd, commPc, work, sent>> BY <1>5 DEF GemmTile, prepare
  <2>2. CommOpt(r)' = CommOpt(r) BY <2>1, KeptFacts
  <2>3. compPc[x] = "gemm" BY <1>5 DEF GemmTile, TileReady
  <2>4. CASE x # r
    <3>1. tiles'[r] = tiles[r] /\ compPc'[r] = compPc[r] BY <1>5, <2>4 DEF GemmTile, TypeOK
    <3> QED BY <1>1, <2>1, <2>2, <3>1
  <2>5. CASE x = r
    <3>1. /\ tiles'[r] # Ranks
          /\ compPc'[r] # "gemm" => tiles'[r] = {}
      <4>1. CASE tiles[r] \cup {s} = Ranks BY <1>2, <1>5, <2>5, <4>1 DEF GemmTile, TypeOK
      <4>2. CASE tiles[r] \cup {s} # Ranks
        BY <1>5, <2>3, <2>5, <4>2 DEF GemmTile, TypeOK
      <4> QED BY <4>1, <4>2
    <3> QED BY <1>1, <2>1, <2>2, <3>1
  <2> QED BY <2>4, <2>5
<1>6. ASSUME NEW x \in Ranks, PrepareStart(x) PROVE WorkRemains!(r)'
  <2>1. UNCHANGED <<opts, commFwd, compPc, sent, tiles>> BY <1>6 DEF PrepareStart, compute
  <2>2. CommOpt(r)' = CommOpt(r) BY <2>1 DEF CommOpt
  <2>3. \/ commPc'[r] = commPc[r] /\ work'[r] = work[r]
        \/ commPc'[r] = "prepare" /\ work'[r] = {}
    BY <1>6 DEF PrepareStart, TypeOK
  <2> QED BY <1>1, <2>1, <2>2, <2>3
<1>7. ASSUME NEW x \in Ranks, PrepareDone(x) \/ KernelLaunch(x) PROVE WorkRemains!(r)'
  <2>1. UNCHANGED <<opts, commFwd, compPc, work, sent, tiles>>
    BY <1>7 DEF PrepareDone, KernelLaunch, compute, prepare
  <2>2. CommOpt(r)' = CommOpt(r) BY <2>1 DEF CommOpt
  <2>3. \/ commPc'[r] = commPc[r]
        \/ commPc'[r] # "prepare" /\ commPc[r] # "transfer"
    BY <1>7 DEF PrepareDone, PrepareOver, KernelLaunch, MayLaunch, TypeOK
  <2>4. commPc[r] # "transfer" => sent[r] = {} BY DEF StreamsInOrder
  <2> QED BY <1>1, <1>2, <2>1, <2>2, <2>3, <2>4
<1>8. ASSUME NEW x \in Ranks, NEW i \in Hops, SetReady(x, i) PROVE WorkRemains!(r)'
  <2>1. UNCHANGED <<opts, compPc, work, tiles>> BY <1>8 DEF SetReady, compute, prepare
  <2>2. CASE x # r
    <3>1. commPc'[r] = commPc[r] /\ sent'[r] = sent[r] /\ commFwd'[r] = commFwd[r]
      BY <1>8, <2>2 DEF SetReady, TypeOK
    <3> QED BY <1>1, <2>1, <3>1 DEF CommOpt
  <2>3. CASE x = r
    <3>1. commPc[r] = "transfer" BY <1>8, <2>3 DEF SetReady, MaySet
    <3>2. CASE sent[r] \cup {i} = Hops
      <4>1. commPc'[r] = "idle" BY <1>8, <2>3, <3>2 DEF SetReady, TypeOK
      <4> QED BY <1>1, <2>1, <4>1
    <3>3. CASE sent[r] \cup {i} # Hops
      <4>1. commPc'[r] = "transfer" /\ sent'[r] = sent[r] \cup {i}
        BY <1>8, <2>3, <3>1, <3>3 DEF SetReady, TypeOK
      <4> QED BY <1>1, <2>1, <3>3, <4>1
    <3> QED BY <3>2, <3>3
  <2> QED BY <2>2, <2>3
<1>9. ASSUME NEW x \in Ranks, NEW c \in Ctas, NEW step \in WorkSteps(c), Work(x, c, step)
      PROVE  WorkRemains!(r)'
  <2>1. UNCHANGED <<opts, commFwd, commPc, compPc, sent, tiles>> BY <1>9 DEF Work, compute
  <2>2. CommOpt(r)' = CommOpt(r) BY <2>1, KeptFacts
  <2>3. CASE x # r
    <3>1. work'[r] = work[r] BY <1>9, <2>3 DEF Work, TypeOK
    <3> QED BY <1>1, <2>1, <2>2, <3>1
  <2>4. CASE x = r
    <3>1. work'[r] = work[r] \cup step /\ step \cap work[r] = {}
      BY <1>9, <2>4 DEF Work, MayWork, TypeOK
    <3>2. commPc[r] = "prepare" /\ c \in CtasOf(CommOpt(r))
      BY <1>9, <2>4 DEF Work, MayWork, CtasInOrder
    <3>3. ~CommOpt(r).fuse => step = WorkOf("all") BY <3>2 DEF CtasOf, WorkSteps
    <3> QED BY <1>1, <2>1, <2>2, <3>1, <3>2, <3>3
  <2> QED BY <2>3, <2>4
<1>10. ASSUME NEW x \in Ranks,
              \/ \E i \in Hops : CopyHop(x, i)
              \/ \E c \in Ctas : CtaStart(x, c) \/ CtaPass(x, c) \/ CtaArrive(x, c)
       PROVE  UNCHANGED <<opts, commFwd, commPc, compPc, work, sent, tiles>>
  BY <1>10 DEF CopyHop, CtaStart, CtaPass, CtaArrive, compute, prepare
<1>11. UNCHANGED vars => UNCHANGED <<opts, commFwd, commPc, compPc, work, sent, tiles>>
  BY DEF vars
<1> QED
  BY <1>3, <1>4, <1>5, <1>6, <1>7, <1>8, <1>9, <1>10, <1>11 DEF Next, Compute, Comm, Cta

LEMMA SignalStep == IInv /\ SignalKept /\ [Next]_vars => SignalKept'
<1> SUFFICES ASSUME IInv, SignalKept, [Next]_vars, NEW r \in Ranks PROVE SignalKept!(r)'
  BY DEF SignalKept
<1> USE DEF IInv
<1>1. SignalKept!(r) BY DEF SignalKept
<1>2. CASE UNCHANGED <<opts, commFwd, agSignal>> /\ commPc'[r] = commPc[r]
           /\ ("flags" \in work'[r] <=> "flags" \in work[r])
           /\ (commPc[r] = "launch" => compPc'[r] # "gemm")
  <2>1. Prepared(r)' = Prepared(r) /\ CommOpt(r)' = CommOpt(r)
    BY <1>2 DEF Prepared, LocalPrepareEvent, CommOpt
  <2> QED BY <1>1, <1>2, <2>1
<1>3. StreamsInOrder!(r) BY DEF StreamsInOrder
<1>4. ASSUME NEW x \in Ranks, GemmStart(x), commPc[r] = "launch" PROVE compPc'[r] # "gemm"
  <2>1. CASE x # r BY <1>1, <1>4, <2>1 DEF GemmStart, TypeOK
  <2>2. CASE x = r
    <3>1. /\ compPc[r] = "wait" /\ Prepared(r) > compFwd[r]
          /\ CompOpt(r).cores => agSignal[r] = 1
      BY <1>4, <2>2 DEF GemmStart, GemmMayStart, Prepared
    <3>2. ReadyEvent(r) = compFwd[r] + 1 BY <3>1 DEF ReadyEvent
    <3>3. compFwd[r] = commFwd[r] BY <1>3, <1>4, <3>1, <3>2, RankFacts
    <3>4. CompOpt(r) = CommOpt(r) BY <3>3 DEF CompOpt, CommOpt
    <3> QED BY <1>1, <1>4, <3>1, <3>4
  <2> QED BY <2>1, <2>2
<1>5. ASSUME NEW x \in Ranks, Compute(x) PROVE SignalKept!(r)'
  <2>1. UNCHANGED <<opts, commFwd, agSignal, commPc, work>>
    BY <1>5 DEF Compute, ProduceInput, GemmStart, GemmTile, prepare
  <2>2. ASSUME commPc[r] = "launch" PROVE compPc'[r] # "gemm"
    <3>1. CASE ProduceInput(x) BY <1>1, <2>2, <3>1 DEF ProduceInput, TypeOK
    <3>2. CASE GemmStart(x) BY <1>4, <2>2, <3>2
    <3>3. ASSUME NEW s \in Ranks, GemmTile(x, s) PROVE compPc'[r] # "gemm"
      <4>1. compPc[x] = "gemm" BY <3>3 DEF GemmTile, TileReady
      <4>2. x # r BY <1>1, <2>2, <4>1
      <4> QED BY <1>1, <2>2, <3>3, <4>2 DEF GemmTile, TypeOK
    <3> QED BY <1>5, <3>1, <3>2, <3>3 DEF Compute
  <2> QED BY <1>2, <2>1, <2>2
<1>6. ASSUME NEW x \in Ranks, PrepareStart(x) PROVE SignalKept!(r)'
  <2>1. UNCHANGED <<opts, commFwd, agSignal, compPc>> BY <1>6 DEF PrepareStart, compute
  <2>2. CASE x = r
    <3>1. commPc'[r] = "prepare" /\ work'[r] = {} BY <1>6, <2>2 DEF PrepareStart, TypeOK
    <3> QED BY <3>1
  <2>3. CASE x # r
    <3>1. commPc'[r] = commPc[r] /\ work'[r] = work[r] BY <1>6, <2>3 DEF PrepareStart, TypeOK
    <3> QED BY <1>1, <1>2, <2>1, <3>1
  <2> QED BY <2>2, <2>3
<1>7. ASSUME NEW x \in Ranks, PrepareDone(x) PROVE SignalKept!(r)'
  <2>1. UNCHANGED <<opts, commFwd, agSignal, compPc, work>> BY <1>7 DEF PrepareDone, compute
  <2>2. CASE x # r
    <3>1. commPc'[r] = commPc[r] BY <1>7, <2>2 DEF PrepareDone, TypeOK
    <3> QED BY <1>1, <1>2, <2>1, <3>1
  <2>3. CASE x = r
    <3>1. /\ commPc[r] = "prepare"
          /\ commPc'[r] = IF CommOpt(r).cores THEN "launch" ELSE "transfer"
          /\ \A c \in CtasOf(CommOpt(r)) : WorkOf(c) \subseteq work[r]
      BY <1>7, <2>3 DEF PrepareDone, PrepareOver, TypeOK
    <3>2. "flags" \in work[r] BY <3>1 DEF CtasOf, WorkOf
    <3>3. CommOpt(r)' = CommOpt(r) /\ CommOpt(r) = opts[commFwd[r] + 1]
      BY <2>1 DEF CommOpt
    <3>4. CASE CommOpt(r).cores
      <4>1. compPc[r] # "gemm"
        <5> SUFFICES ASSUME compPc[r] = "gemm" PROVE FALSE OBVIOUS
        <5>1. ReadyEvent(r) = compFwd[r] + 1 BY DEF ReadyEvent
        <5> QED BY <1>3, <3>1, <5>1, RankFacts
      <4> QED BY <1>1, <2>1, <3>1, <3>2, <3>3, <3>4, <4>1
    <3>5. CASE ~CommOpt(r).cores
      <4>1. commPc'[r] = "transfer" BY <3>1, <3>5
      <4>2. Prepared(r)' = commFwd[r] + 1 BY <2>1, <4>1 DEF Prepared, LocalPrepareEvent
      <4>3. ~opts'[Prepared(r)'].cores BY <2>1, <3>3, <3>5, <4>2
      <4> QED BY <4>1, <4>3
    <3> QED BY <3>4, <3>5
  <2> QED BY <2>2, <2>3
<1>8. ASSUME NEW x \in Ranks, KernelLaunch(x) PROVE SignalKept!(r)'
  <2>1. UNCHANGED <<opts, commFwd, compPc, work>> BY <1>8 DEF KernelLaunch, compute, prepare
  <2>2. CASE x = r
    <3>1. commPc'[r] = "transfer" /\ agSignal'[r] = 1
      BY <1>8, <2>2 DEF KernelLaunch, TypeOK
    <3> QED BY <3>1
  <2>3. CASE x # r
    <3>1. commPc'[r] = commPc[r] /\ agSignal'[r] = agSignal[r]
      BY <1>8, <2>3 DEF KernelLaunch, TypeOK
    <3>2. Prepared(r)' = Prepared(r) /\ CommOpt(r)' = CommOpt(r)
      BY <2>1, <3>1 DEF Prepared, LocalPrepareEvent, CommOpt
    <3> QED BY <1>1, <2>1, <3>1, <3>2
  <2> QED BY <2>2, <2>3
<1>9. ASSUME NEW x \in Ranks, NEW i \in Hops, SetReady(x, i) PROVE SignalKept!(r)'
  <2>1. UNCHANGED <<opts, agSignal, compPc, work>> BY <1>9 DEF SetReady, compute, prepare
  <2>2. \/ commPc'[r] = commPc[r] /\ commFwd'[r] = commFwd[r]
        \/ commPc[r] = "transfer" /\ commPc'[r] = "idle" /\ commFwd'[r] = commFwd[r] + 1
    BY <1>9 DEF SetReady, MaySet, TypeOK
  <2>3. Prepared(r)' = Prepared(r) BY <2>2 DEF Prepared, LocalPrepareEvent
  <2> QED BY <1>1, <2>1, <2>2, <2>3 DEF CommOpt
<1>10. ASSUME NEW x \in Ranks, NEW c \in Ctas, NEW step \in WorkSteps(c), Work(x, c, step)
       PROVE  SignalKept!(r)'
  <2>1. UNCHANGED <<opts, commFwd, commPc, compPc>> BY <1>10 DEF Work, compute
  <2>2. /\ commPc[x] = "prepare" /\ work' = [work EXCEPT ![x] = @ \cup step]
    BY <1>10, WorkEffect
  <2>3. CASE x = r /\ "flags" \in step
    <3>1. agSignal'[r] = 0 BY <1>10, <2>3 DEF Work, TypeOK
    <3> QED BY <2>1, <2>2, <2>3, <3>1
  <2>4. CASE x # r
    <3>1. agSignal'[r] = agSignal[r] BY <1>10, <2>4 DEF Work, TypeOK
    <3>2. work'[r] = work[r] BY <2>2, <2>4 DEF TypeOK
    <3>3. Prepared(r)' = Prepared(r) /\ CommOpt(r)' = CommOpt(r) BY <2>1, KeptFacts
    <3> QED BY <1>1, <2>1, <3>1, <3>2, <3>3
  <2>5. CASE x = r /\ "flags" \notin step
    <3>1. agSignal' = agSignal BY <1>10, <2>5 DEF Work
    <3>2. "flags" \in work'[r] <=> "flags" \in work[r] BY <2>2, <2>5 DEF TypeOK
    <3> QED BY <1>1, <1>2, <2>1, <3>1, <3>2
  <2> QED BY <2>3, <2>4, <2>5
<1>11. ASSUME NEW x \in Ranks,
              \/ \E i \in Hops : CopyHop(x, i)
              \/ \E c \in Ctas : CtaStart(x, c) \/ CtaPass(x, c) \/ CtaArrive(x, c)
       PROVE  UNCHANGED <<opts, commFwd, agSignal, commPc, compPc, work>>
  BY <1>11 DEF CopyHop, CtaStart, CtaPass, CtaArrive, compute, prepare
<1>12. UNCHANGED vars => UNCHANGED <<opts, commFwd, agSignal, commPc, compPc, work>>
  BY DEF vars
<1>13. CASE UNCHANGED <<opts, commFwd, agSignal, commPc, compPc, work>> BY <1>1, <1>2, <1>13
<1> QED
  BY <1>5, <1>6, <1>7, <1>8, <1>9, <1>10, <1>11, <1>12, <1>13 DEF Next, Comm, Cta

LEMMA ProgressAlways == Safe => []ProgressInv
<1>1. Init => FlagsArrive /\ WorkRemains /\ SignalKept
  <2> SUFFICES ASSUME Init PROVE FlagsArrive /\ WorkRemains /\ SignalKept OBVIOUS
  <2>1. \A r \in Ranks : Done(r, "flags") = 0 /\ Prepared(r) = 0
    BY DEF Init, Done, Prepared, LocalPrepareEvent
  <2>2. \A r \in Ranks, i \in Hops : SentBy(r, i) = 0 BY DEF Init, SentBy
  <2>3. FlagsArrive BY <2>1, <2>2 DEF FlagsArrive, OwnFlagUp, HopFlagsUp
  <2>4. Ranks # {} BY Consts DEF Ranks
  <2>5. WorkRemains BY <2>4 DEF Init, WorkRemains
  <2>6. SignalKept BY <2>1 DEF Init, SignalKept
  <2> QED BY <2>3, <2>5, <2>6
<1> QED BY <1>1, ArriveStep, RemainsStep, SignalStep, IInvAlways, PTL DEF Safe, ProgressInv

-----------------------------------------------------------------------------
(* No deadlock. *)

\* A nonempty set of numbers has a least one.
LEMMA Least == ASSUME NEW S \in SUBSET Nat, S # {}
               PROVE  \E x \in S : \A y \in S : x <= y
<1> DEFINE R == OpToRel(LAMBDA x, y : x < y, Nat)
<1>1. IsWellFoundedOn(R, Nat) BY NatLessThanWellFounded
<1>2. PICK x \in S : \A y \in S : ~(<<y, x>> \in R) BY <1>1, WFMin
<1>3. \A y \in S : ~(y < x) BY <1>2 DEF OpToRel
<1> QED BY <1>3

\* A preparation that cannot go on waits for an arrival at one of its barriers, its work
\* done as far as it has met the others.
LEMMA PrepareWaits ==
    ASSUME ProgressInv, NEW r \in Ranks, ~CanMove(r), commPc[r] = "prepare"
    PROVE  /\ \A c \in CtasOf(CommOpt(r)) : cta[r][c] \in {"sync1", "sync2"}
           /\ \E c \in CtasOf(CommOpt(r)) : ~Synced(r, c)
<1> USE DEF ProgressInv, IInv
<1>1. ASSUME NEW c \in CtasOf(CommOpt(r))
      PROVE  /\ cta[r][c] \in {"sync1", "sync2"}
             /\ cta[r][c] = "sync1" => ~Synced(r, c)
             /\ cta[r][c] = "sync2" => WorkOf(c) \subseteq work[r]
  <2>1. c \in Ctas BY OptFacts
  <2>2. cta[r][c] \in {"launch", "sync1", "work", "sync2"}
    BY <2>1 DEF CtasInOrder, TypeOK
  <2>3. ASSUME cta[r][c] \in {"work", "sync2"} PROVE WorkOf(c) \subseteq work[r]
    <3>1. \A step \in WorkSteps(c) : step \cap work[r] # {}
      BY <2>1, <2>3 DEF CanMove, MayWork
    <3>2. CASE c = "all"
      <4>1. ~CommOpt(r).fuse BY <3>2 DEF CtasOf
      <4>2. work[r] \in {{}, WorkOf("all")} BY <4>1 DEF WorkRemains
      <4> QED BY <3>1, <3>2, <4>2 DEF WorkSteps
    <3>3. CASE c = "copy" BY <3>1, <3>3 DEF WorkSteps, WorkOf, Parts
    <3>4. CASE c = "reset" BY <3>1, <3>4 DEF WorkSteps, WorkOf
    <3> QED BY <2>1, <3>2, <3>3, <3>4 DEF Ctas
  <2>4. cta[r][c] # "launch" /\ ~(cta[r][c] = "sync1" /\ Synced(r, c)) /\ ~MayArrive(r, c)
    BY <2>1 DEF CanMove, MayPass
  <2>5. WorkBefore(c) \subseteq WorkOf(c) BY <2>1, CtaFacts
  <2> QED BY <2>2, <2>3, <2>4, <2>5 DEF MayArrive
<1>2. ~PrepareOver(r) BY DEF CanMove
<1> QED BY <1>1, <1>2 DEF PrepareOver

\* Of the ranks that have prepared the fewest forwards one is not in a preparation: the
\* others would all find each other, and the ranks ahead, at every barrier.
LEMMA OneIsThrough ==
    ASSUME ProgressInv, \A p \in Ranks : ~CanMove(p), NEW q \in Ranks,
           \A p \in Ranks : Prepared(q) <= Prepared(p)
    PROVE  \E p \in Ranks : Prepared(p) = Prepared(q) /\ commPc[p] # "prepare"
<1> USE DEF ProgressInv, IInv
<1> DEFINE m == Prepared(q)
           o == opts[m + 1]
<1> SUFFICES ASSUME \A p \in Ranks : Prepared(p) = m => commPc[p] = "prepare"
             PROVE  FALSE
  OBVIOUS
<1>1. m \in Nat /\ \A p \in Ranks : Prepared(p) \in Nat BY RankFacts
<1>2. \A p \in Ranks : Prepared(p) = m => CommOpt(p) = o
  <2> TAKE p \in Ranks
  <2> HAVE Prepared(p) = m
  <2>1. commFwd[p] = m BY RankFacts
  <2> QED BY <2>1 DEF CommOpt
<1>3. ASSUME NEW p \in Ranks, Prepared(p) = m, NEW c \in CtasOf(o)
      PROVE  cta[p][c] \in {"sync1", "sync2"}
  BY <1>2, <1>3, PrepareWaits
<1>4. \A c \in CtasOf(o) : c \in Ctas BY <1>2, OptFacts
<1>5. ASSUME NEW p \in Ranks, NEW c \in CtasOf(o)
      PROVE  /\ Prepared(p) = m => arrived[p][c] =
                    2 * Turns(c, m) + (IF cta[p][c] = "sync1" THEN 1 ELSE 2)
             /\ Prepared(p) # m => arrived[p][c] >= 2 * Turns(c, m) + 2
             /\ Turns(c, m) \in Nat
  <2>1. arrived[p][c] = 2 * Turns(c, Prepared(p)) + Arrivals(p, c)
    BY <1>4 DEF ArrivalsCounted
  <2>2. Turns(c, m) \in Nat /\ Turns(c, m + 1) = Turns(c, m) + 1 BY <1>1, TurnFacts
  <2>3. Prepared(p) # m => Turns(c, m + 1) <= Turns(c, Prepared(p))
                            /\ Turns(c, Prepared(p)) \in Nat
    <3> HAVE Prepared(p) # m
    <3>1. m + 1 \in Nat /\ m + 1 <= Prepared(p) BY <1>1
    <3> QED BY <1>1, <3>1, TurnFacts
  <2>4. Arrivals(p, c) \in {0, 1, 2} BY DEF Arrivals
  <2>5. Prepared(p) = m => Arrivals(p, c) = IF cta[p][c] = "sync1" THEN 1 ELSE 2
    BY <1>3 DEF Arrivals
  <2> HIDE DEF m
  <2> QED BY <2>1, <2>2, <2>3, <2>4, <2>5
<1>6. ASSUME NEW p \in Ranks, Prepared(p) = m, NEW c \in CtasOf(o), ~Synced(p, c)
      PROVE  cta[p][c] = "sync2" /\ \E x \in Ranks : Prepared(x) = m /\ cta[x][c] = "sync1"
  <2>1. PICK x \in Ranks : ~(arrived[x][c] >= arrived[p][c]) BY <1>6 DEF Synced
  <2>4. Turns(c, m) \in Nat BY <1>5
  <2>5. arrived[p][c] = 2 * Turns(c, m) + (IF cta[p][c] = "sync1" THEN 1 ELSE 2)
    BY <1>5, <1>6
  <2>6. Prepared(x) # m => arrived[x][c] >= 2 * Turns(c, m) + 2 BY <1>5
  <2>7. Prepared(x) = m => arrived[x][c] =
            2 * Turns(c, m) + (IF cta[x][c] = "sync1" THEN 1 ELSE 2)
    BY <1>5
  <2>8. arrived[p][c] \in Int /\ arrived[x][c] \in Int BY <1>4 DEF TypeOK
  <2> HIDE DEF m
  <2>2. Prepared(x) = m BY <2>1, <2>4, <2>5, <2>6, <2>8
  <2>3. ~(cta[p][c] = "sync1") /\ cta[x][c] = "sync1"
    BY <2>1, <2>2, <2>4, <2>5, <2>7, <2>8
  <2> QED BY <1>3, <1>6, <2>2, <2>3
<1>7. ASSUME NEW x \in Ranks, Prepared(x) = m, NEW c \in CtasOf(o), cta[x][c] = "sync1"
      PROVE  FALSE
  <2>1. ~Synced(x, c) BY <1>4, <1>7 DEF CanMove, MayPass
  <2> QED BY <1>6, <1>7, <2>1
<1>8. PICK c \in CtasOf(o) : ~Synced(q, c) BY <1>2, PrepareWaits
<1> QED BY <1>6, <1>7, <1>8

\* If nobody can move, all ranks have prepared the same forwards and done nothing of the
\* next one.
LEMMA AllAlike ==
    ASSUME ProgressInv, \A p \in Ranks : ~CanMove(p)
    PROVE  \E q \in Ranks :
              /\ commPc[q] # "prepare"
              /\ \A r \in Ranks : /\ Prepared(r) = Prepared(q)
                                  /\ Done(r, "flags") = Prepared(q)
<1> USE DEF ProgressInv, IInv
<1> DEFINE P == {Prepared(r) : r \in Ranks}
<1>1. PICK d \in P : \A e \in P : d <= e
  <2>1. P \in SUBSET Nat BY RankFacts
  <2>2. P # {} BY Consts DEF Ranks
  <2> HIDE DEF P
  <2> QED BY <2>1, <2>2, Least
<1>2. PICK l \in Ranks : \A r \in Ranks : Prepared(l) <= Prepared(r) BY <1>1
<1>3. PICK q \in Ranks : Prepared(q) = Prepared(l) /\ commPc[q] # "prepare"
  BY <1>2, OneIsThrough
<1>4. \A r \in Ranks : Prepared(r) = Prepared(q)
  <2> TAKE r \in Ranks
  <2>1. ~(Prepared(q) < Prepared(r)) BY <1>3, BehindHasReset
  <2> QED BY <1>2, <1>3, <2>1, RankFacts
<1>5. \A r \in Ranks : Done(r, "flags") = Prepared(q)
  <2> TAKE r \in Ranks
  <2>1. ~(commPc[r] = "prepare" /\ "flags" \in work[r])
    <3> SUFFICES ASSUME commPc[r] = "prepare", "flags" \in work[r] PROVE FALSE OBVIOUS
    <3>1. Begun(q) >= Begun(r) BY DEF BarriersHold
    <3> QED BY <1>3, <1>4, <3>1, RankFacts
  <2> QED BY <1>4, <2>1 DEF Done
<1> QED BY <1>3, <1>4, <1>5

\* The flag of a hop is up if its sender, of all those that are alike, has sent it.
LEMMA FlagIsUp ==
    ASSUME ProgressInv, NEW m \in 1..MaxForwards, \A r \in Ranks : Done(r, "flags") = m,
           NEW q \in Ranks, NEW i \in Hops, \A p \in Ranks : SentBy(p, i) >= m
    PROVE  ready[q][Mod(q + 1 + i)] = 1
<1>1. opts[m] \in Options BY DEF ProgressInv, IInv, TypeOK
<1>2. PICK p \in Ranks : Hop(opts[m], p, i).to = q /\ Hop(opts[m], p, i).seg = Mod(q + 1 + i)
  BY <1>1, HopArrives
<1>3. SentBy(p, i) \in Int BY RankFacts DEF SentBy, ProgressInv, IInv
<1>4. m <= SentBy(p, i) BY <1>3
<1> QED BY <1>2, <1>4 DEF ProgressInv, FlagsArrive, HopFlagsUp

\* Nor is anybody in a transfer: the earliest hop that is left could be done.
LEMMA NoTransfer ==
    ASSUME ProgressInv, \A p \in Ranks : ~CanMove(p), NEW m \in Nat,
           \A p \in Ranks : Prepared(p) = m /\ Done(p, "flags") = m
    PROVE  \A r \in Ranks : commPc[r] \in {"idle", "prepare"}
<1> USE DEF ProgressInv, IInv
<1>1. \A r \in Ranks : commPc[r] # "launch" BY DEF CanMove, MayLaunch, SignalKept
<1>2. SUFFICES ASSUME NEW r \in Ranks, commPc[r] = "transfer" PROVE FALSE
  BY <1>1, RankFacts
<1> DEFINE Left(p, i) == commPc[p] = "transfer" /\ i \notin sent[p]
           L == {i \in Hops : \E p \in Ranks : Left(p, i)}
<1>3. L # {}
  <2>1. sent[r] # Hops /\ sent[r] \subseteq Hops BY <1>2 DEF WorkRemains, TypeOK
  <2> QED BY <1>2, <2>1
<1>4. PICK i \in L : \A j \in L : i <= j
  <2>1. L \in SUBSET Nat BY DEF Hops
  <2> HIDE DEF L
  <2> QED BY <1>3, <2>1, Least
<1>5. PICK p \in Ranks : Left(p, i) BY <1>4
<1>6. i \in Hops /\ \A j \in Hops : j < i => j \notin L
  <2>1. Hops \subseteq Int BY Consts DEF Hops
  <2> HIDE DEF L
  <2>2. i \in Hops BY <1>4 DEF L
  <2> QED BY <1>4, <2>1, <2>2
<1>7. m \in 1..MaxForwards /\ CommOpt(p) = opts[m] /\ CommOpt(p) \in Options
  <2>1. m = commFwd[p] + 1 /\ commFwd[p] < MaxForwards /\ commFwd[p] \in Nat
    BY <1>5, RankFacts DEF StreamsInOrder
  <2> QED BY <2>1, OptFacts, Consts DEF CommOpt
<1>8. \A j \in Hops, x \in Ranks : j < i => SentBy(x, j) >= m
  <2> TAKE j \in Hops, x \in Ranks
  <2> HAVE j < i
  <2>1. CASE commPc[x] = "transfer"
    <3>1. j \in sent[x] BY <1>6, <2>1
    <3>2. commFwd[x] + 1 = m BY <2>1, RankFacts
    <3> QED BY <3>1, <3>2 DEF SentBy
  <2>2. CASE commPc[x] # "transfer"
    <3>1. commFwd[x] = m BY <1>1, <2>2, RankFacts
    <3> QED BY <3>1 DEF SentBy
  <2> QED BY <2>1, <2>2
<1>9. HopMayStart(CommOpt(p), p, i) BY <1>5, <1>6 DEF HopMayStart
<1>10. ASSUME NEW w \in Hop(CommOpt(p), p, i).waits
       PROVE  ready[w][Hop(CommOpt(p), p, i).seg] = 1
  <2>1. w \in Ranks /\ i > 0 /\ Hop(CommOpt(p), p, i).seg = Mod(w + i)
    BY <1>6, <1>7, <1>10, HopWaits
  <2>2. i - 1 \in Hops /\ i - 1 < i /\ w + 1 + (i - 1) = w + i
    BY <1>6, <2>1, Consts DEF Hops, Ranks
  <2>3. ready[w][Mod(w + 1 + (i - 1))] = 1 BY <1>7, <1>8, <2>1, <2>2, FlagIsUp
  <2> QED BY <2>1, <2>2, <2>3
<1>11. i \notin copied[p] BY <1>5, <1>6 DEF CanMove, MaySet
<1>12. MayCopy(p, i) BY <1>5, <1>9, <1>10, <1>11 DEF MayCopy
<1> QED BY <1>6, <1>12 DEF CanMove

\* With all transfers done every flag is up, and no GEMM waits.
LEMMA GemmIsServed ==
    ASSUME ProgressInv, \A p \in Ranks : ~CanMove(p), NEW m \in Nat,
           \A p \in Ranks : Prepared(p) = m /\ Done(p, "flags") = m,
           \A p \in Ranks : commPc[p] \in {"idle", "prepare"}, NEW r \in Ranks
    PROVE  compPc[r] # "gemm"
<1> USE DEF ProgressInv, IInv
<1> SUFFICES ASSUME compPc[r] = "gemm" PROVE FALSE OBVIOUS
<1>1. \A p \in Ranks : commFwd[p] = m BY RankFacts
<1>2. m \in 1..MaxForwards
  <2>1. compFwd[r] < m /\ m <= MaxForwards BY <1>1, RankFacts DEF StreamsInOrder
  <2> QED BY <2>1, RankFacts
<1>3. \A s \in Ranks : ready[r][s] = 1
  <2> TAKE s \in Ranks
  <2>1. CASE s = r BY <1>2, <2>1 DEF FlagsArrive, OwnFlagUp
  <2>2. CASE s # r
    <3>1. PICK i \in Hops : Mod(r + 1 + i) = s BY <2>2, SegmentsComeIn
    <3>2. \A p \in Ranks : SentBy(p, i) >= m BY <1>1 DEF SentBy
    <3> QED BY <1>2, <3>1, <3>2, FlagIsUp
  <2> QED BY <2>1, <2>2
<1> DEFINE At(s) == Mod(s - r + WorldSize)
           Left  == Ranks \ tiles[r]
           A     == {At(s) : s \in Left}
<1>4. PICK a \in A : \A b \in A : a <= b
  <2>1. \A s \in Ranks : At(s) \in Nat
    <3> TAKE s \in Ranks
    <3>1. s - r + WorldSize \in Int BY Consts DEF Ranks
    <3> QED BY <3>1, ModFacts DEF Ranks
  <2>2. A \in SUBSET Nat
    <3>1. \A s \in Left : At(s) \in Nat BY <2>1
    <3> HIDE DEF At, Left
    <3> QED BY <3>1
  <2>3. A # {}
    <3>1. tiles[r] # Ranks /\ tiles[r] \subseteq Ranks BY DEF WorkRemains, TypeOK
    <3>2. Left # {} BY <3>1
    <3> HIDE DEF At, Left
    <3> QED BY <3>2
  <2> HIDE DEF A
  <2> QED BY <2>2, <2>3, Least
<1>5. PICK s \in Left : a = At(s) BY <1>4
<1>6. \A t \in Left : At(s) <= At(t) BY <1>4, <1>5
<1>7. \A t \in Ranks : At(t) \in Int
  <2> TAKE t \in Ranks
  <2>1. t - r + WorldSize \in Int BY Consts DEF Ranks
  <2> QED BY <2>1, ModFacts DEF Ranks
<1>8. TileMayRun(r, s)
  <2> SUFFICES ASSUME NEW t \in Ranks, At(t) < At(s) PROVE t \in tiles[r] BY DEF TileMayRun
  <2> HIDE DEF At
  <2> QED BY <1>6, <1>7
<1>9. TileReady(r, s) BY <1>3, <1>5, <1>8 DEF TileReady
<1> QED BY <1>5, <1>9 DEF CanMove

\* A compute stream that waits has its preparation to come: the transfer has begun
\* otherwise, and ag_signal is up.
LEMMA WaitIsServed ==
    ASSUME ProgressInv, NEW r \in Ranks, ~CanMove(r), commPc[r] = "idle",
           compPc[r] = "wait"
    PROVE  compFwd[r] = commFwd[r]
<1> USE DEF ProgressInv, IInv
<1>1. /\ compFwd[r] \in Nat /\ commFwd[r] \in Nat /\ Prepared(r) = commFwd[r]
      /\ Begun(r) = commFwd[r]
  BY RankFacts
<1>2. ReadyEvent(r) = compFwd[r] + 1 BY DEF ReadyEvent
<1>3. compFwd[r] <= commFwd[r] /\ commFwd[r] <= compFwd[r] + 1
  BY <1>1, <1>2 DEF StreamsInOrder
<1> SUFFICES ASSUME compFwd[r] + 1 = commFwd[r] PROVE FALSE BY <1>1, <1>3
<1>4. CompOpt(r).cores => agSignal[r] = 1
  <2>1. CompOpt(r) = opts[Prepared(r)] /\ Prepared(r) > 0 BY <1>1 DEF CompOpt
  <2> QED BY <2>1 DEF SignalKept
<1>5. LocalPrepareEvent(r) > compFwd[r] BY <1>1 DEF Prepared
<1> QED BY <1>4, <1>5 DEF CanMove, GemmMayStart

\* No forward waits for ever, for a barrier, a flag or ag_signal, whatever sequence of
\* options the forwards have.
THEOREM GathersNeverStuck == Safe => []NeverStuck
<1>1. ASSUME ProgressInv PROVE NeverStuck
  <2> USE DEF ProgressInv, IInv
  <2> SUFFICES ASSUME \A p \in Ranks : ~CanMove(p) PROVE Completed BY DEF NeverStuck
  <2>1. PICK q \in Ranks :
            /\ commPc[q] # "prepare"
            /\ \A r \in Ranks : Prepared(r) = Prepared(q) /\ Done(r, "flags") = Prepared(q)
    BY <1>1, AllAlike
  <2>2. Prepared(q) \in Nat BY <1>1, RankFacts
  <2>3. \A r \in Ranks : commPc[r] \in {"idle", "prepare"} BY <1>1, <2>1, <2>2, NoTransfer
  <2>4. \A r \in Ranks : compPc[r] \in {"input", "wait"}
    <3> TAKE r \in Ranks
    <3>1. compPc[r] # "gemm" BY <1>1, <2>1, <2>2, <2>3, GemmIsServed
    <3> QED BY <1>1, <3>1 DEF TypeOK
  <2>5. ASSUME NEW r \in Ranks, commPc[r] = "idle"
        PROVE  compFwd[r] = MaxForwards /\ commFwd[r] = MaxForwards
    <3>1. /\ compFwd[r] \in Nat /\ commFwd[r] \in Nat /\ MaxForwards \in Nat
          /\ compFwd[r] <= MaxForwards /\ commFwd[r] <= MaxForwards
          /\ Begun(r) = commFwd[r] /\ Prepared(r) = commFwd[r]
      BY <1>1, <2>5, RankFacts
    <3>2. CASE compPc[r] = "input"
      <4>1. compFwd[r] = MaxForwards BY <3>1, <3>2 DEF CanMove, MayProduce
      <4>2. compFwd[r] <= Prepared(r) BY <1>1 DEF StreamsInOrder
      <4> QED BY <3>1, <4>1, <4>2
    <3>3. CASE compPc[r] = "wait"
      <4>1. compFwd[r] = commFwd[r] BY <1>1, <2>5, <3>3, WaitIsServed
      <4>2. compFwd[r] < MaxForwards BY <1>1, <3>3 DEF StreamsInOrder
      <4>3. ReadyEvent(r) = compFwd[r] + 1 BY <3>3 DEF ReadyEvent
      <4>4. CommMayStart(r) BY <3>1, <4>1, <4>3 DEF CommMayStart
      <4>5. MayPrepare(r) BY <2>5, <3>1, <4>1, <4>2, <4>4 DEF MayPrepare
      <4> QED BY <4>5 DEF CanMove
    <3> QED BY <2>4, <3>2, <3>3
  <2>6. Prepared(q) = MaxForwards
    <3>1. commPc[q] = "idle" BY <2>1, <2>3
    <3> QED BY <1>1, <2>5, <3>1, RankFacts
  <2>7. \A r \in Ranks : commPc[r] = "idle"
    <3> SUFFICES ASSUME NEW r \in Ranks, commPc[r] = "prepare" PROVE FALSE BY <2>3
    <3>1. commFwd[r] = MaxForwards BY <1>1, <2>1, <2>6, RankFacts
    <3>2. commFwd[r] < MaxForwards BY <1>1 DEF StreamsInOrder
    <3> QED BY <1>1, <3>1, <3>2, RankFacts
  <2> QED BY <2>5, <2>7 DEF Completed
<1> QED BY <1>1, ProgressAlways, PTL
=============================================================================
