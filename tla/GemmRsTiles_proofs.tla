-------------------------- MODULE GemmRsTiles_proofs --------------------------
(***************************************************************************)
(* The safety properties of GemmRsTiles, for every number of nodes, GPUs,  *)
(* tiles, CTAs, SMs and forwards: TypeOK, FlagsDrained, SumsCurrent and    *)
(* the refinement of NodeReduce.                                           *)
(*                                                                         *)
(* FlagInv says where the roles of a CTA are and what the flags are then:  *)
(* the first flag of a tile is the number of times it has been stored less *)
(* the number of times it has been fetched, the second one counts the      *)
(* partials in a sum.  DataInv says that what a role is about to read is   *)
(* of the forward its rank is in.                                          *)
(***************************************************************************)
EXTENDS GemmRsTiles, FiniteSetTheorems, TLAPS

-----------------------------------------------------------------------------
(* The hypotheses.  Without either one TLC finds a counterexample to what is*)
(* proved under it.                                                        *)

\* The flags of a new barrier_buffer are 0.
ZeroedFlags == FreshFlags \subseteq {0}

\* Something keeps forwards apart: a barrier, or an allocation in every forward.
KeptApart == Sync # "none" \/ 1..MaxForwards \subseteq GrowAt

-----------------------------------------------------------------------------
(* The invariants. *)

\* Tiles of all nodes for one local rank.
YCount == NNodes * TilesPerRank

\* Where in the order of rank r the tile y for local rank l comes: as which one of
\* all, in which CTA, as which one of that CTA.
XOf(r, l, y)     == SwizzleRank[l][r] * YCount + y
CtaFor(r, l, y)  == XOf(r, l, y) % Grid
TurnFor(r, l, y) == XOf(r, l, y) \div Grid

\* Forwards whose kernel r has launched, and whose kernel has ended on r.
Launched(r) == IF pc[r] = "idle" THEN fwd[r] ELSE fwd[r] + 1
Ended(r)    == IF pc[r] \in {"barrier", "sum"} THEN fwd[r] + 1 ELSE fwd[r]

\* The reduce warp follows the fetch warp, which waits for one tile ahead at most.
RolesInOrder ==
    \A r \in Locals, c \in Ctas :
        /\ added[r][c] <= read[r][c] /\ read[r][c] <= taken[r][c]
        /\ taken[r][c] <= read[r][c] + 1 /\ read[r][c] <= added[r][c] + 1
        /\ taken[r][c] <= CtaLength[c] /\ epi[r][c] <= CtaLength[c]
        /\ hold[r][c] => pc[r] = "gemm" /\ epi[r][c] < CtaLength[c]

\* Between kernels every CTA has done all its tiles, in all roles.
RolesAtRest ==
    \A r \in Locals, c \in Ctas : pc[r] # "gemm" =>
        LET n == IF Launched(r) = 0 THEN 0 ELSE CtaLength[c]
        IN  epi[r][c] = n /\ taken[r][c] = n /\ read[r][c] = n /\ added[r][c] = n

ForwardBound == \A r \in Locals : pc[r] # "idle" => fwd[r] < MaxForwards

\* TypeOK, with the bounds of the counts left to RolesInOrder.
Types ==
    /\ fwd \in [Locals -> Forwards]
    /\ pc \in [Locals -> {"idle", "gemm", "barrier", "sum"}]
    /\ dispatched \in [Locals -> 0..Grid]
    /\ epi \in [Locals -> [Ctas -> Nat]] /\ taken \in [Locals -> [Ctas -> Nat]]
    /\ read \in [Locals -> [Ctas -> Nat]] /\ added \in [Locals -> [Ctas -> Nat]]
    /\ hold \in [Locals -> [Ctas -> BOOLEAN]]
    /\ smem \in [Locals -> [Ctas -> Forwards]]
    /\ output \in [Locals -> [Locals -> [Ys -> Forwards]]]
    /\ stored \in [Locals -> [Locals -> [Ys -> {0, 1}]]]
    /\ reduced \in [Locals -> [Ys -> 0..(NLocal - 1)]]
    /\ buffer \in [Locals -> [Ys -> [Locals -> Forwards]]]
    /\ wrong \in [Locals -> BOOLEAN]

IInv == Types /\ RolesInOrder /\ RolesAtRest /\ ForwardBound

\* How often, counted from one forward before the first, rank s has raised the flag
\* of its tile y for l, and l has taken that flag; what l has added to its sum of y.
Raised(s, l, y)  == epi[s][CtaFor(s, l, y)] > TurnFor(s, l, y)
Fetched(l, s, y) == taken[l][CtaFor(l, s, y)] > TurnFor(l, s, y)
Summed(r, s, y)  == added[r][CtaFor(r, s, y)] > TurnFor(r, s, y)
Raises(s, l, y)  == Launched(s) + (IF Raised(s, l, y) THEN 1 ELSE 0)
Takes(l, s, y)   == Launched(l) + (IF Fetched(l, s, y) THEN 1 ELSE 0)
Partials(r, y)   == {s \in Locals : Summed(r, s, y)}

\* A first flag is up exactly between its raise and its fetch.
FlagsCountTiles ==
    \A s, l \in Locals, y \in Ys : stored[s][l][y] = Raises(s, l, y) - Takes(l, s, y)

\* A second flag counts the partials in the sum, and goes back to 0 with the last.
CountsOf(n) == IF n = NLocal THEN 0 ELSE n
SumsAreCounted ==
    \A r \in Locals, y \in Ys :
        reduced[r][y] = IF Fuse THEN CountsOf(Cardinality(Partials(r, y))) ELSE 0

FlagInv == IInv /\ FlagsCountTiles /\ SumsAreCounted

\* With FuseReduction no partial comes before the own one, which initializes the sum.
OwnPartialFirst ==
    Fuse => \A r, s \in Locals, y \in Ys : Summed(r, s, y) => Summed(r, r, y)

\* No rank launches a kernel before every rank has ended the one before; with the
\* group barrier, no rank passes it before.
KernelsApart == \A r, q \in Locals : Launched(q) <= Ended(r) + 1
BarrierHolds ==
    Sync = "group_barrier" => \A r, q \in Locals :
        /\ fwd[q] <= Ended(r)
        /\ pc[q] = "sum" => fwd[q] + 1 <= Ended(r)

\* The tile that CTA c of rank r is about to signal, or has signalled, is of the
\* forward of r; so are what its fetch warp has read and what is in a sum.
Written(s, l, y) ==
    \/ Raised(s, l, y)
    \/ LET c == CtaFor(s, l, y) IN hold[s][c] /\ epi[s][c] = TurnFor(s, l, y)
TilesHold ==
    \A s, l \in Locals, y \in Ys : Written(s, l, y) => output[s][l][y] = Launched(s)
FetchesHold ==
    \A r \in Locals, c \in Ctas : added[r][c] < read[r][c] => smem[r][c] = Launched(r)
SumsHold ==
    \A r, s \in Locals, y \in Ys : Summed(r, s, y) => buffer[r][y][s] = Launched(r)

DataInv ==
    /\ OwnPartialFirst /\ KernelsApart /\ BarrierHolds
    /\ TilesHold /\ FetchesHold /\ SumsHold /\ SumsCurrent

-----------------------------------------------------------------------------
(* Arithmetic of tiles and CTAs. *)

LEMMA Consts ==
    /\ NNodes \in Nat \ {0} /\ TilesPerRank \in Nat \ {0} /\ YCount \in Nat \ {0}
    /\ NLocal \in Nat \ {0} /\ NLocal <= 8 /\ Grid \in Nat \ {0} /\ MaxForwards \in Nat
    /\ NLocal * NNodes * TilesPerRank = NLocal * YCount /\ NLocal * YCount \in Nat
    /\ Grid <= NLocal * YCount
    /\ 0 \in Locals /\ Ys = 0..(YCount - 1)
<1>1. NNodes \in Nat \ {0} /\ TilesPerRank \in Nat \ {0} /\ NLocal \in Nat \ {0}
      /\ NLocal <= 8 /\ MaxForwards \in Nat
  BY TilesAssumption
<1>2. YCount \in Nat \ {0} BY <1>1 DEF YCount
<1>3. NLocal * NNodes * TilesPerRank = NLocal * YCount /\ NLocal * YCount \in Nat
  BY <1>1, <1>2 DEF YCount
<1>4. Grid \in 1..(NLocal * NNodes * TilesPerRank) BY TilesAssumption
<1> QED BY <1>1, <1>2, <1>3, <1>4 DEF Locals, Ys, YCount

LEMMA MulMono == ASSUME NEW x \in Int, NEW y \in Int, NEW k \in Nat, x <= y
                 PROVE  x * k <= y * k /\ x * k \in Int /\ y * k \in Int
<1>1. (y - x) * k >= 0 /\ (y - x) * k = y * k - x * k OBVIOUS
<1> QED BY <1>1

LEMMA DivMod == ASSUME NEW a \in Int, NEW k \in Nat \ {0}
                PROVE  /\ a \div k \in Int /\ a % k \in 0..(k - 1)
                       /\ a = (a \div k) * k + (a % k)
  OBVIOUS

LEMMA DivUnique == ASSUME NEW q \in Int, NEW s \in Int, NEW k \in Nat \ {0}, 0 <= s, s < k
                   PROVE  (q * k + s) \div k = q /\ (q * k + s) % k = s
<1> DEFINE a == q * k + s
           d == a \div k
           m == a % k
<1>1. a \in Int OBVIOUS
<1>2. d \in Int /\ m \in 0..(k - 1) /\ a = d * k + m
  <2> HIDE DEF a
  <2> QED BY <1>1, DivMod
<1>3. q * k \in Int /\ d * k \in Int /\ q * k + s = d * k + m BY <1>2
<1> HIDE DEF d, m
<1>4. ~(d >= q + 1)
  <2> SUFFICES ASSUME d >= q + 1 PROVE FALSE OBVIOUS
  <2>1. (q + 1) * k <= d * k BY <1>2, MulMono
  <2>2. (q + 1) * k = q * k + k OBVIOUS
  <2> QED BY <2>1, <2>2, <1>2, <1>3
<1>5. ~(d <= q - 1)
  <2> SUFFICES ASSUME d <= q - 1 PROVE FALSE OBVIOUS
  <2>1. d * k <= (q - 1) * k BY <1>2, MulMono
  <2>2. (q - 1) * k = q * k - k OBVIOUS
  <2> QED BY <2>1, <2>2, <1>2, <1>3
<1>6. d = q BY <1>4, <1>5, <1>2
<1>7. m = s BY <1>6, <1>3, <1>2
<1> QED BY <1>6, <1>7 DEF d, m

\* i is at most the quotient if k goes i times into a.
LEMMA DivBounds == ASSUME NEW a \in Int, NEW k \in Nat \ {0}, NEW i \in Int
                   PROVE  i <= a \div k <=> i * k <= a
<1> DEFINE d == a \div k
           m == a % k
<1>1. d \in Int /\ m \in 0..(k - 1) /\ a = d * k + m BY DivMod
<1> HIDE DEF d, m
<1>2. i <= d => i * k <= d * k BY <1>1, MulMono
<1>3. i > d => (d + 1) * k <= i * k /\ (d + 1) * k = d * k + k BY <1>1, MulMono
<1>4. i * k \in Int /\ d * k \in Int BY <1>1
<1> QED BY <1>1, <1>2, <1>3, <1>4 DEF d

\* Flipping the bits of a rank gives a rank of the node, and twice gives it back.
LEMMA SwizzleInNode == ASSUME NEW a \in Locals, NEW b \in Locals
                       PROVE  SwizzleRank[a][b] \in Locals
<1>1. a \in 0..7 /\ b \in 0..7 BY Consts DEF Locals
<1>2. CASE NLocal = 8 BY <1>1, <1>2 DEF SwizzleRank, Bit, Locals
<1>3. CASE NLocal = 4 BY <1>1, <1>3 DEF SwizzleRank, Bit, Locals
<1>4. CASE NLocal = 2 BY <1>1, <1>4 DEF SwizzleRank, Bit, Locals
<1>5. CASE NLocal = 1 BY <1>1, <1>5 DEF SwizzleRank, Bit, Locals
<1> QED BY <1>2, <1>3, <1>4, <1>5, TilesAssumption

LEMMA SwizzleTwice == ASSUME NEW a \in Locals, NEW b \in Locals
                      PROVE  SwizzleRank[SwizzleRank[a][b]][b] = a
<1> DEFINE flip(u, v, i) == (Bit(u, i) + Bit(v, i)) % 2
           swz(u, v) == flip(u, v, 0) + (2 * flip(u, v, 1)) + (4 * flip(u, v, 2))
<1>1. a \in 0..7 /\ b \in 0..7 BY Consts DEF Locals
<1>2. \A u, v \in 0..7 : SwizzleRank[u][v] = swz(u, v) BY DEF SwizzleRank
<1>3. \A x \in 0..7 : Bit(x, 0) \in 0..1 /\ Bit(x, 1) \in 0..1 /\ Bit(x, 2) \in 0..1
  BY DEF Bit
<1> DEFINE w == swz(a, b)
<1>4. w \in 0..7 BY <1>1, <1>3
<1>5. Bit(w, 0) = flip(a, b, 0) /\ Bit(w, 1) = flip(a, b, 1) /\ Bit(w, 2) = flip(a, b, 2)
  <2> DEFINE p == flip(a, b, 0)
             q == flip(a, b, 1)
             t == flip(a, b, 2)
  <2>1. p \in 0..1 /\ q \in 0..1 /\ t \in 0..1 BY <1>1, <1>3
  <2>2. w = p + (2 * q) + (4 * t) OBVIOUS
  <2> HIDE DEF p, q, t, w
  <2>3. Bit(w, 0) = p /\ Bit(w, 1) = q /\ Bit(w, 2) = t BY <2>1, <2>2 DEF Bit
  <2> QED BY <2>3 DEF p, q, t
<1>6. swz(w, b) = a
  <2>1. \A i \in 0..2 : Bit(a, i) \in 0..1 /\ Bit(b, i) \in 0..1 BY <1>1, <1>3
  <2>2. \A i \in 0..2 : Bit(w, i) = flip(a, b, i) BY <1>5
  <2>3. a = Bit(a, 0) + (2 * Bit(a, 1)) + (4 * Bit(a, 2)) BY <1>1 DEF Bit
  <2> HIDE DEF w
  <2>4. \A i \in 0..2 : flip(w, b, i) = Bit(a, i) BY <2>1, <2>2
  <2> QED BY <2>3, <2>4
<1>7. SwizzleRank[a][b] = w /\ SwizzleRank[w][b] = swz(w, b) BY <1>1, <1>2, <1>4
<1> QED BY <1>6, <1>7

\* The order of a rank covers the tiles: what comes at place x is a tile whose place is x,
LEMMA PlaceOfWork ==
    ASSUME NEW r \in Locals, NEW x \in Work
    PROVE  /\ LocalOf[r][x] \in Locals /\ YOf(x) \in Ys
           /\ XOf(r, LocalOf[r][x], YOf(x)) = x
<1> DEFINE q == x \div YCount
           y == x % YCount
<1>1. x \in Nat /\ x < NLocal * YCount BY Consts DEF Work
<1>2. q \in Int /\ y \in 0..(YCount - 1) /\ x = q * YCount + y BY <1>1, Consts, DivMod
<1>3. LocalOf[r][x] = SwizzleRank[q][r] /\ YOf(x) = y BY DEF LocalOf, YOf, YCount
<1> HIDE DEF q, y
<1>4. q >= 0
  <2>1. q <= -1 => q * YCount <= (-1) * YCount /\ (-1) * YCount = -YCount
    BY <1>2, Consts, MulMono
  <2>2. q * YCount \in Int BY <1>2, Consts
  <2> QED BY <2>1, <2>2, <1>1, <1>2, Consts
<1>5. q < NLocal
  <2>1. q >= NLocal => NLocal * YCount <= q * YCount BY <1>2, Consts, MulMono
  <2>2. q * YCount \in Int BY <1>2, Consts
  <2> QED BY <2>1, <2>2, <1>1, <1>2, Consts
<1>6. q \in Locals BY <1>2, <1>4, <1>5, Consts DEF Locals
<1>7. SwizzleRank[q][r] \in Locals /\ SwizzleRank[SwizzleRank[q][r]][r] = q
  BY <1>6, SwizzleInNode, SwizzleTwice
<1> QED BY <1>2, <1>3, <1>7, Consts DEF XOf

\* and every tile has a place.
LEMMA WorkOfPlace ==
    ASSUME NEW r \in Locals, NEW l \in Locals, NEW y \in Ys
    PROVE  /\ XOf(r, l, y) \in Work
           /\ LocalOf[r][XOf(r, l, y)] = l /\ YOf(XOf(r, l, y)) = y
<1> DEFINE q == SwizzleRank[l][r]
           x == q * YCount + y
<1>1. q \in Locals /\ SwizzleRank[q][r] = l BY SwizzleInNode, SwizzleTwice
<1>2. XOf(r, l, y) = x BY DEF XOf
<1> HIDE DEF q
<1>3. q \in Int /\ 0 <= q /\ q <= NLocal - 1 /\ y \in Int /\ 0 <= y /\ y < YCount
  BY <1>1, Consts DEF Locals
<1>4. x \div YCount = q /\ x % YCount = y BY <1>3, Consts, DivUnique
<1>5. x \in Work
  <2>1. 0 * YCount <= q * YCount /\ q * YCount <= (NLocal - 1) * YCount
    BY <1>3, Consts, MulMono
  <2>2. (NLocal - 1) * YCount = NLocal * YCount - YCount /\ q * YCount \in Int
    BY <1>3, Consts
  <2> QED BY <2>1, <2>2, <1>3, Consts DEF Work
<1>6. LocalOf[r][x] = SwizzleRank[x \div YCount][r] /\ YOf(x) = x % YCount
  BY <1>5 DEF LocalOf, YOf, YCount
<1> QED BY <1>1, <1>2, <1>4, <1>5, <1>6

\* The CTAs share out the work.
LEMMA LengthFacts ==
    ASSUME NEW c \in Ctas
    PROVE  /\ CtaLength[c] \in 1..(NLocal * NNodes * TilesPerRank)
           /\ \A i \in Nat : i < CtaLength[c] <=> TileAt(c, i) \in Work
<1> DEFINE w == NLocal * YCount
           n == (w - c + Grid - 1) \div Grid
<1>1. c \in Int /\ 0 <= c /\ c <= Grid - 1 BY Consts DEF Ctas
<1>2. CtaLength[c] = n BY Consts DEF CtaLength
<1>3. \A i \in Int : i <= n <=> i * Grid <= w - c + Grid - 1
  <2> TAKE i \in Int
  <2>1. w - c + Grid - 1 \in Int BY <1>1, Consts
  <2> QED BY <2>1, Consts, DivBounds
<1>4. n \in Int BY <1>1, Consts, DivMod
<1>w. w \in Nat /\ Grid <= w BY Consts
<1> HIDE DEF n, w
<1>5. 1 <= n
  <2>1. 1 * Grid = Grid BY Consts
  <2> QED BY <2>1, <1>1, <1>3, <1>w, Consts
<1>6. n <= w
  <2> SUFFICES ASSUME w + 1 <= n PROVE FALSE BY <1>4, <1>w
  <2>1. (w + 1) * Grid <= w - c + Grid - 1 BY <1>3, <1>w
  <2>2. (w + 1) * Grid = w * Grid + Grid BY <1>w, Consts
  <2>3. w * 1 <= w * Grid
    <3>1. 1 * w <= Grid * w BY Consts, <1>w, MulMono
    <3>2. Grid * w = w * Grid /\ 1 * w = w * 1 BY Consts, <1>w
    <3> QED BY <3>1, <3>2
  <2>4. w * Grid \in Int BY <1>w, Consts
  <2> QED BY <2>1, <2>2, <2>3, <2>4, <1>1, <1>w, Consts
<1>7. ASSUME NEW i \in Nat PROVE i < n <=> TileAt(c, i) \in Work
  <2>1. i + 1 <= n <=> (i + 1) * Grid <= w - c + Grid - 1 BY <1>3
  <2>2. (i + 1) * Grid = i * Grid + Grid /\ i * Grid \in Nat BY Consts
  <2>3. TileAt(c, i) = c + i * Grid BY DEF TileAt
  <2>4. Work = 0..(w - 1) BY Consts DEF Work, w
  <2> QED BY <2>1, <2>2, <2>3, <2>4, <1>1, <1>4, <1>w, Consts
<1>8. w = NLocal * NNodes * TilesPerRank BY Consts DEF w
<1> QED BY <1>2, <1>4, <1>5, <1>6, <1>7, <1>8

\* The i-th tile of CTA c is a tile, whose CTA is c and whose turn is i,
LEMMA TileOfTurn ==
    ASSUME NEW r \in Locals, NEW c \in Ctas, NEW i \in Nat, i < CtaLength[c]
    PROVE  LET x == TileAt(c, i)
               l == LocalOf[r][x]
               y == YOf(x)
           IN  /\ x \in Work /\ l \in Locals /\ y \in Ys
               /\ CtaFor(r, l, y) = c /\ TurnFor(r, l, y) = i
<1> DEFINE x == TileAt(c, i)
<1>1. x \in Work BY LengthFacts
<1>2. XOf(r, LocalOf[r][x], YOf(x)) = x BY <1>1, PlaceOfWork
<1>3. x % Grid = c /\ x \div Grid = i
  <2>1. c \in Int /\ 0 <= c /\ c < Grid BY Consts DEF Ctas
  <2>2. (i * Grid + c) % Grid = c /\ (i * Grid + c) \div Grid = i
    <3>1. i \in Int /\ Grid \in Nat \ {0} BY Consts
    <3> HIDE DEF x
    <3> QED BY ONLY <2>1, <3>1, DivUnique
  <2>3. x = i * Grid + c BY <2>1, Consts DEF TileAt
  <2> QED BY <2>2, <2>3
<1>4. LocalOf[r][x] \in Locals /\ YOf(x) \in Ys BY <1>1, PlaceOfWork
<1> QED BY <1>1, <1>2, <1>3, <1>4 DEF CtaFor, TurnFor

\* and every tile is one of these.
LEMMA TurnOfTile ==
    ASSUME NEW r \in Locals, NEW l \in Locals, NEW y \in Ys
    PROVE  LET c == CtaFor(r, l, y)
               i == TurnFor(r, l, y)
           IN  /\ c \in Ctas /\ i \in Nat /\ i < CtaLength[c]
               /\ LocalOf[r][TileAt(c, i)] = l /\ YOf(TileAt(c, i)) = y
<1> DEFINE x == XOf(r, l, y)
           c == x % Grid
           i == x \div Grid
<1>1. x \in Work /\ LocalOf[r][x] = l /\ YOf(x) = y BY WorkOfPlace
<1>2. x \in Nat BY <1>1, Consts DEF Work
<1> HIDE DEF x
<1>3. i \in Int /\ c \in 0..(Grid - 1) /\ x = i * Grid + c BY <1>2, Consts, DivMod
<1>4. i >= 0
  <2> HIDE DEF i, c
  <2>1. i <= -1 => i * Grid <= (-1) * Grid /\ (-1) * Grid = -Grid
    BY <1>3, Consts, MulMono
  <2>2. i * Grid \in Int BY <1>3, Consts
  <2> QED BY <2>1, <2>2, <1>2, <1>3, Consts
<1>5. c \in Ctas /\ i \in Nat BY <1>3, <1>4 DEF Ctas
<1>6. TileAt(c, i) = x
  <2> HIDE DEF i, c
  <2> QED BY <1>3, <1>5, Consts DEF TileAt
<1>7. i < CtaLength[c] BY <1>1, <1>5, <1>6, LengthFacts
<1> QED BY <1>1, <1>5, <1>6, <1>7 DEF CtaFor, TurnFor, x

-----------------------------------------------------------------------------
(* Types and control. *)

LEMMA Ranges ==
    ASSUME IInv, NEW r \in Locals
    PROVE  /\ fwd[r] \in 0..MaxForwards /\ fwd[r] + 1 \in Int
           /\ pc[r] # "idle" => fwd[r] + 1 \in Forwards
           /\ Launched(r) \in Forwards /\ Ended(r) \in Forwards
           /\ Launched(r) \in Nat /\ Ended(r) \in Nat
           /\ Ended(r) <= Launched(r) /\ Launched(r) <= Ended(r) + 1
           /\ pc[r] = "gemm" => Launched(r) = Ended(r) + 1
           /\ pc[r] # "gemm" => Launched(r) = Ended(r)
<1>1. fwd[r] \in 0..MaxForwards /\ pc[r] \in {"idle", "gemm", "barrier", "sum"}
      /\ MaxForwards \in Nat
  BY Consts DEF IInv, Types, Forwards
<1>2. pc[r] # "idle" => fwd[r] < MaxForwards BY DEF IInv, ForwardBound
<1>3. Forwards = 0..MaxForwards BY DEF Forwards
<1>4. /\ Launched(r) = IF pc[r] = "idle" THEN fwd[r] ELSE fwd[r] + 1
      /\ Ended(r) = IF pc[r] \in {"barrier", "sum"} THEN fwd[r] + 1 ELSE fwd[r]
  BY DEF Launched, Ended
<1>5. CASE pc[r] = "idle" BY <1>1, <1>3, <1>4, <1>5
<1>6. CASE pc[r] = "gemm" BY <1>1, <1>2, <1>3, <1>4, <1>6
<1>7. CASE pc[r] \in {"barrier", "sum"} BY <1>1, <1>2, <1>3, <1>4, <1>7
<1> QED BY <1>1, <1>5, <1>6, <1>7

LEMMA Lengths == \A c \in Ctas : CtaLength[c] \in Nat \ {0}
  BY LengthFacts, Consts

LEMMA ZeroFlagValues == ZeroedFlags => /\ FreshFlags \subseteq {0}
                                       /\ 0 \in 0..(NLocal - 1) /\ 0 \in {0, 1}
  BY Consts DEF ZeroedFlags

LEMMA TypesImplyTypeOK == IInv => TypeOK
<1> SUFFICES ASSUME IInv PROVE TypeOK OBVIOUS
<1> DEFINE W == NLocal * NNodes * TilesPerRank
<1>1. ASSUME NEW f \in [Locals -> [Ctas -> Nat]],
             \A r \in Locals, c \in Ctas : f[r][c] <= CtaLength[c]
      PROVE  f \in [Locals -> [Ctas -> 0..W]]
  <2>1. \A c \in Ctas : CtaLength[c] \in 0..W BY LengthFacts, Consts
  <2>2. W \in Nat BY Consts
  <2> HIDE DEF W
  <2>3. \A r \in Locals, c \in Ctas : f[r][c] \in 0..W BY <1>1, <2>1, <2>2
  <2> QED BY <1>1, <2>3
<1>2. \A r \in Locals, c \in Ctas :
          /\ epi[r][c] <= CtaLength[c] /\ taken[r][c] <= CtaLength[c]
          /\ read[r][c] <= CtaLength[c] /\ added[r][c] <= CtaLength[c]
  BY Lengths DEF IInv, Types, RolesInOrder
<1>3. \A f \in {epi, taken, read, added} : f \in [Locals -> [Ctas -> 0..W]]
  BY <1>1, <1>2 DEF IInv, Types
<1>4. stored \in [Locals -> [Locals -> [Ys -> FreshFlags \cup {0, 1}]]]
  BY DEF IInv, Types
<1>5. reduced \in [Locals -> [Ys -> FreshFlags \cup 0..(NLocal - 1)]]
  BY DEF IInv, Types
<1> HIDE DEF W
<1>6. \A f \in {epi, taken, read, added} :
          f \in [Locals -> [Ctas -> 0..(NLocal * NNodes * TilesPerRank)]]
  BY ONLY <1>3 DEF W
<1> QED BY <1>4, <1>5, <1>6 DEF TypeOK, IInv, Types

LEMMA InitIInv == Init => IInv
<1> SUFFICES ASSUME Init PROVE IInv OBVIOUS
<1>1. Types
  BY Consts DEF Init, Types, Zeros, Forwards
<1>2. RolesInOrder BY Lengths DEF Init, RolesInOrder, Zeros
<1>3. RolesAtRest BY Consts DEF Init, RolesAtRest, Zeros, Launched
<1>4. ForwardBound BY DEF Init, ForwardBound
<1> QED BY <1>1, <1>2, <1>3, <1>4 DEF IInv

\* A launch puts the roles of every CTA to their start.
LEMMA LaunchIInv ==
    ASSUME IInv, NEW S \in SUBSET Locals, Launch(S),
           \A r \in S : pc[r] = "idle" /\ fwd[r] < MaxForwards,
           stored' \in [Locals -> [Locals -> [Ys -> {0, 1}]]],
           reduced' \in [Locals -> [Ys -> 0..(NLocal - 1)]]
    PROVE  IInv'
<1>1. Types'
  <2>1. FirstCtas \in 0..Grid BY Consts, TilesAssumption DEF FirstCtas
  <2>2. Zeros \in [Ctas -> Nat] /\ Zeros \in [Ctas -> Forwards]
    BY Consts DEF Zeros, Forwards
  <2> QED BY <2>1, <2>2 DEF Launch, IInv, Types
<1>2. \A r \in Locals :
         IF r \in S
         THEN /\ pc'[r] = "gemm" /\ epi'[r] = Zeros /\ taken'[r] = Zeros
              /\ read'[r] = Zeros /\ added'[r] = Zeros
         ELSE /\ pc'[r] = pc[r] /\ epi'[r] = epi[r] /\ taken'[r] = taken[r]
              /\ read'[r] = read[r] /\ added'[r] = added[r]
  BY DEF Launch
<1>3. fwd' = fwd /\ hold' = hold BY DEF Launch
<1>4. \A c \in Ctas : Zeros[c] = 0 BY DEF Zeros
<1>5. RolesInOrder'
  <2> SUFFICES ASSUME NEW r \in Locals, NEW c \in Ctas
               PROVE  RolesInOrder!(r, c)'
    BY DEF RolesInOrder
  <2>1. CASE r \in S
    <3>1. epi'[r][c] = 0 /\ taken'[r][c] = 0 /\ read'[r][c] = 0 /\ added'[r][c] = 0
          /\ pc'[r] = "gemm"
      BY <1>2, <1>4, <2>1
    <3>2. CtaLength[c] \in Nat \ {0} BY Lengths
    <3>3. hold'[r][c] \in BOOLEAN BY <1>1 DEF Types
    <3> QED BY <3>1, <3>2, <3>3
  <2>2. CASE r \notin S
    <3>1. epi'[r] = epi[r] /\ taken'[r] = taken[r] /\ read'[r] = read[r]
          /\ added'[r] = added[r] /\ pc'[r] = pc[r] /\ hold' = hold
      BY <1>2, <1>3, <2>2
    <3> QED BY <3>1 DEF IInv, RolesInOrder
  <2> QED BY <2>1, <2>2
<1>6. RolesAtRest'
  <2> SUFFICES ASSUME NEW r \in Locals, NEW c \in Ctas
               PROVE  RolesAtRest!(r, c)'
    BY DEF RolesAtRest
  <2>1. CASE r \in S BY <1>2, <2>1
  <2>2. CASE r \notin S
    <3>1. epi'[r] = epi[r] /\ taken'[r] = taken[r] /\ read'[r] = read[r]
          /\ added'[r] = added[r] /\ pc'[r] = pc[r] /\ fwd'[r] = fwd[r]
      BY <1>2, <1>3, <2>2
    <3>2. Launched(r)' = Launched(r) BY <3>1 DEF Launched
    <3> QED BY <3>1, <3>2 DEF IInv, RolesAtRest
  <2> QED BY <2>1, <2>2
<1>7. ForwardBound'
  BY <1>2, <1>3 DEF IInv, ForwardBound
<1> QED BY <1>1, <1>5, <1>6, <1>7 DEF IInv

\* The other steps of a stream leave the roles alone.
LEMMA StreamIInv ==
    ASSUME IInv, NEW r \in Locals,
           DispatchCta(r) \/ KernelEnd(r) \/ GroupBarrier(r) \/ ReturnSum(r)
    PROVE  IInv'
<1>0. epi' = epi /\ taken' = taken /\ read' = read /\ added' = added /\ hold' = hold
  BY DEF DispatchCta, KernelEnd, GroupBarrier, ReturnSum
<1>1. CASE DispatchCta(r)
  <2>1. Types'
    <3>1. dispatched[r] \in 0..Grid /\ dispatched[r] < Grid /\ Grid \in Nat
      BY <1>1, Consts DEF DispatchCta, IInv, Types
    <3>2. dispatched' \in [Locals -> 0..Grid]
      BY <1>1, <3>1 DEF DispatchCta, IInv, Types
    <3> QED BY <1>1, <3>2 DEF DispatchCta, IInv, Types, stream, flags
  <2> QED BY <1>0, <1>1, <2>1 DEF DispatchCta, IInv, RolesInOrder, RolesAtRest,
             ForwardBound, Launched, stream
<1>2. CASE KernelEnd(r)
  <2>1. Types' BY <1>2 DEF KernelEnd, IInv, Types, flags
  <2>2. fwd' = fwd /\ pc[r] = "gemm" /\ pc'[r] \in {"barrier", "sum"}
        /\ \A q \in Locals \ {r} : pc'[q] = pc[q]
    BY <1>2 DEF KernelEnd, IInv, Types
  <2>3. \A c \in Ctas : epi[r][c] = CtaLength[c] /\ added[r][c] = CtaLength[c]
    BY <1>2 DEF KernelEnd, Finished
  <2>4. \A c \in Ctas : read[r][c] = CtaLength[c] /\ taken[r][c] = CtaLength[c]
    <3> TAKE c \in Ctas
    <3>1. read[r][c] \in Nat /\ taken[r][c] \in Nat /\ CtaLength[c] \in Nat
      BY Lengths DEF IInv, Types
    <3>2. added[r][c] <= read[r][c] /\ read[r][c] <= taken[r][c]
          /\ taken[r][c] <= CtaLength[c]
      BY DEF IInv, RolesInOrder
    <3> QED BY <2>3, <3>1, <3>2
  <2>5. RolesInOrder'
    <3>1. \A c \in Ctas : ~hold[r][c]
      BY <2>3, Lengths DEF IInv, Types, RolesInOrder
    <3> QED BY <1>0, <2>2, <3>1 DEF IInv, RolesInOrder
  <2>6. RolesAtRest'
    <3>0. fwd[r] \in 0..MaxForwards BY Ranges
    <3>1. Launched(r)' = fwd[r] + 1 /\ fwd[r] + 1 # 0
      BY <2>2, <3>0 DEF Launched
    <3>2. \A q \in Locals \ {r} : Launched(q)' = Launched(q) BY <2>2 DEF Launched
    <3> QED BY <1>0, <2>2, <2>3, <2>4, <3>1, <3>2 DEF IInv, RolesAtRest
  <2>7. ForwardBound' BY <2>2 DEF IInv, ForwardBound
  <2> QED BY <2>1, <2>5, <2>6, <2>7 DEF IInv
<1>3. CASE GroupBarrier(r)
  <2>1. Types' BY <1>3 DEF GroupBarrier, IInv, Types, flags
  <2>2. fwd' = fwd /\ pc[r] = "barrier" /\ pc'[r] = "sum"
        /\ \A q \in Locals \ {r} : pc'[q] = pc[q]
    BY <1>3 DEF GroupBarrier, IInv, Types
  <2>3. \A q \in Locals : Launched(q)' = Launched(q) BY <2>2 DEF Launched
  <2>4. RolesInOrder' BY <1>0, <2>2 DEF IInv, RolesInOrder
  <2>5. RolesAtRest' BY <1>0, <2>2, <2>3 DEF IInv, RolesAtRest
  <2>6. ForwardBound' BY <2>2 DEF IInv, ForwardBound
  <2> QED BY <2>1, <2>4, <2>5, <2>6 DEF IInv
<1>4. CASE ReturnSum(r)
  <2>2. /\ pc[r] = "sum" /\ pc' = [pc EXCEPT ![r] = "idle"]
        /\ fwd' = [fwd EXCEPT ![r] = fwd[r] + 1] /\ fwd[r] + 1 \in Forwards
    BY <1>4, Ranges DEF ReturnSum
  <2>1. Types'
    <3>1. wrong' \in [Locals -> BOOLEAN] BY <1>4 DEF ReturnSum, IInv, Types
    <3>2. fwd' \in [Locals -> Forwards]
          /\ pc' \in [Locals -> {"idle", "gemm", "barrier", "sum"}]
      BY <2>2 DEF IInv, Types
    <3> QED BY <1>4, <3>1, <3>2 DEF ReturnSum, IInv, Types, flags
  <2>3. \A q \in Locals : Launched(q)' = Launched(q)
    BY <2>2 DEF Launched, IInv, Types
  <2>4. RolesInOrder' BY <1>0, <2>2 DEF IInv, Types, RolesInOrder
  <2>5. RolesAtRest' BY <1>0, <2>2, <2>3 DEF IInv, Types, RolesAtRest
  <2>6. ForwardBound' BY <2>2 DEF IInv, Types, ForwardBound
  <2> QED BY <2>1, <2>4, <2>5, <2>6 DEF IInv
<1> QED BY <1>1, <1>2, <1>3, <1>4

-----------------------------------------------------------------------------
(* The steps of the roles, with the tile they are about. *)

\* The tile of CTA c of rank r at its turn i is y for local rank l.
IsTile(r, c, i, l, y) ==
    /\ l \in Locals /\ y \in Ys
    /\ CtaFor(r, l, y) = c /\ TurnFor(r, l, y) = i

\* Tiles have different places.
LEMMA OneTile ==
    ASSUME NEW r \in Locals, NEW l \in Locals, NEW y \in Ys, NEW k \in Locals, NEW z \in Ys,
           CtaFor(r, l, y) = CtaFor(r, k, z), TurnFor(r, l, y) = TurnFor(r, k, z)
    PROVE  l = k /\ y = z
  BY TurnOfTile

LEMMA TileExists ==
    ASSUME NEW r \in Locals, NEW c \in Ctas, NEW i \in Nat, i < CtaLength[c]
    PROVE  IsTile(r, c, i, LocalOf[r][TileAt(c, i)], YOf(TileAt(c, i)))
  BY TileOfTurn DEF IsTile

StoreTile(r, c, l, y) ==
    /\ IsTile(r, c, epi[r][c], l, y)
    /\ pc[r] = "gemm" /\ epi[r][c] < CtaLength[c] /\ ~hold[r][c]
    /\ output' = [output EXCEPT ![r][l][y] = fwd[r] + 1]
    /\ hold' = [hold EXCEPT ![r][c] = TRUE]
    /\ fwd' = fwd /\ pc' = pc /\ wrong' = wrong /\ dispatched' = dispatched
    /\ epi' = epi /\ taken' = taken /\ read' = read /\ smem' = smem /\ added' = added
    /\ stored' = stored /\ reduced' = reduced /\ buffer' = buffer

SignalTile(r, c, l, y) ==
    /\ IsTile(r, c, epi[r][c], l, y)
    /\ pc[r] = "gemm" /\ epi[r][c] < CtaLength[c] /\ hold[r][c]
    /\ stored[r][l][y] = 0
    /\ stored' = [stored EXCEPT ![r][l][y] = 1]
    /\ epi' = [epi EXCEPT ![r][c] = epi[r][c] + 1]
    /\ hold' = [hold EXCEPT ![r][c] = FALSE]
    /\ fwd' = fwd /\ pc' = pc /\ wrong' = wrong /\ dispatched' = dispatched
    /\ taken' = taken /\ read' = read /\ smem' = smem /\ added' = added
    /\ output' = output /\ reduced' = reduced /\ buffer' = buffer

TakeTile(r, c, s, y) ==
    /\ IsTile(r, c, taken[r][c], s, y)
    /\ pc[r] = "gemm" /\ taken[r][c] < CtaLength[c] /\ taken[r][c] = read[r][c]
    /\ stored[s][r][y] = 1
    /\ stored' = [stored EXCEPT ![s][r][y] = 0]
    /\ taken' = [taken EXCEPT ![r][c] = taken[r][c] + 1]
    /\ fwd' = fwd /\ pc' = pc /\ wrong' = wrong /\ dispatched' = dispatched
    /\ epi' = epi /\ hold' = hold /\ read' = read /\ smem' = smem /\ added' = added
    /\ output' = output /\ reduced' = reduced /\ buffer' = buffer

ReadTile(r, c, s, y) ==
    /\ IsTile(r, c, read[r][c], s, y)
    /\ pc[r] = "gemm" /\ read[r][c] < taken[r][c] /\ read[r][c] = added[r][c]
    /\ smem' = [smem EXCEPT ![r][c] = output[s][r][y]]
    /\ read' = [read EXCEPT ![r][c] = read[r][c] + 1]
    /\ fwd' = fwd /\ pc' = pc /\ wrong' = wrong /\ dispatched' = dispatched
    /\ epi' = epi /\ hold' = hold /\ taken' = taken /\ added' = added
    /\ output' = output /\ stored' = stored /\ reduced' = reduced /\ buffer' = buffer

AddTile(r, c, s, y) ==
    /\ IsTile(r, c, added[r][c], s, y)
    /\ pc[r] = "gemm" /\ added[r][c] < read[r][c]
    /\ MayAdd(r, s, y)
    /\ buffer' = [buffer EXCEPT ![r][y] =
            IF Fuse /\ s = r THEN [p \in Locals |-> IF p = r THEN smem[r][c] ELSE 0]
                             ELSE [buffer[r][y] EXCEPT ![s] = smem[r][c]]]
    /\ reduced' = IF Fuse THEN [reduced EXCEPT ![r][y] = NextCount(reduced[r][y])]
                          ELSE reduced
    /\ added' = [added EXCEPT ![r][c] = added[r][c] + 1]
    /\ fwd' = fwd /\ pc' = pc /\ wrong' = wrong /\ dispatched' = dispatched
    /\ epi' = epi /\ hold' = hold /\ taken' = taken /\ read' = read /\ smem' = smem
    /\ output' = output /\ stored' = stored

LEMMA StoreFacts ==
    ASSUME IInv, NEW r \in Locals, NEW c \in Ctas, EpilogueStore(r, c)
    PROVE  \E l \in Locals, y \in Ys : StoreTile(r, c, l, y)
<1> DEFINE x == TileAt(c, epi[r][c])
           l == LocalOf[r][x]
           y == YOf(x)
<1>1. epi[r][c] \in Nat /\ epi[r][c] < CtaLength[c] BY DEF IInv, Types, EpilogueStore
<1>2. IsTile(r, c, epi[r][c], l, y) BY <1>1, TileExists
<1> HIDE DEF x
<1>3. StoreTile(r, c, l, y)
  BY <1>1, <1>2 DEF EpilogueStore, StoreTile, Runs, stream, flags, x
<1> QED BY <1>2, <1>3 DEF IsTile

LEMMA SignalFacts ==
    ASSUME IInv, NEW r \in Locals, NEW c \in Ctas, EpilogueSignal(r, c)
    PROVE  \E l \in Locals, y \in Ys : SignalTile(r, c, l, y)
<1> DEFINE x == TileAt(c, epi[r][c])
           l == LocalOf[r][x]
           y == YOf(x)
<1>1. epi[r][c] \in Nat /\ epi[r][c] < CtaLength[c]
  BY DEF IInv, Types, RolesInOrder, EpilogueSignal
<1>2. IsTile(r, c, epi[r][c], l, y) BY <1>1, TileExists
<1> HIDE DEF x
<1>3. SignalTile(r, c, l, y)
  BY <1>1, <1>2 DEF EpilogueSignal, SignalTile, Runs, stream, x
<1> QED BY <1>2, <1>3 DEF IsTile

LEMMA TakeFacts ==
    ASSUME IInv, NEW r \in Locals, NEW c \in Ctas, FetchWait(r, c)
    PROVE  \E s \in Locals, y \in Ys : TakeTile(r, c, s, y)
<1> DEFINE x == TileAt(c, taken[r][c])
           s == LocalOf[r][x]
           y == YOf(x)
<1>1. taken[r][c] \in Nat /\ taken[r][c] < CtaLength[c]
  BY DEF IInv, Types, FetchWait
<1>2. IsTile(r, c, taken[r][c], s, y) BY <1>1, TileExists
<1> HIDE DEF x
<1>3. TakeTile(r, c, s, y)
  BY <1>1, <1>2 DEF FetchWait, TakeTile, FlagTaken, Runs, stream, x
<1> QED BY <1>2, <1>3 DEF IsTile

LEMMA ReadFacts ==
    ASSUME IInv, NEW r \in Locals, NEW c \in Ctas, FetchRead(r, c)
    PROVE  \E s \in Locals, y \in Ys : ReadTile(r, c, s, y)
<1> DEFINE x == TileAt(c, read[r][c])
           s == LocalOf[r][x]
           y == YOf(x)
<1>1. /\ read[r][c] \in Nat /\ taken[r][c] \in Nat /\ CtaLength[c] \in Nat
      /\ read[r][c] < taken[r][c] /\ taken[r][c] <= CtaLength[c]
  BY Lengths DEF IInv, Types, RolesInOrder, FetchRead
<1>2. IsTile(r, c, read[r][c], s, y) BY <1>1, TileExists
<1> HIDE DEF x
<1>3. ReadTile(r, c, s, y)
  BY <1>1, <1>2 DEF FetchRead, ReadTile, Runs, stream, flags, x
<1> QED BY <1>2, <1>3 DEF IsTile

LEMMA AddFacts ==
    ASSUME IInv, NEW r \in Locals, NEW c \in Ctas, ReduceTile(r, c)
    PROVE  \E s \in Locals, y \in Ys : AddTile(r, c, s, y)
<1> DEFINE x == TileAt(c, added[r][c])
           s == LocalOf[r][x]
           y == YOf(x)
<1>1. /\ added[r][c] \in Nat /\ read[r][c] \in Nat /\ taken[r][c] \in Nat
      /\ CtaLength[c] \in Nat
      /\ added[r][c] < read[r][c] /\ read[r][c] <= taken[r][c]
      /\ taken[r][c] <= CtaLength[c]
  BY Lengths DEF IInv, Types, RolesInOrder, ReduceTile
<1>2. IsTile(r, c, added[r][c], s, y) BY <1>1, TileExists
<1> HIDE DEF x
<1>3. AddTile(r, c, s, y)
  BY <1>1, <1>2 DEF ReduceTile, AddTile, Runs, stream, x
<1> QED BY <1>2, <1>3 DEF IsTile

LEMMA NextCountRange ==
    ASSUME NEW n \in 0..(NLocal - 1)
    PROVE  NextCount(n) \in 0..(NLocal - 1)
  BY Consts DEF NextCount

LEMMA RoleIInv ==
    ASSUME IInv, NEW r \in Locals, NEW c \in Ctas, CtaStep(r, c)
    PROVE  IInv'
<1>0. /\ epi[r][c] \in Nat /\ taken[r][c] \in Nat /\ read[r][c] \in Nat
      /\ added[r][c] \in Nat /\ hold[r][c] \in BOOLEAN /\ CtaLength[c] \in Nat
      /\ fwd[r] + 1 \in Int
  BY Lengths, Ranges DEF IInv, Types
<1>1. CASE EpilogueStore(r, c)
  <2>1. PICK l \in Locals, y \in Ys : StoreTile(r, c, l, y) BY <1>1, StoreFacts
  <2>2. Types'
    <3>1. fwd[r] + 1 \in Forwards BY <2>1, Ranges DEF StoreTile
    <3> QED BY <2>1, <3>1 DEF StoreTile, IInv, Types
  <2>3. RolesInOrder' BY <2>1 DEF StoreTile, IInv, Types, RolesInOrder
  <2>4. RolesAtRest' BY <2>1 DEF StoreTile, IInv, RolesAtRest, Launched
  <2>5. ForwardBound' BY <2>1 DEF StoreTile, IInv, ForwardBound
  <2> QED BY <2>2, <2>3, <2>4, <2>5 DEF IInv
<1>2. CASE EpilogueSignal(r, c)
  <2>1. PICK l \in Locals, y \in Ys : SignalTile(r, c, l, y) BY <1>2, SignalFacts
  <2>2. Types' BY <2>1, <1>0 DEF SignalTile, IInv, Types
  <2>3. RolesInOrder' BY <2>1, <1>0 DEF SignalTile, IInv, Types, RolesInOrder
  <2>4. RolesAtRest' BY <2>1 DEF SignalTile, IInv, Types, RolesAtRest, Launched
  <2>5. ForwardBound' BY <2>1 DEF SignalTile, IInv, ForwardBound
  <2> QED BY <2>2, <2>3, <2>4, <2>5 DEF IInv
<1>3. CASE FetchWait(r, c)
  <2>1. PICK s \in Locals, y \in Ys : TakeTile(r, c, s, y) BY <1>3, TakeFacts
  <2>2. Types' BY <2>1, <1>0 DEF TakeTile, IInv, Types
  <2>3. RolesInOrder' BY <2>1, <1>0 DEF TakeTile, IInv, Types, RolesInOrder
  <2>4. RolesAtRest' BY <2>1 DEF TakeTile, IInv, Types, RolesAtRest, Launched
  <2>5. ForwardBound' BY <2>1 DEF TakeTile, IInv, ForwardBound
  <2> QED BY <2>2, <2>3, <2>4, <2>5 DEF IInv
<1>4. CASE FetchRead(r, c)
  <2>1. PICK s \in Locals, y \in Ys : ReadTile(r, c, s, y) BY <1>4, ReadFacts
  <2>2. Types' BY <2>1, <1>0 DEF ReadTile, IInv, Types
  <2>3. RolesInOrder' BY <2>1, <1>0 DEF ReadTile, IInv, Types, RolesInOrder
  <2>4. RolesAtRest' BY <2>1 DEF ReadTile, IInv, Types, RolesAtRest, Launched
  <2>5. ForwardBound' BY <2>1 DEF ReadTile, IInv, ForwardBound
  <2> QED BY <2>2, <2>3, <2>4, <2>5 DEF IInv
<1>5. CASE ReduceTile(r, c)
  <2>1. PICK s \in Locals, y \in Ys : AddTile(r, c, s, y) BY <1>5, AddFacts
  <2>2. Types'
    <3>1. buffer' \in [Locals -> [Ys -> [Locals -> Forwards]]]
      <4>1. smem[r][c] \in Forwards /\ 0 \in Forwards
        BY Consts DEF IInv, Types, Forwards
      <4> QED BY <2>1, <4>1 DEF AddTile, IInv, Types
    <3>2. reduced' \in [Locals -> [Ys -> 0..(NLocal - 1)]]
      <4>1. NextCount(reduced[r][y]) \in 0..(NLocal - 1)
        BY NextCountRange DEF IInv, Types
      <4> QED BY <2>1, <4>1 DEF AddTile, IInv, Types
    <3>3. added' \in [Locals -> [Ctas -> Nat]] BY <2>1, <1>0 DEF AddTile, IInv, Types
    <3> QED BY <2>1, <3>1, <3>2, <3>3 DEF AddTile, IInv, Types
  <2>3. RolesInOrder' BY <2>1, <1>0 DEF AddTile, IInv, Types, RolesInOrder
  <2>4. RolesAtRest' BY <2>1 DEF AddTile, IInv, Types, RolesAtRest, Launched
  <2>5. ForwardBound' BY <2>1 DEF AddTile, IInv, ForwardBound
  <2> QED BY <2>2, <2>3, <2>4, <2>5 DEF IInv
<1> QED BY <1>1, <1>2, <1>3, <1>4, <1>5 DEF CtaStep

LEMMA StepIInv == ZeroedFlags /\ IInv /\ [Next]_vars => IInv'
<1> SUFFICES ASSUME ZeroedFlags, IInv, [Next]_vars PROVE IInv' OBVIOUS
<1>1. CASE UNCHANGED vars
  BY <1>1 DEF vars, IInv, Types, RolesInOrder, RolesAtRest, ForwardBound, Launched
<1>2. CASE GrowBarrierBuffer
  <2>1. stored' \in [Locals -> [Locals -> [Ys -> {0, 1}]]]
        /\ reduced' \in [Locals -> [Ys -> 0..(NLocal - 1)]]
    BY <1>2, ZeroFlagValues DEF GrowBarrierBuffer
  <2>2. Launch(Locals) /\ \A r \in Locals : pc[r] = "idle" /\ fwd[r] < MaxForwards
    BY <1>2 DEF GrowBarrierBuffer
  <2> QED BY <2>1, <2>2, LaunchIInv
<1>3. ASSUME NEW r \in Locals, LaunchGemm(r) PROVE IInv'
  <2>1. Launch({r}) /\ pc[r] = "idle" /\ fwd[r] < MaxForwards /\ stored' = stored
        /\ reduced' = reduced
    BY <1>3 DEF LaunchGemm, flags
  <2> QED BY <2>1, LaunchIInv DEF IInv, Types
<1>4. ASSUME NEW r \in Locals, RankStep(r) PROVE IInv'
  BY <1>3, <1>4, StreamIInv, RoleIInv DEF RankStep
<1> QED BY <1>1, <1>2, <1>4 DEF Next

\* Every variable of GemmRsTiles has its type.
THEOREM TypeCorrect == ZeroedFlags => (Safe => []TypeOK)
<1> SUFFICES ASSUME ZeroedFlags PROVE Safe => []TypeOK OBVIOUS
<1>1. Init => IInv BY InitIInv
<1>2. IInv /\ [Next]_vars => IInv' BY StepIInv
<1>3. IInv => TypeOK BY TypesImplyTypeOK
<1> QED BY <1>1, <1>2, <1>3, PTL DEF Safe

-----------------------------------------------------------------------------
(* The flags. *)

\* What a count f of the tiles of each CTA says of a tile.
Beyond(f, r, l, y) == f[r][CtaFor(r, l, y)] > TurnFor(r, l, y)

LEMMA BeyondNames ==
    \A r, l \in Locals, y \in Ys :
        /\ Raised(r, l, y) = Beyond(epi, r, l, y)
        /\ Fetched(r, l, y) = Beyond(taken, r, l, y)
        /\ Summed(r, l, y) = Beyond(added, r, l, y)
        /\ Raised(r, l, y)' = Beyond(epi', r, l, y)
        /\ Fetched(r, l, y)' = Beyond(taken', r, l, y)
        /\ Summed(r, l, y)' = Beyond(added', r, l, y)
  BY DEF Raised, Fetched, Summed, Beyond

\* One more turn is one more tile.
CtaCount(f) == f \in [Locals -> [Ctas -> Nat]]
Advanced(f, g, r, c) == g = [f EXCEPT ![r][c] = f[r][c] + 1]

LEMMA OneMore ==
    ASSUME NEW f, CtaCount(f), NEW r \in Locals, NEW c \in Ctas,
           NEW k \in Locals, NEW z \in Ys, IsTile(r, c, f[r][c], k, z),
           NEW g, Advanced(f, g, r, c)
    PROVE  /\ ~Beyond(f, r, k, z)
           /\ \A q, l \in Locals, y \in Ys :
                 Beyond(g, q, l, y) <=> Beyond(f, q, l, y) \/ (q = r /\ l = k /\ y = z)
<1>0. f \in [Locals -> [Ctas -> Nat]] /\ g = [f EXCEPT ![r][c] = f[r][c] + 1]
  BY DEF CtaCount, Advanced
<1>1. CtaFor(r, k, z) = c /\ TurnFor(r, k, z) = f[r][c] /\ f[r][c] \in Nat
  BY <1>0 DEF IsTile
<1>2. ~Beyond(f, r, k, z) BY <1>1 DEF Beyond
<1>3. ASSUME NEW q \in Locals, NEW l \in Locals, NEW y \in Ys
      PROVE  Beyond(g, q, l, y) <=> Beyond(f, q, l, y) \/ (q = r /\ l = k /\ y = z)
  <2> DEFINE d == CtaFor(q, l, y)
             i == TurnFor(q, l, y)
  <2>1. d \in Ctas /\ i \in Nat /\ f[q][d] \in Nat BY <1>0, TurnOfTile
  <2>2. g[q][d] = IF q = r /\ d = c THEN f[r][c] + 1 ELSE f[q][d] BY <1>0, <2>1
  <2>3. CASE q = r /\ d = c
    <3>1. i = f[r][c] <=> l = k /\ y = z BY <1>1, <2>3, OneTile
    <3> HIDE DEF d, i
    <3>0. g[q][d] = f[r][c] + 1 /\ f[q][d] = f[r][c] /\ i \in Nat /\ f[r][c] \in Nat
      BY <2>1, <2>2, <2>3, <1>1 DEF d, i
    <3>2. g[q][d] > i <=> (f[q][d] > i \/ i = f[r][c])
      <4> DEFINE n == f[r][c]
                 m == g[q][d]
      <4>1. m = n + 1 /\ f[q][d] = n /\ i \in Nat /\ n \in Nat BY <3>0
      <4> HIDE DEF n, m
      <4>2. m > i <=> (n > i \/ i = n) BY ONLY <4>1
      <4> QED BY <4>1, <4>2 DEF n, m
    <3> QED BY <2>3, <3>1, <3>2 DEF Beyond, d, i
  <2>4. CASE ~(q = r /\ d = c)
    <3>1. ~(q = r /\ l = k /\ y = z) BY <1>1, <2>4
    <3> QED BY <2>2, <2>4, <3>1 DEF Beyond
  <2> QED BY <2>3, <2>4
<1> QED BY <1>2, <1>3

\* At rest all tiles are done, in all roles.
LEMMA AtRest ==
    ASSUME IInv, NEW r \in Locals, pc[r] # "gemm", NEW l \in Locals, NEW y \in Ys
    PROVE  IF Launched(r) = 0
           THEN ~Raised(r, l, y) /\ ~Fetched(r, l, y) /\ ~Summed(r, l, y)
           ELSE Raised(r, l, y) /\ Fetched(r, l, y) /\ Summed(r, l, y)
<1> DEFINE c == CtaFor(r, l, y)
           i == TurnFor(r, l, y)
<1>1. c \in Ctas /\ i \in Nat /\ i < CtaLength[c] /\ CtaLength[c] \in Nat
  BY TurnOfTile, Lengths
<1>2. LET n == IF Launched(r) = 0 THEN 0 ELSE CtaLength[c]
      IN  epi[r][c] = n /\ taken[r][c] = n /\ added[r][c] = n
  BY <1>1 DEF IInv, RolesAtRest
<1> HIDE DEF c, i
<1> QED BY <1>1, <1>2 DEF Raised, Fetched, Summed, c, i

\* A launch puts them all back.
LEMMA Relaunched ==
    ASSUME IInv, NEW S \in SUBSET Locals, Launch(S), NEW r \in S,
           NEW l \in Locals, NEW y \in Ys
    PROVE  ~Raised(r, l, y)' /\ ~Fetched(r, l, y)' /\ ~Summed(r, l, y)'
<1> DEFINE c == CtaFor(r, l, y)
           i == TurnFor(r, l, y)
<1>1. c \in Ctas /\ i \in Nat BY TurnOfTile
<1>2. epi'[r][c] = 0 /\ taken'[r][c] = 0 /\ added'[r][c] = 0 BY <1>1 DEF Launch, Zeros
<1> HIDE DEF c, i
<1> QED BY <1>1, <1>2 DEF Raised, Fetched, Summed, c, i

LEMMA LaunchLeaves ==
    ASSUME IInv, NEW S \in SUBSET Locals, Launch(S), \A r \in S : pc[r] = "idle",
           NEW q \in Locals
    PROVE  /\ Launched(q)' = IF q \in S THEN Launched(q) + 1 ELSE Launched(q)
           /\ Ended(q)' = Ended(q)
           /\ q \notin S => \A l \in Locals, y \in Ys :
                 /\ Raised(q, l, y)' = Raised(q, l, y)
                 /\ Fetched(q, l, y)' = Fetched(q, l, y)
                 /\ Summed(q, l, y)' = Summed(q, l, y)
<1>1. pc' = [r \in Locals |-> IF r \in S THEN "gemm" ELSE pc[r]] /\ fwd' = fwd
  BY DEF Launch
<1>2. Launched(q)' = (IF q \in S THEN Launched(q) + 1 ELSE Launched(q))
      /\ Ended(q)' = Ended(q)
  BY <1>1 DEF Launched, Ended
<1>3. q \notin S => epi'[q] = epi[q] /\ taken'[q] = taken[q] /\ added'[q] = added[q]
  BY DEF Launch
<1>4. q \notin S => \A l \in Locals, y \in Ys :
        /\ Raised(q, l, y)' = Raised(q, l, y)
        /\ Fetched(q, l, y)' = Fetched(q, l, y)
        /\ Summed(q, l, y)' = Summed(q, l, y)
  BY <1>3, BeyondNames DEF Beyond
<1> QED BY <1>2, <1>4

LEMMA StreamLeaves ==
    ASSUME IInv, NEW r \in Locals,
           DispatchCta(r) \/ KernelEnd(r) \/ GroupBarrier(r) \/ ReturnSum(r)
    PROVE  /\ epi' = epi /\ taken' = taken /\ read' = read /\ added' = added
           /\ hold' = hold /\ smem' = smem
           /\ output' = output /\ stored' = stored /\ reduced' = reduced
           /\ buffer' = buffer
           /\ \A q \in Locals : Launched(q)' = Launched(q) /\ Ended(q)' >= Ended(q)
<1>1. /\ epi' = epi /\ taken' = taken /\ read' = read /\ added' = added
      /\ hold' = hold /\ smem' = smem
      /\ output' = output /\ stored' = stored /\ reduced' = reduced /\ buffer' = buffer
  BY DEF DispatchCta, KernelEnd, GroupBarrier, ReturnSum, flags
<1>2. \A q \in Locals : fwd[q] \in Nat /\ fwd[q] + 1 \in Nat BY Ranges, Consts
<1>3. \A q \in Locals : Launched(q)' = Launched(q) /\ Ended(q)' >= Ended(q)
  <2>1. CASE DispatchCta(r)
    BY <2>1, <1>2 DEF DispatchCta, stream, Launched, Ended
  <2>2. CASE KernelEnd(r)
    BY <2>2, <1>2 DEF KernelEnd, Launched, Ended, IInv, Types
  <2>3. CASE GroupBarrier(r)
    BY <2>3, <1>2 DEF GroupBarrier, Launched, Ended, IInv, Types
  <2>4. CASE ReturnSum(r)
    BY <2>4, <1>2 DEF ReturnSum, Launched, Ended, IInv, Types
  <2> QED BY <2>1, <2>2, <2>3, <2>4
<1> QED BY <1>1, <1>3

\* Nobody launches a first forward alone.
LEMMA NotFirst == ASSUME IInv, NEW r \in Locals, LaunchGemm(r)
                  PROVE  Launched(r) # 0 /\ pc[r] = "idle" /\ Launch({r})
  BY Ranges, TilesAssumption DEF LaunchGemm, Launched

LEMMA GrowFacts ==
    ASSUME IInv, ZeroedFlags, GrowBarrierBuffer
    PROVE  /\ \A r \in Locals : pc[r] = "idle"
           /\ \A r, q \in Locals : Launched(r) = Launched(q)
           /\ Launch(Locals)
           /\ \A s, l \in Locals, y \in Ys : stored'[s][l][y] = 0
           /\ \A r \in Locals, y \in Ys : reduced'[r][y] = 0
<1>1. /\ \A r \in Locals : pc[r] = "idle"
      /\ \A r, p \in Locals : fwd[r] = fwd[p]
      /\ stored' \in [Locals -> [Locals -> [Ys -> FreshFlags]]]
      /\ reduced' \in [Locals -> [Ys -> FreshFlags]] /\ Launch(Locals)
  BY DEF GrowBarrierBuffer
<1>2. FreshFlags \subseteq {0} BY ZeroFlagValues
<1>3. \A s, l \in Locals, y \in Ys : stored'[s][l][y] \in FreshFlags BY <1>1
<1>4. \A r \in Locals, y \in Ys : reduced'[r][y] \in FreshFlags BY <1>1
<1> QED BY <1>1, <1>2, <1>3, <1>4 DEF Launched

LEMMA RaisesTypes ==
    ASSUME IInv, NEW s \in Locals, NEW l \in Locals, NEW y \in Ys
    PROVE  Raises(s, l, y) \in Nat /\ Takes(l, s, y) \in Nat
  BY Ranges DEF Raises, Takes

LEMMA FlagsInit == Init => FlagsCountTiles /\ SumsAreCounted
<1> SUFFICES ASSUME Init PROVE FlagsCountTiles /\ SumsAreCounted OBVIOUS
<1>1. IInv BY InitIInv
<1>2. \A r \in Locals : Launched(r) = 0 /\ pc[r] # "gemm" BY DEF Init, Launched
<1>3. \A r, l \in Locals, y \in Ys :
        ~Raised(r, l, y) /\ ~Fetched(r, l, y) /\ ~Summed(r, l, y)
  BY <1>1, <1>2, AtRest
<1>4. FlagsCountTiles
  BY <1>2, <1>3 DEF Init, FlagsCountTiles, Raises, Takes
<1>5. \A r \in Locals, y \in Ys : Partials(r, y) = {} BY <1>3 DEF Partials
<1>6. CountsOf(Cardinality({})) = 0 BY FS_EmptySet, Consts DEF CountsOf
<1> QED BY <1>4, <1>5, <1>6 DEF Init, SumsAreCounted

LEMMA FlagsStep ==
    ASSUME ZeroedFlags, FlagInv, [Next]_vars PROVE FlagsCountTiles'
<1>0. IInv /\ IInv' BY StepIInv DEF FlagInv
<1>a. \A s, l \in Locals, y \in Ys : stored[s][l][y] = Raises(s, l, y) - Takes(l, s, y)
  BY DEF FlagInv, FlagsCountTiles
<1> SUFFICES ASSUME NEW s \in Locals, NEW l \in Locals, NEW y \in Ys
             PROVE  stored'[s][l][y] = Raises(s, l, y)' - Takes(l, s, y)'
  BY DEF FlagsCountTiles
<1>b. /\ Raises(s, l, y) = Launched(s) + (IF Raised(s, l, y) THEN 1 ELSE 0)
      /\ Takes(l, s, y) = Launched(l) + (IF Fetched(l, s, y) THEN 1 ELSE 0)
      /\ Raises(s, l, y)' = Launched(s)' + (IF Raised(s, l, y)' THEN 1 ELSE 0)
      /\ Takes(l, s, y)' = Launched(l)' + (IF Fetched(l, s, y)' THEN 1 ELSE 0)
      /\ Launched(s) \in Nat /\ Launched(l) \in Nat
  BY <1>0, Ranges DEF Raises, Takes
<1>c. stored[s][l][y] = Raises(s, l, y) - Takes(l, s, y) BY <1>a
<1>n. /\ Raised(s, l, y) = Beyond(epi, s, l, y)
      /\ Fetched(l, s, y) = Beyond(taken, l, s, y)
      /\ Raised(s, l, y)' = Beyond(epi', s, l, y)
      /\ Fetched(l, s, y)' = Beyond(taken', l, s, y)
  BY BeyondNames
<1>1. CASE UNCHANGED vars
  <2>1. Launched(s)' = Launched(s) /\ Launched(l)' = Launched(l) /\ epi' = epi
        /\ taken' = taken /\ stored' = stored
    BY <1>1 DEF vars, Launched
  <2> QED BY <2>1, <1>b, <1>c, <1>n
<1>2. CASE GrowBarrierBuffer
  <2>1. Launch(Locals) /\ \A r \in Locals : pc[r] = "idle" BY <1>0, <1>2, GrowFacts
  <2>2. ~Raised(s, l, y)' /\ ~Fetched(l, s, y)' BY <1>0, <2>1, Relaunched
  <2>3. Launched(s)' = Launched(s) + 1 /\ Launched(l)' = Launched(l) + 1
    BY <1>0, <2>1, LaunchLeaves
  <2>4. stored'[s][l][y] = 0 /\ Launched(s) = Launched(l) BY <1>0, <1>2, GrowFacts
  <2> QED BY ONLY <2>2, <2>3, <2>4, <1>b
<1>3. ASSUME NEW r \in Locals, LaunchGemm(r)
      PROVE  stored'[s][l][y] = Raises(s, l, y)' - Takes(l, s, y)'
  <2>1. Launched(r) # 0 /\ pc[r] = "idle" /\ Launch({r}) BY <1>0, <1>3, NotFirst
  <2>2. \A k \in Locals, z \in Ys :
          Raised(r, k, z) /\ Fetched(r, k, z) /\ ~Raised(r, k, z)' /\ ~Fetched(r, k, z)'
    BY <1>0, <2>1, AtRest, Relaunched
  <2>3. \A q \in Locals :
          /\ Launched(q)' = IF q \in {r} THEN Launched(q) + 1 ELSE Launched(q)
          /\ q \notin {r} => \A k \in Locals, z \in Ys :
               Raised(q, k, z)' = Raised(q, k, z) /\ Fetched(q, k, z)' = Fetched(q, k, z)
    BY <1>0, <2>1, LaunchLeaves
  <2>4. Raises(s, l, y)' = Raises(s, l, y)
    BY <2>2, <2>3, <1>b
  <2>5. Takes(l, s, y)' = Takes(l, s, y)
    BY <2>2, <2>3, <1>b
  <2>6. stored' = stored BY <1>3 DEF LaunchGemm, flags
  <2> QED BY <2>4, <2>5, <2>6, <1>c
<1>4. ASSUME NEW r \in Locals,
             DispatchCta(r) \/ KernelEnd(r) \/ GroupBarrier(r) \/ ReturnSum(r)
      PROVE  stored'[s][l][y] = Raises(s, l, y)' - Takes(l, s, y)'
  <2>1. Launched(s)' = Launched(s) /\ Launched(l)' = Launched(l) /\ epi' = epi
        /\ taken' = taken /\ stored' = stored
    BY <1>0, <1>4, StreamLeaves
  <2> QED BY <2>1, <1>b, <1>c, <1>n
<1>5. ASSUME NEW r \in Locals, NEW c \in Ctas, CtaStep(r, c)
      PROVE  stored'[s][l][y] = Raises(s, l, y)' - Takes(l, s, y)'
  <2>1. CASE EpilogueStore(r, c)
    <3>1. PICK k \in Locals, z \in Ys : StoreTile(r, c, k, z) BY <1>0, <2>1, StoreFacts
    <3>2. Launched(s)' = Launched(s) /\ Launched(l)' = Launched(l) /\ epi' = epi
          /\ taken' = taken /\ stored' = stored
      BY <3>1 DEF StoreTile, Launched
    <3> QED BY <3>2, <1>b, <1>c, <1>n
  <2>2. CASE EpilogueSignal(r, c)
    <3>1. PICK k \in Locals, z \in Ys : SignalTile(r, c, k, z)
      BY <1>0, <2>2, SignalFacts
    <3>2. Launched(s)' = Launched(s) /\ Launched(l)' = Launched(l) /\ taken' = taken
      BY <3>1 DEF SignalTile, Launched
    <3>3. /\ ~Beyond(epi, r, k, z)
          /\ Beyond(epi', s, l, y) <=> Beyond(epi, s, l, y) \/ (s = r /\ l = k /\ y = z)
      <4>1. CtaCount(epi) BY <1>0 DEF IInv, Types, CtaCount
      <4>2. IsTile(r, c, epi[r][c], k, z) /\ Advanced(epi, epi', r, c)
        BY <3>1 DEF SignalTile, Advanced
      <4> QED BY <4>1, <4>2, OneMore
    <3>4. stored'[s][l][y] = IF s = r /\ l = k /\ y = z THEN 1 ELSE stored[s][l][y]
      BY <3>1, <1>0 DEF SignalTile, IInv, Types
    <3>5. s = r /\ l = k /\ y = z => stored[s][l][y] = 0 BY <3>1 DEF SignalTile
    <3>6. Takes(l, s, y)' = Takes(l, s, y) BY <3>2, <1>b, <1>n
    <3>7. Raises(s, l, y)' = IF s = r /\ l = k /\ y = z THEN Raises(s, l, y) + 1
                                                         ELSE Raises(s, l, y)
      BY <3>2, <3>3, <1>b, <1>n
    <3>8. Raises(s, l, y) \in Nat /\ Takes(l, s, y) \in Nat BY <1>0, RaisesTypes
    <3> QED BY ONLY <3>4, <3>5, <3>6, <3>7, <3>8, <1>c
  <2>3. CASE FetchWait(r, c)
    <3>1. PICK k \in Locals, z \in Ys : TakeTile(r, c, k, z) BY <1>0, <2>3, TakeFacts
    <3>2. Launched(s)' = Launched(s) /\ Launched(l)' = Launched(l) /\ epi' = epi
      BY <3>1 DEF TakeTile, Launched
    <3>3. /\ ~Beyond(taken, r, k, z)
          /\ Beyond(taken', l, s, y) <=>
                Beyond(taken, l, s, y) \/ (l = r /\ s = k /\ y = z)
      <4>1. CtaCount(taken) BY <1>0 DEF IInv, Types, CtaCount
      <4>2. IsTile(r, c, taken[r][c], k, z) /\ Advanced(taken, taken', r, c)
        BY <3>1 DEF TakeTile, Advanced
      <4> QED BY <4>1, <4>2, OneMore
    <3>4. stored'[s][l][y] = IF s = k /\ l = r /\ y = z THEN 0 ELSE stored[s][l][y]
      BY <3>1, <1>0 DEF TakeTile, IInv, Types
    <3>5. s = k /\ l = r /\ y = z => stored[s][l][y] = 1 BY <3>1 DEF TakeTile
    <3>6. Raises(s, l, y)' = Raises(s, l, y) BY <3>2, <1>b, <1>n
    <3>7. Takes(l, s, y)' = IF s = k /\ l = r /\ y = z THEN Takes(l, s, y) + 1
                                                       ELSE Takes(l, s, y)
      BY <3>2, <3>3, <1>b, <1>n
    <3>8. Raises(s, l, y) \in Nat /\ Takes(l, s, y) \in Nat BY <1>0, RaisesTypes
    <3> QED BY ONLY <3>4, <3>5, <3>6, <3>7, <3>8, <1>c
  <2>4. CASE FetchRead(r, c)
    <3>1. PICK k \in Locals, z \in Ys : ReadTile(r, c, k, z) BY <1>0, <2>4, ReadFacts
    <3>2. Launched(s)' = Launched(s) /\ Launched(l)' = Launched(l) /\ epi' = epi
          /\ taken' = taken /\ stored' = stored
      BY <3>1 DEF ReadTile, Launched
    <3> QED BY <3>2, <1>b, <1>c, <1>n
  <2>5. CASE ReduceTile(r, c)
    <3>1. PICK k \in Locals, z \in Ys : AddTile(r, c, k, z) BY <1>0, <2>5, AddFacts
    <3>2. Launched(s)' = Launched(s) /\ Launched(l)' = Launched(l) /\ epi' = epi
          /\ taken' = taken /\ stored' = stored
      BY <3>1 DEF AddTile, Launched
    <3> QED BY <3>2, <1>b, <1>c, <1>n
  <2> QED BY <1>5, <2>1, <2>2, <2>3, <2>4, <2>5 DEF CtaStep
<1> QED BY <1>1, <1>2, <1>3, <1>4, <1>5 DEF Next, RankStep

LEMMA PartialsFinite ==
    ASSUME NEW r \in Locals, NEW y \in Ys
    PROVE  /\ IsFiniteSet(Partials(r, y)) /\ Cardinality(Partials(r, y)) \in 0..NLocal
           /\ Cardinality(Partials(r, y)) = NLocal => Partials(r, y) = Locals
<1>1. IsFiniteSet(Locals) /\ Cardinality(Locals) = NLocal
  BY FS_Interval, Consts DEF Locals
<1>2. Partials(r, y) \in SUBSET Locals BY DEF Partials
<1>3. /\ IsFiniteSet(Partials(r, y)) /\ Cardinality(Partials(r, y)) <= NLocal
      /\ Cardinality(Partials(r, y)) = NLocal => Partials(r, y) = Locals
  BY <1>1, <1>2, FS_Subset
<1>4. Cardinality(Partials(r, y)) \in Nat BY <1>3, FS_CardinalityType
<1> QED BY <1>3, <1>4, Consts

LEMMA AllPartials == /\ CountsOf(Cardinality(Locals)) = 0
                     /\ CountsOf(Cardinality({})) = 0
<1>1. Cardinality(Locals) = NLocal BY FS_Interval, Consts DEF Locals
<1>2. Cardinality({}) = 0 BY FS_EmptySet
<1> QED BY <1>1, <1>2, Consts DEF CountsOf

\* Steps that do not add leave the partials as they are.
LEMMA SameAdded == ASSUME added' = added, NEW r \in Locals
                   PROVE  /\ \A s \in Locals, y \in Ys : Summed(r, s, y)' = Summed(r, s, y)
                          /\ \A y \in Ys : Partials(r, y)' = Partials(r, y)
<1>1. \A s \in Locals, y \in Ys : Summed(r, s, y)' = Summed(r, s, y)
  BY BeyondNames
<1> QED BY <1>1 DEF Partials

LEMMA AddOne ==
    ASSUME IInv, NEW r \in Locals, NEW c \in Ctas, NEW k \in Locals, NEW z \in Ys,
           AddTile(r, c, k, z)
    PROVE  /\ ~Summed(r, k, z)
           /\ \A q, s \in Locals, y \in Ys :
                 Summed(q, s, y)' <=> Summed(q, s, y) \/ (q = r /\ s = k /\ y = z)
           /\ Partials(r, z)' = Partials(r, z) \cup {k}
           /\ \A q \in Locals, y \in Ys :
                 ~(q = r /\ y = z) => Partials(q, y)' = Partials(q, y)
<1>1. CtaCount(added) BY DEF IInv, Types, CtaCount
<1>2. IsTile(r, c, added[r][c], k, z) /\ Advanced(added, added', r, c)
  BY DEF AddTile, Advanced
<1>3. /\ ~Beyond(added, r, k, z)
      /\ \A q, s \in Locals, y \in Ys :
           Beyond(added', q, s, y) <=> Beyond(added, q, s, y) \/ (q = r /\ s = k /\ y = z)
  BY <1>1, <1>2, OneMore
<1>4. /\ ~Summed(r, k, z)
      /\ \A q, s \in Locals, y \in Ys :
            Summed(q, s, y)' <=> Summed(q, s, y) \/ (q = r /\ s = k /\ y = z)
  BY <1>3, BeyondNames
<1> QED BY <1>4 DEF Partials

LEMMA SumsCountedStep ==
    ASSUME ZeroedFlags, FlagInv, [Next]_vars PROVE SumsAreCounted'
<1>0. IInv /\ SumsAreCounted BY DEF FlagInv
<1> SUFFICES ASSUME NEW q \in Locals, NEW y \in Ys
             PROVE  reduced'[q][y] =
                        IF Fuse THEN CountsOf(Cardinality(Partials(q, y)')) ELSE 0
  BY DEF SumsAreCounted
<1> DEFINE counted(P) == IF Fuse THEN CountsOf(Cardinality(P)) ELSE 0
<1>a. reduced[q][y] = counted(Partials(q, y)) BY <1>0 DEF SumsAreCounted
<1>1. ASSUME reduced' = reduced, added' = added
      PROVE  reduced'[q][y] = counted(Partials(q, y)')
  BY <1>a, <1>1, SameAdded
<1>2. CASE GrowBarrierBuffer
  <2>1. Launch(Locals) /\ reduced'[q][y] = 0 BY <1>0, <1>2, GrowFacts
  <2>2. \A s \in Locals : ~Summed(q, s, y)' BY <1>0, <2>1, Relaunched
  <2>3. Partials(q, y)' = {} BY <2>2 DEF Partials
  <2> QED BY <2>1, <2>3, AllPartials
<1>3. ASSUME NEW r \in Locals, LaunchGemm(r)
      PROVE  reduced'[q][y] = counted(Partials(q, y)')
  <2>1. Launched(r) # 0 /\ pc[r] = "idle" /\ Launch({r}) BY <1>0, <1>3, NotFirst
  <2>2. reduced' = reduced BY <1>3 DEF LaunchGemm, flags
  <2>3. CASE q = r
    <3>1. \A s \in Locals : Summed(q, s, y) /\ ~Summed(q, s, y)'
      BY <1>0, <2>1, <2>3, AtRest, Relaunched
    <3>2. Partials(q, y) = Locals /\ Partials(q, y)' = {} BY <3>1 DEF Partials
    <3> QED BY <1>a, <2>2, <3>2, AllPartials
  <2>4. CASE q # r
    <3>1. \A s \in Locals : Summed(q, s, y)' = Summed(q, s, y)
      BY <1>0, <2>1, <2>4, LaunchLeaves
    <3>2. Partials(q, y)' = Partials(q, y) BY <3>1 DEF Partials
    <3> QED BY <1>a, <2>2, <3>2
  <2> QED BY <2>3, <2>4
<1>4. ASSUME NEW r \in Locals, NEW c \in Ctas, ReduceTile(r, c)
      PROVE  reduced'[q][y] = counted(Partials(q, y)')
  <2>1. PICK k \in Locals, z \in Ys : AddTile(r, c, k, z) BY <1>0, <1>4, AddFacts
  <2>2. CASE ~(q = r /\ y = z) \/ ~Fuse
    <3>1. ~(q = r /\ y = z) => Partials(q, y)' = Partials(q, y) BY <1>0, <2>1, AddOne
    <3>2. reduced'[q][y] = reduced[q][y] BY <2>1, <2>2, <1>0 DEF AddTile, IInv, Types
    <3> QED BY <1>a, <2>2, <3>1, <3>2
  <2>3. CASE q = r /\ y = z /\ Fuse
    <3> DEFINE P == Partials(q, y)
               n == Cardinality(P)
    <3>1. k \notin P /\ Partials(q, y)' = P \cup {k}
      BY <1>0, <2>1, <2>3, AddOne DEF Partials
    <3>2. IsFiniteSet(P) /\ n \in 0..NLocal /\ (n = NLocal => P = Locals)
      BY PartialsFinite
    <3>3. Cardinality(P \cup {k}) = n + 1 BY <3>1, <3>2, FS_AddElement
    <3>4. n # NLocal BY <3>1, <3>2
    <3>5. reduced[q][y] = n BY <1>a, <2>3, <3>4 DEF CountsOf
    <3>6. reduced'[q][y] = NextCount(reduced[q][y])
      BY <2>1, <2>3, <1>0 DEF AddTile, IInv, Types
    <3> HIDE DEF n, P
    <3>7. reduced'[q][y] = CountsOf(Cardinality(P \cup {k}))
      BY <3>3, <3>5, <3>6 DEF NextCount, CountsOf
    <3> QED BY <2>3, <3>1, <3>7 DEF P
  <2> QED BY <2>2, <2>3
<1>5. CASE UNCHANGED vars BY <1>1, <1>5 DEF vars
<1>6. ASSUME NEW r \in Locals,
             DispatchCta(r) \/ KernelEnd(r) \/ GroupBarrier(r) \/ ReturnSum(r)
      PROVE  reduced'[q][y] = counted(Partials(q, y)')
  BY <1>0, <1>1, <1>6, StreamLeaves
<1>7. ASSUME NEW r \in Locals, NEW c \in Ctas,
             \/ EpilogueStore(r, c) \/ EpilogueSignal(r, c)
             \/ FetchWait(r, c) \/ FetchRead(r, c)
      PROVE  reduced'[q][y] = counted(Partials(q, y)')
  <2>1. reduced' = reduced /\ added' = added
    BY <1>7 DEF EpilogueStore, EpilogueSignal, FetchWait, FetchRead, flags
  <2> QED BY <1>1, <2>1
<1>8. ASSUME NEW r \in Locals, RankStep(r)
      PROVE  reduced'[q][y] = counted(Partials(q, y)')
  <2>1. ASSUME NEW c \in Ctas, CtaStep(r, c)
        PROVE  reduced'[q][y] = counted(Partials(q, y)')
    <3>1. CASE ReduceTile(r, c) BY <1>4, <3>1
    <3>2. CASE ~ReduceTile(r, c) BY <1>7, <2>1, <3>2 DEF CtaStep
    <3> QED BY <3>1, <3>2
  <2>2. CASE LaunchGemm(r) BY <1>3, <2>2
  <2>3. CASE ~LaunchGemm(r) BY <1>6, <1>8, <2>1, <2>3 DEF RankStep
  <2> QED BY <2>2, <2>3
<1> QED BY <1>2, <1>5, <1>8 DEF Next

LEMMA StepFlagInv == ZeroedFlags /\ FlagInv /\ [Next]_vars => FlagInv'
  BY StepIInv, FlagsStep, SumsCountedStep DEF FlagInv

LEMMA InitFlagInv == Init => FlagInv
  BY InitIInv, FlagsInit DEF FlagInv

LEMMA FlagInvDrains == FlagInv => FlagsDrained
<1> SUFFICES ASSUME FlagInv,
                    \A r \in Locals : pc[r] = "idle" /\ fwd[r] > 0 /\ fwd[r] = fwd[0],
                    NEW r \in Locals, NEW y \in Ys
             PROVE  reduced[r][y] = 0 /\ \A l \in Locals : stored[r][l][y] = 0
  BY DEF FlagsDrained
<1>0. IInv BY DEF FlagInv
<1>1. \A q \in Locals : Launched(q) = fwd[0] /\ Launched(q) # 0 /\ Launched(q) \in Nat
  BY <1>0, Ranges DEF Launched
<1>2. \A q, l \in Locals : Raised(q, l, y) /\ Fetched(q, l, y) /\ Summed(q, l, y)
  BY <1>0, <1>1, AtRest
<1>3. ASSUME NEW l \in Locals PROVE stored[r][l][y] = 0
  <2>1. Raises(r, l, y) = Takes(l, r, y) /\ Raises(r, l, y) \in Nat
    BY <1>1, <1>2 DEF Raises, Takes
  <2> QED BY <2>1 DEF FlagInv, FlagsCountTiles
<1>4. Partials(r, y) = Locals BY <1>2 DEF Partials
<1>5. reduced[r][y] = 0 BY <1>4, AllPartials DEF FlagInv, SumsAreCounted
<1> QED BY <1>3, <1>5

\* FlagsDrained: a kernel leaves every flag of the shared buffers at 0, whatever keeps
\* the forwards apart, as long as new flags are 0.
THEOREM FlagsAreDrained == ZeroedFlags => (Safe => []FlagsDrained)
<1> SUFFICES ASSUME ZeroedFlags PROVE Safe => []FlagsDrained OBVIOUS
<1>1. Init => FlagInv BY InitFlagInv
<1>2. FlagInv /\ [Next]_vars => FlagInv' BY StepFlagInv
<1>3. FlagInv => FlagsDrained BY FlagInvDrains
<1> QED BY <1>1, <1>2, <1>3, PTL DEF Safe

-----------------------------------------------------------------------------
(* The data. *)

\* A step that leaves roles and data alone.
Quiet ==
    /\ epi' = epi /\ taken' = taken /\ read' = read /\ added' = added
    /\ hold' = hold /\ smem' = smem
    /\ output' = output /\ stored' = stored /\ reduced' = reduced /\ buffer' = buffer
    /\ \A q \in Locals : Launched(q)' = Launched(q)

\* A launch of ranks that are between kernels.
Launches == \E S \in SUBSET Locals : Launch(S) /\ \A r \in S : pc[r] = "idle"

Stores  == \E r \in Locals, c \in Ctas, l \in Locals, y \in Ys : StoreTile(r, c, l, y)
Signals == \E r \in Locals, c \in Ctas, l \in Locals, y \in Ys : SignalTile(r, c, l, y)
Fetches == \E r \in Locals, c \in Ctas, s \in Locals, y \in Ys : TakeTile(r, c, s, y)
Reads   == \E r \in Locals, c \in Ctas, s \in Locals, y \in Ys : ReadTile(r, c, s, y)
Adds    == \E r \in Locals, c \in Ctas, s \in Locals, y \in Ys : AddTile(r, c, s, y)

LEMMA RoleKinds ==
    ASSUME IInv, NEW r \in Locals, NEW c \in Ctas, CtaStep(r, c)
    PROVE  Stores \/ Signals \/ Fetches \/ Reads \/ Adds
<1>1. CASE EpilogueStore(r, c) BY <1>1, StoreFacts DEF Stores
<1>2. CASE EpilogueSignal(r, c) BY <1>2, SignalFacts DEF Signals
<1>3. CASE FetchWait(r, c) BY <1>3, TakeFacts DEF Fetches
<1>4. CASE FetchRead(r, c) BY <1>4, ReadFacts DEF Reads
<1>5. CASE ReduceTile(r, c) BY <1>5, AddFacts DEF Adds
<1> QED BY <1>1, <1>2, <1>3, <1>4, <1>5 DEF CtaStep

LEMMA StepKinds ==
    ASSUME IInv, [Next]_vars
    PROVE  Quiet \/ Launches \/ Stores \/ Signals \/ Fetches \/ Reads \/ Adds
<1>1. CASE UNCHANGED vars BY <1>1 DEF vars, Quiet, Launched
<1>2. CASE GrowBarrierBuffer BY <1>2 DEF GrowBarrierBuffer, Launches
<1>3. ASSUME NEW r \in Locals, LaunchGemm(r) PROVE Launches
  BY <1>3 DEF LaunchGemm, Launches
<1>4. ASSUME NEW r \in Locals,
             DispatchCta(r) \/ KernelEnd(r) \/ GroupBarrier(r) \/ ReturnSum(r)
      PROVE  Quiet
  BY <1>4, StreamLeaves DEF Quiet
<1>5. ASSUME NEW r \in Locals, NEW c \in Ctas, CtaStep(r, c)
      PROVE  Stores \/ Signals \/ Fetches \/ Reads \/ Adds
  BY <1>5, RoleKinds
<1>6. ASSUME NEW r \in Locals, RankStep(r)
      PROVE  Quiet \/ Launches \/ Stores \/ Signals \/ Fetches \/ Reads \/ Adds
  BY <1>3, <1>4, <1>5, <1>6 DEF RankStep
<1> QED BY <1>1, <1>2, <1>6 DEF Next

\* The role steps do not touch the streams.
LEMMA RoleLeaves ==
    Stores \/ Signals \/ Fetches \/ Reads \/ Adds =>
        /\ fwd' = fwd /\ pc' = pc /\ wrong' = wrong
        /\ \A q \in Locals : Launched(q)' = Launched(q) /\ Ended(q)' = Ended(q)
<1> SUFFICES ASSUME Stores \/ Signals \/ Fetches \/ Reads \/ Adds
             PROVE  fwd' = fwd /\ pc' = pc /\ wrong' = wrong
  BY DEF Launched, Ended
<1> QED BY DEF Stores, Signals, Fetches, Reads, Adds, StoreTile, SignalTile, TakeTile,
               ReadTile, AddTile

\* The streams.
LEMMA ApartStep ==
    ASSUME KeptApart, IInv, KernelsApart, BarrierHolds, [Next]_vars
    PROVE  KernelsApart' /\ BarrierHolds'
<1>a. \A q \in Locals :
        /\ fwd[q] \in 0..MaxForwards /\ Launched(q) \in Nat /\ Ended(q) \in Nat
        /\ fwd[q] <= Ended(q) /\ MaxForwards \in Nat
        /\ pc[q] = "idle" => Launched(q) = fwd[q] /\ Ended(q) = fwd[q]
  BY Ranges, Consts DEF Ended, Launched
<1>1. ASSUME \A q \in Locals : Launched(q)' = Launched(q) /\ Ended(q)' >= Ended(q)
                               /\ Ended(q)' \in Nat
      PROVE  KernelsApart'
  BY <1>1, <1>a DEF KernelsApart
<1>2. CASE UNCHANGED vars
  BY <1>2 DEF vars, KernelsApart, BarrierHolds, Launched, Ended
<1>3. CASE Stores \/ Signals \/ Fetches \/ Reads \/ Adds
  BY <1>3, RoleLeaves DEF KernelsApart, BarrierHolds
<1>4. ASSUME NEW S \in SUBSET Locals, Launch(S), \A r \in S : pc[r] = "idle",
             \A q \in S : \A r \in Locals : fwd[q] <= Ended(r)
      PROVE  KernelsApart' /\ BarrierHolds'
  <2>1. \A q \in Locals :
           /\ Launched(q)' = IF q \in S THEN Launched(q) + 1 ELSE Launched(q)
           /\ Ended(q)' = Ended(q)
    BY <1>4, LaunchLeaves
  <2>2. KernelsApart' BY <1>a, <1>4, <2>1 DEF KernelsApart
  <2>3. BarrierHolds' BY <1>4, <2>1 DEF BarrierHolds, Launch
  <2> QED BY <2>2, <2>3
<1>5. CASE GrowBarrierBuffer
  <2>1. Launch(Locals) /\ \A r, q \in Locals : fwd[q] = fwd[r] /\ pc[r] = "idle"
    BY <1>5 DEF GrowBarrierBuffer
  <2>2. \A r, q \in Locals : fwd[q] <= Ended(r) BY <1>a, <2>1
  <2> QED BY <1>4, <2>1, <2>2
<1>6. ASSUME NEW q \in Locals, LaunchGemm(q) PROVE KernelsApart' /\ BarrierHolds'
  <2>1. Launch({q}) /\ pc[q] = "idle" /\ fwd[q] < MaxForwards /\ fwd[q] + 1 \notin GrowAt
        /\ MayLaunch(q)
    BY <1>6 DEF LaunchGemm
  <2>2. ASSUME NEW r \in Locals PROVE fwd[q] <= Ended(r)
    <3>1. CASE Sync = "launch"
      <4>1. fwd[r] >= fwd[q] BY <2>1, <3>1 DEF MayLaunch
      <4> QED BY <4>1, <1>a
    <3>2. CASE Sync = "group_barrier" BY <3>2 DEF BarrierHolds
    <3>3. CASE Sync = "none"
      <4>1. fwd[q] + 1 \in 1..MaxForwards BY <1>a, <2>1
      <4> QED BY <4>1, <2>1, <3>3 DEF KeptApart
    <3> QED BY <3>1, <3>2, <3>3, TilesAssumption
  <2> QED BY <1>4, <2>1, <2>2
<1>7. ASSUME NEW q \in Locals,
             DispatchCta(q) \/ KernelEnd(q) \/ GroupBarrier(q) \/ ReturnSum(q)
      PROVE  KernelsApart' /\ BarrierHolds'
  <2>1. \A r \in Locals : Launched(r)' = Launched(r) /\ Ended(r)' >= Ended(r)
    BY <1>7, StreamLeaves
  <2>2. \A r \in Locals : Ended(r)' \in Nat
    <3>1. IInv' BY <1>7, StreamIInv
    <3>2. \A r \in Locals : fwd'[r] \in Nat
      BY <3>1, Consts DEF IInv, Types, Forwards
    <3> QED BY <3>2 DEF Ended
  <2>3. ASSUME Sync = "group_barrier", NEW r \in Locals, NEW p \in Locals
        PROVE  fwd'[p] <= Ended(r) /\ (pc'[p] = "sum" => fwd'[p] + 1 <= Ended(r))
    <3>0. fwd[p] <= Ended(r) /\ (pc[p] = "sum" => fwd[p] + 1 <= Ended(r))
      BY <2>3 DEF BarrierHolds
    <3>1. CASE DispatchCta(q) BY <3>0, <3>1 DEF DispatchCta, stream
    <3>2. CASE KernelEnd(q) BY <2>3, <3>0, <3>2 DEF KernelEnd, IInv, Types
    <3>3. CASE GroupBarrier(q)
      <4>1. AtBarrier(r, fwd[q]) BY <3>3 DEF GroupBarrier
      <4>2. fwd[q] + 1 <= Ended(r) BY <4>1, <1>a DEF AtBarrier, Ended
      <4> QED BY <3>0, <3>3, <4>2 DEF GroupBarrier, IInv, Types
    <3>4. CASE ReturnSum(q)
      <4>1. pc[q] = "sum" /\ fwd' = [fwd EXCEPT ![q] = fwd[q] + 1]
            /\ pc' = [pc EXCEPT ![q] = "idle"]
        BY <3>4 DEF ReturnSum
      <4> QED BY <3>0, <4>1 DEF IInv, Types
    <3> QED BY <1>7, <3>1, <3>2, <3>3, <3>4
  <2>4. BarrierHolds'
    <3> SUFFICES ASSUME Sync = "group_barrier", NEW r \in Locals, NEW p \in Locals
                 PROVE  fwd'[p] <= Ended(r)' /\ (pc'[p] = "sum" => fwd'[p] + 1 <= Ended(r)')
      BY DEF BarrierHolds
    <3>1. fwd'[p] \in Nat
      <4>1. IInv' BY <1>7, StreamIInv
      <4> QED BY <4>1, Consts DEF IInv, Types, Forwards
    <3> QED BY <2>1, <2>2, <2>3, <1>a, <3>1
  <2> QED BY <1>1, <2>1, <2>2, <2>4
<1>8. ASSUME NEW q \in Locals, NEW c \in Ctas, CtaStep(q, c)
      PROVE  Stores \/ Signals \/ Fetches \/ Reads \/ Adds
  BY <1>8, RoleKinds
<1>9. ASSUME NEW q \in Locals, RankStep(q) PROVE KernelsApart' /\ BarrierHolds'
  BY <1>3, <1>6, <1>7, <1>8, <1>9 DEF RankStep
<1> QED BY <1>2, <1>5, <1>9 DEF Next

LEMMA OwnFirstStep ==
    ASSUME FlagInv, OwnPartialFirst, [Next]_vars PROVE OwnPartialFirst'
<1>0. IInv BY DEF FlagInv
<1> SUFFICES ASSUME Fuse, NEW q \in Locals, NEW s \in Locals, NEW y \in Ys,
                    Summed(q, s, y)'
             PROVE  Summed(q, q, y)'
  BY DEF OwnPartialFirst
<1>a. Summed(q, s, y) => Summed(q, q, y) BY DEF OwnPartialFirst
<1>1. ASSUME added' = added PROVE Summed(q, q, y)' BY <1>a, <1>1, SameAdded
<1>2. CASE Launches
  <2>1. PICK S \in SUBSET Locals : Launch(S) /\ \A r \in S : pc[r] = "idle"
    BY <1>2 DEF Launches
  <2>2. q \notin S BY <1>0, <2>1, Relaunched
  <2>3. Summed(q, s, y)' = Summed(q, s, y) /\ Summed(q, q, y)' = Summed(q, q, y)
    BY <1>0, <2>1, <2>2, LaunchLeaves
  <2> QED BY <1>a, <2>3
<1>3. CASE Adds
  <2>1. PICK r \in Locals, c \in Ctas, k \in Locals, z \in Ys : AddTile(r, c, k, z)
    BY <1>3 DEF Adds
  <2>2. /\ Summed(q, s, y)' <=> Summed(q, s, y) \/ (q = r /\ s = k /\ y = z)
        /\ Summed(q, q, y)' <=> Summed(q, q, y) \/ (q = r /\ q = k /\ y = z)
    BY <1>0, <2>1, AddOne
  <2>3. CASE Summed(q, s, y) BY <1>a, <2>2, <2>3
  <2>4. CASE ~Summed(q, s, y) /\ k = r BY <2>2, <2>4
  <2>5. CASE ~Summed(q, s, y) /\ k # r
    <3>1. q = r /\ s = k /\ y = z BY <2>2, <2>5
    <3>2. reduced[q][y] >= 1 BY <2>1, <2>5, <3>1 DEF AddTile, MayAdd
    <3>3. reduced[q][y] = CountsOf(Cardinality(Partials(q, y)))
      BY DEF FlagInv, SumsAreCounted
    <3>4. Partials(q, y) # {} BY <3>2, <3>3, AllPartials
    <3>5. PICK p \in Locals : Summed(q, p, y) BY <3>4 DEF Partials
    <3>6. Summed(q, q, y) BY <3>5 DEF OwnPartialFirst
    <3> QED BY <2>2, <3>6
  <2> QED BY <2>3, <2>4, <2>5
<1>4. CASE Quiet BY <1>1, <1>4 DEF Quiet
<1>5. CASE Stores \/ Signals \/ Fetches \/ Reads
  BY <1>1, <1>5 DEF Stores, Signals, Fetches, Reads, StoreTile, SignalTile, TakeTile, ReadTile
<1> QED BY <1>0, <1>2, <1>3, <1>4, <1>5, StepKinds

\* A tile stays what it is from its store until its rank launches again.
LEMMA TilesStep ==
    ASSUME IInv, TilesHold, [Next]_vars PROVE TilesHold'
<1> SUFFICES ASSUME NEW s \in Locals, NEW l \in Locals, NEW y \in Ys, Written(s, l, y)'
             PROVE  output'[s][l][y] = Launched(s)'
  BY DEF TilesHold
<1> DEFINE d == CtaFor(s, l, y)
           i == TurnFor(s, l, y)
<1>a. Written(s, l, y) => output[s][l][y] = Launched(s) BY DEF TilesHold
<1>b. d \in Ctas /\ i \in Nat BY TurnOfTile
<1>c. /\ Written(s, l, y) <=> Raised(s, l, y) \/ (hold[s][d] /\ epi[s][d] = i)
      /\ Written(s, l, y)' <=> Raised(s, l, y)' \/ (hold'[s][d] /\ epi'[s][d] = i)
      /\ Raised(s, l, y) = (epi[s][d] > i) /\ Raised(s, l, y)' = (epi'[s][d] > i)
  BY DEF Written, Raised
<1> HIDE DEF d, i
<1>1. ASSUME epi' = epi, hold' = hold, output' = output, Launched(s)' = Launched(s)
      PROVE  output'[s][l][y] = Launched(s)'
  BY <1>1, <1>a, <1>c
<1>2. CASE Launches
  <2>1. PICK S \in SUBSET Locals : Launch(S) /\ \A r \in S : pc[r] = "idle"
    BY <1>2 DEF Launches
  <2>2. output' = output /\ hold' = hold BY <2>1 DEF Launch
  <2>3. s \notin S
    <3>1. s \in S => ~Raised(s, l, y)' BY <2>1, Relaunched
    <3>2. s \in S => ~hold[s][d] BY <2>1, <1>b DEF IInv, RolesInOrder
    <3> QED BY <3>1, <3>2, <2>2, <1>c
  <2>4. epi'[s] = epi[s] BY <2>1, <2>3 DEF Launch
  <2>5. Launched(s)' = Launched(s) BY <2>1, <2>3, LaunchLeaves
  <2> QED BY <2>2, <2>4, <2>5, <1>a, <1>c
<1>3. CASE Stores
  <2>1. PICK r \in Locals, c \in Ctas, k \in Locals, z \in Ys : StoreTile(r, c, k, z)
    BY <1>3 DEF Stores
  <2>2. Launched(s)' = Launched(s) /\ epi' = epi
    BY <1>3, <2>1, RoleLeaves DEF StoreTile
  <2>3. CASE s = r /\ l = k /\ y = z
    <3>1. output'[s][l][y] = fwd[r] + 1 BY <2>1, <2>3 DEF StoreTile, IInv, Types
    <3>2. Launched(s) = fwd[r] + 1 BY <2>1, <2>3 DEF StoreTile, Launched
    <3> QED BY <2>2, <3>1, <3>2
  <2>4. CASE ~(s = r /\ l = k /\ y = z)
    <3>1. output'[s][l][y] = output[s][l][y] BY <2>1, <2>4 DEF StoreTile, IInv, Types
    <3>2. Written(s, l, y)
      <4>1. CASE Raised(s, l, y)' BY <4>1, <2>2, <1>c
      <4>2. CASE hold'[s][d] /\ epi'[s][d] = i
        <5>1. CASE s = r /\ d = c
          <6>1. CtaFor(r, k, z) = c /\ TurnFor(r, k, z) = epi[r][c]
            BY <2>1 DEF StoreTile, IsTile
          <6>2. l = k /\ y = z BY <4>2, <5>1, <6>1, <2>2, OneTile DEF d, i
          <6> QED BY <5>1, <6>2, <2>4
        <5>2. CASE ~(s = r /\ d = c)
          <6>1. hold'[s][d] = hold[s][d] BY <2>1, <5>2, <1>b DEF StoreTile, IInv, Types
          <6> QED BY <4>2, <6>1, <2>2, <1>c
        <5> QED BY <5>1, <5>2
      <4> QED BY <4>1, <4>2, <1>c
    <3> QED BY <3>1, <3>2, <2>2, <1>a
  <2> QED BY <2>3, <2>4
<1>4. CASE Signals
  <2>1. PICK r \in Locals, c \in Ctas, k \in Locals, z \in Ys : SignalTile(r, c, k, z)
    BY <1>4 DEF Signals
  <2>2. Launched(s)' = Launched(s) /\ output' = output
    BY <1>4, <2>1, RoleLeaves DEF SignalTile
  <2>3. Written(s, l, y)
    <3>1. epi[r][c] \in Nat /\ epi[s][d] \in Nat BY <1>b, <2>1 DEF IInv, Types
    <3>2. CASE s = r /\ d = c
      <4>1. epi'[s][d] = epi[s][d] + 1 /\ hold[s][d] /\ ~hold'[s][d]
        BY <2>1, <3>2 DEF SignalTile, IInv, Types
      <4>2. epi[s][d] > i \/ epi[s][d] = i
        <5> DEFINE n == epi[s][d]
                   m == epi'[s][d]
        <5>1. m > i BY <4>1, <1>c
        <5>2. m = n + 1 /\ n \in Nat BY <4>1, <3>1
        <5> HIDE DEF n, m
        <5>3. n > i \/ n = i BY ONLY <5>1, <5>2, <1>b
        <5> QED BY <5>3 DEF n
      <4> QED BY <4>1, <4>2, <1>c
    <3>3. CASE ~(s = r /\ d = c)
      <4>1. epi'[s][d] = epi[s][d] /\ hold'[s][d] = hold[s][d]
        BY <2>1, <3>3, <1>b DEF SignalTile, IInv, Types
      <4> QED BY <4>1, <1>c
    <3> QED BY <3>2, <3>3
  <2> QED BY <2>2, <2>3, <1>a
<1>5. CASE Quiet BY <1>1, <1>5 DEF Quiet
<1>6. CASE Fetches \/ Reads \/ Adds
  <2>1. epi' = epi /\ hold' = hold /\ output' = output
    BY <1>6 DEF Fetches, Reads, Adds, TakeTile, ReadTile, AddTile
  <2> QED BY <1>1, <1>6, <2>1, RoleLeaves
<1> QED BY <1>2, <1>3, <1>4, <1>5, <1>6, StepKinds

\* What the fetch warp has taken a flag for is of the forward of its rank.
LEMMA TakenIsCurrent ==
    ASSUME FlagInv, KernelsApart, TilesHold, NEW r \in Locals, NEW s \in Locals,
           NEW y \in Ys, pc[r] = "gemm", Fetched(r, s, y)
    PROVE  output[s][r][y] = Launched(r)
<1>0. IInv BY DEF FlagInv
<1>1. stored[s][r][y] = Raises(s, r, y) - Takes(r, s, y) BY DEF FlagInv, FlagsCountTiles
<1>2. stored[s][r][y] \in {0, 1} BY <1>0 DEF IInv, Types
<1>3. Launched(s) <= Launched(r) /\ Launched(s) \in Nat /\ Launched(r) \in Nat
  BY <1>0, Ranges DEF KernelsApart
<1>4. Takes(r, s, y) = Launched(r) + 1 BY DEF Takes
<1>5. Raises(s, r, y) = Launched(s) + (IF Raised(s, r, y) THEN 1 ELSE 0) BY DEF Raises
<1>6. Raised(s, r, y) /\ Launched(s) = Launched(r)
  BY ONLY <1>1, <1>2, <1>3, <1>4, <1>5
<1>7. Written(s, r, y) BY <1>6 DEF Written
<1> QED BY <1>6, <1>7 DEF TilesHold

LEMMA FetchesStep ==
    ASSUME FlagInv, KernelsApart, TilesHold, FetchesHold, [Next]_vars
    PROVE  FetchesHold'
<1>0. IInv BY DEF FlagInv
<1> SUFFICES ASSUME NEW q \in Locals, NEW d \in Ctas, added'[q][d] < read'[q][d]
             PROVE  smem'[q][d] = Launched(q)'
  BY DEF FetchesHold
<1>a. added[q][d] < read[q][d] => smem[q][d] = Launched(q) BY DEF FetchesHold
<1>b. added[q][d] \in Nat /\ read[q][d] \in Nat /\ taken[q][d] \in Nat
      /\ read[q][d] <= added[q][d] + 1
  BY <1>0 DEF IInv, Types, RolesInOrder
<1>1. ASSUME added'[q][d] = added[q][d], read'[q][d] = read[q][d],
             smem'[q][d] = smem[q][d], Launched(q)' = Launched(q)
      PROVE  smem'[q][d] = Launched(q)'
  BY <1>1, <1>a
<1>2. CASE Launches
  <2>1. PICK S \in SUBSET Locals : Launch(S) /\ \A r \in S : pc[r] = "idle"
    BY <1>2 DEF Launches
  <2>2. q \notin S
    <3>1. q \in S => added'[q][d] = 0 /\ read'[q][d] = 0 BY <2>1 DEF Launch, Zeros
    <3> QED BY <3>1
  <2>3. added'[q] = added[q] /\ read'[q] = read[q] /\ smem'[q] = smem[q]
    BY <2>1, <2>2 DEF Launch
  <2>4. Launched(q)' = Launched(q) BY <1>0, <2>1, <2>2, LaunchLeaves
  <2> QED BY <1>1, <2>3, <2>4
<1>3. CASE Reads
  <2>1. PICK r \in Locals, c \in Ctas, s \in Locals, y \in Ys : ReadTile(r, c, s, y)
    BY <1>3 DEF Reads
  <2>2. Launched(q)' = Launched(q) BY <1>3, RoleLeaves
  <2>3. CASE q = r /\ d = c
    <3>1. smem'[q][d] = output[s][r][y] BY <2>1, <2>3, <1>0 DEF ReadTile, IInv, Types
    <3>2. /\ CtaFor(r, s, y) = c /\ TurnFor(r, s, y) = read[r][c] /\ pc[r] = "gemm"
          /\ read[r][c] < taken[r][c]
      BY <2>1 DEF ReadTile, IsTile
    <3>3. Fetched(r, s, y) BY <3>2, <2>3, <1>b DEF Fetched
    <3> QED BY <2>2, <2>3, <3>1, <3>2, <3>3, TakenIsCurrent
  <2>4. CASE ~(q = r /\ d = c)
    <3>1. read'[q][d] = read[q][d] /\ smem'[q][d] = smem[q][d] /\ added' = added
      BY <2>1, <2>4, <1>0 DEF ReadTile, IInv, Types
    <3> QED BY <1>1, <2>2, <3>1
  <2> QED BY <2>3, <2>4
<1>4. CASE Adds
  <2>1. PICK r \in Locals, c \in Ctas, s \in Locals, y \in Ys : AddTile(r, c, s, y)
    BY <1>4 DEF Adds
  <2>2. Launched(q)' = Launched(q) /\ read' = read /\ smem' = smem
    BY <1>4, <2>1, RoleLeaves DEF AddTile
  <2>3. ~(q = r /\ d = c)
    <3>1. q = r /\ d = c => added'[q][d] = added[q][d] + 1
      BY <2>1, <1>0 DEF AddTile, IInv, Types
    <3> QED BY <3>1, <2>2, <1>b
  <2>4. added'[q][d] = added[q][d] BY <2>1, <2>3, <1>0 DEF AddTile, IInv, Types
  <2> QED BY <1>1, <2>2, <2>4
<1>5. CASE Quiet BY <1>1, <1>5 DEF Quiet
<1>6. CASE Stores \/ Signals \/ Fetches
  <2>1. added' = added /\ read' = read /\ smem' = smem
    BY <1>6 DEF Stores, Signals, Fetches, StoreTile, SignalTile, TakeTile
  <2> QED BY <1>1, <1>6, <2>1, RoleLeaves
<1> QED BY <1>0, <1>2, <1>3, <1>4, <1>5, <1>6, StepKinds

LEMMA SumsStep ==
    ASSUME FlagInv, OwnPartialFirst, FetchesHold, SumsHold, [Next]_vars
    PROVE  SumsHold'
<1>0. IInv BY DEF FlagInv
<1> SUFFICES ASSUME NEW q \in Locals, NEW s \in Locals, NEW y \in Ys, Summed(q, s, y)'
             PROVE  buffer'[q][y][s] = Launched(q)'
  BY DEF SumsHold
<1>a. Summed(q, s, y) => buffer[q][y][s] = Launched(q) BY DEF SumsHold
<1>1. ASSUME added' = added, buffer' = buffer, Launched(q)' = Launched(q)
      PROVE  buffer'[q][y][s] = Launched(q)'
  BY <1>1, <1>a, SameAdded
<1>2. CASE Launches
  <2>1. PICK S \in SUBSET Locals : Launch(S) /\ \A r \in S : pc[r] = "idle"
    BY <1>2 DEF Launches
  <2>2. q \notin S BY <1>0, <2>1, Relaunched
  <2>3. Summed(q, s, y)' = Summed(q, s, y) /\ Launched(q)' = Launched(q)
    BY <1>0, <2>1, <2>2, LaunchLeaves
  <2>4. buffer' = buffer BY <2>1 DEF Launch
  <2> QED BY <1>a, <2>3, <2>4
<1>3. CASE Adds
  <2>1. PICK r \in Locals, c \in Ctas, k \in Locals, z \in Ys : AddTile(r, c, k, z)
    BY <1>3 DEF Adds
  <2>2. Launched(q)' = Launched(q) BY <1>3, RoleLeaves
  <2>3. /\ Summed(q, s, y)' <=> Summed(q, s, y) \/ (q = r /\ s = k /\ y = z)
        /\ ~Summed(r, k, z)
    BY <1>0, <2>1, AddOne
  <2>4. smem[r][c] = Launched(r) BY <2>1 DEF AddTile, FetchesHold
  <2>5. CASE ~(q = r /\ y = z)
    <3>1. buffer'[q][y] = buffer[q][y] BY <2>1, <2>5, <1>0 DEF AddTile, IInv, Types
    <3> QED BY <1>a, <2>2, <2>3, <2>5, <3>1
  <2>6. CASE q = r /\ y = z /\ s = k
    <3>1. buffer'[q][y][s] = smem[r][c] BY <2>1, <2>6, <1>0 DEF AddTile, IInv, Types
    <3> QED BY <2>2, <2>4, <2>6, <3>1
  <2>7. CASE q = r /\ y = z /\ s # k
    <3>1. Summed(q, s, y) BY <2>3, <2>7
    <3>2. ~(Fuse /\ k = r) BY <2>3, <2>7, <3>1 DEF OwnPartialFirst
    <3>3. buffer'[q][y][s] = buffer[q][y][s]
      BY <2>1, <2>7, <3>2, <1>0 DEF AddTile, IInv, Types
    <3> QED BY <1>a, <2>2, <3>1, <3>3
  <2> QED BY <2>5, <2>6, <2>7
<1>4. CASE Quiet BY <1>1, <1>4 DEF Quiet
<1>5. CASE Stores \/ Signals \/ Fetches \/ Reads
  <2>1. added' = added /\ buffer' = buffer
    BY <1>5 DEF Stores, Signals, Fetches, Reads, StoreTile, SignalTile, TakeTile, ReadTile
  <2> QED BY <1>1, <1>5, <2>1, RoleLeaves
<1> QED BY <1>0, <1>2, <1>3, <1>4, <1>5, StepKinds

\* Between the kernel and its result every partial is in the sum.
LEMMA SumsComplete ==
    ASSUME IInv, SumsHold, NEW r \in Locals, pc[r] \in {"barrier", "sum"}
    PROVE  \A y \in Ys, s \in Locals : Summed(r, s, y) /\ buffer[r][y][s] = fwd[r] + 1
<1>1. Launched(r) = fwd[r] + 1 /\ Launched(r) # 0 BY Ranges DEF Launched
<1>2. \A y \in Ys, s \in Locals : Summed(r, s, y) BY <1>1, AtRest
<1> QED BY <1>1, <1>2 DEF SumsHold

LEMMA ResultsStep ==
    ASSUME IInv, SumsHold, SumsCurrent, [Next]_vars
    PROVE  SumsCurrent'
<1> SUFFICES ASSUME NEW q \in Locals PROVE ~wrong'[q] BY DEF SumsCurrent
<1>a. ~wrong[q] BY DEF SumsCurrent
<1>1. ASSUME NEW r \in Locals, ReturnSum(r) PROVE ~wrong'[q]
  <2>1. \A y \in Ys, s \in Locals : buffer[r][y][s] = fwd[r] + 1
    BY <1>1, SumsComplete DEF ReturnSum
  <2>2. wrong' = [wrong EXCEPT ![r] =
                     @ \/ \E y \in Ys : \E s \in Locals : buffer[r][y][s] # fwd[r] + 1]
    BY <1>1 DEF ReturnSum
  <2>3. \A p \in Locals : ~wrong[p] BY DEF SumsCurrent
  <2>4. wrong \in [Locals -> BOOLEAN] BY DEF IInv, Types
  <2> QED BY <2>1, <2>2, <2>3, <2>4
<1>2. CASE UNCHANGED vars BY <1>2, <1>a DEF vars
<1>3. CASE GrowBarrierBuffer BY <1>3, <1>a DEF GrowBarrierBuffer, Launch
<1>4. ASSUME NEW r \in Locals, RankStep(r), ~ReturnSum(r) PROVE ~wrong'[q]
  <2>1. wrong' = wrong
    BY <1>4 DEF RankStep, LaunchGemm, Launch, DispatchCta, KernelEnd, GroupBarrier,
                CtaStep, EpilogueStore, EpilogueSignal, FetchWait, FetchRead, ReduceTile,
                stream
  <2> QED BY <1>a, <2>1
<1> QED BY <1>1, <1>2, <1>3, <1>4 DEF Next

LEMMA InitDataInv == Init => DataInv
<1> SUFFICES ASSUME Init PROVE DataInv OBVIOUS
<1>0. IInv BY InitIInv
<1>1. \A r \in Locals : Launched(r) = 0 /\ Ended(r) = 0 /\ fwd[r] = 0 /\ pc[r] = "idle"
  BY DEF Init, Launched, Ended
<1>2. \A r, l \in Locals, y \in Ys : ~Raised(r, l, y) /\ ~Summed(r, l, y)
  BY <1>0, <1>1, AtRest
<1>3. \A r, l \in Locals, y \in Ys : ~Written(r, l, y)
  BY <1>2, TurnOfTile DEF Written, Init
<1>4. KernelsApart /\ BarrierHolds BY <1>1 DEF KernelsApart, BarrierHolds
<1>5. OwnPartialFirst /\ TilesHold /\ SumsHold
  BY <1>2, <1>3 DEF OwnPartialFirst, TilesHold, SumsHold
<1>6. FetchesHold /\ SumsCurrent BY DEF FetchesHold, SumsCurrent, Init, Zeros
<1> QED BY <1>4, <1>5, <1>6 DEF DataInv

LEMMA StepDataInv ==
    ZeroedFlags /\ KeptApart /\ FlagInv /\ DataInv /\ [Next]_vars => FlagInv' /\ DataInv'
<1> SUFFICES ASSUME ZeroedFlags, KeptApart, FlagInv, DataInv, [Next]_vars
             PROVE  FlagInv' /\ DataInv'
  OBVIOUS
<1>0. IInv BY DEF FlagInv
<1>1. FlagInv' BY StepFlagInv
<1>2. OwnPartialFirst' BY OwnFirstStep DEF DataInv
<1>3. KernelsApart' /\ BarrierHolds' BY <1>0, ApartStep DEF DataInv
<1>4. TilesHold' BY <1>0, TilesStep DEF DataInv
<1>5. FetchesHold' BY FetchesStep DEF DataInv
<1>6. SumsHold' BY SumsStep DEF DataInv
<1>7. SumsCurrent' BY <1>0, ResultsStep DEF DataInv
<1> QED BY <1>1, <1>2, <1>3, <1>4, <1>5, <1>6, <1>7 DEF DataInv

\* SumsCurrent: every result is the sum of the partials of its own forward, however many
\* ranks, CTAs and forwards there are, when something keeps the forwards apart.
THEOREM SumsAreCurrent == ZeroedFlags /\ KeptApart => (Safe => []SumsCurrent)
<1> SUFFICES ASSUME ZeroedFlags, KeptApart PROVE Safe => []SumsCurrent OBVIOUS
<1>1. Init => FlagInv /\ DataInv BY InitFlagInv, InitDataInv
<1>2. FlagInv /\ DataInv /\ [Next]_vars => (FlagInv /\ DataInv)' BY StepDataInv
<1>3. FlagInv /\ DataInv => SumsCurrent BY DEF DataInv
<1> QED BY <1>1, <1>2, <1>3, PTL DEF Safe

-----------------------------------------------------------------------------
(* The refinement of NodeReduce. *)

LEMMA AddedIsSummed ==
    ASSUME IInv, NEW r \in Locals, NEW y \in Ys, NEW s \in Locals
    PROVE  Added(r, y, s) <=> Summed(r, s, y)
<1>1. ASSUME Added(r, y, s) PROVE Summed(r, s, y)
  <2>0. PICK c \in Ctas : \E i \in 0..(added[r][c] - 1) :
            YOf(TileAt(c, i)) = y /\ LocalOf[r][TileAt(c, i)] = s
    BY <1>1 DEF Added
  <2>1. PICK i \in 0..(added[r][c] - 1) :
            YOf(TileAt(c, i)) = y /\ LocalOf[r][TileAt(c, i)] = s
    BY <2>0
  <2>2. /\ added[r][c] \in Nat /\ read[r][c] \in Nat /\ taken[r][c] \in Nat
        /\ CtaLength[c] \in Nat /\ added[r][c] <= CtaLength[c]
    BY Lengths DEF IInv, Types, RolesInOrder
  <2>3. i \in Nat /\ i < added[r][c] /\ i < CtaLength[c] BY <2>1, <2>2
  <2>4. CtaFor(r, s, y) = c /\ TurnFor(r, s, y) = i BY <2>1, <2>3, TileOfTurn
  <2> QED BY <2>2, <2>3, <2>4 DEF Summed
<1>2. ASSUME Summed(r, s, y) PROVE Added(r, y, s)
  <2> DEFINE c == CtaFor(r, s, y)
             i == TurnFor(r, s, y)
  <2>1. c \in Ctas /\ i \in Nat /\ LocalOf[r][TileAt(c, i)] = s /\ YOf(TileAt(c, i)) = y
    BY TurnOfTile
  <2>2. i < added[r][c] /\ added[r][c] \in Nat BY <1>2, <2>1 DEF Summed, IInv, Types
  <2>3. i \in 0..(added[r][c] - 1) BY <2>1, <2>2
  <2> QED BY <2>1, <2>3 DEF Added
<1> QED BY <1>1, <1>2

\* The variables of NodeReduce, in the terms of the invariants.
PublishedBy(r, y) == IF \A s \in Locals : Summed(r, s, y) THEN Launched(r) ELSE 0
Mapped ==
    /\ NodeLaunched = [r \in Locals |-> Launched(r)]
    /\ NodeEnded = [r \in Locals |-> Ended(r)]
    /\ NodePublished = [r \in Locals |-> [y \in Ys |-> PublishedBy(r, y)]]

LEMMA MappedAlways == FlagInv /\ DataInv => Mapped
<1> SUFFICES ASSUME FlagInv, DataInv PROVE Mapped OBVIOUS
<1>0. IInv /\ SumsHold BY DEF FlagInv, DataInv
<1>1. NodeLaunched = [r \in Locals |-> Launched(r)]
      /\ NodeEnded = [r \in Locals |-> Ended(r)]
  BY DEF NodeLaunched, NodeEnded, Launched, Ended
<1>2. ASSUME NEW r \in Locals, NEW y \in Ys
      PROVE  (IF \A s \in Locals : Added(r, y, s) THEN SumOf(r, y) ELSE 0) = PublishedBy(r, y)
  <2>1. \A s \in Locals : Added(r, y, s) <=> Summed(r, s, y) BY <1>0, AddedIsSummed
  <2>2. ASSUME \A s \in Locals : Summed(r, s, y) PROVE SumOf(r, y) = Launched(r)
    BY <1>0, <2>2 DEF SumsHold, SumOf
  <2> QED BY <2>1, <2>2 DEF PublishedBy
<1>3. NodePublished = [r \in Locals |-> [y \in Ys |-> PublishedBy(r, y)]]
  BY <1>2 DEF NodePublished
<1> QED BY <1>1, <1>3 DEF Mapped

\* What is in the sum of a rank has been launched by its rank.
LEMMA SummedIsLaunched ==
    ASSUME FlagInv, NEW r \in Locals, NEW s \in Locals, NEW y \in Ys,
           CtaFor(r, s, y) \in Ctas, read[r][CtaFor(r, s, y)] > TurnFor(r, s, y)
    PROVE  Launched(s) >= Launched(r)
<1>0. IInv BY DEF FlagInv
<1>1. Fetched(r, s, y)
  <2> DEFINE c == CtaFor(r, s, y)
             i == TurnFor(r, s, y)
  <2>1. c \in Ctas /\ i \in Nat BY TurnOfTile
  <2>2. read[r][c] \in Nat /\ taken[r][c] \in Nat /\ read[r][c] <= taken[r][c]
        /\ read[r][c] > i
    BY <1>0, <2>1 DEF IInv, Types, RolesInOrder
  <2> HIDE DEF c, i
  <2>3. taken[r][c] > i BY <2>1, <2>2
  <2> QED BY <2>3 DEF Fetched, c, i
<1>2. stored[s][r][y] = Raises(s, r, y) - Takes(r, s, y) BY DEF FlagInv, FlagsCountTiles
<1>3. stored[s][r][y] \in {0, 1} BY <1>0 DEF IInv, Types
<1>4. Takes(r, s, y) = Launched(r) + 1 BY <1>1 DEF Takes
<1>5. Raises(s, r, y) = Launched(s) + (IF Raised(s, r, y) THEN 1 ELSE 0) BY DEF Raises
<1>6. Launched(s) \in Nat /\ Launched(r) \in Nat BY <1>0, Ranges
<1> QED BY ONLY <1>2, <1>3, <1>4, <1>5, <1>6

LEMMA StepRefines ==
    ASSUME FlagInv, DataInv, Mapped, Mapped', [Next]_vars, ZeroedFlags
    PROVE  [Node!NNext]_(Node!nvars)
<1>0. IInv BY DEF FlagInv
<1>m. /\ NodeLaunched = [r \in Locals |-> Launched(r)]
      /\ NodeEnded = [r \in Locals |-> Ended(r)]
      /\ NodePublished = [r \in Locals |-> [y \in Ys |-> PublishedBy(r, y)]]
      /\ NodeLaunched' = [r \in Locals |-> Launched(r)']
      /\ NodeEnded' = [r \in Locals |-> Ended(r)']
      /\ NodePublished' = [r \in Locals |-> [y \in Ys |-> PublishedBy(r, y)']]
  BY DEF Mapped
<1>r. \A q \in Locals : /\ Launched(q) \in Nat /\ Ended(q) \in Nat
                        /\ Launched(q) \in Forwards
  BY <1>0, Ranges
<1>p. \A q \in Locals, y \in Ys :
        /\ PublishedBy(q, y) = IF \A s \in Locals : Summed(q, s, y) THEN Launched(q) ELSE 0
        /\ PublishedBy(q, y)' =
              IF \A s \in Locals : Summed(q, s, y)' THEN Launched(q)' ELSE 0
  BY DEF PublishedBy
<1>1. ASSUME \A q \in Locals : Launched(q)' = Launched(q) /\ Ended(q)' = Ended(q),
             added' = added
      PROVE  UNCHANGED Node!nvars
  <2>1. \A q \in Locals, y \in Ys : PublishedBy(q, y)' = PublishedBy(q, y)
    BY <1>1, <1>p, SameAdded
  <2> QED BY <1>1, <1>m, <2>1 DEF Node!nvars
<1>2. CASE UNCHANGED vars BY <1>1, <1>2 DEF vars, Launched, Ended
<1>3. CASE GrowBarrierBuffer
  <2>1. /\ Launch(Locals) /\ \A r \in Locals : pc[r] = "idle"
        /\ \A r \in Locals : fwd[r] < MaxForwards
    BY <1>3 DEF GrowBarrierBuffer
  <2>2. \A r \in Locals : /\ Launched(r)' = Launched(r) + 1 /\ Ended(r)' = Ended(r)
                          /\ Launched(r) = Ended(r) /\ Launched(r) < MaxForwards
    BY <1>0, <2>1, LaunchLeaves DEF Launched, Ended
  <2>3. \A r \in Locals, y \in Ys : PublishedBy(r, y)' = 0
    BY <1>0, <1>p, <2>1, Relaunched
  <2>4. Node!NLaunchAll BY <1>m, <2>2, <2>3 DEF Node!NLaunchAll
  <2> QED BY <2>4 DEF Node!NNext
<1>4. ASSUME NEW r \in Locals, LaunchGemm(r) PROVE Node!NNext
  <2>1. Launch({r}) /\ pc[r] = "idle" /\ fwd[r] < MaxForwards BY <1>4 DEF LaunchGemm
  <2>2. \A q \in Locals :
          /\ Launched(q)' = IF q = r THEN Launched(q) + 1 ELSE Launched(q)
          /\ Ended(q)' = Ended(q)
          /\ q # r => \A s \in Locals, y \in Ys : Summed(q, s, y)' = Summed(q, s, y)
    BY <1>0, <2>1, LaunchLeaves
  <2>3. Launched(r) = Ended(r) /\ Launched(r) < MaxForwards
    BY <2>1 DEF Launched, Ended
  <2>4. \A y \in Ys : PublishedBy(r, y)' = 0 BY <1>0, <1>p, <2>1, Relaunched
  <2>5. \A q \in Locals, y \in Ys : q # r => PublishedBy(q, y)' = PublishedBy(q, y)
    BY <1>p, <2>2
  <2>6. Node!NLaunch(r) BY <1>m, <2>2, <2>3, <2>4, <2>5 DEF Node!NLaunch
  <2> QED BY <2>6 DEF Node!NNext
<1>5. ASSUME NEW r \in Locals, KernelEnd(r) PROVE Node!NNext
  <2>1. /\ \A q \in Locals : Launched(q)' = Launched(q)
        /\ added' = added
    BY <1>0, <1>5, StreamLeaves
  <2>2. pc[r] = "gemm" /\ pc'[r] \in {"barrier", "sum"} /\ fwd' = fwd
        /\ \A q \in Locals \ {r} : pc'[q] = pc[q]
    BY <1>0, <1>5 DEF KernelEnd, IInv, Types
  <2>3. Ended(r) < Launched(r) /\ Ended(r)' = Launched(r)
        /\ \A q \in Locals \ {r} : Ended(q)' = Ended(q)
    BY <2>2, <1>0, Ranges DEF Ended, Launched
  <2>4. \A y \in Ys : PublishedBy(r, y) # 0
    <3>1. ASSUME NEW y \in Ys, NEW s \in Locals PROVE Summed(r, s, y)
      <4>1. CtaFor(r, s, y) \in Ctas /\ TurnFor(r, s, y) \in Nat
            /\ TurnFor(r, s, y) < CtaLength[CtaFor(r, s, y)]
        BY TurnOfTile
      <4>2. added[r][CtaFor(r, s, y)] = CtaLength[CtaFor(r, s, y)]
        BY <1>5, <4>1 DEF KernelEnd, Finished
      <4>3. CtaLength[CtaFor(r, s, y)] \in Nat BY <4>1, Lengths
      <4> QED BY <4>1, <4>2, <4>3 DEF Summed
    <3>2. Launched(r) # 0 BY <2>3, <1>r
    <3> QED BY <1>p, <3>1, <3>2
  <2>5. \A q \in Locals, y \in Ys : PublishedBy(q, y)' = PublishedBy(q, y)
    BY <1>p, <2>1, SameAdded
  <2>6. Node!NEnd(r) BY <1>m, <2>1, <2>3, <2>4, <2>5 DEF Node!NEnd
  <2> QED BY <2>6 DEF Node!NNext
<1>6. ASSUME NEW r \in Locals, DispatchCta(r) \/ GroupBarrier(r) \/ ReturnSum(r)
      PROVE  UNCHANGED Node!nvars
  <2>1. added' = added /\ \A q \in Locals : Launched(q)' = Launched(q)
    BY <1>0, <1>6, StreamLeaves
  <2>2. \A q \in Locals : Ended(q)' = Ended(q)
    BY <1>6, <1>0 DEF DispatchCta, GroupBarrier, ReturnSum, stream, Ended, IInv, Types
  <2> QED BY <1>1, <2>1, <2>2
<1>7. CASE Stores \/ Signals \/ Fetches \/ Reads
  <2>1. added' = added
    BY <1>7 DEF Stores, Signals, Fetches, Reads, StoreTile, SignalTile, TakeTile, ReadTile
  <2> QED BY <1>1, <1>7, <2>1, RoleLeaves
<1>8. CASE Adds
  <2>1. PICK r \in Locals, c \in Ctas, k \in Locals, z \in Ys : AddTile(r, c, k, z)
    BY <1>8 DEF Adds
  <2>2. \A q \in Locals : Launched(q)' = Launched(q) /\ Ended(q)' = Ended(q)
    BY <1>8, RoleLeaves
  <2>3. /\ ~Summed(r, k, z)
        /\ \A q, s \in Locals, y \in Ys :
              Summed(q, s, y)' <=> Summed(q, s, y) \/ (q = r /\ s = k /\ y = z)
    BY <1>0, <2>1, AddOne
  <2>4. \A q \in Locals, y \in Ys :
          ~(q = r /\ y = z) => PublishedBy(q, y)' = PublishedBy(q, y)
    BY <1>p, <2>2, <2>3
  <2>5. PublishedBy(r, z) = 0 BY <1>p, <2>3
  <2>6. CASE \E s \in Locals : ~Summed(r, s, z)'
    <3>1. PublishedBy(r, z)' = 0 BY <1>p, <2>6
    <3>2. \A q \in Locals, y \in Ys : PublishedBy(q, y)' = PublishedBy(q, y)
      BY <2>4, <2>5, <3>1
    <3> QED BY <1>m, <2>2, <3>2 DEF Node!nvars
  <2>7. CASE \A s \in Locals : Summed(r, s, z)'
    <3>1. PublishedBy(r, z)' = Launched(r) BY <1>p, <2>2, <2>7
    <3>2. pc[r] = "gemm" /\ Ended(r) < Launched(r)
      BY <2>1, <1>0, Ranges DEF AddTile
    <3>3. ASSUME NEW s \in Locals PROVE Launched(s) >= Launched(r)
      <4> DEFINE d == CtaFor(r, s, z)
                 i == TurnFor(r, s, z)
      <4>1. d \in Ctas /\ i \in Nat BY TurnOfTile
      <4>2. added[r][d] \in Nat /\ read[r][d] \in Nat /\ added[r][d] <= read[r][d]
        BY <1>0, <4>1 DEF IInv, Types, RolesInOrder
      <4>3. added[r][d] > i \/ (d = c /\ i = added[r][c])
        BY <2>1, <2>3, <2>7 DEF Summed, AddTile, IsTile
      <4>4. added[r][c] < read[r][c] BY <2>1 DEF AddTile
      <4>5. read[r][d] > i
        <5> HIDE DEF d, i
        <5>1. CASE added[r][d] > i BY <5>1, <4>1, <4>2
        <5>2. CASE d = c /\ i = added[r][c] BY <5>2, <4>2, <4>4
        <5> QED BY <4>3, <5>1, <5>2
      <4> QED BY <4>1, <4>5, SummedIsLaunched
    <3>4. Node!NPublish(r, z)
      BY <1>m, <2>2, <2>4, <2>5, <3>1, <3>2, <3>3 DEF Node!NPublish
    <3> QED BY <3>4 DEF Node!NNext
  <2> QED BY <2>6, <2>7
<1>9. ASSUME NEW r \in Locals, RankStep(r) PROVE [Node!NNext]_(Node!nvars)
  <2>1. ASSUME NEW c \in Ctas, CtaStep(r, c) PROVE [Node!NNext]_(Node!nvars)
    BY <1>0, <1>7, <1>8, <2>1, RoleKinds
  <2> QED BY <1>4, <1>5, <1>6, <1>9, <2>1 DEF RankStep
<1> QED BY <1>2, <1>3, <1>9 DEF Next

LEMMA InitRefines == Init => Node!NInit
<1> SUFFICES ASSUME Init PROVE Node!NInit OBVIOUS
<1>0. IInv BY InitIInv
<1>1. \A r \in Locals : fwd[r] = 0 /\ pc[r] = "idle" BY DEF Init
<1>2. \A r \in Locals : Launched(r) = 0 BY <1>1 DEF Launched
<1>3. \A r, s \in Locals, y \in Ys : ~Added(r, y, s)
  BY <1>0, <1>1, <1>2, AtRest, AddedIsSummed
<1>4. NodePublished = [r \in Locals |-> [y \in Ys |-> 0]]
  BY <1>3 DEF NodePublished
<1>5. NodeLaunched = [r \in Locals |-> 0] /\ NodeEnded = [r \in Locals |-> 0]
  BY <1>1 DEF NodeLaunched, NodeEnded
<1> QED BY <1>4, <1>5 DEF Node!NInit

\* ImplementsNodeReduce: seen from outside, the kernels of a node only publish sums of the
\* forward they are in, after every rank of the node has launched it.
THEOREM Refinement == ZeroedFlags /\ KeptApart => (Safe => ImplementsNodeReduce)
<1> SUFFICES ASSUME ZeroedFlags, KeptApart PROVE Safe => ImplementsNodeReduce OBVIOUS
<1>1. Init => FlagInv /\ DataInv BY InitFlagInv, InitDataInv
<1>2. FlagInv /\ DataInv /\ [Next]_vars => (FlagInv /\ DataInv)' BY StepDataInv
<1>3. FlagInv /\ DataInv => Mapped BY MappedAlways
<1>4. FlagInv /\ DataInv /\ Mapped /\ Mapped' /\ [Next]_vars => [Node!NNext]_(Node!nvars)
  BY StepRefines
<1>5. Init => Node!NInit BY InitRefines
<1> QED BY <1>1, <1>2, <1>3, <1>4, <1>5, PTL DEF Safe, ImplementsNodeReduce, Node!NSpec

=============================================================================
