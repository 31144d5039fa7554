------------------------- MODULE GemmRsForward_proofs -------------------------
(***************************************************************************)
(* Theorems about GemmRsForward, for every number of ranks, tiles, thread  *)
(* groups and forwards.                                                    *)
(*                                                                         *)
(* Part one: a forward whose operations have a certificate (RingOrder)     *)
(* returns every partial product once.  The inductive invariant Inv says   *)
(* of a configuration c that the ranks are in the same forward or one      *)
(* apart, as the barriers and callers see to; that with an event all       *)
(* that the certificate puts behind it is over (OrderKept); that a flag    *)
(* which is up was raised in this forward (FlagsMean); and that a place    *)
(* holds the sum of the last event there (PlacesHold).                     *)
(*                                                                         *)
(* Part two: nobody is stuck before the end.  A flag that is up stays up   *)
(* for the rest of the forward (FlagsUp), as nobody zeroes its flags while *)
(* a peer is in its kernels; and the groups of a wave that are through are *)
(* never all of them (TeamsShort).  If the operations have numbers that    *)
(* grow along the lists and from each flag to who waits for it, then of    *)
(* the ranks in their kernels the one whose operation has the least number *)
(* is ready (LeastIsReady); if none is, the rank with the fewest arrivals  *)
(* moves (StreamsMove).                                                    *)
(*                                                                         *)
(* Part three: the one-dimensional rings have such a certificate and such  *)
(* numbers, on any number of ranks: the one that pulls, those that push    *)
(* (by tile and by segment), and the one of additions and copies.          *)
(***************************************************************************)
EXTENDS GemmRsForward, RingOrder, SequenceTheorems, WellFoundedInduction, TLAPS

-----------------------------------------------------------------------------
(* The configuration c of a behaviour. *)

TilesOf(c)  == 0..(c.tiles - 1)
GroupsOf(c) == 0..(c.groups - 1)
WavesOf(c)  == (c.tiles + c.groups - 1) \div c.groups

\* A configuration the theorems are about.
Fine(c) == Sound(c) /\ c.forwards <= MaxForwards /\ (c.epilogue = "keep" => Ordered(c))

\* All of them.
ConfigsOK == MaxForwards \in Nat /\ \A name \in DOMAIN Configs : Fine(Configs[name])

\* A certificate of its operations.
Order(c) == CHOOSE before \in [OpEvents(c) -> SUBSET Events(c)] :
                \E parts \in [OpEvents(c) -> SUBSET Members(c)] : Certified(c, before, parts)
Sums(c) == CHOOSE parts \in [OpEvents(c) -> SUBSET Members(c)] : Certified(c, Order(c), parts)

\* What is over when event e starts, and the sum it is, of forward f.
Behind(c, e)    == Past(Order(c), e)
Amount(c, f, e) == {f} \X Part(Sums(c), e)

\* The step of a rank's kernel that is operation i on tile t.
At(c, i, t) == (i - 1) * WavesOf(c) + t \div c.groups

-----------------------------------------------------------------------------
(* The invariant. *)

\* c is the configuration of this behaviour.
Is(c) == config \in DOMAIN Configs /\ Configs[config] = c

Values(c) == SUBSET ({Junk} \cup ((1..MaxForwards) \X Members(c)))
Buffers(c) == [Members(c) -> [Members(c) -> [TilesOf(c) -> Values(c)]]]

Typed(c) ==
    /\ Is(c) /\ late \in c.late
    /\ fwd \in [Members(c) -> Nat]
    /\ pc \in [Members(c) -> {"idle", "zeroed", "run", "ended"}]
    /\ wrong \in [Members(c) -> BOOLEAN]
    /\ arrived \in [Members(c) -> Nat]
    /\ todo \in [Members(c) -> SUBSET (Members(c) \X TilesOf(c))]
    /\ place \in [Members(c) -> Nat]
    /\ done \in [Members(c) -> SUBSET GroupsOf(c)]
    /\ DOMAIN flags = Members(c) /\ flags = [r \in Members(c) |-> flags[r]]
    /\ out \in Buffers(c) /\ red \in Buffers(c)
    /\ \A r \in Members(c) :
        /\ place[r] <= Len(c.ops[r]) * WavesOf(c)
        /\ pc[r] # "run" \/ place[r] = Len(c.ops[r]) * WavesOf(c) => done[r] = {}
        /\ fwd[r] <= c.forwards /\ (pc[r] # "idle" => fwd[r] < c.forwards)

\* r is through with the kernels of its forward n + 1, or in them.
Left(n, r)   == fwd[r] > n \/ (fwd[r] = n /\ pc[r] = "ended")
Inside(n, r) == fwd[r] = n /\ pc[r] = "run"

\* Event e of forward n + 1 is over on tile t.
OpDone(c, n, r, i, t) ==
    \/ Left(n, r)
    \/ /\ Inside(n, r)
       /\ At(c, i, t) < place[r] \/ (At(c, i, t) = place[r] /\ t % c.groups \in done[r])
EpiDone(n, r, s, t) == Left(n, r) \/ (Inside(n, r) /\ <<s, t>> \notin todo[r])
Done(c, n, e, t) == IF e[1] = "op" THEN OpDone(c, n, e[2], e[3], t) ELSE EpiDone(n, e[2], e[3], t)

\* A rank has arrived once where it zeroed its buffers and once behind the kernels; who is
\* through a barrier finds all ranks arrived there.
BarriersHold(c) ==
    c.epilogue # "store" => \A r, p \in Members(c) :
        /\ arrived[r] = 2 * fwd[r] + (IF pc[r] = "idle" THEN 0 ELSE IF pc[r] = "ended" THEN 2 ELSE 1)
        /\ arrived[p] >= 2 * fwd[r]
        /\ pc[r] \in {"run", "ended"} => arrived[p] >= 2 * fwd[r] + 1

\* Without zeroing, the callers keep the ranks together.
CallersHold(c) ==
    c.epilogue = "store" => \A r, p \in Members(c) :
        /\ arrived[r] = fwd[r] + (IF pc[r] = "ended" THEN 1 ELSE 0)
        /\ arrived[p] >= fwd[r]
        /\ pc[r] # "idle" => fwd[p] >= fwd[r]

\* With an event, what is behind it is over.
OrderKept(c) ==
    c.epilogue = "keep" => \A n \in Nat, e \in Events(c), t \in TilesOf(c) :
        Done(c, n, e, t) => \A d \in Behind(c, e) : Done(c, n, d, t)

\* A flag that is up was raised in this forward.
FlagsMean(c) ==
    c.epilogue = "keep" => \A f \in Flags(c), t \in TilesOf(c) :
        pc[f[2]] # "idle" /\ IsUp(f, t, t \div c.groups)
            => \E x \in Raisers(c, f) : Done(c, fwd[f[2]], x, t)

\* The event that e is the last of at place p so far.
Latest(c, n, p, e, t) ==
    /\ Done(c, n, e, t)
    /\ \A v \in Writers(c, p) \ {e} : Done(c, n, v, t) => v \in Behind(c, e)

\* The last event at a place left its sum there.
Holds(c, n) ==
    \A p \in Places(c), t \in TilesOf(c) : \A e \in Writers(c, p) :
        Latest(c, n, p, e, t) => Held(p, t) = Amount(c, n + 1, e)
PlacesHold(c) ==
    c.epilogue = "keep" => \A r \in Members(c) : pc[r] \in {"run", "ended"} => Holds(c, fwd[r])

\* A place without an event is as it was allocated.
PlacesFresh(c) ==
    c.epilogue = "keep" => \A p \in Places(c), t \in TilesOf(c) :
        p[1] = "red" /\ Writers(c, p) = {} => Held(p, t) = c.fresh

\* The first segment of an output_buffer is the sum of what the GEMMs have finished.
AddedUp(c) ==
    c.epilogue = "add" => \A o \in Members(c), t \in TilesOf(c) :
        pc[o] # "idle" =>
            out[o][0][t] = {fwd[o] + 1} \X {p \in Members(c) : EpiDone(fwd[o], p, o, t)}

\* Each rank has a segment in an output_buffer; it holds its last tile.
Stored(c) ==
    c.epilogue = "store" => \A o, r \in Members(c), t \in TilesOf(c) :
        /\ EpiDone(fwd[r], r, o, t) => out[o][r][t] = {<<fwd[r] + 1, r>>}
        /\ pc[r] \in {"idle", "zeroed"} /\ fwd[r] > 0 => out[o][r][t] = {<<fwd[r], r>>}

Exact(c) == \A r \in Members(c) : ~wrong[r]

InvOf(c) ==
    /\ Typed(c) /\ BarriersHold(c) /\ CallersHold(c)
    /\ OrderKept(c) /\ FlagsMean(c) /\ PlacesHold(c) /\ PlacesFresh(c)
    /\ AddedUp(c) /\ Stored(c) /\ Exact(c)

\* The inductive invariant.
Inv == \E name \in DOMAIN Configs : InvOf(Configs[name])

-----------------------------------------------------------------------------
(* Numbers. *)

\* Products grow with their first factor.
LEMMA ProductGrows == ASSUME NEW a \in Int, NEW b \in Int, NEW k \in Nat, a <= b
                      PROVE  a * k <= b * k
  OBVIOUS

\* Dividing with a remainder.
LEMMA DivMod == ASSUME NEW a \in Int, NEW k \in Nat \ {0}
                PROVE  /\ a \div k \in Int /\ a % k \in 0..(k - 1)
                       /\ a = (a \div k) * k + (a % k)
  OBVIOUS

\* Two decompositions of a number are the same.
LEMMA SameDivision ==
    ASSUME NEW k \in Nat \ {0}, NEW p \in Int, NEW q \in Int, NEW x \in 0..(k - 1),
           NEW y \in 0..(k - 1), p * k + x = q * k + y
    PROVE  p = q /\ x = y
<1>1. p * k \in Int /\ q * k \in Int OBVIOUS
<1>2. ~(p <= q - 1)
  <2> SUFFICES ASSUME p <= q - 1 PROVE FALSE OBVIOUS
  <2>1. p * k <= (q - 1) * k BY ProductGrows
  <2>2. (q - 1) * k = q * k - k OBVIOUS
  <2> QED BY <2>1, <2>2, <1>1
<1>3. ~(q <= p - 1)
  <2> SUFFICES ASSUME q <= p - 1 PROVE FALSE OBVIOUS
  <2>1. q * k <= (p - 1) * k BY ProductGrows
  <2>2. (p - 1) * k = p * k - k OBVIOUS
  <2> QED BY <2>1, <2>2, <1>1
<1>4. p = q BY <1>2, <1>3
<1> QED BY <1>1, <1>4

\* Dividing undoes multiplying.
LEMMA Divides == ASSUME NEW q \in Int, NEW k \in Nat \ {0}, NEW s \in 0..(k - 1)
                 PROVE  (q * k + s) \div k = q /\ (q * k + s) % k = s
<1> DEFINE a == q * k + s
           d == a \div k
           m == a % k
<1>1. a \in Int OBVIOUS
<1>2. d \in Int /\ m \in 0..(k - 1) /\ a = d * k + m
  <2> HIDE DEF a
  <2> QED BY <1>1, DivMod
<1>3. d * k + m = q * k + s BY <1>2
<1> HIDE DEF d, m
<1>4. d = q /\ m = s BY <1>2, <1>3, SameDivision
<1> QED BY <1>4 DEF d, m

\* A quotient is less than n if the number is less than n times the divisor.
LEMMA SmallQuotient ==
    ASSUME NEW a \in Nat, NEW k \in Nat \ {0}, NEW n \in Int, a < n * k
    PROVE  a \div k \in 0..(n - 1)
<1> DEFINE d == a \div k
<1>1. d \in Int /\ d * k <= a /\ a < d * k + k /\ d * k \in Int /\ n * k \in Int
  <2>1. a \div k \in Int /\ a % k \in 0..(k - 1) /\ a = (a \div k) * k + (a % k) BY DivMod
  <2>2. (a \div k) * k \in Int BY <2>1
  <2> QED BY <2>1, <2>2
<1> HIDE DEF d
<1>2. ~(n <= d)
  <2> SUFFICES ASSUME n <= d PROVE FALSE OBVIOUS
  <2>1. n * k <= d * k BY <1>1, ProductGrows
  <2> QED BY <2>1, <1>1
<1>3. ~(d <= -1)
  <2> SUFFICES ASSUME d <= -1 PROVE FALSE OBVIOUS
  <2>1. d * k <= (-1) * k BY <1>1, ProductGrows
  <2>2. (-1) * k = -k OBVIOUS
  <2> QED BY <2>1, <2>2, <1>1
<1>4. d \in 0..(n - 1) BY <1>1, <1>2, <1>3
<1> QED BY <1>4 DEF d

-----------------------------------------------------------------------------
(* Tiles, waves and steps. *)

\* A tile is its wave and its group.
LEMMA TileFacts ==
    ASSUME NEW c, Sound(c), NEW t \in TilesOf(c)
    PROVE  /\ WavesOf(c) \in Nat \ {0}
           /\ t \div c.groups \in 0..(WavesOf(c) - 1)
           /\ t % c.groups \in GroupsOf(c)
           /\ t = (t \div c.groups) * c.groups + (t % c.groups)
<1> DEFINE k == c.groups
           n == c.tiles
           W == (n + k - 1) \div k
<1>1. k \in Nat \ {0} /\ n \in Nat \ {0} /\ t \in 0..(n - 1) BY DEF Sound, TilesOf
<1>2. W = WavesOf(c) BY DEF WavesOf
<1> HIDE DEF k, n
<1>3. n + k - 1 \in Int BY <1>1
<1>4. W \in Int /\ W * k \in Int /\ W * k >= n
  <2>1. W \in Int /\ (n + k - 1) % k \in 0..(k - 1) /\ n + k - 1 = W * k + ((n + k - 1) % k)
    BY <1>1, <1>3, DivMod
  <2> HIDE DEF W
  <2>2. W * k \in Int BY <2>1, <1>1
  <2> QED BY <2>1, <2>2, <1>1
<1> HIDE DEF W
<1>8. t \in Nat /\ t < W * k BY <1>1, <1>4
<1>5. t \div k \in 0..(W - 1) BY <1>1, <1>4, <1>8, SmallQuotient
<1>6. t % k \in 0..(k - 1) /\ t = (t \div k) * k + (t % k) BY <1>1, DivMod
<1>7. W \in Nat \ {0} BY <1>4, <1>5
<1> QED BY <1>2, <1>5, <1>6, <1>7 DEF GroupsOf, k

\* There are waves.
LEMMA WaveFacts == ASSUME NEW c, Sound(c) PROVE WavesOf(c) \in Nat \ {0}
<1>1. 0 \in TilesOf(c) BY DEF Sound, TilesOf
<1> QED BY <1>1, TileFacts

\* A step of a kernel is its operation and its wave.
LEMMA StepFacts ==
    ASSUME NEW W \in Nat \ {0}, NEW L \in Nat, NEW k \in Nat, k < L * W
    PROVE  /\ k \div W + 1 \in 1..L /\ k % W \in 0..(W - 1)
           /\ k = (k \div W) * W + (k % W)
<1>1. k \div W \in 0..(L - 1) BY SmallQuotient
<1>2. k % W \in 0..(W - 1) /\ k = (k \div W) * W + (k % W) BY DivMod
<1> QED BY <1>1, <1>2

\* The steps of an operation lie between those of the operations before and behind it.
LEMMA AtFacts ==
    ASSUME NEW c, Sound(c), NEW t \in TilesOf(c), NEW i \in Nat \ {0}
    PROVE  /\ At(c, i, t) \in Nat
           /\ (i - 1) * WavesOf(c) <= At(c, i, t) /\ At(c, i, t) < i * WavesOf(c)
           /\ \A j \in Nat : i <= j => At(c, i, t) < j * WavesOf(c)
<1> DEFINE W == WavesOf(c)
           w == t \div c.groups
<1>1. W \in Nat \ {0} /\ w \in 0..(W - 1) BY TileFacts
<1>2. At(c, i, t) = (i - 1) * W + w BY DEF At
<1> HIDE DEF W, w
<1>3. (i - 1) * W \in Nat /\ i * W = (i - 1) * W + W BY <1>1
<1>4. ASSUME NEW j \in Nat, i <= j PROVE i * W <= j * W /\ j * W \in Int
  BY <1>1, <1>4, ProductGrows
<1>5. /\ At(c, i, t) \in Nat
      /\ (i - 1) * W <= At(c, i, t) /\ At(c, i, t) < i * W
  BY <1>1, <1>2, <1>3
<1>6. ASSUME NEW j \in Nat, i <= j PROVE At(c, i, t) < j * W
  BY <1>3, <1>5, <1>4, <1>6
<1> QED BY <1>5, <1>6 DEF W

\* A step belongs to one operation and one wave.
LEMMA AtUnique ==
    ASSUME NEW c, Sound(c), NEW t \in TilesOf(c), NEW i \in Nat \ {0}, NEW u \in TilesOf(c),
           NEW j \in Nat \ {0}, At(c, i, t) = At(c, j, u)
    PROVE  i = j /\ t \div c.groups = u \div c.groups
<1> DEFINE W == WavesOf(c)
           w == t \div c.groups
           v == u \div c.groups
<1>1. W \in Nat \ {0} /\ w \in 0..(W - 1) /\ v \in 0..(W - 1) BY TileFacts
<1>2. (i - 1) * W + w = (j - 1) * W + v BY DEF At
<1> HIDE DEF W, w, v
<1>3. i - 1 \in Int /\ j - 1 \in Int OBVIOUS
<1>4. i - 1 = j - 1 /\ w = v BY <1>1, <1>2, <1>3, SameDivision
<1> QED BY <1>4 DEF w, v

-----------------------------------------------------------------------------
(* Events. *)

\* An operation, by its name.
LEMMA OpNames ==
    ASSUME NEW c, NEW r \in Members(c), NEW i \in 1..Len(c.ops[r])
    PROVE  <<"op", r, i>> \in OpEvents(c) /\ OpOf(c, <<"op", r, i>>) = c.ops[r][i]
  BY DEF OpEvents, OpOf

\* What an operation is.
LEMMA OpFacts ==
    ASSUME NEW c, Sound(c), NEW e \in OpEvents(c)
    PROVE  /\ e = <<"op", e[2], e[3]>> /\ e[1] = "op" /\ e \in Events(c)
           /\ e[2] \in Members(c) /\ e[3] \in Nat \ {0}
           /\ Len(c.ops[e[2]]) \in Nat /\ e[3] <= Len(c.ops[e[2]])
           /\ OpOf(c, e) \in Operations(c) /\ Target(c, e) = OpOf(c, e).to
<1>1. PICK r \in Members(c) : e \in {<<"op", r, i>> : i \in 1..Len(c.ops[r])} BY DEF OpEvents
<1>2. PICK i \in 1..Len(c.ops[r]) : e = <<"op", r, i>> BY <1>1
<1>3. c.ops[r] \in Seq(Operations(c)) BY DEF Sound
<1>4. Len(c.ops[r]) \in Nat /\ c.ops[r][i] \in Operations(c) BY <1>3
<1>5. e[1] = "op" /\ e[2] = r /\ e[3] = i BY <1>2
<1>6. i \in Nat \ {0} /\ i <= Len(c.ops[r]) BY <1>4
<1>7. OpOf(c, e) = c.ops[r][i] BY <1>5 DEF OpOf
<1> QED BY <1>2, <1>4, <1>5, <1>6, <1>7 DEF Events, Target

\* What an operation does.
LEMMA OperationFacts ==
    ASSUME NEW c, NEW o \in Operations(c)
    PROVE  /\ o.waits \subseteq Flags(c) /\ o.from \subseteq Places(c) /\ o.to \in Places(c)
           /\ o.raises \subseteq Flags(c) /\ \A f \in o.raises : f[1] # "epilogue"
  BY DEF Operations

\* What an event of the epilogue is.
LEMMA EpiFacts ==
    ASSUME NEW c, NEW e \in EpiEvents(c)
    PROVE  /\ e = <<"epilogue", e[2], e[3]>> /\ e[1] = "epilogue" /\ e \in Events(c)
           /\ e[2] \in Members(c) /\ e[3] \in Members(c)
           /\ Target(c, e) = <<"out", e[2], e[3]>>
  BY DEF EpiEvents, Events, Target, Out

\* An event of the epilogue, by its name.
LEMMA EpiNames ==
    ASSUME NEW c, NEW r \in Members(c), NEW s \in Members(c)
    PROVE  <<"epilogue", r, s>> \in EpiEvents(c)
  BY DEF EpiEvents

\* There are no others.
LEMMA EventKinds ==
    ASSUME NEW c, Sound(c), NEW e \in Events(c)
    PROVE  /\ e[2] \in Members(c)
           /\ (e[1] = "op" /\ e \in OpEvents(c)) \/ (e[1] = "epilogue" /\ e \in EpiEvents(c))
  BY OpFacts, EpiFacts DEF Events

\* A flag or a place is its three parts.
LEMMA NameFacts ==
    ASSUME NEW c
    PROVE  /\ \A f \in Flags(c) : f = <<f[1], f[2], f[3]>> /\ f[2] \in Members(c) /\ f[3] \in Members(c)
           /\ \A p \in Places(c) : /\ p = <<p[1], p[2], p[3]>> /\ p[1] \in {"out", "red"}
                                   /\ p[2] \in Members(c) /\ p[3] \in Members(c)
  BY DEF Flags, Places

\* A configuration with ring kernels has the certificate.
LEMMA CertificateFacts ==
    ASSUME NEW c, Fine(c), c.epilogue = "keep"
    PROVE  /\ Certified(c, Order(c), Sums(c))
           /\ \A e \in Events(c) : Behind(c, e) \subseteq Events(c)
           /\ \A e \in Events(c) : Part(Sums(c), e) \subseteq Members(c)
           /\ \A e \in EpiEvents(c) : Behind(c, e) = {} /\ Part(Sums(c), e) = {e[2]}
           /\ \A e \in OpEvents(c) : Behind(c, e) = Order(c)[e] /\ Part(Sums(c), e) = Sums(c)[e]
<1>1. Sound(c) /\ Ordered(c) BY DEF Fine
<1>2. /\ Order(c) \in [OpEvents(c) -> SUBSET Events(c)]
      /\ \E parts \in [OpEvents(c) -> SUBSET Members(c)] : Certified(c, Order(c), parts)
  BY <1>1 DEF Ordered, Order
<1>3. Sums(c) \in [OpEvents(c) -> SUBSET Members(c)] /\ Certified(c, Order(c), Sums(c))
  BY <1>2 DEF Sums
<1>4. \A e \in OpEvents(c) : Behind(c, e) = Order(c)[e] /\ Part(Sums(c), e) = Sums(c)[e]
  BY <1>1, OpFacts DEF Behind, Past, Part
<1>5. \A e \in EpiEvents(c) : Behind(c, e) = {} /\ Part(Sums(c), e) = {e[2]}
  BY EpiFacts DEF Behind, Past, Part
<1>6. \A e \in Events(c) : Behind(c, e) \subseteq Events(c)
  BY <1>2, <1>4, <1>5 DEF Events
<1>7. \A e \in Events(c) : Part(Sums(c), e) \subseteq Members(c)
  BY <1>3, <1>4, <1>5, EpiFacts DEF Events
<1> QED BY <1>3, <1>4, <1>5, <1>6, <1>7

-----------------------------------------------------------------------------
(* The configuration in the actions. *)

\* The sets of the specification are those of c.
LEMMA Names ==
    ASSUME NEW c, Is(c)
    PROVE  /\ Config = c /\ Ranks = Members(c) /\ Tiles = TilesOf(c) /\ Groups = GroupsOf(c)
           /\ Waves = WavesOf(c)
  BY DEF Is, Config, Ranks, Members, Tiles, TilesOf, Groups, GroupsOf, Waves, WavesOf

\* No step changes the configuration.
LEMMA IsKept == ASSUME NEW c, Is(c), config' = config PROVE Is(c)'
  BY DEF Is

\* The tiles the GEMM of r does not finish at once.
LaterTiles(c, r) == {st \in Members(c) \X TilesOf(c) : <<r, st[1], st[2]>> \in late}
FirstTiles(c, r) == (Members(c) \X TilesOf(c)) \ LaterTiles(c, r)

\* The start of the kernels.
LEMMA LaunchForm ==
    ASSUME NEW c, Is(c), NEW r \in Members(c), Launch(r)
    PROVE  /\ pc[r] = "zeroed" /\ Passes(r)
           /\ pc' = [pc EXCEPT ![r] = "run"]
           /\ todo' = [todo EXCEPT ![r] = LaterTiles(c, r)]
           /\ place' = [place EXCEPT ![r] = 0]
           /\ Finish(r, FirstTiles(c, r))
           /\ UNCHANGED <<config, fwd, wrong, arrived, late, done, red>>
  BY Names DEF Launch, LaterTiles, FirstTiles, MayLaunch

\* A step of the GEMM.
LEMMA FinishTileForm ==
    ASSUME NEW c, Typed(c), NEW r \in Members(c), FinishTile(r)
    PROVE  \E st \in todo[r] :
             /\ st \in Members(c) \X TilesOf(c)
             /\ pc[r] = "run" /\ Finish(r, {st})
             /\ todo' = [todo EXCEPT ![r] = @ \ {st}]
             /\ UNCHANGED <<config, fwd, pc, wrong, arrived, late, place, done, red>>
  BY DEF FinishTile, Typed, GemmRuns

\* A sum of sums is a sum.
LEMMA TotalIsValue ==
    ASSUME NEW c, NEW f, \A x \in DOMAIN f : f[x] \in Values(c)
    PROVE  Total(f) \in Values(c)
<1> DEFINE X == {Junk} \cup ((1..MaxForwards) \X Members(c))
<1>1. Values(c) = SUBSET X /\ Junk \in X BY DEF Values
<1> HIDE DEF X
<1>2. UNION {f[x] : x \in DOMAIN f} \subseteq X BY <1>1
<1>3. ASSUME NEW v \in Total(f) PROVE v \in X
  <2>1. v \in UNION {f[x] : x \in DOMAIN f} \/ v = Junk BY DEF Total
  <2> QED BY <2>1, <1>1, <1>2
<1> QED BY <1>1, <1>3

\* A sum of sums that share nothing holds no Junk.
LEMMA TotalDisjoint ==
    ASSUME NEW f, \A x, y \in DOMAIN f : x = y \/ f[x] \cap f[y] = {}
    PROVE  Total(f) = UNION {f[x] : x \in DOMAIN f}
<1>1. \A pq \in (DOMAIN f) \X (DOMAIN f) : ~(pq[1] # pq[2] /\ f[pq[1]] \cap f[pq[2]] # {})
  OBVIOUS
<1>2. {pq \in (DOMAIN f) \X (DOMAIN f) : pq[1] # pq[2] /\ f[pq[1]] \cap f[pq[2]] # {}} = {}
  BY <1>1
<1> QED BY <1>2 DEF Total

\* A partial product is a value.
LEMMA MineIsValue ==
    ASSUME NEW c, Fine(c), MaxForwards \in Nat, Typed(c), NEW r \in Members(c), pc[r] # "idle"
    PROVE  {Mine(r)} \in Values(c) /\ Mine(r) = <<fwd[r] + 1, r>>
<1>1. fwd[r] \in Nat /\ fwd[r] < c.forwards /\ c.forwards \in Nat /\ c.forwards <= MaxForwards
  BY DEF Typed, Fine, Sound
<1>2. fwd[r] + 1 \in 1..MaxForwards BY <1>1
<1> QED BY <1>2 DEF Mine, Values

\* What the epilogue for a ring kernel writes.
Keeps(c, r, tiles) ==
    \A o, s \in Members(c), t \in TilesOf(c) :
        out'[o][s][t] = IF o = r /\ <<s, t>> \in tiles THEN {Mine(r)} ELSE out[o][s][t]

\* The same of the path whose ring kernels follow: the epilogue keeps the tile.
LEMMA KeepForm ==
    ASSUME NEW c, Typed(c), c.epilogue = "keep", NEW r \in Members(c), {Mine(r)} \in Values(c),
           NEW tiles \in SUBSET (Members(c) \X TilesOf(c)), Finish(r, tiles)
    PROVE  /\ flags' = [flags EXCEPT ![r] = @ \cup {<<"epilogue", st[1], st[2]>> : st \in tiles}]
           /\ out' \in Buffers(c)
           /\ Keeps(c, r, tiles)
<1>1. Config = c /\ Ranks = Members(c) /\ Tiles = TilesOf(c) BY Names DEF Typed
<1>2. out \in Buffers(c) BY DEF Typed
<1>3. out' = [out EXCEPT ![r] = [s \in Members(c) |-> [t \in TilesOf(c) |->
                        IF <<s, t>> \in tiles THEN {Mine(r)} ELSE out[r][s][t]]]]
  BY <1>1 DEF Finish
<1>4. \A o, s \in Members(c), t \in TilesOf(c) :
         out'[o][s][t] = IF o = r /\ <<s, t>> \in tiles THEN {Mine(r)} ELSE out[o][s][t]
  BY <1>2, <1>3 DEF Buffers
<1>5. out' \in Buffers(c) BY <1>2, <1>3 DEF Buffers
<1> QED BY <1>1, <1>4, <1>5 DEF Finish, Keeps

\* What the epilogue that stores writes.
Stores(c, r, tiles) ==
    \A o, s \in Members(c), t \in TilesOf(c) :
        out'[o][s][t] = IF s = r /\ <<o, t>> \in tiles THEN {Mine(r)} ELSE out[o][s][t]

\* The same of the path that stores the tile at the rank of the segment.
LEMMA StoreForm ==
    ASSUME NEW c, Typed(c), c.epilogue = "store", NEW r \in Members(c), {Mine(r)} \in Values(c),
           NEW tiles \in SUBSET (Members(c) \X TilesOf(c)), Finish(r, tiles)
    PROVE  /\ flags' = flags
           /\ out' \in Buffers(c)
           /\ Stores(c, r, tiles)
<1>1. Config = c /\ Ranks = Members(c) /\ Tiles = TilesOf(c) BY Names DEF Typed
<1>2. out \in Buffers(c) BY DEF Typed
<1>3. out' = [o \in Members(c) |-> [out[o] EXCEPT ![r] = [t \in TilesOf(c) |->
                        IF <<o, t>> \in tiles THEN {Mine(r)} ELSE out[o][r][t]]]]
  BY <1>1, <1>2 DEF Finish, Buffers
<1>4. \A o, s \in Members(c), t \in TilesOf(c) :
         out'[o][s][t] = IF s = r /\ <<o, t>> \in tiles THEN {Mine(r)} ELSE out[o][s][t]
  BY <1>2, <1>3 DEF Buffers
<1>5. out' \in Buffers(c) BY <1>2, <1>3 DEF Buffers
<1> QED BY <1>1, <1>4, <1>5 DEF Finish, Stores

\* The sum of two.
Both(a, b) == Total([v \in 1..2 |-> IF v = 1 THEN a ELSE b])

\* It is a value, and the union if they share nothing.
LEMMA BothFacts ==
    ASSUME NEW c, NEW a \in Values(c), NEW b \in Values(c)
    PROVE  Both(a, b) \in Values(c) /\ (a \cap b = {} => Both(a, b) = a \cup b)
<1> DEFINE f == [v \in 1..2 |-> IF v = 1 THEN a ELSE b]
<1>1. DOMAIN f = {1, 2} /\ f[1] = a /\ f[2] = b OBVIOUS
<1>2. Both(a, b) = Total(f) BY DEF Both
<1> HIDE DEF f
<1>3. Total(f) \in Values(c) BY <1>1, TotalIsValue
<1>4. ASSUME a \cap b = {} PROVE Total(f) = a \cup b
  <2>1. \A x, y \in DOMAIN f : x = y \/ f[x] \cap f[y] = {} BY <1>1, <1>4
  <2>2. Total(f) = UNION {f[x] : x \in DOMAIN f} BY <2>1, TotalDisjoint
  <2> QED BY <2>2, <1>1
<1> QED BY <1>2, <1>3, <1>4

\* What the epilogue that adds writes.
AddsMine(c, r, tiles) ==
    \A o, s \in Members(c), t \in TilesOf(c) :
        out'[o][s][t] = IF s = 0 /\ <<o, t>> \in tiles
                        THEN Both(out[o][0][t], {Mine(r)}) ELSE out[o][s][t]

\* The same of the path that adds the tile up there.
LEMMA AddForm ==
    ASSUME NEW c, Sound(c), Typed(c), c.epilogue = "add", NEW r \in Members(c),
           {Mine(r)} \in Values(c),
           NEW tiles \in SUBSET (Members(c) \X TilesOf(c)), Finish(r, tiles)
    PROVE  /\ flags' = flags
           /\ out' \in Buffers(c)
           /\ AddsMine(c, r, tiles)
<1>1. Config = c /\ Ranks = Members(c) /\ Tiles = TilesOf(c) BY Names DEF Typed
<1>2. out \in Buffers(c) BY DEF Typed
<1>3. 0 \in Members(c) BY DEF Sound, Members
<1>4. out' = [o \in Members(c) |-> [out[o] EXCEPT ![0] = [t \in TilesOf(c) |->
                        IF <<o, t>> \in tiles THEN Both(out[o][0][t], {Mine(r)})
                        ELSE out[o][0][t]]]]
  BY <1>1, <1>2, <1>3 DEF Finish, Buffers, Both
<1>5. \A o, s \in Members(c), t \in TilesOf(c) :
         out'[o][s][t] = IF s = 0 /\ <<o, t>> \in tiles
                         THEN Both(out[o][0][t], {Mine(r)}) ELSE out[o][s][t]
  BY <1>2, <1>3, <1>4 DEF Buffers
<1>6. \A o \in Members(c), t \in TilesOf(c) : Both(out[o][0][t], {Mine(r)}) \in Values(c)
  BY <1>2, <1>3, BothFacts DEF Buffers
<1>7. out' \in Buffers(c)
  <2> DEFINE Sum(o) == [t \in TilesOf(c) |-> IF <<o, t>> \in tiles
                            THEN Both(out[o][0][t], {Mine(r)}) ELSE out[o][0][t]]
             Row(o) == [out[o] EXCEPT ![0] = Sum(o)]
  <2>1. \A o \in Members(c) : Sum(o) \in [TilesOf(c) -> Values(c)]
    <3>1. \A o \in Members(c), t \in TilesOf(c) : out[o][0][t] \in Values(c)
      BY <1>2, <1>3 DEF Buffers
    <3> QED BY <3>1, <1>6
  <2>2. out' = [o \in Members(c) |-> Row(o)] BY <1>4
  <2>3. \A o \in Members(c) : out[o] \in [Members(c) -> [TilesOf(c) -> Values(c)]]
    BY <1>2 DEF Buffers
  <2> HIDE DEF Sum
  <2>4. \A o \in Members(c) : Row(o) \in [Members(c) -> [TilesOf(c) -> Values(c)]]
    BY <2>1, <2>3
  <2> HIDE DEF Row
  <2> QED BY <2>2, <2>4 DEF Buffers
<1> QED BY <1>1, <1>5, <1>7 DEF Finish, AddsMine

-----------------------------------------------------------------------------
(* Where the ranks are. *)

\* Behind the first barrier of a forward, all ranks are in that forward.
LEMMA Together ==
    ASSUME NEW c, Typed(c), BarriersHold(c), c.epilogue # "store", NEW r \in Members(c),
           pc[r] \in {"zeroed", "run"}, \A p \in Members(c) : arrived[p] >= 2 * fwd[r] + 1
    PROVE  \A p \in Members(c) : fwd[p] = fwd[r] /\ pc[p] # "idle"
<1> SUFFICES ASSUME NEW p \in Members(c) PROVE fwd[p] = fwd[r] /\ pc[p] # "idle" OBVIOUS
<1>1. /\ fwd[p] \in Nat /\ fwd[r] \in Nat /\ arrived[p] \in Nat /\ arrived[r] \in Nat
      /\ pc[p] \in {"idle", "zeroed", "run", "ended"}
  BY DEF Typed
<1>2. arrived[r] = 2 * fwd[r] + 1 /\ arrived[r] >= 2 * fwd[p] BY DEF BarriersHold
<1>3. arrived[p] = 2 * fwd[p] + (IF pc[p] = "idle" THEN 0 ELSE IF pc[p] = "ended" THEN 2 ELSE 1)
  BY DEF BarriersHold
<1>4. arrived[p] >= 2 * fwd[r] + 1 OBVIOUS
<1> QED BY <1>1, <1>2, <1>3, <1>4

\* Two ranks in or behind their kernels are in one forward.
LEMMA SameForward ==
    ASSUME NEW c, Typed(c), BarriersHold(c), c.epilogue # "store", NEW r \in Members(c),
           NEW p \in Members(c), pc[r] \in {"run", "ended"}, pc[p] \in {"run", "ended"}
    PROVE  fwd[r] = fwd[p]
<1>1. fwd[p] \in Nat /\ fwd[r] \in Nat /\ arrived[p] \in Nat /\ arrived[r] \in Nat
  BY DEF Typed
<1>2. arrived[p] >= 2 * fwd[r] + 1 /\ arrived[r] >= 2 * fwd[p] + 1 BY DEF BarriersHold
<1>3. arrived[p] <= 2 * fwd[p] + 2 /\ arrived[r] <= 2 * fwd[r] + 2
  BY <1>1 DEF BarriersHold
<1> QED BY <1>1, <1>2, <1>3

\* Behind the last barrier of a forward, all ranks are through with it.
LEMMA AllLeft ==
    ASSUME NEW c, Typed(c), BarriersHold(c), c.epilogue # "store", NEW r \in Members(c),
           pc[r] = "ended", \A p \in Members(c) : arrived[p] >= arrived[r]
    PROVE  \A p \in Members(c) : Left(fwd[r], p)
<1> SUFFICES ASSUME NEW p \in Members(c) PROVE Left(fwd[r], p) OBVIOUS
<1>1. /\ fwd[p] \in Nat /\ fwd[r] \in Nat /\ pc[p] \in {"idle", "zeroed", "run", "ended"}
  BY DEF Typed
<1>2. arrived[r] = 2 * fwd[r] + 2 BY DEF BarriersHold
<1>3. arrived[p] = 2 * fwd[p] + (IF pc[p] = "idle" THEN 0 ELSE IF pc[p] = "ended" THEN 2 ELSE 1)
  BY DEF BarriersHold
<1>4. arrived[p] >= 2 * fwd[r] + 2 BY <1>2
<1> QED BY <1>1, <1>3, <1>4 DEF Left

-----------------------------------------------------------------------------
(* What the steps are over with. *)

\* Every tile of an operation has a group.
LEMMA LastAt ==
    ASSUME NEW c, Sound(c), Typed(c), NEW e \in OpEvents(c), NEW t \in TilesOf(c)
    PROVE  At(c, e[3], t) \in Nat /\ At(c, e[3], t) < Len(c.ops[e[2]]) * WavesOf(c)
  BY OpFacts, AtFacts

\* A step of the stream that is not the start of the kernels.
StreamOnly(r) == Prepare(r) \/ KernelsEnd(r) \/ ReturnSum(r)

\* It brings no event to an end, nor back.
LEMMA StreamOnlyDone ==
    ASSUME NEW c, Sound(c), Typed(c), NEW r \in Members(c), StreamOnly(r),
           NEW n \in Nat, NEW e \in Events(c), NEW t \in TilesOf(c)
    PROVE  Done(c, n, e, t)' <=> Done(c, n, e, t)
<1> DEFINE q == e[2]
<1>1. /\ q \in Members(c) /\ fwd[q] \in Nat /\ fwd[r] \in Nat
      /\ fwd \in [Members(c) -> Nat]
      /\ pc \in [Members(c) -> {"idle", "zeroed", "run", "ended"}]
  BY EventKinds DEF Typed
<1>2. todo' = todo /\ place' = place /\ done' = done
  BY DEF StreamOnly, Prepare, KernelsEnd, ReturnSum, MayPrepare, KernelsOver, MayReturn
<1>3. CASE q # r
  <2>1. fwd'[q] = fwd[q] /\ pc'[q] = pc[q]
    BY <1>1, <1>3 DEF StreamOnly, Prepare, KernelsEnd, ReturnSum, MayPrepare, KernelsOver, MayReturn
  <2>2. (Left(n, q)' <=> Left(n, q)) /\ (Inside(n, q)' <=> Inside(n, q))
    BY <2>1 DEF Left, Inside
  <2> QED BY <2>2, <1>2 DEF Done, OpDone, EpiDone
<1>4. CASE q = r /\ (Prepare(r) \/ ReturnSum(r))
  <2>1. ~Inside(n, q) /\ ~Inside(n, q)' BY <1>1, <1>4 DEF Prepare, ReturnSum, Inside, MayPrepare, MayReturn
  <2>2. Left(n, q)' <=> Left(n, q)
    <3>1. CASE Prepare(r)
      BY <1>1, <1>4, <3>1 DEF Left, Prepare, MayPrepare
    <3>2. CASE ReturnSum(r)
      <4>1. fwd'[r] = fwd[r] + 1 /\ pc'[r] = "idle" /\ pc[r] = "ended"
        BY <1>1, <3>2 DEF ReturnSum, MayReturn
      <4> QED BY <1>1, <1>4, <4>1 DEF Left
    <3> QED BY <1>4, <3>1, <3>2
  <2> QED BY <2>1, <2>2 DEF Done, OpDone, EpiDone
<1>5. CASE q = r /\ KernelsEnd(r)
  <2>1. /\ pc[r] = "run" /\ pc'[r] = "ended" /\ fwd'[r] = fwd[r] /\ todo[r] = {}
        /\ place[r] = LastPlace(r)
    BY <1>1, <1>5 DEF KernelsEnd, KernelsOver
  <2>2. LastPlace(r) = Len(c.ops[r]) * WavesOf(c) BY Names DEF LastPlace, Typed
  <2>3. fwd[q] = n \/ ((Left(n, q)' <=> Left(n, q)) /\ ~Inside(n, q) /\ ~Inside(n, q)')
    BY <2>1, <1>5 DEF Left, Inside
  <2>4. fwd[q] = n => Left(n, q)' /\ Inside(n, q)
    BY <2>1, <1>5 DEF Left, Inside
  <2>5. ASSUME e[1] = "op" PROVE At(c, e[3], t) < place[q]
    BY <1>5, <2>1, <2>2, <2>5, LastAt, EventKinds
  <2> QED BY <2>1, <2>3, <2>4, <2>5, <1>5 DEF Done, OpDone, EpiDone
<1> QED BY <1>3, <1>4, <1>5 DEF StreamOnly

\* The event of the epilogue of r for tile t of segment e[3] is one of tiles.
IsNew(r, tiles, n, e, t) ==
    n = fwd[r] /\ e[1] # "op" /\ e[2] = r /\ <<e[3], t>> \in tiles

\* A step of the epilogue brings the events of its tiles to an end.
EpiStep(c, r, tiles) ==
    /\ Finish(r, tiles) /\ tiles \subseteq Members(c) \X TilesOf(c)
    /\ UNCHANGED <<config, fwd, wrong, arrived, late, done, red>>
    /\ \/ /\ pc[r] = "zeroed" /\ pc' = [pc EXCEPT ![r] = "run"]
          /\ todo' = [todo EXCEPT ![r] = (Members(c) \X TilesOf(c)) \ tiles]
          /\ place' = [place EXCEPT ![r] = 0]
          /\ \A p \in Members(c) : arrived[p] >= arrived[r]
       \/ /\ pc[r] = "run" /\ tiles \subseteq todo[r] /\ UNCHANGED <<pc, place>>
          /\ todo' = [todo EXCEPT ![r] = @ \ tiles]

\* The steps of the GEMM are such steps.
LEMMA EpiSteps ==
    ASSUME NEW c, Typed(c), NEW r \in Members(c), Launch(r) \/ FinishTile(r)
    PROVE  \E tiles \in SUBSET (Members(c) \X TilesOf(c)) : EpiStep(c, r, tiles)
<1>1. CASE Launch(r)
  <2>1. (Members(c) \X TilesOf(c)) \ FirstTiles(c, r) = LaterTiles(c, r)
    BY DEF FirstTiles, LaterTiles
  <2>2. FirstTiles(c, r) \in SUBSET (Members(c) \X TilesOf(c)) BY DEF FirstTiles
  <2>3. \A p \in Members(c) : arrived[p] >= arrived[r]
    BY <1>1, LaunchForm, Names DEF Passes, Typed
  <2>4. EpiStep(c, r, FirstTiles(c, r))
    BY <1>1, <2>1, <2>2, <2>3, LaunchForm DEF EpiStep, Typed
  <2> QED BY <2>2, <2>4
<1>2. CASE FinishTile(r)
  <2>1. PICK st \in todo[r] :
             /\ st \in Members(c) \X TilesOf(c)
             /\ pc[r] = "run" /\ Finish(r, {st})
             /\ todo' = [todo EXCEPT ![r] = @ \ {st}]
             /\ UNCHANGED <<config, fwd, pc, wrong, arrived, late, place, done, red>>
    BY <1>2, FinishTileForm
  <2>2. EpiStep(c, r, {st}) BY <2>1 DEF EpiStep
  <2> QED BY <2>1, <2>2
<1> QED BY <1>1, <1>2

\* What a step of the epilogue makes over: its tiles, no operation, nothing of other forwards.
LEMMA EpiStepDone ==
    ASSUME NEW c, Sound(c), Typed(c), NEW r \in Members(c),
           NEW tiles, EpiStep(c, r, tiles),
           NEW n \in Nat, NEW e \in Events(c), NEW t \in TilesOf(c)
    PROVE  /\ Done(c, n, e, t)' <=> (Done(c, n, e, t) \/ IsNew(r, tiles, n, e, t))
           /\ ~(Done(c, n, e, t) /\ IsNew(r, tiles, n, e, t))
<1> DEFINE q == e[2]
<1>1. /\ q \in Members(c) /\ fwd[q] \in Nat /\ fwd[r] \in Nat
      /\ fwd \in [Members(c) -> Nat]
      /\ pc \in [Members(c) -> {"idle", "zeroed", "run", "ended"}]
      /\ todo \in [Members(c) -> SUBSET (Members(c) \X TilesOf(c))]
      /\ place \in [Members(c) -> Nat]
  BY EventKinds DEF Typed
<1>2. fwd' = fwd /\ done' = done BY DEF EpiStep
<1>3. CASE q # r
  <2>1. pc'[q] = pc[q] /\ todo'[q] = todo[q] /\ place'[q] = place[q]
    BY <1>1, <1>3 DEF EpiStep
  <2>2. (Left(n, q)' <=> Left(n, q)) /\ (Inside(n, q)' <=> Inside(n, q))
    BY <2>1, <1>2 DEF Left, Inside
  <2>3. Done(c, n, e, t)' <=> Done(c, n, e, t)
    BY <2>1, <2>2, <1>2 DEF Done, OpDone, EpiDone
  <2> QED BY <2>3, <1>3 DEF IsNew
<1>4. CASE q = r /\ pc[r] = "zeroed"
  <2>1. /\ pc'[r] = "run" /\ todo'[r] = (Members(c) \X TilesOf(c)) \ tiles /\ place'[r] = 0
        /\ done'[r] = {}
    BY <1>1, <1>4 DEF EpiStep, Typed
  <2>2. (Left(n, q)' <=> Left(n, q)) /\ ~Inside(n, q) /\ (Left(n, q) <=> fwd[q] > n)
    BY <2>1, <1>2, <1>4 DEF Left, Inside
  <2>3. (Inside(n, q)' <=> fwd[r] = n) BY <2>1, <1>2, <1>4 DEF Inside
  <2>4. CASE e[1] = "op"
    <3>1. e \in OpEvents(c) /\ At(c, e[3], t) \in Nat BY <2>4, LastAt, EventKinds
    <3>2. ~(At(c, e[3], t) < place'[q] \/ (At(c, e[3], t) = place'[q] /\ t % c.groups \in done'[q]))
      BY <3>1, <2>1, <1>4
    <3> QED BY <3>2, <2>2, <2>4 DEF Done, OpDone, IsNew
  <2>5. CASE e[1] # "op"
    <3>1. e[3] \in Members(c) BY <2>5, EventKinds, EpiFacts
    <3>2. <<e[3], t>> \notin todo'[q] <=> <<e[3], t>> \in tiles BY <3>1, <2>1, <1>4
    <3> QED BY <3>2, <2>2, <2>3, <2>5, <1>1, <1>4 DEF Done, EpiDone, IsNew
  <2> QED BY <2>4, <2>5
<1>5. CASE q = r /\ pc[r] = "run"
  <2>1. /\ pc' = pc /\ todo'[r] = todo[r] \ tiles /\ place' = place /\ tiles \subseteq todo[r]
    BY <1>1, <1>5 DEF EpiStep
  <2>2. /\ (Left(n, q)' <=> Left(n, q)) /\ (Inside(n, q)' <=> Inside(n, q))
        /\ (fwd[r] = n => Inside(n, q) /\ ~Left(n, q))
        /\ (Inside(n, q) => fwd[r] = n)
    BY <2>1, <1>1, <1>2, <1>5 DEF Left, Inside
  <2>4. CASE e[1] = "op"
    BY <2>1, <2>2, <2>4, <1>2 DEF Done, OpDone, IsNew
  <2>5. CASE e[1] # "op"
    BY <2>1, <2>2, <2>5, <1>5 DEF Done, EpiDone, IsNew
  <2> QED BY <2>4, <2>5
<1> QED BY <1>3, <1>4, <1>5 DEF EpiStep

\* A step of a ring kernel on tile t of operation e.
OpStep(c, r, e, t) ==
    /\ e[2] = r /\ pc[r] = "run" /\ At(c, e[3], t) = place[r] /\ t % c.groups \notin done[r]
    /\ \A f \in OpOf(c, e).waits : IsUp(f, t, t \div c.groups)
    /\ Put(OpOf(c, e).to, t, Total([p \in OpOf(c, e).from |-> Held(p, t)]))
    /\ \/ /\ \A u \in TilesOf(c) :
                u \div c.groups = t \div c.groups => u = t \/ u % c.groups \in done[r]
          /\ done' = [done EXCEPT ![r] = {}]
          /\ place' = [place EXCEPT ![r] = @ + 1]
          /\ flags' = Raise(OpOf(c, e).raises, t \div c.groups)
       \/ /\ done' = [done EXCEPT ![r] = @ \cup {t % c.groups}]
          /\ UNCHANGED <<place, flags>>
    /\ UNCHANGED <<config, fwd, pc, wrong, arrived, late, todo>>

\* The steps of a group are such steps.
LEMMA OpSteps ==
    ASSUME NEW c, Sound(c), Typed(c), NEW r \in Members(c), NEW g \in GroupsOf(c), GroupStep(r, g)
    PROVE  /\ c.epilogue = "keep"
           /\ \E e \in OpEvents(c), t \in TilesOf(c) : OpStep(c, r, e, t)
<1> DEFINE W == WavesOf(c)
           k == place[r]
           i == k \div W + 1
           w == k % W
           L == Len(c.ops[r])
           t == w * c.groups + g
           e == <<"op", r, i>>
<1>1. /\ Config = c /\ Tiles = TilesOf(c) /\ Groups = GroupsOf(c) /\ Waves = W
  BY Names DEF Typed
<1>2. W \in Nat \ {0} BY WaveFacts
<1>3. c.ops[r] \in Seq(Operations(c)) /\ L \in Nat BY DEF Sound
<1>4. k \in Nat BY DEF Typed
<1>5. k < L * W BY <1>1 DEF GroupStep, Ready, LastPlace
<1>6. i \in 1..L /\ w \in 0..(W - 1) /\ k = (k \div W) * W + w
  <2> HIDE DEF W, L, k
  <2> QED BY <1>2, <1>3, <1>4, <1>5, StepFacts
<1>7. Operation(r) = c.ops[r][i] /\ Wave(r) = w /\ TileOf(r, g) = t
  BY <1>1 DEF Operation, Wave, TileOf
<1>8. t \in TilesOf(c) /\ g \notin done[r] BY <1>1, <1>7 DEF GroupStep, Ready, Team
<1>9. t \div c.groups = w /\ t % c.groups = g
  <2>1. w \in Int /\ c.groups \in Nat \ {0} /\ g \in 0..(c.groups - 1)
    BY <1>6 DEF Sound, GroupsOf
  <2> HIDE DEF w
  <2> QED BY <2>1, Divides
<1>10. e \in OpEvents(c) /\ OpOf(c, e) = c.ops[r][i] BY <1>6, OpNames
<1>11. e[2] = r /\ e[3] = i OBVIOUS
<1>12. At(c, i, t) = k
  <2>1. i - 1 = k \div W BY <1>2, <1>4
  <2> QED BY <2>1, <1>6, <1>9 DEF At
<1>13. c.epilogue = "keep"
  <2> SUFFICES ASSUME c.epilogue # "keep" PROVE FALSE OBVIOUS
  <2>1. c.ops[r] = <<>> BY DEF Sound
  <2> QED BY <2>1, <1>6
<1> DEFINE o == c.ops[r][i]
<1> HIDE DEF t, e, i, w
<1>14. pc[r] = "run" /\ \A f \in o.waits : IsUp(f, t, w) BY <1>7 DEF GroupStep, Ready
<1>15. Put(o.to, t, Total([p \in o.from |-> Held(p, t)])) BY <1>7 DEF GroupStep
<1>16. UNCHANGED <<config, fwd, pc, wrong, arrived, late, todo>> BY DEF GroupStep
<1>17. \/ /\ done[r] \cup {g} = Team(w)
          /\ done' = [done EXCEPT ![r] = {}]
          /\ place' = [place EXCEPT ![r] = @ + 1]
          /\ flags' = Raise(o.raises, w)
       \/ /\ done' = [done EXCEPT ![r] = @ \cup {g}]
          /\ UNCHANGED <<place, flags>>
  BY <1>7 DEF GroupStep
<1>18. ASSUME done[r] \cup {g} = Team(w), NEW u \in TilesOf(c), u \div c.groups = w
       PROVE  u = t \/ u % c.groups \in done[r]
  <2>1. u % c.groups \in GroupsOf(c) /\ u = w * c.groups + (u % c.groups) BY <1>18, TileFacts
  <2>2. u % c.groups \in Team(w) BY <2>1, <1>1 DEF Team
  <2>3. u % c.groups = g => u = t BY <2>1 DEF t
  <2> QED BY <2>2, <2>3, <1>18
<1>19. OpStep(c, r, e, t)
  BY <1>8, <1>9, <1>10, <1>11, <1>12, <1>14, <1>15, <1>16, <1>17, <1>18 DEF OpStep
<1> QED BY <1>8, <1>10, <1>13, <1>19

\* It brings this event on this tile to an end.
LEMMA OpStepDone ==
    ASSUME NEW c, Sound(c), Typed(c), NEW r \in Members(c), NEW e \in OpEvents(c),
           NEW t \in TilesOf(c), OpStep(c, r, e, t),
           NEW n \in Nat, NEW d \in Events(c), NEW u \in TilesOf(c)
    PROVE  /\ Done(c, n, d, u)' <=> (Done(c, n, d, u) \/ (n = fwd[r] /\ d = e /\ u = t))
           /\ ~Done(c, fwd[r], e, t)
<1> DEFINE q == d[2]
           a == At(c, d[3], u)
<1>1. /\ q \in Members(c) /\ fwd[q] \in Nat /\ fwd[r] \in Nat
      /\ pc \in [Members(c) -> {"idle", "zeroed", "run", "ended"}]
      /\ done \in [Members(c) -> SUBSET GroupsOf(c)]
      /\ place \in [Members(c) -> Nat]
  BY EventKinds DEF Typed
<1>2. fwd' = fwd /\ todo' = todo /\ pc' = pc BY DEF OpStep
<1>3. e[1] = "op" /\ e[2] = r /\ e = <<"op", r, e[3]>> /\ e[3] \in Nat \ {0} BY OpFacts DEF OpStep
<1>4. pc[r] = "run" /\ At(c, e[3], t) = place[r] /\ t % c.groups \notin done[r] BY DEF OpStep
<1>5. ~Done(c, fwd[r], e, t)
  <2>1. ~Left(fwd[r], r) BY <1>1, <1>4 DEF Left
  <2> QED BY <2>1, <1>1, <1>3, <1>4 DEF Done, OpDone
<1>6. (Left(n, q)' <=> Left(n, q)) /\ (Inside(n, q)' <=> Inside(n, q))
  BY <1>2 DEF Left, Inside
<1>7. CASE d[1] # "op"
  <2>1. d # e BY <1>3, <1>7
  <2>2. Done(c, n, d, u)' <=> Done(c, n, d, u)
    <3>1. Done(c, n, d, u) <=> EpiDone(n, q, d[3], u) BY <1>7 DEF Done
    <3>2. Done(c, n, d, u)' <=> EpiDone(n, q, d[3], u)' BY <1>7 DEF Done
    <3>3. EpiDone(n, q, d[3], u)' <=> EpiDone(n, q, d[3], u) BY <1>2, <1>6 DEF EpiDone
    <3> QED BY <3>1, <3>2, <3>3
  <2> QED BY <2>1, <2>2, <1>5
<1>8. CASE q # r
  <2>1. place'[q] = place[q] /\ done'[q] = done[q] BY <1>1, <1>8 DEF OpStep
  <2>2. Done(c, n, d, u)' <=> Done(c, n, d, u) BY <1>2, <1>6, <2>1 DEF Done, OpDone, EpiDone
  <2>3. d # e BY <1>3, <1>8
  <2> QED BY <2>2, <2>3, <1>5
<1>9. CASE d[1] = "op" /\ q = r
  <2>1. d = <<"op", r, d[3]>> /\ d[3] \in Nat \ {0} /\ a \in Nat
    BY <1>9, EventKinds, OpFacts, AtFacts
  <2>2. Inside(n, r) => n = fwd[r] BY DEF Inside
  <2>3. n = fwd[r] => Inside(n, r) BY <1>4 DEF Inside
  <2>4. ASSUME a = place[r] PROVE d = e /\ u \div c.groups = t \div c.groups
    <3>1. d[3] = e[3] /\ u \div c.groups = t \div c.groups BY <2>1, <2>4, <1>3, <1>4, AtUnique
    <3> QED BY <3>1, <2>1, <1>3
  <2>5. (d = e /\ u = t) => a = place[r] BY <1>4
  <2>6. (a < place'[r] \/ (a = place'[r] /\ u % c.groups \in done'[r]))
            <=> (a < place[r] \/ (a = place[r] /\ u % c.groups \in done[r]) \/ (d = e /\ u = t))
    <3>1. CASE /\ \A x \in TilesOf(c) :
                     x \div c.groups = t \div c.groups => x = t \/ x % c.groups \in done[r]
               /\ done' = [done EXCEPT ![r] = {}]
               /\ place' = [place EXCEPT ![r] = @ + 1]
      <4>1. done'[r] = {} /\ place'[r] = place[r] + 1 /\ place[r] \in Nat BY <3>1, <1>1
      <4>2. a < place[r] + 1 <=> a < place[r] \/ a = place[r] BY <4>1, <2>1
      <4>3. a = place[r] => u = t \/ u % c.groups \in done[r] BY <2>4, <3>1
      <4> HIDE DEF a
      <4> QED BY <4>1, <4>2, <4>3, <2>4, <2>5
    <3>2. CASE /\ done' = [done EXCEPT ![r] = @ \cup {t % c.groups}]
               /\ UNCHANGED <<place, flags>>
      <4>1. done'[r] = done[r] \cup {t % c.groups} /\ place'[r] = place[r] BY <3>2, <1>1
      <4>2. ASSUME a = place[r], u % c.groups = t % c.groups PROVE u = t
        <5>1. u \div c.groups = t \div c.groups BY <4>2, <2>4
        <5>2. u = (u \div c.groups) * c.groups + (u % c.groups) BY TileFacts
        <5>3. t = (t \div c.groups) * c.groups + (t % c.groups) BY TileFacts
        <5> QED BY <5>1, <5>2, <5>3, <4>2
      <4> HIDE DEF a
      <4> QED BY <4>1, <4>2, <2>4, <2>5
    <3> QED BY <3>1, <3>2 DEF OpStep
  <2> HIDE DEF a
  <2>7. Done(c, n, d, u) <=> \/ Left(n, r)
                             \/ Inside(n, r) /\ (a < place[r] \/ (a = place[r] /\ u % c.groups \in done[r]))
    BY <1>9 DEF Done, OpDone, a
  <2>8. Done(c, n, d, u)' <=> \/ Left(n, r)'
                              \/ Inside(n, r)' /\ (a < place'[r] \/ (a = place'[r] /\ u % c.groups \in done'[r]))
    BY <1>9 DEF Done, OpDone, a
  <2>9. n = fwd[r] => ~Left(n, r) BY <1>1, <1>4 DEF Left
  <2> QED BY <2>2, <2>3, <2>6, <2>7, <2>8, <1>5, <1>6, <1>9
<1> QED BY <1>5, <1>7, <1>8, <1>9

\* What a group writes.
LEMMA PutForm ==
    ASSUME NEW c, Typed(c), NEW p \in Places(c), NEW t \in TilesOf(c), NEW v \in Values(c),
           Put(p, t, v)
    PROVE  /\ out' \in Buffers(c) /\ red' \in Buffers(c)
           /\ \A q \in Places(c), u \in TilesOf(c) :
                 Held(q, u)' = IF q = p /\ u = t THEN v ELSE Held(q, u)
<1>1. out \in Buffers(c) /\ red \in Buffers(c) BY DEF Typed
<1>2. /\ p[1] \in {"out", "red"} /\ p[2] \in Members(c) /\ p[3] \in Members(c)
      /\ p = <<p[1], p[2], p[3]>>
  BY NameFacts
<1>3. ASSUME NEW b \in Buffers(c)
      PROVE  /\ [b EXCEPT ![p[2]][p[3]][t] = v] \in Buffers(c)
             /\ \A o, s \in Members(c), u \in TilesOf(c) :
                  [b EXCEPT ![p[2]][p[3]][t] = v][o][s][u] =
                     IF o = p[2] /\ s = p[3] /\ u = t THEN v ELSE b[o][s][u]
  BY <1>2 DEF Buffers
<1>4. ASSUME NEW q \in Places(c), NEW u \in TilesOf(c)
      PROVE  Held(q, u)' = IF q = p /\ u = t THEN v ELSE Held(q, u)
  <2>1. /\ q[1] \in {"out", "red"} /\ q[2] \in Members(c) /\ q[3] \in Members(c)
        /\ q = <<q[1], q[2], q[3]>>
    BY NameFacts
  <2>2. q = p <=> q[1] = p[1] /\ q[2] = p[2] /\ q[3] = p[3] BY <2>1, <1>2
  <2>3. CASE p[1] = "out"
    <3>1. out' = [out EXCEPT ![p[2]][p[3]][t] = v] /\ red' = red BY <2>3 DEF Put
    <3>2. out'[q[2]][q[3]][u] = IF q[2] = p[2] /\ q[3] = p[3] /\ u = t THEN v
                                ELSE out[q[2]][q[3]][u]
      BY <3>1, <1>1, <1>3, <2>1
    <3> QED BY <3>1, <3>2, <2>1, <2>2, <2>3 DEF Held
  <2>4. CASE p[1] = "red"
    <3>1. red' = [red EXCEPT ![p[2]][p[3]][t] = v] /\ out' = out BY <2>4 DEF Put
    <3>2. red'[q[2]][q[3]][u] = IF q[2] = p[2] /\ q[3] = p[3] /\ u = t THEN v
                                ELSE red[q[2]][q[3]][u]
      BY <3>1, <1>1, <1>3, <2>1
    <3> QED BY <3>1, <3>2, <2>1, <2>2, <2>4 DEF Held
  <2> QED BY <2>3, <2>4, <1>2
<1> QED BY <1>1, <1>3, <1>4 DEF Put

-----------------------------------------------------------------------------
(* Types, barriers and callers. *)

\* The steps of the stream keep the types.
LEMMA TypedByStream ==
    ASSUME NEW c, Fine(c), Typed(c), NEW r \in Members(c), StreamOnly(r)
    PROVE  Typed(c)'
<1>1. Sound(c) BY DEF Fine
<1>2. /\ Config = c /\ Ranks = Members(c) /\ Tiles = TilesOf(c) /\ Waves = WavesOf(c)
  BY Names DEF Typed
<1>3. Is(c)' BY IsKept DEF Typed, StreamOnly, Prepare, KernelsEnd, ReturnSum, MayPrepare, KernelsOver, MayReturn
<1>4. /\ late' = late /\ todo' = todo /\ place' = place /\ done' = done /\ red' = red
  BY DEF StreamOnly, Prepare, KernelsEnd, ReturnSum, MayPrepare, KernelsOver, MayReturn
<1>5. /\ fwd' \in [Members(c) -> Nat] /\ arrived' \in [Members(c) -> Nat]
      /\ wrong' \in [Members(c) -> BOOLEAN]
      /\ pc' \in [Members(c) -> {"idle", "zeroed", "run", "ended"}]
  <2>1. CASE Prepare(r) BY <2>1 DEF Prepare, Typed, Arrive, MayPrepare
  <2>2. CASE KernelsEnd(r) BY <2>2 DEF KernelsEnd, Typed, Arrive, KernelsOver
  <2>3. CASE ReturnSum(r) BY <2>3, <1>2 DEF ReturnSum, Typed, MayReturn
  <2> QED BY <2>1, <2>2, <2>3 DEF StreamOnly
<1>6. DOMAIN flags' = Members(c) /\ flags' = [q \in Members(c) |-> flags'[q]]
  BY DEF Typed, StreamOnly, Prepare, KernelsEnd, ReturnSum, MayPrepare, KernelsOver, MayReturn
<1>7. out' \in Buffers(c)
  <2>1. Grid({})[r] \in [Members(c) -> [TilesOf(c) -> Values(c)]]
    BY <1>2 DEF Grid, Values
  <2> QED BY <2>1 DEF Typed, Buffers, StreamOnly, Prepare, KernelsEnd, ReturnSum, MayPrepare, KernelsOver, MayReturn
<1>8. ASSUME NEW q \in Members(c)
      PROVE  /\ place'[q] <= Len(c.ops[q]) * WavesOf(c)
             /\ pc'[q] # "run" \/ place'[q] = Len(c.ops[q]) * WavesOf(c) => done'[q] = {}
             /\ fwd'[q] <= c.forwards /\ (pc'[q] # "idle" => fwd'[q] < c.forwards)
  <2>1. /\ place[q] <= Len(c.ops[q]) * WavesOf(c)
        /\ pc[q] # "run" \/ place[q] = Len(c.ops[q]) * WavesOf(c) => done[q] = {}
        /\ fwd[q] <= c.forwards /\ (pc[q] # "idle" => fwd[q] < c.forwards)
        /\ fwd[q] \in Nat /\ c.forwards \in Nat
    BY <1>1 DEF Typed, Sound
  <2>2. CASE Prepare(r)
    <3>1. fwd' = fwd /\ (pc'[q] = pc[q] \/ (q = r /\ pc'[q] = "zeroed" /\ pc[q] = "idle"))
          /\ fwd[r] < c.forwards
      BY <2>2, <1>2 DEF Prepare, Typed, MayPrepare
    <3> QED BY <3>1, <2>1, <1>4
  <2>3. CASE KernelsEnd(r)
    <3>1. /\ fwd' = fwd /\ pc[r] = "run" /\ place[r] = Len(c.ops[r]) * WavesOf(c)
          /\ (pc'[q] = pc[q] \/ (q = r /\ pc'[q] = "ended"))
      BY <2>3, <1>2 DEF KernelsEnd, Typed, LastPlace, KernelsOver
    <3> QED BY <3>1, <2>1, <1>4
  <2>4. CASE ReturnSum(r)
    <3>1. /\ pc[r] = "ended"
          /\ \/ pc'[q] = pc[q] /\ fwd'[q] = fwd[q]
             \/ q = r /\ pc'[q] = "idle" /\ fwd'[q] = fwd[q] + 1
      BY <2>4, <1>2 DEF ReturnSum, Typed, MayReturn
    <3> QED BY <3>1, <2>1, <1>4
  <2> QED BY <2>2, <2>3, <2>4 DEF StreamOnly
<1> QED BY <1>3, <1>4, <1>5, <1>6, <1>7, <1>8 DEF Typed

\* So does the epilogue.
LEMMA TypedByEpilogue ==
    ASSUME NEW c, Fine(c), MaxForwards \in Nat, Typed(c), NEW r \in Members(c),
           NEW tiles \in SUBSET (Members(c) \X TilesOf(c)), EpiStep(c, r, tiles)
    PROVE  Typed(c)'
<1>1. Sound(c) BY DEF Fine
<1>2. Is(c)' BY IsKept DEF Typed, EpiStep
<1>3. /\ late' = late /\ fwd' = fwd /\ wrong' = wrong /\ arrived' = arrived /\ done' = done
      /\ red' = red /\ Finish(r, tiles)
  BY DEF EpiStep
<1>4. /\ pc' \in [Members(c) -> {"idle", "zeroed", "run", "ended"}]
      /\ todo' \in [Members(c) -> SUBSET (Members(c) \X TilesOf(c))]
      /\ place' \in [Members(c) -> Nat]
  <2>1. /\ pc \in [Members(c) -> {"idle", "zeroed", "run", "ended"}]
        /\ todo \in [Members(c) -> SUBSET (Members(c) \X TilesOf(c))]
        /\ place \in [Members(c) -> Nat]
    BY DEF Typed
  <2>2. \/ /\ pc' = [pc EXCEPT ![r] = "run"] /\ place' = [place EXCEPT ![r] = 0]
           /\ todo' = [todo EXCEPT ![r] = (Members(c) \X TilesOf(c)) \ tiles]
        \/ /\ pc' = pc /\ place' = place /\ todo' = [todo EXCEPT ![r] = todo[r] \ tiles]
    BY DEF EpiStep
  <2>3. todo[r] \ tiles \in SUBSET (Members(c) \X TilesOf(c)) BY <2>1
  <2>4. pc' \in [Members(c) -> {"idle", "zeroed", "run", "ended"}] BY <2>1, <2>2
  <2>5. todo' \in [Members(c) -> SUBSET (Members(c) \X TilesOf(c))]
    <3> DEFINE S == SUBSET (Members(c) \X TilesOf(c))
    <3>1. (Members(c) \X TilesOf(c)) \ tiles \in S OBVIOUS
    <3> HIDE DEF S
    <3> QED BY <2>1, <2>2, <2>3, <3>1 DEF S
  <2>6. place' \in [Members(c) -> Nat] BY <2>1, <2>2
  <2> QED BY <2>4, <2>5, <2>6
<1>5. pc[r] # "idle" BY DEF EpiStep
<1>6. {Mine(r)} \in Values(c) BY <1>5, MineIsValue
<1>7. /\ out' \in Buffers(c)
      /\ DOMAIN flags' = Members(c) /\ flags' = [q \in Members(c) |-> flags'[q]]
  <2>1. CASE c.epilogue = "keep"
    BY <2>1, <1>3, <1>6, KeepForm DEF Typed
  <2>2. CASE c.epilogue = "store"
    <3>1. flags' = flags /\ out' \in Buffers(c) BY <2>2, <1>3, <1>6, StoreForm
    <3> QED BY <3>1 DEF Typed
  <2>3. CASE c.epilogue = "add"
    <3>1. flags' = flags /\ out' \in Buffers(c) BY <2>3, <1>1, <1>3, <1>6, AddForm
    <3> QED BY <3>1 DEF Typed
  <2> QED BY <1>1, <2>1, <2>2, <2>3 DEF Sound
<1>8. ASSUME NEW q \in Members(c)
      PROVE  /\ place'[q] <= Len(c.ops[q]) * WavesOf(c)
             /\ pc'[q] # "run" \/ place'[q] = Len(c.ops[q]) * WavesOf(c) => done'[q] = {}
             /\ fwd'[q] <= c.forwards /\ (pc'[q] # "idle" => fwd'[q] < c.forwards)
  <2>1. /\ place[q] <= Len(c.ops[q]) * WavesOf(c)
        /\ pc[q] # "run" \/ place[q] = Len(c.ops[q]) * WavesOf(c) => done[q] = {}
        /\ fwd[q] <= c.forwards /\ (pc[q] # "idle" => fwd[q] < c.forwards)
        /\ fwd[q] \in Nat /\ c.forwards \in Nat
    BY <1>1 DEF Typed, Sound
  <2>2. CASE pc[r] = "zeroed" /\ q = r
    <3>1. pc'[q] = "run" /\ place'[q] = 0 BY <2>2 DEF EpiStep, Typed
    <3>2. Len(c.ops[q]) \in Nat /\ WavesOf(c) \in Nat
      <4>1. c.ops[q] \in Seq(Operations(c)) BY <1>1 DEF Sound
      <4> QED BY <4>1, <1>1, WaveFacts
    <3>3. 0 <= Len(c.ops[q]) * WavesOf(c) BY <3>2
    <3> QED BY <3>1, <3>3, <2>1, <2>2, <1>3
  <2>3. CASE pc[r] # "zeroed" \/ q # r
    <3>1. pc'[q] = pc[q] /\ place'[q] = place[q] BY <2>3 DEF EpiStep, Typed
    <3> QED BY <3>1, <2>1, <1>3
  <2> QED BY <2>2, <2>3
<1> QED BY <1>2, <1>3, <1>4, <1>7, <1>8 DEF Typed

\* What a place holds is a value.
LEMMA HeldIsValue ==
    ASSUME NEW c, Typed(c), NEW p \in Places(c), NEW t \in TilesOf(c)
    PROVE  Held(p, t) \in Values(c)
  BY NameFacts DEF Held, Typed, Buffers

\* What a group adds up is a value.
LEMMA SumIsValue ==
    ASSUME NEW c, Sound(c), Typed(c), NEW e \in OpEvents(c), NEW t \in TilesOf(c)
    PROVE  Total([p \in OpOf(c, e).from |-> Held(p, t)]) \in Values(c)
<1> DEFINE f == [p \in OpOf(c, e).from |-> Held(p, t)]
<1>1. OpOf(c, e).from \subseteq Places(c) BY OpFacts, OperationFacts
<1>2. \A x \in DOMAIN f : f[x] \in Values(c) BY <1>1, HeldIsValue
<1> HIDE DEF f
<1>3. Total(f) \in Values(c) BY <1>2, TotalIsValue
<1> QED BY <1>3 DEF f

\* So do the ring kernels.
LEMMA TypedByKernel ==
    ASSUME NEW c, Fine(c), Typed(c), NEW r \in Members(c),
           NEW e \in OpEvents(c), NEW t \in TilesOf(c), OpStep(c, r, e, t)
    PROVE  Typed(c)'
<1>1. Sound(c) BY DEF Fine
<1>2. Is(c)' BY IsKept DEF Typed, OpStep
<1>3. UNCHANGED <<late, fwd, pc, wrong, arrived, todo>> BY DEF OpStep
<1>4. out' \in Buffers(c) /\ red' \in Buffers(c)
  <2>1. OpOf(c, e).to \in Places(c) BY <1>1, OpFacts, OperationFacts
  <2> QED BY <1>1, <2>1, SumIsValue, PutForm DEF OpStep
<1>5. DOMAIN flags' = Members(c) /\ flags' = [q \in Members(c) |-> flags'[q]]
  BY Names DEF OpStep, Typed, Raise
<1>6. t % c.groups \in GroupsOf(c) BY <1>1, TileFacts
<1>7. /\ done' \in [Members(c) -> SUBSET GroupsOf(c)] /\ place' \in [Members(c) -> Nat]
  <2>1. done \in [Members(c) -> SUBSET GroupsOf(c)] /\ place \in [Members(c) -> Nat]
    BY DEF Typed
  <2>2. \/ /\ done' = [done EXCEPT ![r] = {}] /\ place' = [place EXCEPT ![r] = @ + 1]
        \/ /\ done' = [done EXCEPT ![r] = @ \cup {t % c.groups}] /\ place' = place
    BY DEF OpStep
  <2> DEFINE G == GroupsOf(c)
             g == t % c.groups
  <2> HIDE DEF G, g
  <2>3. done' \in [Members(c) -> SUBSET G] BY <2>1, <2>2, <1>6 DEF G, g
  <2>4. place' \in [Members(c) -> Nat] BY <2>1, <2>2
  <2> QED BY <2>3, <2>4 DEF G
<1>8. ASSUME NEW q \in Members(c)
      PROVE  /\ place'[q] <= Len(c.ops[q]) * WavesOf(c)
             /\ pc'[q] # "run" \/ place'[q] = Len(c.ops[q]) * WavesOf(c) => done'[q] = {}
             /\ fwd'[q] <= c.forwards /\ (pc'[q] # "idle" => fwd'[q] < c.forwards)
  <2>1. /\ place[q] <= Len(c.ops[q]) * WavesOf(c)
        /\ pc[q] # "run" \/ place[q] = Len(c.ops[q]) * WavesOf(c) => done[q] = {}
        /\ fwd[q] <= c.forwards /\ (pc[q] # "idle" => fwd[q] < c.forwards)
        /\ place[q] \in Nat
    BY DEF Typed
  <2>2. CASE q = r
    <3>1. pc[r] = "run" /\ At(c, e[3], t) = place[r] /\ e[2] = r BY DEF OpStep
    <3>2. place[r] < Len(c.ops[r]) * WavesOf(c) BY <3>1, <1>1, LastAt
    <3>3. \/ place'[r] = place[r] + 1 /\ done'[r] = {}
          \/ place'[r] = place[r]
      BY DEF OpStep, Typed
    <3>4. Len(c.ops[r]) * WavesOf(c) \in Nat
      <4>1. c.ops[r] \in Seq(Operations(c)) BY <1>1 DEF Sound
      <4>2. Len(c.ops[r]) \in Nat /\ WavesOf(c) \in Nat BY <4>1, <1>1, WaveFacts
      <4> QED BY <4>2
    <3> QED BY <3>1, <3>2, <3>3, <3>4, <2>1, <2>2, <1>3
  <2>3. CASE q # r
    <3>1. place'[q] = place[q] /\ done'[q] = done[q] BY <2>3 DEF OpStep, Typed
    <3> QED BY <3>1, <2>1, <1>3
  <2> QED BY <2>2, <2>3
<1> QED BY <1>2, <1>3, <1>4, <1>5, <1>7, <1>8 DEF Typed

\* The barriers: what the steps of the stream do.
LEMMA BarriersByStream ==
    ASSUME NEW c, Typed(c), BarriersHold(c), NEW r \in Members(c), StreamOnly(r)
    PROVE  BarriersHold(c)'
<1> SUFFICES ASSUME c.epilogue # "store", NEW q \in Members(c), NEW p \in Members(c)
             PROVE  /\ arrived'[q] = 2 * fwd'[q] + (IF pc'[q] = "idle" THEN 0
                                                    ELSE IF pc'[q] = "ended" THEN 2 ELSE 1)
                    /\ arrived'[p] >= 2 * fwd'[q]
                    /\ pc'[q] \in {"run", "ended"} => arrived'[p] >= 2 * fwd'[q] + 1
  BY DEF BarriersHold
<1>1. /\ Config = c /\ Ranks = Members(c) BY Names DEF Typed
<1>2. /\ fwd[q] \in Nat /\ arrived[p] \in Nat /\ arrived[q] \in Nat
      /\ fwd[r] \in Nat /\ arrived[r] \in Nat
  BY DEF Typed
<1>3. /\ arrived[q] = 2 * fwd[q] + (IF pc[q] = "idle" THEN 0 ELSE IF pc[q] = "ended" THEN 2 ELSE 1)
      /\ arrived[r] = 2 * fwd[r] + (IF pc[r] = "idle" THEN 0 ELSE IF pc[r] = "ended" THEN 2 ELSE 1)
      /\ arrived[p] >= 2 * fwd[q]
      /\ pc[q] \in {"run", "ended"} => arrived[p] >= 2 * fwd[q] + 1
  BY DEF BarriersHold
<1>4. CASE Prepare(r)
  <2>1. /\ pc[r] = "idle" /\ fwd' = fwd
        /\ arrived'[p] = (IF p = r THEN arrived[p] + 1 ELSE arrived[p])
        /\ arrived'[q] = (IF q = r THEN arrived[q] + 1 ELSE arrived[q])
        /\ pc'[q] = IF q = r THEN "zeroed" ELSE pc[q]
    BY <1>1, <1>4 DEF Prepare, Typed, Arrive, MayPrepare
  <2> QED BY <2>1, <1>2, <1>3
<1>5. CASE KernelsEnd(r)
  <2>1. /\ pc[r] = "run" /\ fwd' = fwd
        /\ arrived'[p] = (IF p = r THEN arrived[p] + 1 ELSE arrived[p])
        /\ arrived'[q] = (IF q = r THEN arrived[q] + 1 ELSE arrived[q])
        /\ pc'[q] = IF q = r THEN "ended" ELSE pc[q]
    BY <1>1, <1>5 DEF KernelsEnd, Typed, Arrive, KernelsOver
  <2> QED BY <2>1, <1>2, <1>3
<1>6. CASE ReturnSum(r)
  <2>1. /\ pc[r] = "ended" /\ arrived' = arrived /\ arrived[p] >= arrived[r]
        /\ fwd'[q] = (IF q = r THEN fwd[q] + 1 ELSE fwd[q])
        /\ pc'[q] = IF q = r THEN "idle" ELSE pc[q]
    BY <1>1, <1>6 DEF ReturnSum, Typed, Passes, MayReturn
  <2> QED BY <2>1, <1>2, <1>3
<1> QED BY <1>4, <1>5, <1>6 DEF StreamOnly

\* What the steps of the epilogue do.
LEMMA BarriersByEpilogue ==
    ASSUME NEW c, Typed(c), BarriersHold(c), NEW r \in Members(c), NEW tiles, EpiStep(c, r, tiles)
    PROVE  BarriersHold(c)'
<1> SUFFICES ASSUME c.epilogue # "store", NEW q \in Members(c), NEW p \in Members(c)
             PROVE  /\ arrived'[q] = 2 * fwd'[q] + (IF pc'[q] = "idle" THEN 0
                                                    ELSE IF pc'[q] = "ended" THEN 2 ELSE 1)
                    /\ arrived'[p] >= 2 * fwd'[q]
                    /\ pc'[q] \in {"run", "ended"} => arrived'[p] >= 2 * fwd'[q] + 1
  BY DEF BarriersHold
<1>1. /\ fwd[q] \in Nat /\ arrived[p] \in Nat /\ arrived[q] \in Nat
      /\ fwd[r] \in Nat /\ arrived[r] \in Nat
  BY DEF Typed
<1>2. /\ arrived[q] = 2 * fwd[q] + (IF pc[q] = "idle" THEN 0 ELSE IF pc[q] = "ended" THEN 2 ELSE 1)
      /\ arrived[p] >= 2 * fwd[q]
      /\ pc[q] \in {"run", "ended"} => arrived[p] >= 2 * fwd[q] + 1
  BY DEF BarriersHold
<1>3. arrived' = arrived /\ fwd' = fwd BY DEF EpiStep
<1>4. CASE pc[r] = "zeroed" /\ q = r
  <2>1. pc'[q] = "run" /\ arrived[p] >= arrived[q] BY <1>4 DEF EpiStep, Typed
  <2> QED BY <2>1, <1>1, <1>2, <1>3, <1>4
<1>5. CASE pc[r] # "zeroed" \/ q # r
  <2>1. pc'[q] = pc[q] BY <1>5 DEF EpiStep, Typed
  <2> QED BY <2>1, <1>2, <1>3
<1> QED BY <1>4, <1>5

\* The callers: what the steps of the stream do.
LEMMA CallersByStream ==
    ASSUME NEW c, Sound(c), Typed(c), CallersHold(c), NEW r \in Members(c), StreamOnly(r)
    PROVE  CallersHold(c)'
<1> SUFFICES ASSUME c.epilogue = "store", NEW q \in Members(c), NEW p \in Members(c)
             PROVE  /\ arrived'[q] = fwd'[q] + (IF pc'[q] = "ended" THEN 1 ELSE 0)
                    /\ arrived'[p] >= fwd'[q]
                    /\ pc'[q] # "idle" => fwd'[p] >= fwd'[q]
  BY DEF CallersHold
<1>1. Config = c /\ Ranks = Members(c) /\ c.sync BY Names DEF Typed, Sound
<1>2. /\ fwd[q] \in Nat /\ arrived[p] \in Nat /\ arrived[q] \in Nat
      /\ fwd[p] \in Nat /\ fwd[r] \in Nat /\ arrived[r] \in Nat
  BY DEF Typed
<1>3. /\ arrived[q] = fwd[q] + (IF pc[q] = "ended" THEN 1 ELSE 0)
      /\ arrived[r] = fwd[r] + (IF pc[r] = "ended" THEN 1 ELSE 0)
      /\ arrived[p] >= fwd[q]
      /\ pc[q] # "idle" => fwd[p] >= fwd[q]
  BY DEF CallersHold
<1>4. CASE Prepare(r)
  <2>1. /\ pc[r] = "idle" /\ fwd' = fwd /\ arrived' = arrived
        /\ fwd[p] >= fwd[r]
        /\ pc'[q] = IF q = r THEN "zeroed" ELSE pc[q]
    BY <1>1, <1>4 DEF Prepare, Typed, MayPrepare
  <2> QED BY <2>1, <1>2, <1>3
<1>5. CASE KernelsEnd(r)
  <2>1. /\ pc[r] = "run" /\ fwd' = fwd
        /\ arrived'[p] = (IF p = r THEN arrived[p] + 1 ELSE arrived[p])
        /\ arrived'[q] = (IF q = r THEN arrived[q] + 1 ELSE arrived[q])
        /\ pc'[q] = IF q = r THEN "ended" ELSE pc[q]
    BY <1>1, <1>5 DEF KernelsEnd, Typed, Arrive, KernelsOver
  <2> QED BY <2>1, <1>2, <1>3
<1>6. CASE ReturnSum(r)
  <2>1. /\ pc[r] = "ended" /\ arrived' = arrived /\ arrived[p] >= arrived[r]
        /\ fwd'[q] = (IF q = r THEN fwd[q] + 1 ELSE fwd[q])
        /\ fwd'[p] = (IF p = r THEN fwd[p] + 1 ELSE fwd[p])
        /\ pc'[q] = IF q = r THEN "idle" ELSE pc[q]
    BY <1>1, <1>6 DEF ReturnSum, Typed, Passes, MayReturn
  <2> QED BY <2>1, <1>2, <1>3
<1> QED BY <1>4, <1>5, <1>6 DEF StreamOnly

\* What the steps of the epilogue do.
LEMMA CallersByEpilogue ==
    ASSUME NEW c, Typed(c), CallersHold(c), NEW r \in Members(c), NEW tiles, EpiStep(c, r, tiles)
    PROVE  CallersHold(c)'
<1> SUFFICES ASSUME c.epilogue = "store", NEW q \in Members(c), NEW p \in Members(c)
             PROVE  /\ arrived'[q] = fwd'[q] + (IF pc'[q] = "ended" THEN 1 ELSE 0)
                    /\ arrived'[p] >= fwd'[q]
                    /\ pc'[q] # "idle" => fwd'[p] >= fwd'[q]
  BY DEF CallersHold
<1>1. /\ arrived[q] = fwd[q] + (IF pc[q] = "ended" THEN 1 ELSE 0)
      /\ arrived[p] >= fwd[q]
      /\ pc[q] # "idle" => fwd[p] >= fwd[q]
  BY DEF CallersHold
<1>2. arrived' = arrived /\ fwd' = fwd BY DEF EpiStep
<1>3. (pc'[q] = "ended" <=> pc[q] = "ended") /\ (pc'[q] # "idle" => pc[q] # "idle")
  BY DEF EpiStep, Typed
<1> QED BY <1>1, <1>2, <1>3

\* The ring kernels concern neither.
LEMMA BarriersByKernel ==
    ASSUME NEW c, BarriersHold(c), CallersHold(c), NEW r, NEW e, NEW t, OpStep(c, r, e, t)
    PROVE  BarriersHold(c)' /\ CallersHold(c)'
<1>1. fwd' = fwd /\ pc' = pc /\ arrived' = arrived BY DEF OpStep
<1>2. BarriersHold(c)' BY <1>1 DEF BarriersHold
<1>3. CallersHold(c)' BY <1>1 DEF CallersHold
<1> QED BY <1>2, <1>3
-----------------------------------------------------------------------------
(* The order of the events. *)

\* A rank is in its kernels, so all ranks are in its forward.
LEMMA AllHere ==
    ASSUME NEW c, Typed(c), BarriersHold(c), c.epilogue # "store", NEW r \in Members(c),
           pc[r] = "run" \/ (pc[r] = "zeroed" /\ \A p \in Members(c) : arrived[p] >= arrived[r])
    PROVE  \A p \in Members(c) : fwd[p] = fwd[r] /\ pc[p] # "idle"
<1>1. fwd[r] \in Nat BY DEF Typed
<1>2. ASSUME pc[r] = "zeroed", NEW p \in Members(c), arrived[p] >= arrived[r]
      PROVE  arrived[p] >= 2 * fwd[r] + 1
  <2>1. arrived[r] = 2 * fwd[r] + 1 BY <1>2 DEF BarriersHold
  <2> QED BY <2>1, <1>2
<1>3. ASSUME pc[r] = "run", NEW p \in Members(c) PROVE arrived[p] >= 2 * fwd[r] + 1
  BY <1>3 DEF BarriersHold
<1>4. \A p \in Members(c) : arrived[p] >= 2 * fwd[r] + 1 BY <1>2, <1>3
<1>5. pc[r] \in {"zeroed", "run"} OBVIOUS
<1> QED BY <1>4, <1>5, Together

\* What is behind an operation is over when it starts.
LEMMA BehindIsOver ==
    ASSUME NEW c, Fine(c), c.epilogue = "keep", Typed(c), BarriersHold(c), OrderKept(c),
           FlagsMean(c), NEW r \in Members(c), NEW e \in OpEvents(c), NEW t \in TilesOf(c),
           OpStep(c, r, e, t), NEW d \in Behind(c, e)
    PROVE  Done(c, fwd[r], d, t)
<1> DEFINE n == fwd[r]
           before == Order(c)
           last == <<"op", e[2], e[3] - 1>>
<1>1. Sound(c) /\ Certified(c, before, Sums(c)) BY CertificateFacts DEF Fine
<1>2. /\ e \in Events(c) /\ e[2] = r /\ e[3] \in Nat \ {0} /\ e[3] <= Len(c.ops[r])
      /\ Len(c.ops[r]) \in Nat /\ OpOf(c, e).waits \subseteq Flags(c)
  BY <1>1, OpFacts, OperationFacts DEF OpStep
<1>3. /\ pc[r] = "run" /\ At(c, e[3], t) = place[r]
      /\ \A f \in OpOf(c, e).waits : IsUp(f, t, t \div c.groups)
  BY DEF OpStep
<1>4. d \in Over(c, before, e) BY <1>1, CertificateFacts DEF Certified
<1>5. n \in Nat BY DEF Typed
<1>6. ASSUME NEW x \in Events(c), Done(c, n, x, t), d = x \/ d \in Past(before, x)
      PROVE  Done(c, n, d, t)
  BY <1>5, <1>6 DEF OrderKept, Behind
<1>7. CASE e[3] > 1 /\ d \in {last} \cup before[last]
  <2> DEFINE j == e[3] - 1
  <2>1. j \in 1..Len(c.ops[r]) /\ j \in Nat \ {0} BY <1>2, <1>7
  <2>2. last \in OpEvents(c) /\ last = <<"op", r, j>> BY <2>1, <1>2, OpNames
  <2>3. last \in Events(c) /\ Behind(c, last) = before[last]
    BY <2>2, <1>1, OpFacts, CertificateFacts
  <2>4. At(c, j, t) < j * WavesOf(c) /\ (e[3] - 1) * WavesOf(c) <= At(c, e[3], t)
        /\ At(c, j, t) \in Nat /\ At(c, e[3], t) \in Nat
    BY <2>1, <1>1, <1>2, AtFacts
  <2>5. At(c, j, t) < place[r]
    <3>1. WavesOf(c) \in Nat BY <1>1, WaveFacts
    <3>2. j * WavesOf(c) \in Nat BY <2>1, <3>1
    <3> DEFINE a == At(c, j, t)
               b == At(c, e[3], t)
               w == j * WavesOf(c)
    <3>3. a < w /\ w <= b /\ a \in Nat /\ b \in Nat /\ w \in Nat BY <2>4, <3>2
    <3> HIDE DEF a, b, w
    <3>4. a < b BY <3>3
    <3> QED BY <3>4, <1>3 DEF a, b
  <2>6. Done(c, n, last, t) BY <2>2, <2>5, <1>3 DEF Done, OpDone, Inside
  <2> HIDE DEF last
  <2>7. d = last \/ d \in Past(before, last) BY <1>7, <2>3 DEF Behind
  <2> QED BY <2>3, <2>6, <2>7, <1>6
<1>8. CASE \E f \in OpOf(c, e).waits : d \in Common(before, Raisers(c, f))
  <2>1. PICK f \in OpOf(c, e).waits : d \in Common(before, Raisers(c, f)) BY <1>8
  <2>2. f \in Flags(c) /\ f[2] \in Members(c) BY <1>2, NameFacts
  <2>3. fwd[f[2]] = n /\ pc[f[2]] # "idle" BY <1>3, <2>2, AllHere
  <2>4. PICK x \in Raisers(c, f) : Done(c, n, x, t)
    BY <2>2, <2>3, <1>3 DEF FlagsMean
  <2>5. x \in Events(c) BY DEF Raisers
  <2>6. d = x \/ d \in Past(before, x) BY <2>1 DEF Common
  <2> QED BY <2>4, <2>5, <2>6, <1>6
<1> QED BY <1>4, <1>7, <1>8 DEF Over

\* The order is kept by the steps of the stream,
LEMMA OrderByStream ==
    ASSUME NEW c, Fine(c), Typed(c), OrderKept(c), NEW r \in Members(c), StreamOnly(r)
    PROVE  OrderKept(c)'
<1> SUFFICES ASSUME c.epilogue = "keep", NEW n \in Nat, NEW e \in Events(c), NEW t \in TilesOf(c),
                    Done(c, n, e, t)', NEW d \in Behind(c, e)
             PROVE  Done(c, n, d, t)'
  BY DEF OrderKept
<1>1. Sound(c) /\ d \in Events(c) BY CertificateFacts DEF Fine
<1>2. Done(c, n, e, t) BY <1>1, StreamOnlyDone
<1>3. Done(c, n, d, t) BY <1>2 DEF OrderKept
<1> QED BY <1>1, <1>3, StreamOnlyDone

\* by those of the epilogue,
LEMMA OrderByEpilogue ==
    ASSUME NEW c, Fine(c), Typed(c), OrderKept(c), NEW r \in Members(c), NEW tiles,
           EpiStep(c, r, tiles)
    PROVE  OrderKept(c)'
<1> SUFFICES ASSUME c.epilogue = "keep", NEW n \in Nat, NEW e \in Events(c), NEW t \in TilesOf(c),
                    Done(c, n, e, t)', NEW d \in Behind(c, e)
             PROVE  Done(c, n, d, t)'
  BY DEF OrderKept
<1>1. Sound(c) /\ d \in Events(c) BY CertificateFacts DEF Fine
<1>2. Done(c, n, e, t) \/ IsNew(r, tiles, n, e, t) BY <1>1, EpiStepDone
<1>3. ~IsNew(r, tiles, n, e, t)
  <2> SUFFICES ASSUME IsNew(r, tiles, n, e, t) PROVE FALSE OBVIOUS
  <2>1. e \in EpiEvents(c) BY <1>1, EventKinds DEF IsNew
  <2> QED BY <2>1, CertificateFacts
<1>4. Done(c, n, d, t) BY <1>2, <1>3 DEF OrderKept
<1> QED BY <1>1, <1>4, EpiStepDone

\* and by those of the ring kernels.
LEMMA OrderByKernel ==
    ASSUME NEW c, Fine(c), Typed(c), BarriersHold(c), OrderKept(c), FlagsMean(c),
           NEW r \in Members(c), NEW o \in OpEvents(c), NEW u \in TilesOf(c), OpStep(c, r, o, u)
    PROVE  OrderKept(c)'
<1> SUFFICES ASSUME c.epilogue = "keep", NEW n \in Nat, NEW e \in Events(c), NEW t \in TilesOf(c),
                    Done(c, n, e, t)', NEW d \in Behind(c, e)
             PROVE  Done(c, n, d, t)'
  BY DEF OrderKept
<1>1. Sound(c) /\ d \in Events(c) BY CertificateFacts DEF Fine
<1>2. Done(c, n, e, t) \/ (n = fwd[r] /\ e = o /\ t = u) BY <1>1, OpStepDone
<1>3. Done(c, n, d, t) BY <1>2, BehindIsOver DEF OrderKept
<1> QED BY <1>1, <1>3, OpStepDone

-----------------------------------------------------------------------------
(* What a flag means. *)

\* The flags when the streams move,
LEMMA FlagsByStream ==
    ASSUME NEW c, Fine(c), Typed(c), FlagsMean(c), NEW r \in Members(c), StreamOnly(r)
    PROVE  FlagsMean(c)'
<1> SUFFICES ASSUME c.epilogue = "keep", NEW f \in Flags(c), NEW t \in TilesOf(c),
                    pc'[f[2]] # "idle", IsUp(f, t, t \div c.groups)'
             PROVE  \E x \in Raisers(c, f) : Done(c, fwd[f[2]], x, t)'
  BY DEF FlagsMean
<1> DEFINE q == f[2]
<1>1. Sound(c) /\ q \in Members(c) BY NameFacts DEF Fine
<1>2. Config = c /\ fwd \in [Members(c) -> Nat]
      /\ pc \in [Members(c) -> {"idle", "zeroed", "run", "ended"}] /\ DOMAIN flags = Members(c)
      /\ flags = [p \in Members(c) |-> flags[p]]
  BY Names DEF Typed
<1>3. pc[q] # "idle" /\ fwd'[q] = fwd[q] /\ flags'[q] = flags[q]
  <2>1. CASE Prepare(r)
    <3>1. /\ pc' = [pc EXCEPT ![r] = "zeroed"] /\ flags' = [flags EXCEPT ![r] = {}] /\ fwd' = fwd
      BY <2>1, <1>2 DEF Prepare, MayPrepare
    <3>2. q # r
      <4> SUFFICES ASSUME q = r PROVE FALSE OBVIOUS
      <4>1. flags'[q] = {} BY <3>1, <1>1, <1>2
      <4> QED BY <4>1 DEF IsUp
    <3> QED BY <3>1, <3>2, <1>1, <1>2
  <2>2. CASE KernelsEnd(r)
    <3>1. pc' = [pc EXCEPT ![r] = "ended"] /\ flags' = flags /\ fwd' = fwd /\ pc[r] = "run"
      BY <2>2 DEF KernelsEnd, KernelsOver
    <3> QED BY <3>1, <1>1, <1>2
  <2>3. CASE ReturnSum(r)
    <3>1. pc' = [pc EXCEPT ![r] = "idle"] /\ flags' = flags /\ fwd' = [fwd EXCEPT ![r] = @ + 1]
      BY <2>3 DEF ReturnSum, MayReturn
    <3> QED BY <3>1, <1>1, <1>2
  <2> QED BY <2>1, <2>2, <2>3 DEF StreamOnly
<1>4. config' = config BY DEF StreamOnly, Prepare, KernelsEnd, ReturnSum, MayPrepare, KernelsOver, MayReturn
<1>5. IsUp(f, t, t \div c.groups) BY <1>3, <1>4 DEF IsUp, Config
<1>6. PICK x \in Raisers(c, f) : Done(c, fwd[q], x, t) BY <1>3, <1>5 DEF FlagsMean
<1>7. x \in Events(c) /\ fwd[q] \in Nat BY <1>1, <1>2 DEF Raisers
<1>8. Done(c, fwd[q], x, t)'
  <2> DEFINE n == fwd[q]
  <2>1. n \in Nat BY <1>7
  <2>2. PICK m \in Nat : m = n BY <2>1
  <2>3. Done(c, m, x, t)' BY <2>2, <1>1, <1>6, <1>7, StreamOnlyDone
  <2>4. m = n' BY <2>2, <1>3
  <2> QED BY <2>3, <2>4
<1> QED BY <1>6, <1>8

\* when the epilogue raises those of its tiles,
LEMMA FlagsByEpilogue ==
    ASSUME NEW c, Fine(c), Typed(c), FlagsMean(c), NEW r \in Members(c),
           NEW tiles \in SUBSET (Members(c) \X TilesOf(c)), EpiStep(c, r, tiles)
    PROVE  FlagsMean(c)'
<1> SUFFICES ASSUME c.epilogue = "keep", NEW f \in Flags(c), NEW t \in TilesOf(c),
                    pc'[f[2]] # "idle", IsUp(f, t, t \div c.groups)'
             PROVE  \E x \in Raisers(c, f) : Done(c, fwd[f[2]], x, t)'
  BY DEF FlagsMean
<1> DEFINE q == f[2]
           w == t \div c.groups
<1>1. Sound(c) /\ q \in Members(c) /\ f[3] \in Members(c) /\ f = <<f[1], f[2], f[3]>>
  BY NameFacts DEF Fine
<1>2. fwd \in [Members(c) -> Nat] /\ DOMAIN flags = Members(c) BY DEF Typed
<1>3. pc[q] # "idle" /\ fwd' = fwd /\ config' = config BY <1>1 DEF EpiStep, Typed
<1>4. flags' = [flags EXCEPT ![r] = @ \cup {<<"epilogue", st[1], st[2]>> : st \in tiles}]
  <2>1. Config = c /\ Finish(r, tiles) BY Names DEF EpiStep, Typed
  <2> QED BY <2>1 DEF Finish
<1>5. PICK m \in Nat : m = fwd[q] BY <1>1, <1>2
<1>6. m = fwd'[q] BY <1>3, <1>5
<1>7. CASE IsUp(f, t, w)
  <2>1. PICK x \in Raisers(c, f) : Done(c, m, x, t) BY <1>3, <1>5, <1>7 DEF FlagsMean
  <2>2. x \in Events(c) BY DEF Raisers
  <2>3. Done(c, m, x, t)' BY <2>1, <2>2, <1>1, EpiStepDone
  <2> QED BY <2>3, <1>6
<1>8. CASE ~IsUp(f, t, w)
  <2> DEFINE y == <<f[1], f[3], IF f[1] = "epilogue" THEN t ELSE w>>
  <2>1. y \in flags'[q] /\ y \notin flags[q] BY <1>8 DEF IsUp
  <2>2. q = r /\ \E st \in tiles : y = <<"epilogue", st[1], st[2]>> BY <2>1, <1>1, <1>2, <1>4
  <2>3. PICK st \in tiles : y = <<"epilogue", st[1], st[2]>> BY <2>2
  <2>4. f[1] = "epilogue" /\ f[3] = st[1] /\ t = st[2] BY <2>3
  <2>5. <<f[3], t>> \in tiles
    <3>1. st = <<st[1], st[2]>> OBVIOUS
    <3> QED BY <2>4, <3>1
  <2>6. f = <<"epilogue", r, f[3]>> BY <2>2, <2>4, <1>1
  <2>7. f \in EpiEvents(c) /\ f \in Events(c) BY <2>6, <1>1, EpiNames, EpiFacts
  <2>8. f \in Raisers(c, f) BY <2>7 DEF Raisers
  <2>9. IsNew(r, tiles, m, f, t) BY <2>2, <2>4, <2>5, <1>5 DEF IsNew
  <2>10. Done(c, m, f, t)' BY <2>7, <2>9, <1>1, EpiStepDone
  <2> QED BY <2>8, <2>10, <1>6
<1> QED BY <1>7, <1>8

\* and when a CTA raises one for the tiles of its groups.
LEMMA FlagsByKernel ==
    ASSUME NEW c, Fine(c), Typed(c), BarriersHold(c), FlagsMean(c), NEW r \in Members(c),
           NEW e \in OpEvents(c), NEW u \in TilesOf(c), OpStep(c, r, e, u)
    PROVE  FlagsMean(c)'
<1> SUFFICES ASSUME c.epilogue = "keep", NEW f \in Flags(c), NEW t \in TilesOf(c),
                    pc'[f[2]] # "idle", IsUp(f, t, t \div c.groups)'
             PROVE  \E x \in Raisers(c, f) : Done(c, fwd[f[2]], x, t)'
  BY DEF FlagsMean
<1> DEFINE q == f[2]
           w == t \div c.groups
           v == u \div c.groups
<1>1. Sound(c) /\ q \in Members(c) /\ f = <<f[1], f[2], f[3]>> BY NameFacts DEF Fine
<1>2. fwd \in [Members(c) -> Nat] /\ Ranks = Members(c) BY Names DEF Typed
<1>3. pc' = pc /\ fwd' = fwd /\ config' = config /\ pc[r] = "run" /\ e[2] = r
      /\ At(c, e[3], u) = place[r]
  BY DEF OpStep
<1>4. fwd[q] = fwd[r] /\ pc[q] # "idle" BY <1>1, <1>3, AllHere
<1>5. PICK m \in Nat : m = fwd[q] BY <1>1, <1>2
<1>6. m = fwd'[q] /\ m = fwd[r] BY <1>3, <1>4, <1>5
<1>7. CASE IsUp(f, t, w)
  <2>1. PICK x \in Raisers(c, f) : Done(c, m, x, t) BY <1>4, <1>5, <1>7 DEF FlagsMean
  <2>2. x \in Events(c) BY DEF Raisers
  <2>3. Done(c, m, x, t)' BY <2>1, <2>2, <1>1, OpStepDone
  <2> QED BY <2>3, <1>6
<1>8. CASE ~IsUp(f, t, w)
  <2> DEFINE y == <<f[1], f[3], IF f[1] = "epilogue" THEN t ELSE w>>
  <2>1. y \in flags'[q] /\ y \notin flags[q] BY <1>8 DEF IsUp
  <2>2. flags' = Raise(OpOf(c, e).raises, v)
        /\ \A s \in TilesOf(c) : s \div c.groups = v => s = u \/ s % c.groups \in done[r]
    BY <2>1 DEF OpStep
  <2>3. flags'[q] = flags[q] \cup {<<x[1], x[3], v>> : x \in {z \in OpOf(c, e).raises : z[2] = q}}
    BY <2>2, <1>1, <1>2 DEF Raise
  <2>4. PICK x \in OpOf(c, e).raises : x[2] = q /\ y = <<x[1], x[3], v>> BY <2>1, <2>3
  <2>5. x \in Flags(c) /\ x[1] # "epilogue" /\ x = <<x[1], x[2], x[3]>>
    BY <1>1, OpFacts, OperationFacts, NameFacts
  <2>6. f[1] = x[1] /\ f[3] = x[3] /\ (IF f[1] = "epilogue" THEN t ELSE w) = v BY <2>4
  <2>7. f = x /\ w = v BY <2>4, <2>5, <2>6, <1>1
  <2>8. e[1] = "op" /\ e \in Events(c) BY <1>1, OpFacts
  <2>9. e \in Raisers(c, f) BY <2>7, <2>8 DEF Raisers
  <2>10. CASE t = u
    <3>1. Done(c, m, e, t)' BY <2>8, <2>10, <1>1, <1>6, OpStepDone
    <3> QED BY <2>9, <3>1, <1>6
  <2>11. CASE t % c.groups \in done[r]
    <3>1. At(c, e[3], t) = place[r] BY <2>7, <1>3 DEF At
    <3>2. Done(c, m, e, t) BY <2>8, <2>11, <3>1, <1>3, <1>6 DEF Done, OpDone, Inside
    <3>3. Done(c, m, e, t)' BY <3>2, <2>8, <1>1, OpStepDone
    <3> QED BY <2>9, <3>3, <1>6
  <2> QED BY <2>2, <2>7, <2>10, <2>11
<1> QED BY <1>7, <1>8
-----------------------------------------------------------------------------
(* What a place holds. *)

\* Before any rank is in its kernels, no event of the forward is over.
LEMMA HoldsHere ==
    ASSUME NEW c, Fine(c), c.epilogue = "keep", Typed(c), PlacesHold(c), NEW r \in Members(c),
           \A p \in Members(c) : fwd[p] = fwd[r]
    PROVE  Holds(c, fwd[r])
<1>1. CASE \E p \in Members(c) : pc[p] \in {"run", "ended"}
  BY <1>1 DEF PlacesHold
<1>2. CASE \A p \in Members(c) : pc[p] \notin {"run", "ended"}
  <2>1. fwd[r] \in Nat /\ Sound(c) BY DEF Typed, Fine
  <2>2. ASSUME NEW e \in Events(c), NEW t \in TilesOf(c) PROVE ~Done(c, fwd[r], e, t)
    <3>1. e[2] \in Members(c) BY <2>1, EventKinds
    <3>2. ~Left(fwd[r], e[2]) /\ ~Inside(fwd[r], e[2]) BY <3>1, <2>1, <1>2 DEF Left, Inside
    <3> QED BY <3>2 DEF Done, OpDone, EpiDone
  <2>3. \A p \in Places(c) : Writers(c, p) \subseteq Events(c) BY DEF Writers
  <2> QED BY <2>2, <2>3 DEF Holds, Latest
<1> QED BY <1>1, <1>2

\* An event that ends is the latest at its place.
LEMMA NewIsLatest ==
    ASSUME NEW c, Fine(c), c.epilogue = "keep", OrderKept(c), NEW n \in Nat,
           NEW p \in Places(c), NEW t \in TilesOf(c), NEW d \in Writers(c, p),
           NEW e \in Writers(c, p), ~Done(c, n, d, t), Done(c, n, d, t)',
           Done(c, n, e, t)' => Done(c, n, e, t) \/ e = d, Latest(c, n, p, e, t)'
    PROVE  e = d
<1> SUFFICES ASSUME e # d PROVE FALSE OBVIOUS
<1>1. Done(c, n, e, t)' /\ \A v \in Writers(c, p) \ {e} : Done(c, n, v, t)' => v \in Behind(c, e)
  BY DEF Latest
<1>2. d \in Behind(c, e) /\ Done(c, n, e, t) BY <1>1
<1>3. e \in Events(c) BY DEF Writers
<1> QED BY <1>2, <1>3 DEF OrderKept

\* An event that is the latest was so before, where none ended in between.
LEMMA LatestBefore ==
    ASSUME NEW c, NEW n \in Nat, NEW p, NEW t, NEW e, Latest(c, n, p, e, t)',
           \A v \in Writers(c, p) \cup {e} : Done(c, n, v, t)' <=> Done(c, n, v, t)
    PROVE  Latest(c, n, p, e, t)
<1>1. Done(c, n, e, t)' /\ \A v \in Writers(c, p) \ {e} : Done(c, n, v, t)' => v \in Behind(c, e)
  BY DEF Latest
<1> QED BY <1>1 DEF Latest

\* The steps of the stream touch no place.
LEMMA PlacesByStream ==
    ASSUME NEW c, Fine(c), Typed(c), PlacesHold(c), PlacesFresh(c), NEW r \in Members(c),
           StreamOnly(r)
    PROVE  PlacesHold(c)' /\ PlacesFresh(c)'
<1> SUFFICES ASSUME c.epilogue = "keep" PROVE PlacesHold(c)' /\ PlacesFresh(c)'
  BY DEF PlacesHold, PlacesFresh
<1>1. Sound(c) /\ Config = c BY Names DEF Fine, Typed
<1>2. out' = out /\ red' = red BY <1>1 DEF StreamOnly, Prepare, KernelsEnd, ReturnSum, MayPrepare, KernelsOver, MayReturn
<1>3. PlacesFresh(c)' BY <1>2 DEF PlacesFresh, Held
<1>4. ASSUME NEW q \in Members(c), pc'[q] \in {"run", "ended"} PROVE Holds(c, fwd[q])'
  <2>1. pc[q] \in {"run", "ended"} /\ fwd'[q] = fwd[q]
    <3>1. /\ fwd \in [Members(c) -> Nat]
          /\ pc \in [Members(c) -> {"idle", "zeroed", "run", "ended"}]
      BY DEF Typed
    <3>2. CASE Prepare(r)
      <4>1. pc' = [pc EXCEPT ![r] = "zeroed"] /\ fwd' = fwd BY <3>2 DEF Prepare, MayPrepare
      <4> QED BY <4>1, <3>1, <1>4
    <3>3. CASE KernelsEnd(r)
      <4>1. pc' = [pc EXCEPT ![r] = "ended"] /\ fwd' = fwd /\ pc[r] = "run"
        BY <3>3 DEF KernelsEnd, KernelsOver
      <4> QED BY <4>1, <3>1, <1>4
    <3>4. CASE ReturnSum(r)
      <4>1. pc' = [pc EXCEPT ![r] = "idle"] /\ fwd' = [fwd EXCEPT ![r] = @ + 1]
        BY <3>4 DEF ReturnSum, MayReturn
      <4> QED BY <4>1, <3>1, <1>4
    <3> QED BY <3>2, <3>3, <3>4 DEF StreamOnly
  <2>2. Holds(c, fwd[q]) /\ fwd[q] \in Nat BY <2>1 DEF PlacesHold, Typed
  <2>3. PICK n \in Nat : n = fwd[q] BY <2>2
  <2>4. n = fwd'[q] BY <2>1, <2>3
  <2>5. Holds(c, n) BY <2>2, <2>3
  <2>6. ASSUME NEW p \in Places(c), NEW t \in TilesOf(c), NEW e \in Writers(c, p),
               Latest(c, n, p, e, t)'
        PROVE  Held(p, t)' = Amount(c, n + 1, e)
    <3>1. \A v \in Events(c) : Done(c, n, v, t)' <=> Done(c, n, v, t) BY <1>1, StreamOnlyDone
    <3>2. Writers(c, p) \subseteq Events(c) BY DEF Writers
    <3>3. Latest(c, n, p, e, t) BY <2>6, <3>1, <3>2, LatestBefore
    <3>4. Held(p, t) = Amount(c, n + 1, e) BY <2>5, <3>3 DEF Holds
    <3> QED BY <3>4, <1>2 DEF Held
  <2>7. Holds(c, n)' BY <2>6 DEF Holds
  <2> QED BY <2>4, <2>7
<1> QED BY <1>3, <1>4 DEF PlacesHold

\* The epilogue writes the places of its tiles.
LEMMA PlacesByEpilogue ==
    ASSUME NEW c, Fine(c), MaxForwards \in Nat, Typed(c), BarriersHold(c), OrderKept(c),
           PlacesHold(c), PlacesFresh(c), NEW r \in Members(c),
           NEW tiles \in SUBSET (Members(c) \X TilesOf(c)), EpiStep(c, r, tiles)
    PROVE  PlacesHold(c)' /\ PlacesFresh(c)'
<1> SUFFICES ASSUME c.epilogue = "keep" PROVE PlacesHold(c)' /\ PlacesFresh(c)'
  BY DEF PlacesHold, PlacesFresh
<1>1. Sound(c) BY DEF Fine
<1>2. pc[r] \in {"zeroed", "run"} /\ red' = red /\ fwd' = fwd BY DEF EpiStep
<1>3. {Mine(r)} \in Values(c) /\ Mine(r) = <<fwd[r] + 1, r>> BY <1>2, MineIsValue
<1>4. \A o, s \in Members(c), t \in TilesOf(c) :
         out'[o][s][t] = IF o = r /\ <<s, t>> \in tiles THEN {Mine(r)} ELSE out[o][s][t]
  <2>1. Finish(r, tiles) BY DEF EpiStep
  <2>2. Keeps(c, r, tiles) BY <2>1, <1>3, KeepForm
  <2> QED BY <2>2 DEF Keeps
<1>5. PlacesFresh(c)' BY <1>2 DEF PlacesFresh, Held
<1>6. \A p \in Members(c) : fwd[p] = fwd[r] BY AllHere DEF EpiStep
<1>7. PICK n \in Nat : n = fwd[r] BY DEF Typed
<1>8. Holds(c, n) BY <1>6, <1>7, HoldsHere
<1>9. ASSUME NEW p \in Places(c), NEW t \in TilesOf(c), NEW e \in Writers(c, p),
             Latest(c, n, p, e, t)'
      PROVE  Held(p, t)' = Amount(c, n + 1, e)
  <2>1. Writers(c, p) \subseteq Events(c) BY DEF Writers
  <2>2. \A v \in Writers(c, p) : Done(c, n, v, t)' <=> (Done(c, n, v, t) \/ IsNew(r, tiles, n, v, t))
    BY <2>1, <1>1, EpiStepDone
  <2>3. p = <<p[1], p[2], p[3]>> /\ p[1] \in {"out", "red"} /\ p[2] \in Members(c) /\ p[3] \in Members(c)
    BY NameFacts
  <2>4. ASSUME NEW v \in Writers(c, p), IsNew(r, tiles, n, v, t)
        PROVE  /\ v = <<"epilogue", r, p[3]>> /\ p[1] = "out" /\ p[2] = r /\ <<p[3], t>> \in tiles
               /\ v \in EpiEvents(c)
    <3>1. v \in EpiEvents(c) /\ v[2] = r /\ <<v[3], t>> \in tiles
      BY <2>1, <2>4, <1>1, EventKinds DEF IsNew
    <3>2. v = <<"epilogue", r, v[3]>> /\ p = <<"out", r, v[3]>>
      BY <3>1, EpiFacts DEF Writers
    <3> QED BY <3>1, <3>2
  <2>5. CASE p[1] = "out" /\ p[2] = r /\ <<p[3], t>> \in tiles
    <3> DEFINE d == <<"epilogue", r, p[3]>>
    <3>1. d \in EpiEvents(c) /\ d \in Events(c) /\ Target(c, d) = p
      BY <2>3, <2>5, EpiNames, EpiFacts
    <3>2. d \in Writers(c, p) BY <3>1 DEF Writers
    <3>3. IsNew(r, tiles, n, d, t) BY <2>5, <1>7 DEF IsNew
    <3>4. Done(c, n, d, t)' /\ ~Done(c, n, d, t) BY <3>1, <3>3, <1>1, EpiStepDone
    <3>5. e = d
      <4>1. Done(c, n, e, t)' => Done(c, n, e, t) \/ e = d BY <2>2, <2>4
      <4> HIDE DEF d
      <4> QED BY <4>1, <3>2, <3>4, <1>9, NewIsLatest
    <3>6. Held(p, t)' = {<<n + 1, r>>} BY <2>3, <2>5, <1>3, <1>4, <1>7 DEF Held
    <3>7. Amount(c, n + 1, e) = {n + 1} \X {r} BY <3>1, <3>5, CertificateFacts DEF Amount
    <3> QED BY <3>6, <3>7
  <2>6. CASE ~(p[1] = "out" /\ p[2] = r /\ <<p[3], t>> \in tiles)
    <3>1. \A v \in Writers(c, p) \cup {e} : Done(c, n, v, t)' <=> Done(c, n, v, t)
      BY <2>2, <2>4, <2>6
    <3>2. Latest(c, n, p, e, t) BY <3>1, <1>9, LatestBefore
    <3>3. Held(p, t) = Amount(c, n + 1, e) BY <3>2, <1>8 DEF Holds
    <3>4. Held(p, t)' = Held(p, t) BY <2>3, <2>6, <1>2, <1>4 DEF Held
    <3> QED BY <3>3, <3>4
  <2> QED BY <2>5, <2>6
<1>10. Holds(c, n)' BY <1>9 DEF Holds
<1>11. \A q \in Members(c) : fwd'[q] = n BY <1>2, <1>6, <1>7
<1>12. PlacesHold(c)' BY <1>10, <1>11 DEF PlacesHold
<1> QED BY <1>5, <1>12

\* What an operation finds in a place it reads.
LEMMA FindsSums ==
    ASSUME NEW c, Fine(c), c.epilogue = "keep", Typed(c), BarriersHold(c), OrderKept(c),
           FlagsMean(c), PlacesFresh(c), NEW r \in Members(c), Holds(c, fwd[r]),
           NEW e \in OpEvents(c), NEW t \in TilesOf(c), OpStep(c, r, e, t),
           NEW p \in OpOf(c, e).from
    PROVE  Held(p, t) = {fwd[r] + 1} \X Found(c, Order(c), Sums(c), e, p)
<1> DEFINE n == fwd[r]
           before == Order(c)
           writers == Writers(c, p)
<1>1. Sound(c) /\ n \in Nat BY DEF Fine, Typed
<1>2. p \in Places(c) BY <1>1, OpFacts, OperationFacts
<1>3. IF writers = {} THEN p[1] = "red" /\ c.fresh = {}
      ELSE \E w \in writers : IsSource(writers, before, e, w)
  BY CertificateFacts DEF Certified, Adds
<1>4. CASE writers = {}
  <2>1. Held(p, t) = {} BY <1>2, <1>3, <1>4 DEF PlacesFresh
  <2>2. Found(c, before, Sums(c), e, p) = {} BY <1>4 DEF Found
  <2> QED BY <2>1, <2>2
<1>5. CASE writers # {}
  <2> DEFINE w == CHOOSE x \in writers : IsSource(writers, before, e, x)
  <2>1. w \in writers /\ IsSource(writers, before, e, w) BY <1>3, <1>5
  <2>2. Found(c, before, Sums(c), e, p) = Part(Sums(c), w) BY <1>5 DEF Found
  <2> HIDE DEF w
  <2>3. w \in Behind(c, e) BY <2>1, CertificateFacts DEF IsSource
  <2>4. Done(c, n, w, t) BY <2>3, BehindIsOver
  <2>5. ~Done(c, n, e, t) /\ e \in Events(c) BY <1>1, OpFacts, OpStepDone
  <2>6. ASSUME NEW v \in writers \ {w}, Done(c, n, v, t) PROVE v \in Behind(c, w)
    <3>1. v \in Past(before, w) \/ v = e \/ e \in Past(before, v) BY <2>1 DEF IsSource
    <3>2. v \in Events(c) BY DEF Writers
    <3>3. e \notin Behind(c, v) BY <2>5, <2>6, <3>2, <1>1 DEF OrderKept
    <3> QED BY <3>1, <3>3, <2>5, <2>6 DEF Behind
  <2>7. Latest(c, n, p, w, t) BY <2>4, <2>6 DEF Latest
  <2>8. Held(p, t) = Amount(c, n + 1, w) BY <2>1, <2>7, <1>2 DEF Holds
  <2> QED BY <2>2, <2>8 DEF Amount
<1> QED BY <1>4, <1>5

\* What it writes.
LEMMA AddsUp ==
    ASSUME NEW c, Fine(c), c.epilogue = "keep", Typed(c), BarriersHold(c), OrderKept(c),
           FlagsMean(c), PlacesFresh(c), NEW r \in Members(c), Holds(c, fwd[r]),
           NEW e \in OpEvents(c), NEW t \in TilesOf(c), OpStep(c, r, e, t)
    PROVE  Total([p \in OpOf(c, e).from |-> Held(p, t)]) = Amount(c, fwd[r] + 1, e)
<1> DEFINE from == OpOf(c, e).from
           F(p) == Found(c, Order(c), Sums(c), e, p)
           f == [p \in from |-> Held(p, t)]
           m == fwd[r] + 1
<1>1. /\ \A p, q \in from : p = q \/ F(p) \cap F(q) = {}
      /\ Part(Sums(c), e) = UNION {F(p) : p \in from}
  BY CertificateFacts DEF Certified, Adds
<1>2. \A p \in from : Held(p, t) = {m} \X F(p) BY FindsSums
<1> HIDE DEF F, from, m
<1>3. DOMAIN f = from /\ \A p \in from : f[p] = {m} \X F(p) BY <1>2
<1> HIDE DEF f
<1>4. \A x, y \in DOMAIN f : x = y \/ f[x] \cap f[y] = {} BY <1>1, <1>3
<1>5. Total(f) = UNION {f[x] : x \in DOMAIN f} BY <1>4, TotalDisjoint
<1>6. UNION {f[x] : x \in DOMAIN f} = {m} \X UNION {F(p) : p \in from} BY <1>3
<1>7. Total(f) = {m} \X Part(Sums(c), e) BY <1>1, <1>5, <1>6
<1> QED BY <1>7 DEF Amount, f, from, m

\* The ring kernels write sums.
LEMMA PlacesByKernel ==
    ASSUME NEW c, Fine(c), c.epilogue = "keep", Typed(c), BarriersHold(c), OrderKept(c),
           FlagsMean(c), PlacesHold(c), PlacesFresh(c), NEW r \in Members(c),
           NEW o \in OpEvents(c), NEW u \in TilesOf(c), OpStep(c, r, o, u)
    PROVE  PlacesHold(c)' /\ PlacesFresh(c)'
<1> DEFINE place0 == OpOf(c, o).to
<1>1. Sound(c) BY DEF Fine
<1>2. /\ place0 \in Places(c) /\ o \in Events(c) /\ o \in Writers(c, place0)
  BY <1>1, OpFacts, OperationFacts DEF Writers
<1>3. \A p \in Members(c) : fwd[p] = fwd[r] BY AllHere DEF OpStep
<1>4. PICK n \in Nat : n = fwd[r] BY DEF Typed
<1>5. Holds(c, n) BY <1>3, <1>4, HoldsHere
<1> DEFINE v == Total([p \in OpOf(c, o).from |-> Held(p, u)])
<1>6. v \in Values(c) /\ v = Amount(c, n + 1, o) BY <1>1, <1>4, <1>5, SumIsValue, AddsUp
<1>7. Put(place0, u, v) /\ fwd' = fwd BY DEF OpStep
<1> HIDE DEF v, place0
<1>8. \A q \in Places(c), x \in TilesOf(c) :
         Held(q, x)' = IF q = place0 /\ x = u THEN v ELSE Held(q, x)
  BY <1>2, <1>6, <1>7, PutForm
<1>9. PlacesFresh(c)'
  <2> SUFFICES ASSUME NEW p \in Places(c), NEW t \in TilesOf(c), p[1] = "red", Writers(c, p) = {}
               PROVE  Held(p, t)' = c.fresh
    BY DEF PlacesFresh
  <2>1. p # place0 BY <1>2
  <2> QED BY <2>1, <1>8 DEF PlacesFresh
<1>10. ASSUME NEW p \in Places(c), NEW t \in TilesOf(c), NEW e \in Writers(c, p),
              Latest(c, n, p, e, t)'
       PROVE  Held(p, t)' = Amount(c, n + 1, e)
  <2>1. Writers(c, p) \subseteq Events(c) BY DEF Writers
  <2>2. \A x \in Writers(c, p) :
            Done(c, n, x, t)' <=> (Done(c, n, x, t) \/ (x = o /\ t = u))
    BY <2>1, <1>1, <1>4, OpStepDone
  <2>3. CASE p = place0 /\ t = u
    <3>1. ~Done(c, n, o, t) /\ Done(c, n, o, t)' BY <2>3, <1>1, <1>2, <1>4, OpStepDone
    <3>2. e = o BY <3>1, <2>2, <2>3, <1>2, <1>10, NewIsLatest
    <3> QED BY <3>2, <2>3, <1>6, <1>8
  <2>4. CASE ~(p = place0 /\ t = u)
    <3>1. \A x \in Writers(c, p) : x = o => p = place0 BY <1>1, <1>2, OpFacts DEF Writers, place0
    <3>2. \A x \in Writers(c, p) \cup {e} : Done(c, n, x, t)' <=> Done(c, n, x, t)
      BY <2>2, <2>4, <3>1
    <3>3. Latest(c, n, p, e, t) BY <3>2, <1>10, LatestBefore
    <3>4. Held(p, t) = Amount(c, n + 1, e) BY <3>3, <1>5 DEF Holds
    <3> QED BY <3>4, <2>4, <1>8
  <2> QED BY <2>3, <2>4
<1>11. Holds(c, n)' BY <1>10 DEF Holds
<1>12. \A q \in Members(c) : fwd'[q] = n BY <1>3, <1>4, <1>7
<1>13. PlacesHold(c)' BY <1>11, <1>12 DEF PlacesHold
<1> QED BY <1>9, <1>13
-----------------------------------------------------------------------------
(* The epilogues that add or store in the buffers of the owners. *)

\* A tile of the epilogue is over, by its event.
LEMMA EpiEvent ==
    ASSUME NEW c, NEW r \in Members(c), NEW s \in Members(c), NEW n, NEW t
    PROVE  /\ <<"epilogue", r, s>> \in Events(c)
           /\ Done(c, n, <<"epilogue", r, s>>, t) <=> EpiDone(n, r, s, t)
           /\ Done(c, n, <<"epilogue", r, s>>, t)' <=> EpiDone(n, r, s, t)'
<1> DEFINE e == <<"epilogue", r, s>>
<1>1. e \in Events(c) BY EpiNames, EpiFacts
<1>2. e[1] = "epilogue" /\ e[2] = r /\ e[3] = s OBVIOUS
<1> HIDE DEF e
<1>3. Done(c, n, e, t) <=> EpiDone(n, r, s, t) BY <1>2 DEF Done
<1>4. Done(c, n, e, t)' <=> EpiDone(n, r, s, t)' BY <1>2 DEF Done
<1> QED BY <1>1, <1>3, <1>4 DEF e

\* In a step of the epilogue, and of the stream.
LEMMA EpiByEpilogue ==
    ASSUME NEW c, Sound(c), Typed(c), NEW r \in Members(c), NEW tiles, EpiStep(c, r, tiles),
           NEW n \in Nat, NEW p \in Members(c), NEW o \in Members(c), NEW t \in TilesOf(c)
    PROVE  /\ EpiDone(n, p, o, t)' <=> EpiDone(n, p, o, t) \/ (n = fwd[r] /\ p = r /\ <<o, t>> \in tiles)
           /\ ~(EpiDone(n, p, o, t) /\ n = fwd[r] /\ p = r /\ <<o, t>> \in tiles)
<1> DEFINE e == <<"epilogue", p, o>>
<1>1. e \in Events(c) /\ e[1] # "op" /\ e[2] = p /\ e[3] = o BY EpiEvent
<1>2. /\ Done(c, n, e, t) <=> EpiDone(n, p, o, t)
      /\ Done(c, n, e, t)' <=> EpiDone(n, p, o, t)'
  BY EpiEvent
<1> HIDE DEF e
<1>3. IsNew(r, tiles, n, e, t) <=> n = fwd[r] /\ p = r /\ <<o, t>> \in tiles BY <1>1 DEF IsNew
<1> QED BY <1>1, <1>2, <1>3, EpiStepDone

\* A step of the stream finishes no tile of a running forward.
LEMMA EpiByStream ==
    ASSUME NEW c, Sound(c), Typed(c), NEW r \in Members(c), StreamOnly(r),
           NEW n \in Nat, NEW p \in Members(c), NEW o \in Members(c), NEW t \in TilesOf(c)
    PROVE  EpiDone(n, p, o, t)' <=> EpiDone(n, p, o, t)
<1> DEFINE e == <<"epilogue", p, o>>
<1>1. e \in Events(c) BY EpiEvent
<1>2. /\ Done(c, n, e, t) <=> EpiDone(n, p, o, t)
      /\ Done(c, n, e, t)' <=> EpiDone(n, p, o, t)'
  BY EpiEvent
<1> HIDE DEF e
<1> QED BY <1>1, <1>2, StreamOnlyDone

\* Zeroing a first segment: no GEMM of the forward has started.
LEMMA AddedByStream ==
    ASSUME NEW c, Sound(c), Typed(c), BarriersHold(c), AddedUp(c), NEW r \in Members(c),
           StreamOnly(r)
    PROVE  AddedUp(c)'
<1> SUFFICES ASSUME c.epilogue = "add", NEW o \in Members(c), NEW t \in TilesOf(c),
                    pc'[o] # "idle"
             PROVE  out'[o][0][t]
                        = {fwd'[o] + 1} \X {p \in Members(c) : EpiDone(fwd[o], p, o, t)'}
  BY DEF AddedUp
<1>1. Config = c /\ Ranks = Members(c) /\ Tiles = TilesOf(c) BY Names DEF Typed
<1>2. /\ fwd \in [Members(c) -> Nat] /\ arrived \in [Members(c) -> Nat]
      /\ pc \in [Members(c) -> {"idle", "zeroed", "run", "ended"}]
      /\ out \in Buffers(c)
  BY DEF Typed
<1>3. 0 \in Members(c) BY DEF Sound, Members
<1>4. PICK n \in Nat : n = fwd[o] BY <1>2
<1>5. fwd'[o] = n
  <2>1. CASE Prepare(r) BY <2>1, <1>4 DEF Prepare, MayPrepare
  <2>2. CASE KernelsEnd(r) BY <2>2, <1>4 DEF KernelsEnd, KernelsOver
  <2>3. CASE ReturnSum(r)
    <3>1. pc' = [pc EXCEPT ![r] = "idle"] /\ fwd' = [fwd EXCEPT ![r] = @ + 1]
      BY <2>3 DEF ReturnSum, MayReturn
    <3> QED BY <3>1, <1>2, <1>4
  <2> QED BY <2>1, <2>2, <2>3 DEF StreamOnly
<1> DEFINE A == {p \in Members(c) : EpiDone(n, p, o, t)}
           B == {p \in Members(c) : EpiDone(n, p, o, t)'}
<1>6. \A p \in Members(c) : EpiDone(fwd[o], p, o, t)' <=> EpiDone(n, p, o, t)'
  BY <1>5 DEF EpiDone, Left, Inside
<1>7. {p \in Members(c) : EpiDone(fwd[o], p, o, t)'} = B BY <1>6
<1>8. A = B BY <1>4, EpiByStream
<1>9. out'[o][0][t] = {n + 1} \X A
  <2>1. CASE o = r /\ Prepare(r)
    <3>1. pc[r] = "idle" /\ out' = [out EXCEPT ![r] = Grid({})[r]]
      BY <2>1, <1>1 DEF Prepare, MayPrepare
    <3>2. out'[o][0][t] = {} BY <2>1, <3>1, <1>1, <1>2, <1>3 DEF Grid, Buffers
    <3>3. arrived[r] = 2 * n /\ arrived[r] \in Nat BY <2>1, <3>1, <1>2, <1>4 DEF BarriersHold
    <3>4. ASSUME NEW p \in Members(c) PROVE ~EpiDone(n, p, o, t)
      <4>1. /\ fwd[p] \in Nat /\ arrived[r] >= 2 * fwd[p]
            /\ pc[p] \in {"run", "ended"} => arrived[r] >= 2 * fwd[p] + 1
        BY <1>2 DEF BarriersHold
      <4>2. ~Left(n, p) /\ ~Inside(n, p) BY <4>1, <3>3 DEF Left, Inside
      <4> QED BY <4>2 DEF EpiDone
    <3>5. A = {} BY <3>4
    <3> HIDE DEF A
    <3> QED BY <3>2, <3>5
  <2>2. CASE ~(o = r /\ Prepare(r))
    <3>1. pc[o] # "idle" /\ out'[o] = out[o]
      <4>1. CASE Prepare(r)
        <5>1. pc' = [pc EXCEPT ![r] = "zeroed"] /\ out' = [out EXCEPT ![r] = Grid({})[r]]
          BY <4>1, <1>1 DEF Prepare, MayPrepare
        <5>2. o # r BY <4>1, <2>2
        <5> HIDE DEF Grid
        <5> QED BY <5>1, <5>2, <1>2 DEF Buffers
      <4>2. CASE KernelsEnd(r)
        <5>1. pc' = [pc EXCEPT ![r] = "ended"] /\ out' = out /\ pc[r] = "run"
          BY <4>2 DEF KernelsEnd, KernelsOver
        <5> QED BY <5>1, <1>2
      <4>3. CASE ReturnSum(r)
        <5>1. pc' = [pc EXCEPT ![r] = "idle"] /\ out' = out BY <4>3 DEF ReturnSum, MayReturn
        <5> QED BY <5>1, <1>2
      <4> QED BY <4>1, <4>2, <4>3 DEF StreamOnly
    <3>2. out[o][0][t] = {fwd[o] + 1} \X {p \in Members(c) : EpiDone(fwd[o], p, o, t)}
      BY <3>1 DEF AddedUp
    <3> QED BY <3>1, <3>2, <1>4
  <2> QED BY <2>1, <2>2
<1> HIDE DEF A, B
<1> QED BY <1>5, <1>7, <1>8, <1>9

\* The epilogue adds its own partial product once.
LEMMA AddedByEpilogue ==
    ASSUME NEW c, Fine(c), MaxForwards \in Nat, Typed(c), BarriersHold(c), AddedUp(c),
           NEW r \in Members(c), NEW tiles \in SUBSET (Members(c) \X TilesOf(c)),
           EpiStep(c, r, tiles)
    PROVE  AddedUp(c)'
<1> SUFFICES ASSUME c.epilogue = "add", NEW o \in Members(c), NEW t \in TilesOf(c),
                    pc'[o] # "idle"
             PROVE  out'[o][0][t]
                        = {fwd'[o] + 1} \X {p \in Members(c) : EpiDone(fwd[o], p, o, t)'}
  BY DEF AddedUp
<1>1. Sound(c) BY DEF Fine
<1>2. 0 \in Members(c) BY <1>1 DEF Sound, Members
<1>3. pc[r] # "idle" /\ fwd' = fwd BY DEF EpiStep
<1>4. {Mine(r)} \in Values(c) /\ Mine(r) = <<fwd[r] + 1, r>> BY <1>3, MineIsValue
<1>5. Finish(r, tiles) BY DEF EpiStep
<1>6. out'[o][0][t] = IF <<o, t>> \in tiles THEN Both(out[o][0][t], {Mine(r)}) ELSE out[o][0][t]
  <2>1. AddsMine(c, r, tiles) BY <1>1, <1>4, <1>5, AddForm
  <2> QED BY <2>1, <1>2 DEF AddsMine
<1>7. fwd[o] = fwd[r] /\ pc[o] # "idle"
  <2>1. pc[r] = "run" \/ (pc[r] = "zeroed" /\ \A p \in Members(c) : arrived[p] >= arrived[r])
    BY DEF EpiStep
  <2> QED BY <2>1, AllHere
<1>8. PICK n \in Nat : n = fwd[r] BY DEF Typed
<1> DEFINE A == {p \in Members(c) : EpiDone(n, p, o, t)}
           B == {p \in Members(c) : EpiDone(n, p, o, t)'}
<1>9. out[o][0][t] = {n + 1} \X A /\ out[o][0][t] \in Values(c)
  <2>1. out[o][0][t] = {n + 1} \X A BY <1>7, <1>8 DEF AddedUp
  <2>2. out \in Buffers(c) BY DEF Typed
  <2>3. out[o][0][t] \in Values(c) BY <2>2, <1>2 DEF Buffers
  <2> QED BY <2>1, <2>3
<1>10. B = IF <<o, t>> \in tiles THEN A \cup {r} ELSE A BY <1>1, <1>8, EpiByEpilogue
<1>11. <<o, t>> \in tiles => r \notin A BY <1>1, <1>8, EpiByEpilogue
<1>12. {p \in Members(c) : EpiDone(fwd[o], p, o, t)'} = B
  <2>1. \A p \in Members(c) : EpiDone(fwd[o], p, o, t)' <=> EpiDone(n, p, o, t)'
    BY <1>3, <1>7, <1>8 DEF EpiDone, Left, Inside
  <2> QED BY <2>1
<1> HIDE DEF A, B
<1>13. out'[o][0][t] = {n + 1} \X B
  <2>1. CASE <<o, t>> \in tiles
    <3> DEFINE a == out[o][0][t]
               b == {<<n + 1, r>>}
    <3>1. a = {n + 1} \X A /\ a \in Values(c) /\ b \in Values(c)
          /\ out'[o][0][t] = Both(a, b)
      BY <2>1, <1>4, <1>6, <1>8, <1>9
    <3> HIDE DEF a
    <3>2. a \cap b = {} BY <3>1, <2>1, <1>11
    <3>3. Both(a, b) = a \cup b BY <3>1, <3>2, BothFacts
    <3>4. a \cup b = {n + 1} \X (A \cup {r}) BY <3>1
    <3> QED BY <3>1, <3>3, <3>4, <2>1, <1>10
  <2>2. CASE <<o, t>> \notin tiles BY <2>2, <1>6, <1>9, <1>10
  <2> QED BY <2>1, <2>2
<1> QED BY <1>3, <1>7, <1>8, <1>12, <1>13

\* What a stored segment holds when the streams move.
LEMMA StoredByStream ==
    ASSUME NEW c, Sound(c), Typed(c), Stored(c), NEW r \in Members(c), StreamOnly(r)
    PROVE  Stored(c)'
<1> SUFFICES ASSUME c.epilogue = "store", NEW o \in Members(c), NEW q \in Members(c),
                    NEW t \in TilesOf(c)
             PROVE  /\ EpiDone(fwd[q], q, o, t)' => out'[o][q][t] = {<<fwd'[q] + 1, q>>}
                    /\ pc'[q] \in {"idle", "zeroed"} /\ fwd'[q] > 0
                            => out'[o][q][t] = {<<fwd'[q], q>>}
  BY DEF Stored
<1>1. Config = c BY Names DEF Typed
<1>2. /\ fwd \in [Members(c) -> Nat]
      /\ pc \in [Members(c) -> {"idle", "zeroed", "run", "ended"}]
  BY DEF Typed
<1>3. out' = out BY <1>1 DEF StreamOnly, Prepare, KernelsEnd, ReturnSum, MayPrepare, KernelsOver, MayReturn
<1>4. /\ EpiDone(fwd[q], q, o, t) => out[o][q][t] = {<<fwd[q] + 1, q>>}
      /\ pc[q] \in {"idle", "zeroed"} /\ fwd[q] > 0 => out[o][q][t] = {<<fwd[q], q>>}
  BY DEF Stored
<1>5. CASE ReturnSum(r) /\ q = r
  <2>1. pc[q] = "ended" /\ pc'[q] = "idle" /\ fwd'[q] = fwd[q] + 1
    BY <1>2, <1>5 DEF ReturnSum, MayReturn
  <2>2. EpiDone(fwd[q], q, o, t) BY <2>1 DEF EpiDone, Left
  <2>3. fwd[q] \in Nat BY <1>2
  <2>4. ~EpiDone(fwd[q], q, o, t)'
    <3>1. fwd'[q] = fwd'[q] /\ ~(fwd'[q] > fwd'[q]) BY <2>1, <2>3
    <3> QED BY <3>1, <2>1 DEF EpiDone, Left, Inside
  <2>5. fwd[q] + 1 = fwd'[q] BY <2>1
  <2> QED BY <2>2, <2>4, <2>5, <1>3, <1>4
<1>6. CASE ~(ReturnSum(r) /\ q = r)
  <2>1. fwd'[q] = fwd[q]
    <3>1. fwd' = fwd \/ (ReturnSum(r) /\ fwd' = [fwd EXCEPT ![r] = @ + 1])
      BY DEF StreamOnly, Prepare, KernelsEnd, ReturnSum, MayPrepare, KernelsOver, MayReturn
    <3> QED BY <3>1, <1>2, <1>6
  <2>2. pc'[q] \in {"idle", "zeroed"} => pc[q] \in {"idle", "zeroed"}
    <3>1. \/ pc[r] = "idle" /\ pc' = [pc EXCEPT ![r] = "zeroed"]
          \/ pc' = [pc EXCEPT ![r] = "ended"]
          \/ ReturnSum(r) /\ pc' = [pc EXCEPT ![r] = "idle"]
      BY DEF StreamOnly, Prepare, KernelsEnd, ReturnSum, MayPrepare, KernelsOver, MayReturn
    <3> QED BY <3>1, <1>2, <1>6
  <2>3. PICK n \in Nat : n = fwd[q] BY <1>2
  <2>4. EpiDone(fwd[q], q, o, t)' => EpiDone(n, q, o, t)'
    BY <2>1, <2>3 DEF EpiDone, Left, Inside
  <2>5. EpiDone(fwd[q], q, o, t)' => EpiDone(fwd[q], q, o, t) BY <2>3, <2>4, EpiByStream
  <2> QED BY <2>1, <2>2, <2>5, <1>3, <1>4
<1> QED BY <1>5, <1>6

\* When the epilogue stores in it.
LEMMA StoredByEpilogue ==
    ASSUME NEW c, Fine(c), MaxForwards \in Nat, Typed(c), Stored(c), NEW r \in Members(c),
           NEW tiles \in SUBSET (Members(c) \X TilesOf(c)), EpiStep(c, r, tiles)
    PROVE  Stored(c)'
<1> SUFFICES ASSUME c.epilogue = "store", NEW o \in Members(c), NEW q \in Members(c),
                    NEW t \in TilesOf(c)
             PROVE  /\ EpiDone(fwd[q], q, o, t)' => out'[o][q][t] = {<<fwd'[q] + 1, q>>}
                    /\ pc'[q] \in {"idle", "zeroed"} /\ fwd'[q] > 0
                            => out'[o][q][t] = {<<fwd'[q], q>>}
  BY DEF Stored
<1>1. Sound(c) BY DEF Fine
<1>2. pc[r] # "idle" /\ fwd' = fwd BY DEF EpiStep
<1>3. {Mine(r)} \in Values(c) /\ Mine(r) = <<fwd[r] + 1, r>> BY <1>2, MineIsValue
<1>4. Finish(r, tiles) BY DEF EpiStep
<1>5. out'[o][q][t] = IF q = r /\ <<o, t>> \in tiles THEN {Mine(r)} ELSE out[o][q][t]
  <2>1. Stores(c, r, tiles) BY <1>3, <1>4, StoreForm
  <2> QED BY <2>1 DEF Stores
<1>6. /\ EpiDone(fwd[q], q, o, t) => out[o][q][t] = {<<fwd[q] + 1, q>>}
      /\ pc[q] \in {"idle", "zeroed"} /\ fwd[q] > 0 => out[o][q][t] = {<<fwd[q], q>>}
  BY DEF Stored
<1>7. PICK n \in Nat : n = fwd[q] BY DEF Typed
<1>8. EpiDone(fwd[q], q, o, t)' => EpiDone(n, q, o, t)'
  BY <1>2, <1>7 DEF EpiDone, Left, Inside
<1>9. EpiDone(fwd[q], q, o, t)' => EpiDone(fwd[q], q, o, t) \/ (q = r /\ <<o, t>> \in tiles)
  BY <1>1, <1>7, <1>8, EpiByEpilogue
<1>10. pc'[q] \in {"idle", "zeroed"} => pc[q] \in {"idle", "zeroed"} /\ q # r
  BY DEF EpiStep, Typed
<1> QED BY <1>2, <1>3, <1>5, <1>6, <1>9, <1>10

-----------------------------------------------------------------------------
(* What a forward returns. *)

\* It is the sum of that forward.
LEMMA OutputIsSum ==
    ASSUME NEW c, Fine(c), InvOf(c), NEW r \in Members(c), pc[r] = "ended", Passes(r),
           NEW t \in TilesOf(c)
    PROVE  Output(r, t) = SumOfForward(fwd[r] + 1)
<1>1. Typed(c) /\ BarriersHold(c) /\ CallersHold(c) /\ Sound(c) BY DEF InvOf, Fine
<1>2. Config = c /\ Ranks = Members(c) BY <1>1, Names DEF Typed
<1>3. /\ fwd \in [Members(c) -> Nat] /\ arrived \in [Members(c) -> Nat]
      /\ pc \in [Members(c) -> {"idle", "zeroed", "run", "ended"}]
  BY <1>1 DEF Typed
<1>4. \A p \in Members(c) : arrived[p] >= arrived[r] BY <1>2 DEF Passes
<1>5. PICK n \in Nat : n = fwd[r] BY <1>3
<1>6. SumOfForward(n + 1) = {n + 1} \X Members(c) BY <1>2 DEF SumOfForward
<1>7. CASE c.epilogue = "keep"
  <2> DEFINE p == Out(r, r)
  <2>1. Output(r, t) = Held(p, t) BY <1>2, <1>7 DEF Output, Held, Out
  <2>2. p \in Places(c) BY DEF Places, Out
  <2>3. PICK w \in Writers(c, p) : /\ Writers(c, p) \ {w} \subseteq Past(Order(c), w)
                                  /\ Part(Sums(c), w) = Members(c)
    BY <1>7, CertificateFacts DEF Certified, Completes
  <2> HIDE DEF p
  <2>4. w \in Events(c) /\ w[2] \in Members(c) BY <1>1, EventKinds DEF Writers
  <2>5. Left(n, w[2]) BY <1>1, <1>4, <1>5, <1>7, <2>4, AllLeft
  <2>6. Done(c, n, w, t) BY <2>5 DEF Done, OpDone, EpiDone
  <2>7. Latest(c, n, p, w, t) BY <2>3, <2>6 DEF Latest, Behind
  <2>8. Holds(c, n) BY <1>5, <1>7 DEF InvOf, PlacesHold
  <2>9. Held(p, t) = Amount(c, n + 1, w) BY <2>2, <2>7, <2>8 DEF Holds
  <2> QED BY <2>1, <2>3, <2>9, <1>5, <1>6 DEF Amount
<1>8. CASE c.epilogue = "add"
  <2>1. Output(r, t) = out[r][0][t] BY <1>2, <1>8 DEF Output
  <2>2. out[r][0][t] = {n + 1} \X {p \in Members(c) : EpiDone(n, p, r, t)}
    BY <1>5, <1>8 DEF InvOf, AddedUp
  <2>3. \A p \in Members(c) : EpiDone(n, p, r, t) BY <1>1, <1>4, <1>5, <1>8, AllLeft DEF EpiDone
  <2>4. {p \in Members(c) : EpiDone(n, p, r, t)} = Members(c) BY <2>3
  <2> QED BY <2>1, <2>2, <2>4, <1>5, <1>6
<1>9. CASE c.epilogue = "store"
  <2> DEFINE f == [s \in Members(c) |-> out[r][s][t]]
  <2>1. Output(r, t) = Total(f) BY <1>2, <1>9 DEF Output
  <2>2. ASSUME NEW p \in Members(c) PROVE out[r][p][t] = {<<n + 1, p>>}
    <3>1. /\ fwd[p] \in Nat /\ arrived[p] \in Nat /\ arrived[r] \in Nat
          /\ arrived[r] = n + 1 /\ arrived[p] >= arrived[r]
          /\ arrived[p] = fwd[p] + (IF pc[p] = "ended" THEN 1 ELSE 0)
          /\ arrived[r] >= fwd[p]
          /\ pc[p] # "idle" => n >= fwd[p]
      BY <1>3, <1>4, <1>5, <1>1, <1>9 DEF CallersHold
    <3>2. (fwd[p] = n /\ pc[p] = "ended") \/ (fwd[p] = n + 1 /\ pc[p] = "idle") BY <3>1
    <3>3. CASE fwd[p] = n /\ pc[p] = "ended"
      <4>1. EpiDone(fwd[p], p, r, t) BY <3>3 DEF EpiDone, Left
      <4> QED BY <4>1, <3>3, <1>9 DEF InvOf, Stored
    <3>4. CASE fwd[p] = n + 1 /\ pc[p] = "idle"
      <4>1. fwd[p] > 0 BY <3>4
      <4> QED BY <4>1, <3>4, <1>9 DEF InvOf, Stored
    <3> QED BY <3>2, <3>3, <3>4
  <2>3. DOMAIN f = Members(c) /\ \A p \in Members(c) : f[p] = {<<n + 1, p>>} BY <2>2
  <2> HIDE DEF f
  <2>4. \A x, y \in DOMAIN f : x = y \/ f[x] \cap f[y] = {} BY <2>3
  <2>5. Total(f) = UNION {f[x] : x \in DOMAIN f} BY <2>4, TotalDisjoint
  <2>6. UNION {f[x] : x \in DOMAIN f} = {n + 1} \X Members(c) BY <2>3
  <2> QED BY <2>1, <2>5, <2>6, <1>5, <1>6
<1> QED BY <1>1, <1>7, <1>8, <1>9 DEF Sound
-----------------------------------------------------------------------------
(* The invariant is inductive. *)

\* It holds at first.
LEMMA InitInv ==
    ASSUME NEW c, Fine(c), Is(c), Init
    PROVE  InvOf(c)
<1>1. Sound(c) BY DEF Fine
<1>2. /\ Config = c /\ Ranks = Members(c) /\ Tiles = TilesOf(c) BY Names
<1>3. /\ fwd = [r \in Members(c) |-> 0] /\ pc = [r \in Members(c) |-> "idle"]
      /\ wrong = [r \in Members(c) |-> FALSE] /\ arrived = [r \in Members(c) |-> 0]
      /\ late \in c.late /\ todo = [r \in Members(c) |-> {}]
      /\ place = [r \in Members(c) |-> 0] /\ done = [r \in Members(c) |-> {}]
      /\ flags = [r \in Members(c) |-> {}]
      /\ out = Grid({}) /\ red = Grid(c.fresh)
  BY <1>2 DEF Init
<1>4. \A v : Grid(v) = [r \in Members(c) |-> [s \in Members(c) |-> [t \in TilesOf(c) |-> v]]]
  BY <1>2 DEF Grid
<1>5. Typed(c)
  <2>1. {} \in Values(c) /\ c.fresh \in Values(c) BY <1>1 DEF Sound, Values, Junk
  <2>2. out \in Buffers(c) /\ red \in Buffers(c) BY <2>1, <1>3, <1>4 DEF Buffers
  <2>3. ASSUME NEW r \in Members(c) PROVE 0 <= Len(c.ops[r]) * WavesOf(c)
    <3>1. c.ops[r] \in Seq(Operations(c)) BY <1>1 DEF Sound
    <3>2. Len(c.ops[r]) \in Nat /\ WavesOf(c) \in Nat BY <3>1, <1>1, WaveFacts
    <3> QED BY <3>2
  <2>4. c.forwards \in Nat BY <1>1 DEF Sound
  <2> QED BY <2>2, <2>3, <2>4, <1>3 DEF Typed
<1>6. ASSUME NEW n \in Nat, NEW r \in Members(c) PROVE ~Left(n, r) /\ ~Inside(n, r)
  BY <1>3 DEF Left, Inside
<1>7. BarriersHold(c) /\ CallersHold(c) BY <1>3 DEF BarriersHold, CallersHold
<1>8. OrderKept(c)
  <2>1. \A e \in Events(c) : e[2] \in Members(c) BY <1>1, EventKinds
  <2> QED BY <2>1, <1>6 DEF OrderKept, Done, OpDone, EpiDone
<1>9. FlagsMean(c) BY <1>3, NameFacts DEF FlagsMean
<1>10. PlacesHold(c) BY <1>3 DEF PlacesHold
<1>11. PlacesFresh(c) BY <1>3, <1>4, NameFacts DEF PlacesFresh, Held
<1>12. AddedUp(c) BY <1>3 DEF AddedUp
<1>13. Stored(c)
  <2>1. \A r \in Members(c) : fwd[r] = 0 /\ 0 \in Nat BY <1>3
  <2> QED BY <2>1, <1>6 DEF Stored, EpiDone
<1>14. Exact(c) BY <1>3 DEF Exact
<1> QED BY <1>5, <1>7, <1>8, <1>9, <1>10, <1>11, <1>12, <1>13, <1>14 DEF InvOf

\* The steps of the stream keep it,
LEMMA InvByStream ==
    ASSUME NEW c, Fine(c), InvOf(c), NEW r \in Members(c), StreamOnly(r)
    PROVE  InvOf(c)'
<1>1. /\ Sound(c) /\ Typed(c) /\ BarriersHold(c) /\ CallersHold(c)
      /\ OrderKept(c) /\ FlagsMean(c) /\ PlacesHold(c) /\ PlacesFresh(c)
      /\ AddedUp(c) /\ Stored(c) /\ Exact(c)
  BY DEF InvOf, Fine
<1>2. Typed(c)' BY <1>1, TypedByStream
<1>3. BarriersHold(c)' /\ CallersHold(c)' BY <1>1, BarriersByStream, CallersByStream
<1>4. OrderKept(c)' /\ FlagsMean(c)' BY <1>1, OrderByStream, FlagsByStream
<1>5. PlacesHold(c)' /\ PlacesFresh(c)' BY <1>1, PlacesByStream
<1>6. AddedUp(c)' /\ Stored(c)' BY <1>1, AddedByStream, StoredByStream
<1>7. Exact(c)'
  <2>1. CASE ReturnSum(r)
    <3>1. Ranks = Members(c) /\ Tiles = TilesOf(c) BY <1>1, Names DEF Typed
    <3>2. pc[r] = "ended" /\ Passes(r)
          /\ wrong' = [wrong EXCEPT ![r] = @ \/ \E t \in TilesOf(c) : Output(r, t) # SumOfForward(fwd[r] + 1)]
      BY <2>1, <3>1 DEF ReturnSum, MayReturn
    <3>3. \A t \in TilesOf(c) : Output(r, t) = SumOfForward(fwd[r] + 1) BY <3>2, OutputIsSum
    <3>4. ~wrong[r] /\ wrong \in [Members(c) -> BOOLEAN] BY <1>1 DEF Exact, Typed
    <3> DEFINE b == \E t \in TilesOf(c) : Output(r, t) # SumOfForward(fwd[r] + 1)
    <3>5. wrong' = [wrong EXCEPT ![r] = @ \/ b] /\ ~b BY <3>2, <3>3
    <3> HIDE DEF b
    <3>6. \A q \in Members(c) : wrong'[q] => wrong[q] BY <3>4, <3>5
    <3> QED BY <3>6, <1>1 DEF Exact
  <2>2. CASE ~ReturnSum(r)
    <3>1. wrong' = wrong BY <2>2 DEF StreamOnly, Prepare, KernelsEnd, MayPrepare, KernelsOver
    <3> QED BY <3>1, <1>1 DEF Exact
  <2> QED BY <2>1, <2>2
<1> QED BY <1>2, <1>3, <1>4, <1>5, <1>6, <1>7 DEF InvOf

\* those of the epilogue,
LEMMA InvByEpilogue ==
    ASSUME NEW c, Fine(c), MaxForwards \in Nat, InvOf(c), NEW r \in Members(c),
           NEW tiles \in SUBSET (Members(c) \X TilesOf(c)), EpiStep(c, r, tiles)
    PROVE  InvOf(c)'
<1>1. /\ Sound(c) /\ Typed(c) /\ BarriersHold(c) /\ CallersHold(c)
      /\ OrderKept(c) /\ FlagsMean(c) /\ PlacesHold(c) /\ PlacesFresh(c)
      /\ AddedUp(c) /\ Stored(c) /\ Exact(c)
  BY DEF InvOf, Fine
<1>2. Typed(c)' BY <1>1, TypedByEpilogue
<1>3. BarriersHold(c)' /\ CallersHold(c)' BY <1>1, BarriersByEpilogue, CallersByEpilogue
<1>4. OrderKept(c)' /\ FlagsMean(c)' BY <1>1, OrderByEpilogue, FlagsByEpilogue
<1>5. PlacesHold(c)' /\ PlacesFresh(c)' BY <1>1, PlacesByEpilogue
<1>6. AddedUp(c)' /\ Stored(c)' BY <1>1, AddedByEpilogue, StoredByEpilogue
<1>7. Exact(c)' BY <1>1 DEF Exact, EpiStep
<1> QED BY <1>2, <1>3, <1>4, <1>5, <1>6, <1>7 DEF InvOf

\* and those of the ring kernels.
LEMMA InvByKernel ==
    ASSUME NEW c, Fine(c), c.epilogue = "keep", InvOf(c), NEW r \in Members(c),
           NEW e \in OpEvents(c), NEW t \in TilesOf(c), OpStep(c, r, e, t)
    PROVE  InvOf(c)'
<1>1. /\ Sound(c) /\ Typed(c) /\ BarriersHold(c) /\ CallersHold(c)
      /\ OrderKept(c) /\ FlagsMean(c) /\ PlacesHold(c) /\ PlacesFresh(c) /\ Exact(c)
  BY DEF InvOf, Fine
<1>2. Typed(c)' BY <1>1, TypedByKernel
<1>3. BarriersHold(c)' /\ CallersHold(c)' BY <1>1, BarriersByKernel
<1>4. OrderKept(c)' /\ FlagsMean(c)' BY <1>1, OrderByKernel, FlagsByKernel
<1>5. PlacesHold(c)' /\ PlacesFresh(c)' BY <1>1, PlacesByKernel
<1>6. AddedUp(c)' /\ Stored(c)' BY DEF AddedUp, Stored
<1>7. Exact(c)' BY <1>1 DEF Exact, OpStep
<1> QED BY <1>2, <1>3, <1>4, <1>5, <1>6, <1>7 DEF InvOf

\* A step that changes nothing.
LEMMA InvByStuttering ==
    ASSUME NEW c, InvOf(c), UNCHANGED fvars
    PROVE  InvOf(c)'
<1>1. UNCHANGED <<config, fwd, pc, wrong, arrived, late, todo, place, done, flags, out, red>>
  BY DEF fvars
<1>2. ASSUME NEW n, NEW e, NEW t PROVE Done(c, n, e, t)' <=> Done(c, n, e, t)
  BY <1>1 DEF Done, OpDone, EpiDone, Left, Inside
<1>3. Typed(c)' BY <1>1 DEF InvOf, Typed, Is
<1>4. BarriersHold(c)' /\ CallersHold(c)' BY <1>1 DEF InvOf, BarriersHold, CallersHold
<1>5. OrderKept(c)' BY <1>2 DEF InvOf, OrderKept
<1>6. FlagsMean(c)'
  BY <1>1 DEF InvOf, FlagsMean, IsUp, Config, Done, OpDone, EpiDone, Left, Inside
<1>7. PlacesHold(c)'
  <2> SUFFICES ASSUME c.epilogue = "keep", NEW r \in Members(c), pc'[r] \in {"run", "ended"},
                      NEW p \in Places(c), NEW t \in TilesOf(c), NEW e \in Writers(c, p),
                      Latest(c, fwd[r], p, e, t)'
               PROVE  Held(p, t)' = Amount(c, fwd'[r] + 1, e)
    BY DEF PlacesHold, Holds
  <2>1. Holds(c, fwd[r]) BY <1>1 DEF InvOf, PlacesHold
  <2>2. PICK n : n = fwd[r] OBVIOUS
  <2>3. n = fwd'[r] BY <1>1, <2>2
  <2>4. Latest(c, n, p, e, t)' BY <2>3
  <2>5. Latest(c, n, p, e, t)
    <3>1. \A v \in Writers(c, p) \cup {e} : Done(c, n, v, t)' <=> Done(c, n, v, t) BY <1>2
    <3> QED BY <2>4, <3>1 DEF Latest
  <2>6. Held(p, t) = Amount(c, n + 1, e) BY <2>1, <2>2, <2>5 DEF Holds
  <2> QED BY <2>3, <2>6, <1>1 DEF Held
<1>8. PlacesFresh(c)' BY <1>1 DEF InvOf, PlacesFresh, Held
<1>9. AddedUp(c)'
  <2> SUFFICES ASSUME c.epilogue = "add", NEW o \in Members(c), NEW t \in TilesOf(c),
                      pc'[o] # "idle"
               PROVE  out'[o][0][t]
                          = {fwd'[o] + 1} \X {p \in Members(c) : EpiDone(fwd[o], p, o, t)'}
    BY DEF AddedUp
  <2>1. out[o][0][t] = {fwd[o] + 1} \X {p \in Members(c) : EpiDone(fwd[o], p, o, t)}
    BY <1>1 DEF InvOf, AddedUp
  <2>2. \A p \in Members(c) : EpiDone(fwd[o], p, o, t)' <=> EpiDone(fwd[o], p, o, t)
    BY <1>1 DEF EpiDone, Left, Inside
  <2>3. {p \in Members(c) : EpiDone(fwd[o], p, o, t)'}
            = {p \in Members(c) : EpiDone(fwd[o], p, o, t)}
    BY <2>2
  <2> QED BY <2>1, <2>3, <1>1
<1>10. Stored(c)'
  <2> SUFFICES ASSUME c.epilogue = "store", NEW o \in Members(c), NEW r \in Members(c),
                      NEW t \in TilesOf(c)
               PROVE  /\ EpiDone(fwd[r], r, o, t)' => out'[o][r][t] = {<<fwd'[r] + 1, r>>}
                      /\ pc'[r] \in {"idle", "zeroed"} /\ fwd'[r] > 0
                            => out'[o][r][t] = {<<fwd'[r], r>>}
    BY DEF Stored
  <2>1. /\ EpiDone(fwd[r], r, o, t) => out[o][r][t] = {<<fwd[r] + 1, r>>}
        /\ pc[r] \in {"idle", "zeroed"} /\ fwd[r] > 0 => out[o][r][t] = {<<fwd[r], r>>}
    BY <1>1 DEF InvOf, Stored
  <2>2. EpiDone(fwd[r], r, o, t)' <=> EpiDone(fwd[r], r, o, t)
    BY <1>1 DEF EpiDone, Left, Inside
  <2> QED BY <2>1, <2>2, <1>1
<1>11. Exact(c)' BY <1>1 DEF InvOf, Exact
<1> QED BY <1>3, <1>4, <1>5, <1>6, <1>7, <1>8, <1>9, <1>10, <1>11 DEF InvOf

\* Every step is one of the stream alone, of the epilogue, or of a ring kernel.
LEMMA StepKinds ==
    ASSUME NEW c, Sound(c), Typed(c), Next
    PROVE  \E r \in Members(c) :
               \/ StreamOnly(r)
               \/ \E tiles \in SUBSET (Members(c) \X TilesOf(c)) : EpiStep(c, r, tiles)
               \/ \E g \in GroupsOf(c) : GroupStep(r, g)
<1>1. Ranks = Members(c) /\ Groups = GroupsOf(c) BY Names DEF Typed
<1>2. PICK r \in Members(c) : StreamStep(r) \/ DeviceStep(r) BY <1>1 DEF Next
<1>3. CASE Launch(r) \/ FinishTile(r) BY <1>3, EpiSteps
<1> QED BY <1>1, <1>2, <1>3 DEF StreamStep, DeviceStep, StreamOnly

\* The invariant is kept by every step.
LEMMA InvByStep ==
    ASSUME NEW c, Fine(c), MaxForwards \in Nat, InvOf(c), [Next]_fvars
    PROVE  InvOf(c)'
<1>1. Sound(c) /\ Typed(c) BY DEF InvOf, Fine
<1>2. CASE Next
  <2>1. PICK r \in Members(c) :
            \/ StreamOnly(r)
            \/ \E tiles \in SUBSET (Members(c) \X TilesOf(c)) : EpiStep(c, r, tiles)
            \/ \E g \in GroupsOf(c) : GroupStep(r, g)
    BY <1>1, <1>2, StepKinds
  <2>2. CASE StreamOnly(r) BY <2>2, InvByStream
  <2>3. CASE \E tiles \in SUBSET (Members(c) \X TilesOf(c)) : EpiStep(c, r, tiles)
    BY <2>3, InvByEpilogue
  <2>4. CASE \E g \in GroupsOf(c) : GroupStep(r, g)
    <3>1. c.epilogue = "keep" /\ \E e \in OpEvents(c), t \in TilesOf(c) : OpStep(c, r, e, t)
      BY <2>4, <1>1, OpSteps
    <3> QED BY <3>1, InvByKernel
  <2> QED BY <2>1, <2>2, <2>3, <2>4
<1>3. CASE UNCHANGED fvars BY <1>3, InvByStuttering
<1> QED BY <1>2, <1>3

\* Whatever the configuration, InvOf of it is an invariant.
THEOREM Invariance == ASSUME ConfigsOK PROVE Spec => []Inv
<1>1. ASSUME Init PROVE Inv
  <2>1. config \in DOMAIN Configs BY <1>1 DEF Init
  <2>2. Fine(Configs[config]) /\ Is(Configs[config]) BY <2>1 DEF ConfigsOK, Is
  <2>3. InvOf(Configs[config]) BY <1>1, <2>2, InitInv
  <2> QED BY <2>1, <2>3 DEF Inv
<1>2. ASSUME Inv, [Next]_fvars PROVE Inv'
  <2>1. PICK name \in DOMAIN Configs : InvOf(Configs[name]) BY <1>2 DEF Inv
  <2>2. PICK c : c = Configs[name] OBVIOUS
  <2>3. Fine(c) /\ MaxForwards \in Nat /\ InvOf(c) BY <2>1, <2>2 DEF ConfigsOK
  <2>4. InvOf(c)' BY <2>3, <1>2, InvByStep
  <2>5. InvOf(Configs[name])' BY <2>2, <2>4
  <2> QED BY <2>5 DEF Inv
<1>3. Init => Inv BY <1>1
<1>4. Inv /\ [Next]_fvars => Inv' BY <1>2
<1> QED BY <1>3, <1>4, PTL DEF Spec

\* What the forwards of any of the paths return, on any number of ranks, tiles and thread
\* groups, over any number of forwards and whatever the GEMMs finish when, is the sum of
\* the partial products of the forward, each once.
THEOREM SumsAreExact == ASSUME ConfigsOK PROVE Spec => []SumsExact
<1>1. ASSUME Inv PROVE SumsExact
  <2>1. PICK name \in DOMAIN Configs : InvOf(Configs[name]) BY <1>1 DEF Inv
  <2>2. Ranks = Members(Configs[name]) BY <2>1, Names DEF InvOf, Typed
  <2> QED BY <2>1, <2>2 DEF SumsExact, InvOf, Exact
<1>2. Inv => SumsExact BY <1>1
<1>3. Spec => []Inv BY Invariance
<1> QED BY <1>2, <1>3, PTL

\* Every variable has its type: a rank makes no forward more than it should, is called no
\* more than twice a forward, and no place ever holds what is not a partial product.
THEOREM TypeCorrect == ASSUME ConfigsOK PROVE Spec => []TypeOK
<1>1. ASSUME Inv PROVE TypeOK
  <2>1. PICK name \in DOMAIN Configs : InvOf(Configs[name]) BY <1>1 DEF Inv
  <2>2. PICK c : c = Configs[name] OBVIOUS
  <2>3. /\ Fine(c) /\ Sound(c) /\ Typed(c) /\ BarriersHold(c) /\ CallersHold(c)
        /\ MaxForwards \in Nat
    BY <2>1, <2>2 DEF InvOf, ConfigsOK, Fine
  <2>4. /\ Config = c /\ Ranks = Members(c) /\ Tiles = TilesOf(c) /\ Groups = GroupsOf(c)
        /\ Waves = WavesOf(c)
    BY <2>3, Names DEF Typed
  <2>5. ASSUME NEW r \in Members(c)
        PROVE  fwd[r] \in 0..MaxForwards /\ arrived[r] \in 0..(2 * MaxForwards)
    <3>1. /\ fwd[r] \in Nat /\ arrived[r] \in Nat /\ fwd[r] <= c.forwards
          /\ pc[r] # "idle" => fwd[r] < c.forwards
          /\ c.forwards \in Nat /\ c.forwards <= MaxForwards
      BY <2>3 DEF Typed, Fine, Sound
    <3>2. \/ arrived[r] = 2 * fwd[r] + (IF pc[r] = "idle" THEN 0 ELSE IF pc[r] = "ended" THEN 2 ELSE 1)
          \/ arrived[r] = fwd[r] + (IF pc[r] = "ended" THEN 1 ELSE 0)
      BY <2>3 DEF BarriersHold, CallersHold
    <3> QED BY <3>1, <3>2, <2>3
  <2>6. /\ fwd \in [Members(c) -> 0..MaxForwards]
        /\ arrived \in [Members(c) -> 0..(2 * MaxForwards)]
    BY <2>3, <2>5 DEF Typed
  <2>7. ASSUME NEW r \in Members(c), NEW s \in Members(c), NEW t \in TilesOf(c)
        PROVE  out[r][s][t] \cup red[r][s][t] \subseteq Partials
    <3>1. Values(c) = SUBSET Partials BY <2>4 DEF Values, Partials
    <3>2. out[r][s][t] \in Values(c) /\ red[r][s][t] \in Values(c)
      BY <2>3 DEF Typed, Buffers
    <3> QED BY <3>1, <3>2
  <2>8. ASSUME NEW r \in Members(c)
        PROVE  /\ todo[r] \subseteq Members(c) \X TilesOf(c)
               /\ place[r] \in 0..LastPlace(r) /\ done[r] \subseteq GroupsOf(c)
    <3>1. LastPlace(r) = Len(c.ops[r]) * WavesOf(c) BY <2>4 DEF LastPlace
    <3>2. c.ops[r] \in Seq(Operations(c)) BY <2>3 DEF Sound
    <3>3. Len(c.ops[r]) * WavesOf(c) \in Nat
      <4>1. Len(c.ops[r]) \in Nat /\ WavesOf(c) \in Nat BY <3>2, <2>3, WaveFacts
      <4> QED BY <4>1
    <3>4. place[r] \in Nat /\ place[r] <= Len(c.ops[r]) * WavesOf(c) BY <2>3 DEF Typed
    <3>5. todo[r] \subseteq Members(c) \X TilesOf(c) /\ done[r] \subseteq GroupsOf(c)
      BY <2>3 DEF Typed
    <3> QED BY <3>1, <3>3, <3>4, <3>5
  <2>9. /\ config \in DOMAIN Configs /\ late \in c.late
        /\ pc \in [Members(c) -> {"idle", "zeroed", "run", "ended"}]
        /\ wrong \in [Members(c) -> BOOLEAN]
    BY <2>3 DEF Typed, Is
  <2> QED BY <2>4, <2>6, <2>7, <2>8, <2>9 DEF TypeOK
<1>2. Inv => TypeOK BY <1>1
<1>3. Spec => []Inv BY Invariance
<1> QED BY <1>2, <1>3, PTL
-----------------------------------------------------------------------------
(* Somebody moves. *)

\* All tiles that stand or fall with t's flag of event e of forward n + 1 are over.
Through(c, n, e, t) ==
    IF e[1] = "op" THEN Left(n, e[2]) \/ (Inside(n, e[2]) /\ At(c, e[3], t) < place[e[2]])
                   ELSE EpiDone(n, e[2], e[3], t)

\* A flag of this forward, once raised, stays up: nobody zeroes it any more.
FlagsUp(c) ==
    c.epilogue = "keep" => \A f \in Flags(c), t \in TilesOf(c) : \A x \in Raisers(c, f) :
        pc[f[2]] # "idle" /\ Through(c, fwd[f[2]], x, t) => IsUp(f, t, t \div c.groups)

\* The groups that have a tile in a wave; one of them is not through with the operation.
TeamOf(c, w) == {g \in GroupsOf(c) : w * c.groups + g \in TilesOf(c)}
TeamsShort(c) ==
    \A r \in Members(c) : pc[r] = "run" /\ place[r] < Len(c.ops[r]) * WavesOf(c) =>
        done[r] \subseteq TeamOf(c, place[r] % WavesOf(c)) /\ done[r] # TeamOf(c, place[r] % WavesOf(c))

\* The steps of the stream bring nothing to an end, nor back.
LEMMA ThroughByStream ==
    ASSUME NEW c, Sound(c), Typed(c), NEW r \in Members(c), StreamOnly(r),
           NEW n \in Nat, NEW e \in Events(c), NEW t \in TilesOf(c), Through(c, n, e, t)'
    PROVE  Through(c, n, e, t)
<1> DEFINE q == e[2]
<1>1. /\ q \in Members(c) /\ fwd[q] \in Nat /\ fwd[r] \in Nat
      /\ fwd \in [Members(c) -> Nat]
      /\ pc \in [Members(c) -> {"idle", "zeroed", "run", "ended"}]
  BY EventKinds DEF Typed
<1>2. todo' = todo /\ place' = place
  BY DEF StreamOnly, Prepare, KernelsEnd, ReturnSum, MayPrepare, KernelsOver, MayReturn
<1>3. CASE e[1] # "op"
  <2>1. Done(c, n, e, t)' <=> Done(c, n, e, t) BY StreamOnlyDone
  <2> QED BY <2>1, <1>3 DEF Done, Through
<1>4. CASE e[1] = "op"
  <2>1. Left(n, q)' \/ (Inside(n, q)' /\ At(c, e[3], t) < place[q]) BY <1>2, <1>4 DEF Through
  <2>2. CASE q # r
    <3>1. fwd'[q] = fwd[q] /\ pc'[q] = pc[q]
      BY <1>1, <2>2 DEF StreamOnly, Prepare, KernelsEnd, ReturnSum, MayPrepare, KernelsOver, MayReturn
    <3> QED BY <3>1, <2>1, <1>4 DEF Left, Inside, Through
  <2>3. CASE q = r /\ (Prepare(r) \/ ReturnSum(r))
    <3>1. ~Inside(n, q)' BY <1>1, <2>3 DEF Prepare, ReturnSum, Inside, MayPrepare, MayReturn
    <3>2. Left(n, q)' => Left(n, q)
      <4>1. CASE Prepare(r) BY <1>1, <2>3, <4>1 DEF Left, Prepare, MayPrepare
      <4>2. CASE ReturnSum(r)
        <5>1. fwd'[r] = fwd[r] + 1 /\ pc'[r] = "idle" /\ pc[r] = "ended"
          BY <1>1, <4>2 DEF ReturnSum, MayReturn
        <5> QED BY <1>1, <2>3, <5>1 DEF Left
      <4> QED BY <2>3, <4>1, <4>2
    <3> QED BY <3>1, <3>2, <2>1, <1>4 DEF Through
  <2>4. CASE q = r /\ KernelsEnd(r)
    <3>1. /\ pc[r] = "run" /\ pc'[r] = "ended" /\ fwd'[r] = fwd[r] /\ place[r] = LastPlace(r)
      BY <1>1, <2>4 DEF KernelsEnd, KernelsOver
    <3>2. LastPlace(r) = Len(c.ops[r]) * WavesOf(c) BY Names DEF LastPlace, Typed
    <3>3. At(c, e[3], t) < place[q] BY <1>4, <2>4, <3>1, <3>2, LastAt, EventKinds
    <3>4. ~Inside(n, q)' BY <2>4, <3>1 DEF Inside
    <3>5. Left(n, q)' => Left(n, q) \/ Inside(n, q) BY <2>4, <3>1 DEF Left, Inside
    <3> QED BY <3>3, <3>4, <3>5, <2>1, <1>4 DEF Through
  <2> QED BY <2>2, <2>3, <2>4 DEF StreamOnly
<1> QED BY <1>3, <1>4

\* Nor do those of the epilogue, but for its tiles.
LEMMA ThroughByEpilogue ==
    ASSUME NEW c, Sound(c), Typed(c), NEW r \in Members(c), NEW tiles, EpiStep(c, r, tiles),
           NEW n \in Nat, NEW e \in Events(c), NEW t \in TilesOf(c), Through(c, n, e, t)'
    PROVE  Through(c, n, e, t) \/ IsNew(r, tiles, n, e, t)
<1> DEFINE q == e[2]
<1>1. /\ q \in Members(c) /\ fwd[q] \in Nat
      /\ pc \in [Members(c) -> {"idle", "zeroed", "run", "ended"}]
      /\ place \in [Members(c) -> Nat]
  BY EventKinds DEF Typed
<1>2. fwd' = fwd BY DEF EpiStep
<1>3. CASE e[1] # "op"
  <2>1. Done(c, n, e, t)' <=> (Done(c, n, e, t) \/ IsNew(r, tiles, n, e, t)) BY EpiStepDone
  <2> QED BY <2>1, <1>3 DEF Done, Through
<1>4. CASE e[1] = "op"
  <2>1. Left(n, q)' \/ (Inside(n, q)' /\ At(c, e[3], t) < place'[q]) BY <1>4 DEF Through
  <2>2. At(c, e[3], t) \in Nat BY <1>4, LastAt, EventKinds
  <2>3. CASE q # r \/ pc[r] = "run"
    <3>1. pc'[q] = pc[q] /\ place'[q] = place[q] BY <1>1, <2>3 DEF EpiStep
    <3> QED BY <3>1, <1>2, <2>1, <1>4 DEF Left, Inside, Through
  <2>4. CASE q = r /\ pc[r] = "zeroed"
    <3>1. place'[q] = 0 /\ pc'[q] = "run" BY <1>1, <2>4 DEF EpiStep
    <3>2. Left(n, q)' BY <3>1, <2>1, <2>2
    <3> QED BY <3>1, <3>2, <1>2, <1>4 DEF Left, Through
  <2> QED BY <2>3, <2>4 DEF EpiStep
<1> QED BY <1>3, <1>4

\* A step of a ring kernel brings its operation to an end for the tiles of the wave.
LEMMA ThroughByKernel ==
    ASSUME NEW c, Sound(c), Typed(c), NEW r \in Members(c), NEW e \in OpEvents(c),
           NEW t \in TilesOf(c), OpStep(c, r, e, t),
           NEW n \in Nat, NEW d \in Events(c), NEW u \in TilesOf(c), Through(c, n, d, u)'
    PROVE  \/ Through(c, n, d, u)
           \/ /\ d = e /\ u \div c.groups = t \div c.groups
              /\ flags' = Raise(OpOf(c, e).raises, t \div c.groups)
<1> DEFINE q == d[2]
           a == At(c, d[3], u)
<1>1. q \in Members(c) /\ place \in [Members(c) -> Nat] BY EventKinds DEF Typed
<1>2. fwd' = fwd /\ todo' = todo /\ pc' = pc BY DEF OpStep
<1>3. (Left(n, q)' <=> Left(n, q)) /\ (Inside(n, q)' <=> Inside(n, q))
  BY <1>2 DEF Left, Inside
<1>4. CASE d[1] # "op"
  <2>1. EpiDone(n, q, d[3], u)' <=> EpiDone(n, q, d[3], u) BY <1>2, <1>3 DEF EpiDone
  <2> QED BY <2>1, <1>4 DEF Through
<1>5. CASE d[1] = "op" /\ place'[q] = place[q] BY <1>3, <1>5 DEF Through
<1>6. CASE d[1] = "op" /\ place'[q] # place[q]
  <2>1. /\ q = r /\ place'[r] = place[r] + 1 /\ place[r] \in Nat
        /\ flags' = Raise(OpOf(c, e).raises, t \div c.groups)
    BY <1>1, <1>6 DEF OpStep
  <2>2. a \in Nat BY <1>6, LastAt, EventKinds
  <2>3. Left(n, q) \/ (Inside(n, q) /\ a < place[r] + 1) BY <1>3, <1>6, <2>1 DEF Through
  <2> HIDE DEF a
  <2>4. CASE Left(n, q) \/ (Inside(n, q) /\ a < place[r])
    BY <2>1, <2>4, <1>6 DEF Through, a
  <2>5. CASE a = place[r]
    <3>1. a = At(c, e[3], t) /\ e[2] = r BY <2>5 DEF OpStep
    <3>2. d = <<"op", r, d[3]>> /\ d[3] \in Nat \ {0} BY <1>6, <2>1, EventKinds, OpFacts
    <3>3. e = <<"op", r, e[3]>> /\ e[3] \in Nat \ {0} BY <3>1, OpFacts
    <3>4. d[3] = e[3] /\ u \div c.groups = t \div c.groups
      BY <3>1, <3>2, <3>3, AtUnique DEF a
    <3> QED BY <2>1, <3>2, <3>3, <3>4
  <2>6. a < place[r] \/ a = place[r] \/ Left(n, q) BY <2>1, <2>2, <2>3
  <2> QED BY <2>3, <2>4, <2>5, <2>6
<1> QED BY <1>4, <1>5, <1>6

\* Where nobody has finished anything of a forward.
LEMMA NobodyThrough ==
    ASSUME NEW c, Sound(c), Typed(c), BarriersHold(c), c.epilogue = "keep",
           NEW r \in Members(c), pc[r] = "idle", NEW e \in Events(c), NEW t
    PROVE  ~Through(c, fwd[r], e, t)
<1> DEFINE p == e[2]
<1>1. p \in Members(c) BY EventKinds
<1>2. fwd[r] \in Nat /\ fwd[p] \in Nat /\ arrived[r] = 2 * fwd[r] BY <1>1 DEF Typed, BarriersHold
<1>3. /\ arrived[r] >= 2 * fwd[p]
      /\ pc[p] \in {"run", "ended"} => arrived[r] >= 2 * fwd[p] + 1
  BY <1>1 DEF BarriersHold
<1>4. ~Left(fwd[r], p) /\ ~Inside(fwd[r], p) BY <1>2, <1>3 DEF Left, Inside
<1> QED BY <1>4 DEF Through, EpiDone

\* The flags stay up when the streams move,
LEMMA FlagsUpByStream ==
    ASSUME NEW c, Fine(c), Typed(c), BarriersHold(c), FlagsUp(c), NEW r \in Members(c),
           StreamOnly(r)
    PROVE  FlagsUp(c)'
<1> SUFFICES ASSUME c.epilogue = "keep", NEW f \in Flags(c), NEW t \in TilesOf(c),
                    NEW x \in Raisers(c, f), pc'[f[2]] # "idle", Through(c, fwd[f[2]], x, t)'
             PROVE  IsUp(f, t, t \div c.groups)'
  BY DEF FlagsUp
<1> DEFINE q == f[2]
<1>1. Sound(c) /\ q \in Members(c) /\ x \in Events(c) BY NameFacts DEF Fine, Raisers
<1>2. Config = c /\ fwd \in [Members(c) -> Nat] /\ DOMAIN flags = Members(c)
      /\ pc \in [Members(c) -> {"idle", "zeroed", "run", "ended"}]
      /\ flags = [p \in Members(c) |-> flags[p]]
  BY Names DEF Typed
<1>3. \/ /\ pc' = [pc EXCEPT ![r] = "zeroed"] /\ pc[r] = "idle"
         /\ flags' = [flags EXCEPT ![r] = {}] /\ fwd' = fwd
      \/ pc' = [pc EXCEPT ![r] = "ended"] /\ pc[r] = "run" /\ flags' = flags /\ fwd' = fwd
      \/ pc' = [pc EXCEPT ![r] = "idle"] /\ flags' = flags /\ fwd' = [fwd EXCEPT ![r] = @ + 1]
  BY <1>2 DEF StreamOnly, Prepare, KernelsEnd, ReturnSum, MayPrepare, KernelsOver, MayReturn
<1>4. fwd'[q] = fwd[q] BY <1>1, <1>2, <1>3
<1>5. PICK m \in Nat : m = fwd[q] BY <1>1, <1>2
<1>6. m = fwd'[q] BY <1>4, <1>5
<1>7. Through(c, m, x, t)' BY <1>6
<1>8. Through(c, fwd[q], x, t) BY <1>1, <1>5, <1>7, ThroughByStream
<1>9. pc[q] # "idle" BY <1>1, <1>8, NobodyThrough
<1>10. flags'[q] = flags[q] BY <1>1, <1>2, <1>3, <1>9
<1>11. config' = config
  BY DEF StreamOnly, Prepare, KernelsEnd, ReturnSum, MayPrepare, KernelsOver, MayReturn
<1>12. IsUp(f, t, t \div c.groups) BY <1>8, <1>9 DEF FlagsUp
<1> QED BY <1>10, <1>11, <1>12 DEF IsUp, Config

\* when the epilogue finishes tiles,
LEMMA FlagsUpByEpilogue ==
    ASSUME NEW c, Fine(c), Typed(c), FlagsUp(c), NEW r \in Members(c),
           NEW tiles \in SUBSET (Members(c) \X TilesOf(c)), EpiStep(c, r, tiles)
    PROVE  FlagsUp(c)'
<1> SUFFICES ASSUME c.epilogue = "keep", NEW f \in Flags(c), NEW t \in TilesOf(c),
                    NEW x \in Raisers(c, f), pc'[f[2]] # "idle", Through(c, fwd[f[2]], x, t)'
             PROVE  IsUp(f, t, t \div c.groups)'
  BY DEF FlagsUp
<1> DEFINE q == f[2]
           w == t \div c.groups
<1>1. Sound(c) /\ q \in Members(c) /\ x \in Events(c) BY NameFacts DEF Fine, Raisers
<1>2. fwd \in [Members(c) -> Nat] /\ DOMAIN flags = Members(c) BY DEF Typed
<1>3. pc[q] # "idle" /\ fwd' = fwd /\ config' = config BY <1>1 DEF EpiStep, Typed
<1>4. flags' = [flags EXCEPT ![r] = @ \cup {<<"epilogue", st[1], st[2]>> : st \in tiles}]
  <2>1. Config = c /\ Finish(r, tiles) BY Names DEF EpiStep, Typed
  <2> QED BY <2>1 DEF Finish
<1>5. PICK m \in Nat : m = fwd[q] BY <1>1, <1>2
<1>6. m = fwd'[q] BY <1>3, <1>5
<1>7. Through(c, m, x, t)' BY <1>6
<1>8. Through(c, m, x, t) \/ IsNew(r, tiles, m, x, t) BY <1>1, <1>7, ThroughByEpilogue
<1>9. CASE Through(c, m, x, t)
  <2>1. IsUp(f, t, w) BY <1>3, <1>5, <1>9 DEF FlagsUp
  <2>2. flags[q] \subseteq flags'[q] BY <1>1, <1>2, <1>4
  <2> QED BY <2>1, <2>2, <1>3 DEF IsUp, Config
<1>10. CASE IsNew(r, tiles, m, x, t)
  <2>1. x[1] # "op" /\ x[2] = r /\ <<x[3], t>> \in tiles BY <1>10 DEF IsNew
  <2>2. x = f BY <2>1 DEF Raisers
  <2>3. f[1] = "epilogue" BY <2>1, <2>2, <1>1, EventKinds
  <2>4. <<"epilogue", f[3], t>> \in flags'[q] BY <2>1, <2>2, <1>1, <1>2, <1>4
  <2> QED BY <2>3, <2>4 DEF IsUp
<1> QED BY <1>8, <1>9, <1>10

\* and when a CTA raises one.
LEMMA FlagsUpByKernel ==
    ASSUME NEW c, Fine(c), Typed(c), FlagsUp(c), NEW r \in Members(c),
           NEW e \in OpEvents(c), NEW u \in TilesOf(c), OpStep(c, r, e, u)
    PROVE  FlagsUp(c)'
<1> SUFFICES ASSUME c.epilogue = "keep", NEW f \in Flags(c), NEW t \in TilesOf(c),
                    NEW x \in Raisers(c, f), pc'[f[2]] # "idle", Through(c, fwd[f[2]], x, t)'
             PROVE  IsUp(f, t, t \div c.groups)'
  BY DEF FlagsUp
<1> DEFINE q == f[2]
           w == t \div c.groups
           v == u \div c.groups
<1>1. Sound(c) /\ q \in Members(c) /\ x \in Events(c) BY NameFacts DEF Fine, Raisers
<1>2. fwd \in [Members(c) -> Nat] /\ Ranks = Members(c) BY Names DEF Typed
<1>3. pc' = pc /\ fwd' = fwd /\ config' = config BY DEF OpStep
<1>4. PICK m \in Nat : m = fwd[q] BY <1>1, <1>2
<1>5. m = fwd'[q] BY <1>3, <1>4
<1>6. Through(c, m, x, t)' BY <1>5
<1>7. CASE Through(c, m, x, t)
  <2>1. IsUp(f, t, w) BY <1>3, <1>4, <1>7 DEF FlagsUp
  <2>2. flags' = flags \/ flags' = Raise(OpOf(c, e).raises, v) BY DEF OpStep
  <2>3. flags[q] \subseteq flags'[q] BY <2>2, <1>1, <1>2 DEF Raise
  <2> QED BY <2>1, <2>3, <1>3 DEF IsUp, Config
<1>8. CASE x = e /\ w = v /\ flags' = Raise(OpOf(c, e).raises, v)
  <2>1. (e[1] = "op" /\ f \in OpOf(c, e).raises) \/ e = f BY <1>8 DEF Raisers
  <2>2. f[1] # "op" BY DEF Flags
  <2>3. f \in OpOf(c, e).raises BY <2>1, <2>2, <1>1, OpFacts
  <2>4. f[1] # "epilogue" BY <2>3, <1>1, OpFacts, OperationFacts
  <2>5. flags'[q] = flags[q] \cup {<<z[1], z[3], v>> : z \in {y \in OpOf(c, e).raises : y[2] = q}}
    BY <1>8, <1>1, <1>2 DEF Raise
  <2>6. <<f[1], f[3], w>> \in flags'[q] BY <2>3, <2>5, <1>8
  <2> QED BY <2>4, <2>6 DEF IsUp
<1> QED BY <1>1, <1>6, <1>7, <1>8, ThroughByKernel

\* A rest.
LEMMA Rest == ASSUME NEW k \in Nat, NEW W \in Nat \ {0} PROVE k % W \in 0..(W - 1)
  BY DivMod

\* Every wave has a tile for its first group.
LEMMA TeamsExist ==
    ASSUME NEW c, Sound(c), NEW w \in 0..(WavesOf(c) - 1)
    PROVE  0 \in TeamOf(c, w)
<1> DEFINE k == c.groups
           n == c.tiles
           W == WavesOf(c)
<1>1. k \in Nat \ {0} /\ n \in Nat \ {0} BY DEF Sound
<1>2. W = (n + k - 1) \div k BY DEF WavesOf
<1> HIDE DEF k, n, W
<1>3. n + k - 1 \in Int BY <1>1
<1>4. W \in Int /\ (n + k - 1) % k \in 0..(k - 1) /\ n + k - 1 = W * k + ((n + k - 1) % k)
  BY <1>1, <1>2, <1>3, DivMod
<1>5. W * k \in Int /\ W * k <= n + k - 1 BY <1>1, <1>4
<1>6. w \in Nat /\ w <= W - 1 BY <1>4 DEF W
<1>7. w * k <= (W - 1) * k BY <1>1, <1>4, <1>6, ProductGrows
<1>8. (W - 1) * k = W * k - k BY <1>1, <1>4
<1>9. w * k \in Nat BY <1>1, <1>6
<1>10. w * k + 0 \in 0..(n - 1) BY <1>1, <1>5, <1>7, <1>8, <1>9
<1> QED BY <1>1, <1>10 DEF TeamOf, TilesOf, GroupsOf, k, n

\* A team is short of a group when the stream moves or the GEMM,
LEMMA TeamsByOthers ==
    ASSUME NEW c, Fine(c), Typed(c), TeamsShort(c), NEW r \in Members(c),
           StreamOnly(r) \/ \E tiles : EpiStep(c, r, tiles)
    PROVE  TeamsShort(c)'
<1> DEFINE W == WavesOf(c)
<1> SUFFICES ASSUME NEW q \in Members(c), pc'[q] = "run", place'[q] < Len(c.ops[q]) * W
             PROVE  /\ done'[q] \subseteq TeamOf(c, place'[q] % W)
                    /\ done'[q] # TeamOf(c, place'[q] % W)
  BY DEF TeamsShort
<1>1. /\ pc \in [Members(c) -> {"idle", "zeroed", "run", "ended"}]
      /\ place \in [Members(c) -> Nat] /\ Sound(c)
  BY DEF Typed, Fine
<1>2. done' = done
  BY DEF StreamOnly, Prepare, KernelsEnd, ReturnSum, MayPrepare, KernelsOver, MayReturn, EpiStep
<1>3. CASE pc[q] = "run" /\ place'[q] = place[q] BY <1>2, <1>3 DEF TeamsShort
<1>4. CASE pc[q] # "run" \/ place'[q] # place[q]
  <2>1. ~StreamOnly(r)
    BY <1>1, <1>4 DEF StreamOnly, Prepare, KernelsEnd, ReturnSum, MayPrepare, KernelsOver, MayReturn
  <2>2. PICK tiles : EpiStep(c, r, tiles) BY <2>1
  <2>3. q = r /\ pc[q] = "zeroed" /\ place'[q] = 0 BY <2>2, <1>1, <1>4 DEF EpiStep
  <2>4. done'[q] = {} BY <2>3, <1>2 DEF Typed
  <2>5. W \in Nat \ {0} BY <1>1, WaveFacts
  <2>6. 0 % W \in 0..(W - 1) BY <2>5, Rest
  <2>7. 0 \in TeamOf(c, 0 % W) BY <2>6, <1>1, TeamsExist
  <2> QED BY <2>3, <2>4, <2>7
<1> QED BY <1>3, <1>4

\* and when a group does its tile.
LEMMA TeamsByGroup ==
    ASSUME NEW c, Fine(c), Typed(c), TeamsShort(c), NEW r \in Members(c),
           NEW g \in GroupsOf(c), GroupStep(r, g)
    PROVE  TeamsShort(c)'
<1> DEFINE W == WavesOf(c)
           w == place[r] % W
<1> SUFFICES ASSUME NEW q \in Members(c), pc'[q] = "run", place'[q] < Len(c.ops[q]) * W
             PROVE  /\ done'[q] \subseteq TeamOf(c, place'[q] % W)
                    /\ done'[q] # TeamOf(c, place'[q] % W)
  BY DEF TeamsShort
<1>1. /\ place \in [Members(c) -> Nat] /\ Sound(c) /\ done \in [Members(c) -> SUBSET GroupsOf(c)]
  BY DEF Typed, Fine
<1>2. Config = c /\ Tiles = TilesOf(c) /\ Groups = GroupsOf(c) /\ Waves = W BY Names DEF Typed
<1>3. \A v : Team(v) = TeamOf(c, v) BY <1>2 DEF Team, TeamOf
<1>4. /\ g \in TeamOf(c, w) /\ pc' = pc /\ pc[r] = "run" /\ place[r] < Len(c.ops[r]) * W
      /\ \/ /\ done' = [done EXCEPT ![r] = {}]
            /\ place' = [place EXCEPT ![r] = @ + 1]
         \/ /\ done[r] \cup {g} # TeamOf(c, w)
            /\ done' = [done EXCEPT ![r] = @ \cup {g}]
            /\ place' = place
  BY <1>2, <1>3 DEF GroupStep, Ready, Wave, LastPlace
<1>5. CASE q # r
  <2>1. done'[q] = done[q] /\ place'[q] = place[q] BY <1>1, <1>4, <1>5
  <2> QED BY <2>1, <1>4 DEF TeamsShort
<1>6. CASE q = r /\ place' = place /\ done' = [done EXCEPT ![r] = @ \cup {g}]
           /\ done[r] \cup {g} # TeamOf(c, w)
  <2>1. done[r] \subseteq TeamOf(c, w) BY <1>4 DEF TeamsShort
  <2>2. done'[r] = done[r] \cup {g} BY <1>1, <1>6
  <2> QED BY <2>1, <2>2, <1>4, <1>6
<1>7. CASE q = r /\ done' = [done EXCEPT ![r] = {}]
  <2>1. done'[q] = {} /\ place'[q] \in Nat BY <1>1, <1>4, <1>7
  <2>2. W \in Nat \ {0} BY <1>1, WaveFacts
  <2>3. place'[q] % W \in 0..(W - 1) BY <2>1, <2>2, Rest
  <2>4. 0 \in TeamOf(c, place'[q] % W) BY <2>3, <1>1, TeamsExist
  <2> QED BY <2>1, <2>4
<1> QED BY <1>4, <1>5, <1>6, <1>7

\* A set of numbers that is not empty has a least one.
LEMMA LessThan == \E R : IsWellFoundedOn(R, Nat) /\ \A k, m \in Nat : k < m => <<k, m>> \in R
<1>1. \A k, m \in Nat : k < m => <<k, m>> \in OpToRel(<, Nat) BY DEF OpToRel
<1> WITNESS OpToRel(<, Nat)
<1> QED BY <1>1, NatLessThanWellFounded

LEMMA Least == ASSUME NEW S, S \subseteq Nat, S # {} PROVE \E m \in S : \A k \in S : m <= k
<1>1. PICK R : IsWellFoundedOn(R, Nat) /\ \A k, m \in Nat : k < m => <<k, m>> \in R BY LessThan
<1>2. \E m \in S : \A k \in S : ~(<<k, m>> \in R)
  <2>1. IsWellFoundedOn(R, Nat) BY <1>1
  <2> QED BY <2>1, WFMin
<1>3. PICK m \in S : \A k \in S : ~(<<k, m>> \in R) BY <1>2
<1>4. ASSUME NEW k \in S PROVE m <= k
  <2>1. k \in Nat /\ m \in Nat /\ ~(<<k, m>> \in R) BY <1>3
  <2>2. ~(k < m) BY <2>1, <1>1
  <2> QED BY <2>1, <2>2
<1> QED BY <1>4

\* The operation a ring kernel is at.
Current(c, p) == <<"op", p, place[p] \div WavesOf(c) + 1>>

\* It is one of the rank's, and those before it are over.
LEMMA CurrentFacts ==
    ASSUME NEW c, Sound(c), Typed(c), NEW p \in Members(c),
           place[p] < Len(c.ops[p]) * WavesOf(c)
    PROVE  /\ Current(c, p) \in OpEvents(c)
           /\ Current(c, p)[2] = p /\ Current(c, p)[3] = place[p] \div WavesOf(c) + 1
           /\ place[p] % WavesOf(c) \in 0..(WavesOf(c) - 1)
           /\ \A i \in Nat \ {0}, t \in TilesOf(c) :
                i < Current(c, p)[3] => At(c, i, t) < place[p]
<1> DEFINE W == WavesOf(c)
           L == Len(c.ops[p])
           k == place[p]
           j == k \div W + 1
<1>1. W \in Nat \ {0} /\ k \in Nat /\ k < L * W BY WaveFacts DEF Typed
<1>2. c.ops[p] \in Seq(Operations(c)) /\ L \in Nat BY DEF Sound
<1>3. /\ j \in 1..L /\ k % W \in 0..(W - 1) /\ k = (k \div W) * W + (k % W)
      /\ k \div W \in Int
  <2> HIDE DEF W, L, k
  <2>1. k \div W \in Int BY <1>1, DivMod
  <2> QED BY <2>1, <1>1, <1>2, StepFacts
<1>4. Current(c, p) = <<"op", p, j>> BY DEF Current
<1>5. ASSUME NEW i \in Nat \ {0}, NEW t \in TilesOf(c), i < j PROVE At(c, i, t) < k
  <2> DEFINE d == k \div W
             a == At(c, i, t)
  <2>1. d \in Nat /\ i <= d
    <3>1. d + 1 \in 1..L /\ i < d + 1 /\ d \in Int BY <1>3, <1>5
    <3> HIDE DEF d, L, k, W
    <3> QED BY <3>1, <1>2
  <2>2. a < d * W /\ a \in Nat BY <2>1, AtFacts
  <2> HIDE DEF d, a, W
  <2>3. d * W \in Int BY <2>1, <1>1
  <2>4. k = d * W + (k % W) /\ k % W \in 0..(W - 1) BY <1>3 DEF d
  <2>5. a < k
    <3> DEFINE x == d * W
               y == k % W
    <3>1. a \in Nat /\ a < x /\ x \in Int /\ k = x + y /\ y \in 0..(W - 1) BY <2>2, <2>3, <2>4
    <3> HIDE DEF x, y
    <3> QED BY <3>1
  <2> QED BY <2>5 DEF a
<1> HIDE DEF j
<1> QED BY <1>2, <1>3, <1>4, <1>5, OpNames DEF j

\* No rank is before or behind the kernels that r runs, but those that are through.
LEMMA OthersRun ==
    ASSUME NEW c, Sound(c), Typed(c), BarriersHold(c), c.epilogue # "store",
           NEW r \in Members(c), pc[r] = "run", NEW p \in Members(c), ~CanMove(p)
    PROVE  /\ fwd[p] = fwd[r] /\ pc[p] \in {"run", "ended"}
           /\ pc[p] = "run" => todo[p] = {} /\ place[p] < Len(c.ops[p]) * WavesOf(c)
<1>1. Ranks = Members(c) /\ Config = c /\ Waves = WavesOf(c) BY Names DEF Typed
<1>2. fwd[p] = fwd[r] /\ pc[p] # "idle" BY AllHere
<1>3. pc[p] # "zeroed"
  <2> SUFFICES ASSUME pc[p] = "zeroed" PROVE FALSE OBVIOUS
  <2>1. arrived[p] = 2 * fwd[p] + 1 BY DEF BarriersHold
  <2>2. \A q \in Members(c) : arrived[q] >= 2 * fwd[r] + 1 BY DEF BarriersHold
  <2>3. MayLaunch(p) BY <2>1, <2>2, <1>1, <1>2 DEF MayLaunch, Passes
  <2> QED BY <2>3 DEF CanMove
<1>4. pc[p] \in {"run", "ended"} BY <1>2, <1>3 DEF Typed
<1>5. ASSUME pc[p] = "run" PROVE todo[p] = {} /\ place[p] < Len(c.ops[p]) * WavesOf(c)
  <2>1. todo[p] = {} BY <1>5 DEF CanMove, GemmRuns
  <2>2. place[p] # LastPlace(p) BY <1>5, <2>1 DEF CanMove, KernelsOver
  <2>3. LastPlace(p) = Len(c.ops[p]) * WavesOf(c) BY <1>1 DEF LastPlace
  <2>4. place[p] \in Nat /\ place[p] <= Len(c.ops[p]) * WavesOf(c) BY DEF Typed
  <2>5. c.ops[p] \in Seq(Operations(c)) BY DEF Sound
  <2>6. Len(c.ops[p]) \in Nat /\ WavesOf(c) \in Nat BY <2>5, WaveFacts
  <2>7. Len(c.ops[p]) * WavesOf(c) \in Nat BY <2>6
  <2> QED BY <2>1, <2>2, <2>3, <2>4, <2>7
<1> QED BY <1>2, <1>4, <1>5

\* The flags that the operation with the least number waits for are up.
LEMMA LeastIsReady ==
    ASSUME NEW c, Sound(c), Typed(c), BarriersHold(c), c.epilogue = "keep", FlagsUp(c),
           NEW number, Acyclic(c, number), NEW r \in Members(c), pc[r] = "run",
           \A p \in Members(c) : ~CanMove(p),
           \A p \in Members(c) : pc[p] = "run" => number[Current(c, r)] <= number[Current(c, p)],
           NEW f \in OpOf(c, Current(c, r)).waits, NEW t \in TilesOf(c)
    PROVE  IsUp(f, t, t \div c.groups)
<1> DEFINE e == Current(c, r)
<1>1. ASSUME NEW p \in Members(c)
      PROVE  /\ fwd[p] = fwd[r] /\ pc[p] \in {"run", "ended"}
             /\ pc[p] = "run" => todo[p] = {} /\ place[p] < Len(c.ops[p]) * WavesOf(c)
  BY OthersRun
<1>2. e \in OpEvents(c) BY <1>1, CurrentFacts
<1>3. f \in Flags(c) /\ f[2] \in Members(c) BY <1>2, OpFacts, OperationFacts, NameFacts
<1>4. fwd[f[2]] = fwd[r] /\ pc[f[2]] # "idle" BY <1>1, <1>3
<1>5. number \in [OpEvents(c) -> Nat] BY DEF Acyclic
<1>6. CASE f \in EpiEvents(c)
  <2>1. f \in Events(c) /\ f[1] # "op" /\ f[3] \in Members(c) BY <1>6, EpiFacts
  <2>2. f \in Raisers(c, f) BY <2>1 DEF Raisers
  <2>3. EpiDone(fwd[r], f[2], f[3], t)
    <3>1. fwd[f[2]] = fwd[r] /\ (pc[f[2]] = "ended" \/ (pc[f[2]] = "run" /\ todo[f[2]] = {}))
      BY <1>1, <1>3
    <3> QED BY <3>1 DEF EpiDone, Left, Inside
  <2>4. Through(c, fwd[f[2]], f, t) BY <2>1, <2>3, <1>4 DEF Through
  <2> QED BY <2>2, <2>4, <1>3, <1>4 DEF FlagsUp
<1>7. CASE f \notin EpiEvents(c)
  <2>1. PICK x \in OpEvents(c) : f \in OpOf(c, x).raises /\ number[x] < number[e]
    BY <1>2, <1>7 DEF Acyclic
  <2> DEFINE p == x[2]
  <2>2. x \in Events(c) /\ x[1] = "op" /\ p \in Members(c) /\ x[3] \in Nat \ {0} BY OpFacts
  <2>3. x \in Raisers(c, f) BY <2>1, <2>2 DEF Raisers
  <2>4. CASE pc[p] = "ended"
    <3>1. Left(fwd[r], p) BY <2>2, <2>4, <1>1 DEF Left
    <3> QED BY <3>1, <2>2, <2>3, <1>3, <1>4 DEF Through, FlagsUp
  <2>5. CASE pc[p] = "run"
    <3> DEFINE d == Current(c, p)
    <3>1. place[p] < Len(c.ops[p]) * WavesOf(c) BY <2>2, <2>5, <1>1
    <3>2. /\ d \in OpEvents(c) /\ d[2] = p /\ d = <<"op", p, d[3]>> /\ d[3] \in Nat
          /\ \A i \in Nat \ {0}, u \in TilesOf(c) : i < d[3] => At(c, i, u) < place[p]
      BY <3>1, <2>2, CurrentFacts, OpFacts
    <3>3. number[e] <= number[d] BY <2>2, <2>5
    <3>4. x[3] < d[3]
      <4> SUFFICES ASSUME ~(x[3] < d[3]) PROVE FALSE OBVIOUS
      <4>1. d[3] < x[3] \/ d[3] = x[3] BY <2>2, <3>2
      <4>2. x = <<"op", p, x[3]>> BY OpFacts
      <4>3. d = x \/ number[d] < number[x] BY <4>1, <4>2, <3>2 DEF Acyclic
      <4>4. number[d] \in Nat /\ number[x] \in Nat /\ number[e] \in Nat BY <1>2, <1>5, <3>2
      <4> HIDE DEF d, e
      <4> QED BY <4>3, <4>4, <3>3, <2>1
    <3>5. At(c, x[3], t) < place[p] BY <3>2, <3>4, <2>2
    <3>6. Inside(fwd[r], p) BY <2>2, <2>5, <1>1 DEF Inside
    <3> QED BY <3>5, <3>6, <2>2, <2>3, <1>3, <1>4 DEF Through, FlagsUp
  <2> QED BY <2>2, <2>4, <2>5, <1>1
<1> QED BY <1>6, <1>7

\* While a rank is in its kernels, somebody can move.
LEMMA KernelsMove ==
    ASSUME NEW c, Fine(c), Typed(c), BarriersHold(c), FlagsUp(c), TeamsShort(c),
           c.epilogue = "keep" => Numbered(c), NEW s \in Members(c), pc[s] = "run"
    PROVE  \E p \in Members(c) : CanMove(p)
<1> SUFFICES ASSUME \A p \in Members(c) : ~CanMove(p) PROVE FALSE OBVIOUS
<1> DEFINE W == WavesOf(c)
<1>1. Sound(c) BY DEF Fine
<1>2. /\ Config = c /\ Ranks = Members(c) /\ Tiles = TilesOf(c) /\ Groups = GroupsOf(c)
      /\ Waves = W
  BY Names DEF Typed
<1>3. c.epilogue = "keep"
  <2> SUFFICES ASSUME c.epilogue # "keep" PROVE FALSE OBVIOUS
  <2>1. c.ops[s] = <<>> BY <1>1 DEF Sound
  <2>2. LastPlace(s) = 0 * W BY <2>1, <1>2 DEF LastPlace
  <2>3. W \in Nat BY <1>1, WaveFacts
  <2>4. place[s] = 0 /\ LastPlace(s) = 0
    <3>1. place[s] \in Nat /\ place[s] <= Len(c.ops[s]) * W BY DEF Typed
    <3>2. 0 * W = 0 BY <2>3
    <3> QED BY <3>1, <3>2, <2>1, <2>2
  <2>5. GemmRuns(s) \/ KernelsOver(s) BY <2>4 DEF GemmRuns, KernelsOver
  <2> QED BY <2>5 DEF CanMove
<1>4. PICK number : Acyclic(c, number) BY <1>3 DEF Numbered
<1>5. number \in [OpEvents(c) -> Nat] BY <1>4 DEF Acyclic
<1>6. ASSUME NEW p \in Members(c), pc[p] = "run"
      PROVE  /\ todo[p] = {} /\ place[p] < Len(c.ops[p]) * W
             /\ Current(c, p) \in OpEvents(c) /\ number[Current(c, p)] \in Nat
  <2>1. todo[p] = {} /\ place[p] < Len(c.ops[p]) * W BY <1>1, <1>3, <1>6, OthersRun
  <2> QED BY <2>1, <1>1, <1>5, CurrentFacts
<1> DEFINE S == {number[Current(c, p)] : p \in {q \in Members(c) : pc[q] = "run"}}
<1>7. PICK m \in S : \A k \in S : m <= k
  <2>1. S \subseteq Nat /\ S # {} BY <1>6
  <2> QED BY <2>1, Least
<1>8. PICK r \in Members(c) : pc[r] = "run" /\ number[Current(c, r)] = m BY <1>7
<1>9. \A p \in Members(c) : pc[p] = "run" => number[Current(c, r)] <= number[Current(c, p)]
  BY <1>7, <1>8
<1> DEFINE w == place[r] % W
<1>10. w \in 0..(W - 1) /\ OpOf(c, Current(c, r)) = c.ops[r][place[r] \div W + 1]
  BY <1>1, <1>6, <1>8, CurrentFacts DEF OpOf
<1>11. PICK g \in TeamOf(c, w) : g \notin done[r] BY <1>6, <1>8 DEF TeamsShort
<1> DEFINE t == w * c.groups + g
<1>12. t \in TilesOf(c) /\ g \in GroupsOf(c) BY <1>11 DEF TeamOf
<1>13. t \div c.groups = w
  <2>1. w \in Int /\ c.groups \in Nat \ {0} /\ g \in 0..(c.groups - 1)
    BY <1>1, <1>10, <1>12 DEF Sound, GroupsOf
  <2> HIDE DEF w
  <2> QED BY <2>1, Divides
<1> HIDE DEF t
<1>14. \A f \in OpOf(c, Current(c, r)).waits : IsUp(f, t, w)
  BY <1>1, <1>3, <1>4, <1>8, <1>9, <1>12, <1>13, LeastIsReady
<1>15. Operation(r) = OpOf(c, Current(c, r)) /\ Wave(r) = w /\ TileOf(r, g) = t
  BY <1>2, <1>10 DEF Operation, Wave, TileOf, t
<1>16. Team(w) = TeamOf(c, w) BY <1>2 DEF Team, TeamOf
<1>17. place[r] < LastPlace(r) BY <1>2, <1>6, <1>8 DEF LastPlace
<1>18. Ready(r, g) BY <1>8, <1>11, <1>14, <1>15, <1>16, <1>17 DEF Ready
<1> QED BY <1>2, <1>12, <1>18 DEF CanMove

\* Nor do the ranks wait for each other in the barriers.
LEMMA StreamsMove ==
    ASSUME NEW c, Fine(c), Typed(c), BarriersHold(c), CallersHold(c),
           \A p \in Members(c) : pc[p] # "run" /\ ~CanMove(p)
    PROVE  \A p \in Members(c) : fwd[p] = c.forwards
<1>1. Sound(c) /\ c.world \in Nat \ {0} /\ c.forwards \in Nat BY DEF Fine, Sound
<1>2. Config = c /\ Ranks = Members(c) BY Names DEF Typed
<1> DEFINE S == {arrived[p] : p \in Members(c)}
<1>3. PICK m \in S : \A k \in S : m <= k
  <2>1. 0 \in Members(c) BY <1>1 DEF Members
  <2>2. S \subseteq Nat /\ S # {} BY <2>1 DEF Typed
  <2> QED BY <2>2, Least
<1>4. PICK r \in Members(c) : arrived[r] = m BY <1>3
<1>5. \A p \in Members(c) : arrived[r] <= arrived[p] BY <1>3, <1>4
<1>6. ASSUME NEW p \in Members(c), pc[p] # "idle" PROVE arrived[r] < arrived[p]
  <2> SUFFICES ASSUME arrived[p] <= arrived[r] PROVE FALSE BY DEF Typed
  <2>1. \A q \in Members(c) : arrived[q] >= arrived[p]
    <3>1. arrived[p] \in Nat /\ arrived[r] \in Nat BY DEF Typed
    <3>2. ASSUME NEW q \in Members(c) PROVE arrived[q] >= arrived[p]
      <4>1. arrived[q] \in Nat BY DEF Typed
      <4> QED BY <4>1, <3>1, <1>5
    <3> QED BY <3>2
  <2>2. Passes(p) BY <2>1, <1>2 DEF Passes
  <2>3. pc[p] = "zeroed" \/ pc[p] = "ended" BY <1>6 DEF Typed
  <2>4. MayLaunch(p) \/ MayReturn(p) BY <2>2, <2>3 DEF MayLaunch, MayReturn
  <2> QED BY <2>4 DEF CanMove
<1>7. pc[r] = "idle"
  <2>1. arrived[r] \in Nat BY DEF Typed
  <2> QED BY <2>1, <1>6
<1>8. ASSUME NEW p \in Members(c) PROVE fwd[p] >= fwd[r]
  <2>1. /\ fwd[p] \in Nat /\ fwd[r] \in Nat /\ arrived[p] \in Nat /\ arrived[r] \in Nat
        /\ arrived[r] <= arrived[p] /\ (pc[p] # "idle" => arrived[r] < arrived[p])
    BY <1>5, <1>6 DEF Typed
  <2>2. CASE c.epilogue # "store"
    <3>1. /\ arrived[r] = 2 * fwd[r]
          /\ arrived[p] = 2 * fwd[p] + (IF pc[p] = "idle" THEN 0 ELSE IF pc[p] = "ended" THEN 2 ELSE 1)
      BY <2>1, <2>2, <1>7 DEF BarriersHold
    <3> QED BY <3>1, <2>1
  <2>3. CASE c.epilogue = "store"
    <3>1. arrived[r] = fwd[r] /\ arrived[p] = fwd[p] + (IF pc[p] = "ended" THEN 1 ELSE 0)
      BY <2>1, <2>3, <1>7 DEF CallersHold
    <3> QED BY <3>1, <2>1
  <2> QED BY <2>2, <2>3
<1>9. ~(fwd[r] < c.forwards)
  <2> SUFFICES ASSUME fwd[r] < c.forwards PROVE FALSE OBVIOUS
  <2>1. MayPrepare(r) BY <1>2, <1>7, <1>8 DEF MayPrepare
  <2> QED BY <2>1 DEF CanMove
<1>10. ASSUME NEW p \in Members(c) PROVE fwd[p] = c.forwards
  <2>1. /\ fwd[p] \in Nat /\ fwd[r] \in Nat /\ fwd[p] <= c.forwards /\ fwd[r] <= c.forwards
        /\ fwd[p] >= fwd[r]
    BY <1>8 DEF Typed
  <2> QED BY <2>1, <1>1, <1>9
<1> QED BY <1>10

\* The invariant behind NeverStuck.
LivelyOf(c) == InvOf(c) /\ FlagsUp(c) /\ TeamsShort(c)
Lively == \E name \in DOMAIN Configs : LivelyOf(Configs[name])

\* It holds at first,
LEMMA InitLively ==
    ASSUME NEW c, Fine(c), Is(c), Init
    PROVE  LivelyOf(c)
<1>1. Ranks = Members(c) BY Names
<1>2. \A r \in Members(c) : pc[r] = "idle" BY <1>1 DEF Init
<1>3. FlagsUp(c) BY <1>2, NameFacts DEF FlagsUp
<1>4. TeamsShort(c) BY <1>2 DEF TeamsShort
<1> QED BY <1>3, <1>4, InitInv DEF LivelyOf

\* and every step keeps it.
LEMMA LivelyByStep ==
    ASSUME NEW c, Fine(c), MaxForwards \in Nat, LivelyOf(c), [Next]_fvars
    PROVE  LivelyOf(c)'
<1>1. /\ Sound(c) /\ Typed(c) /\ BarriersHold(c) /\ InvOf(c) /\ FlagsUp(c) /\ TeamsShort(c)
  BY DEF LivelyOf, InvOf, Fine
<1>2. InvOf(c)' BY <1>1, InvByStep
<1>3. CASE Next
  <2>1. PICK r \in Members(c) :
            \/ StreamOnly(r)
            \/ \E tiles \in SUBSET (Members(c) \X TilesOf(c)) : EpiStep(c, r, tiles)
            \/ \E g \in GroupsOf(c) : GroupStep(r, g)
    BY <1>1, <1>3, StepKinds
  <2>2. CASE StreamOnly(r)
    <3>1. FlagsUp(c)' BY <2>2, <1>1, FlagsUpByStream
    <3>2. TeamsShort(c)' BY <2>2, <1>1, TeamsByOthers
    <3> QED BY <3>1, <3>2, <1>2 DEF LivelyOf
  <2>3. CASE \E tiles \in SUBSET (Members(c) \X TilesOf(c)) : EpiStep(c, r, tiles)
    <3>1. PICK tiles \in SUBSET (Members(c) \X TilesOf(c)) : EpiStep(c, r, tiles) BY <2>3
    <3>2. FlagsUp(c)' BY <3>1, <1>1, FlagsUpByEpilogue
    <3>3. TeamsShort(c)' BY <3>1, <1>1, TeamsByOthers
    <3> QED BY <3>2, <3>3, <1>2 DEF LivelyOf
  <2>4. CASE \E g \in GroupsOf(c) : GroupStep(r, g)
    <3>1. PICK g \in GroupsOf(c) : GroupStep(r, g) BY <2>4
    <3>2. PICK e \in OpEvents(c), t \in TilesOf(c) : OpStep(c, r, e, t) BY <3>1, <1>1, OpSteps
    <3>3. FlagsUp(c)' BY <3>2, <1>1, FlagsUpByKernel
    <3>4. TeamsShort(c)' BY <3>1, <1>1, TeamsByGroup
    <3> QED BY <3>3, <3>4, <1>2 DEF LivelyOf
  <2> QED BY <2>1, <2>2, <2>3, <2>4
<1>4. CASE UNCHANGED fvars
  <2>1. UNCHANGED <<config, fwd, pc, todo, place, done, flags>> BY <1>4 DEF fvars
  <2>2. FlagsUp(c)'
    BY <2>1, <1>1 DEF FlagsUp, Through, IsUp, Config, EpiDone, Left, Inside
  <2>3. TeamsShort(c)' BY <2>1, <1>1 DEF TeamsShort
  <2> QED BY <2>2, <2>3, <1>2 DEF LivelyOf
<1> QED BY <1>3, <1>4

\* The ring kernels of all configurations have numbers: their waits are not circular.
AllNumbered == \A name \in DOMAIN Configs :
                    Configs[name].epilogue = "keep" => Numbered(Configs[name])

\* Until every rank has completed its forwards, some rank or group can move, whatever the
\* path, the number of ranks, tiles, groups and forwards, and whatever the pace.
THEOREM ForwardsNeverStuck == ASSUME ConfigsOK, AllNumbered PROVE Spec => []NeverStuck
<1>1. ASSUME Init PROVE Lively
  <2>1. config \in DOMAIN Configs BY <1>1 DEF Init
  <2>2. Fine(Configs[config]) /\ Is(Configs[config]) BY <2>1 DEF ConfigsOK, Is
  <2>3. LivelyOf(Configs[config]) BY <1>1, <2>2, InitLively
  <2> QED BY <2>1, <2>3 DEF Lively
<1>2. ASSUME Lively, [Next]_fvars PROVE Lively'
  <2>1. PICK name \in DOMAIN Configs : LivelyOf(Configs[name]) BY <1>2 DEF Lively
  <2>2. PICK c : c = Configs[name] OBVIOUS
  <2>3. Fine(c) /\ MaxForwards \in Nat /\ LivelyOf(c) BY <2>1, <2>2 DEF ConfigsOK
  <2>4. LivelyOf(c)' BY <2>3, <1>2, LivelyByStep
  <2>5. LivelyOf(Configs[name])' BY <2>2, <2>4
  <2> QED BY <2>5 DEF Lively
<1>3. ASSUME Lively PROVE NeverStuck
  <2>1. PICK name \in DOMAIN Configs : LivelyOf(Configs[name]) BY <1>3 DEF Lively
  <2>2. PICK c : c = Configs[name] OBVIOUS
  <2>3. /\ Fine(c) /\ Typed(c) /\ BarriersHold(c) /\ CallersHold(c) /\ FlagsUp(c) /\ TeamsShort(c)
        /\ c.epilogue = "keep" => Numbered(c)
    BY <2>1, <2>2 DEF ConfigsOK, AllNumbered, LivelyOf, InvOf
  <2>4. Config = c /\ Ranks = Members(c) BY <2>3, Names DEF Typed
  <2>5. CASE \E p \in Members(c) : CanMove(p) BY <2>4, <2>5 DEF NeverStuck
  <2>6. CASE \A p \in Members(c) : ~CanMove(p)
    <3>1. \A p \in Members(c) : pc[p] # "run" BY <2>3, <2>6, KernelsMove
    <3>2. \A p \in Members(c) : fwd[p] = c.forwards BY <2>3, <2>6, <3>1, StreamsMove
    <3> QED BY <3>2, <2>4 DEF NeverStuck, Completed
  <2> QED BY <2>5, <2>6
<1>4. Init => Lively BY <1>1
<1>5. Lively /\ [Next]_fvars => Lively' BY <1>2
<1>6. Lively => NeverStuck BY <1>3
<1> QED BY <1>4, <1>5, <1>6, PTL DEF Spec
-----------------------------------------------------------------------------
(* Rings of any length. *)

\* Who is i ranks further along a ring of n.
Along(n, r, i) == (r + i) % n

\* A sum modulo n.
LEMMA ModAdd == ASSUME NEW a \in Int, NEW b \in Int, NEW n \in Nat \ {0}
                PROVE  ((a % n) + b) % n = (a + b) % n
<1> DEFINE d == a \div n
           m == a % n
           e == (m + b) \div n
           k == (m + b) % n
<1>1. d \in Int /\ m \in 0..(n - 1) /\ a = d * n + m BY DivMod
<1>2. m + b \in Int BY <1>1
<1>3. e \in Int /\ k \in 0..(n - 1) /\ m + b = e * n + k
  <2> HIDE DEF m
  <2> QED BY <1>2, DivMod
<1> HIDE DEF d, m, e, k
<1>4. a + b = (d + e) * n + k
  <2>1. d * n \in Int /\ e * n \in Int /\ (d + e) * n = d * n + e * n BY <1>1, <1>3
  <2> QED BY <2>1, <1>1, <1>3
<1>5. d + e \in Int BY <1>1, <1>3
<1>6. (a + b) % n = k BY <1>3, <1>4, <1>5, Divides
<1> QED BY <1>6 DEF k, m

\* Numbers less than n apart with one remainder are the same.
LEMMA ModSame == ASSUME NEW n \in Nat \ {0}, NEW a \in Int, NEW b \in Int, a <= b, b < a + n,
                        a % n = b % n
                 PROVE  a = b
<1> DEFINE d == a \div n
           e == b \div n
           m == a % n
<1>1. d \in Int /\ m \in 0..(n - 1) /\ a = d * n + m BY DivMod
<1>2. e \in Int /\ b = e * n + m BY DivMod
<1> HIDE DEF d, e, m
<1>3. d * n \in Int /\ e * n \in Int BY <1>1, <1>2
<1>4. d * n <= e * n /\ e * n < d * n + n BY <1>1, <1>2, <1>3
<1>5. ~(d <= e - 1)
  <2> SUFFICES ASSUME d <= e - 1 PROVE FALSE OBVIOUS
  <2>1. d * n <= (e - 1) * n BY <1>1, <1>2, ProductGrows
  <2>2. d + 1 <= e BY <1>1, <1>2
  <2>3. (d + 1) * n <= e * n BY <1>1, <1>2, <2>2, ProductGrows
  <2>4. (d + 1) * n = d * n + n BY <1>1
  <2> QED BY <2>3, <2>4, <1>3, <1>4
<1>6. ~(e <= d - 1)
  <2> SUFFICES ASSUME e <= d - 1 PROVE FALSE OBVIOUS
  <2>1. e + 1 <= d BY <1>1, <1>2
  <2>2. (e + 1) * n <= d * n BY <1>1, <1>2, <2>1, ProductGrows
  <2>3. (e + 1) * n = e * n + n BY <1>2
  <2> QED BY <2>2, <2>3, <1>3, <1>4
<1>7. d = e BY <1>1, <1>2, <1>5, <1>6
<1> QED BY <1>1, <1>2, <1>7

\* Going along the ring from r.
Circular(n, r) ==
    /\ \A i \in Int : Along(n, r, i) \in 0..(n - 1)
    /\ \A i, j \in Int : Along(n, Along(n, r, i), j) = Along(n, r, i + j)
    /\ \A i, j \in Int : i <= j /\ j < i + n /\ Along(n, r, i) = Along(n, r, j) => i = j
    /\ Along(n, r, 0) = r /\ Along(n, r, n) = r
    /\ \A p \in 0..(n - 1) : \E i \in 0..(n - 1) : Along(n, r, i) = p

\* They hold.
LEMMA AlongFacts == ASSUME NEW n \in Nat \ {0}, NEW r \in 0..(n - 1) PROVE Circular(n, r)
<1>1. ASSUME NEW i \in Int PROVE Along(n, r, i) \in 0..(n - 1)
  <2>1. r + i \in Int OBVIOUS
  <2> QED BY <2>1, DivMod DEF Along
<1>2. ASSUME NEW i \in Int, NEW j \in Int PROVE Along(n, Along(n, r, i), j) = Along(n, r, i + j)
  <2>1. r + i \in Int /\ (r + i) + j = r + (i + j) OBVIOUS
  <2>2. (((r + i) % n) + j) % n = ((r + i) + j) % n BY <2>1, ModAdd
  <2> QED BY <2>1, <2>2 DEF Along
<1>3. ASSUME NEW i \in Int, NEW j \in Int, i <= j, j < i + n, Along(n, r, i) = Along(n, r, j)
      PROVE  i = j
  <2> DEFINE a == r + i
             b == r + j
  <2>1. a \in Int /\ b \in Int /\ a <= b /\ b < a + n BY <1>3
  <2>2. a % n = b % n BY <1>3 DEF Along
  <2> HIDE DEF a, b
  <2>3. a = b BY <2>1, <2>2, ModSame
  <2> QED BY <2>3 DEF a, b
<1>4. ASSUME NEW p \in 0..(n - 1) PROVE p % n = p /\ (p + n) % n = p
  <2>1. p = 0 * n + p /\ p + n = 1 * n + p OBVIOUS
  <2> QED BY <2>1, Divides
<1>5. Along(n, r, 0) = r /\ Along(n, r, n) = r
  <2>1. r + 0 = r OBVIOUS
  <2> QED BY <2>1, <1>4 DEF Along
<1>6. ASSUME NEW p \in 0..(n - 1) PROVE \E i \in 0..(n - 1) : Along(n, r, i) = p
  <2>1. CASE r <= p
    <3>1. p - r \in 0..(n - 1) /\ r + (p - r) = p BY <2>1
    <3>2. Along(n, r, p - r) = p BY <3>1, <1>4 DEF Along
    <3> QED BY <3>1, <3>2
  <2>2. CASE p < r
    <3>1. p - r + n \in 0..(n - 1) /\ r + (p - r + n) = p + n BY <2>2
    <3>2. Along(n, r, p - r + n) = p BY <3>1, <1>4 DEF Along
    <3> QED BY <3>1, <3>2
  <2> QED BY <2>1, <2>2
<1> QED BY <1>1, <1>2, <1>3, <1>5, <1>6 DEF Circular

\* The ranks from r on, k of them.
From(n, r, k) == {Along(n, r, i) : i \in 0..(k - 1)}

\* One more is r and as many from the next on.
Growing(n, r) ==
    /\ \A k \in Int : From(n, r, k) \subseteq 0..(n - 1)
    /\ From(n, r, 1) = {r} /\ From(n, r, n) = 0..(n - 1)
    /\ \A k \in Nat \ {0} : From(n, r, k + 1) = {r} \cup From(n, Along(n, r, 1), k)
    /\ \A k \in Nat : k < n => r \notin From(n, Along(n, r, 1), k)

\* They hold.
LEMMA FromFacts == ASSUME NEW n \in Nat \ {0}, NEW r \in 0..(n - 1) PROVE Growing(n, r)
<1>0. Circular(n, r) BY AlongFacts
<1>1. ASSUME NEW k \in Int PROVE From(n, r, k) \subseteq 0..(n - 1)
  BY <1>0 DEF Circular, From
<1>2. From(n, r, 1) = {r}
  <2>1. 0..(1 - 1) = {0} OBVIOUS
  <2>2. From(n, r, 1) = {Along(n, r, 0)} BY <2>1 DEF From
  <2> QED BY <2>2, <1>0 DEF Circular
<1>3. From(n, r, n) = 0..(n - 1)
  <2>1. 0..(n - 1) \subseteq From(n, r, n) BY <1>0 DEF Circular, From
  <2>2. From(n, r, n) \subseteq 0..(n - 1) BY <1>1
  <2> QED BY <2>1, <2>2
<1> DEFINE q == Along(n, r, 1)
<1>4. \A i \in Int : Along(n, q, i) = Along(n, r, 1 + i) BY <1>0 DEF Circular
<1>5. ASSUME NEW k \in Nat \ {0} PROVE From(n, r, k + 1) = {r} \cup From(n, q, k)
  <2>1. ASSUME NEW p \in From(n, r, k + 1) PROVE p \in {r} \cup From(n, q, k)
    <3>1. PICK i \in 0..k : p = Along(n, r, i) BY DEF From
    <3>2. CASE i = 0 BY <3>1, <3>2, <1>0 DEF Circular
    <3>3. CASE i # 0
      <4>1. i - 1 \in 0..(k - 1) /\ 1 + (i - 1) = i BY <3>3
      <4>2. p = Along(n, q, i - 1) BY <4>1, <3>1, <1>4
      <4> HIDE DEF q
      <4> QED BY <4>1, <4>2 DEF From
    <3> QED BY <3>2, <3>3
  <2>2. ASSUME NEW p \in From(n, q, k) PROVE p \in From(n, r, k + 1)
    <3>1. PICK i \in 0..(k - 1) : p = Along(n, q, i) BY DEF From
    <3>2. 1 + i \in 0..((k + 1) - 1) /\ p = Along(n, r, 1 + i) BY <3>1, <1>4
    <3> QED BY <3>2 DEF From
  <2>3. r \in From(n, r, k + 1)
    <3>1. 0 \in 0..((k + 1) - 1) /\ r = Along(n, r, 0) BY <1>0 DEF Circular
    <3> QED BY <3>1 DEF From
  <2> HIDE DEF q
  <2> QED BY <2>1, <2>2, <2>3
<1>6. ASSUME NEW k \in Nat, k < n PROVE r \notin From(n, q, k)
  <2> SUFFICES ASSUME r \in From(n, q, k) PROVE FALSE OBVIOUS
  <2>1. PICK i \in 0..(k - 1) : r = Along(n, q, i) BY DEF From
  <2>2. Along(n, r, 0) = Along(n, r, 1 + i) BY <2>1, <1>4, <1>0 DEF Circular
  <2>3. 0 \in Int /\ 1 + i \in Int /\ 0 <= 1 + i /\ 1 + i < 0 + n BY <1>6
  <2>4. 0 = 1 + i BY <2>2, <2>3, <1>0 DEF Circular
  <2> QED BY <2>4
<1> QED BY <1>1, <1>2, <1>3, <1>5, <1>6 DEF Growing

\* The one before r.
LEMMA BeforeFacts ==
    ASSUME NEW n \in Nat \ {0}, NEW r \in 0..(n - 1)
    PROVE  /\ (r + n - 1) % n = Along(n, r, n - 1) /\ (r + 1) % n = Along(n, r, 1)
           /\ Along(n, Along(n, r, n - 1), 1) = r /\ Along(n, Along(n, r, 1), n - 1) = r
           /\ \A q \in 0..(n - 1) : Along(n, q, n - 1) = r => q = Along(n, r, 1)
<1>1. r + n - 1 = r + (n - 1) OBVIOUS
<1>2. ASSUME NEW q \in 0..(n - 1)
      PROVE  Along(n, Along(n, q, n - 1), 1) = q /\ Along(n, Along(n, q, 1), n - 1) = q
  <2>1. n - 1 \in Int /\ 1 \in Int /\ (n - 1) + 1 = n /\ 1 + (n - 1) = n OBVIOUS
  <2>2. Circular(n, q) BY AlongFacts
  <2>3. Along(n, Along(n, q, n - 1), 1) = Along(n, q, (n - 1) + 1)
        /\ Along(n, Along(n, q, 1), n - 1) = Along(n, q, 1 + (n - 1))
    BY <2>1, <2>2 DEF Circular
  <2>4. Along(n, q, (n - 1) + 1) = q /\ Along(n, q, 1 + (n - 1)) = q
    BY <2>1, <2>2 DEF Circular
  <2> QED BY <2>3, <2>4
<1> QED BY <1>1, <1>2 DEF Along

-----------------------------------------------------------------------------
(* Certificates. *)

\* If only one of the writers of a place is over before e, its sum is found there.
LEMMA FoundIs ==
    ASSUME NEW c, NEW before, NEW parts, NEW e, NEW p, NEW w \in Writers(c, p),
           IsSource(Writers(c, p), before, e, w),
           \A v \in Writers(c, p) : v \in before[e] => v = w
    PROVE  Found(c, before, parts, e, p) = Part(parts, w)
<1> DEFINE x == CHOOSE v \in Writers(c, p) : IsSource(Writers(c, p), before, e, v)
<1>1. x \in Writers(c, p) /\ IsSource(Writers(c, p), before, e, x) OBVIOUS
<1>2. Writers(c, p) # {} OBVIOUS
<1>3. Found(c, before, parts, e, p) = Part(parts, x) BY <1>2 DEF Found
<1> HIDE DEF x
<1>4. x = w BY <1>1 DEF IsSource
<1> QED BY <1>3, <1>4

\* A flag that one event alone raises: the event is over.
LEMMA OverByFlag ==
    ASSUME NEW c, NEW before, NEW e, NEW f \in OpOf(c, e).waits, NEW x, Raisers(c, f) = {x}
    PROVE  x \in Over(c, before, e)
<1>1. x \in Common(before, Raisers(c, f)) BY DEF Common
<1> QED BY <1>1 DEF Over

\* The flag of an epilogue is raised by it alone.
LEMMA EpilogueRaises ==
    ASSUME NEW c, Sound(c), NEW r \in Members(c), NEW s \in Members(c)
    PROVE  Raisers(c, Epi(r, s)) = {Epi(r, s)} /\ Epi(r, s) \in EpiEvents(c)
           /\ Epi(r, s) \in Events(c) /\ Epi(r, s) # Out(r, s)
<1>1. Epi(r, s) \in EpiEvents(c) /\ Epi(r, s) \in Events(c)
  BY EpiNames, EpiFacts DEF Epi
<1>2. ASSUME NEW e \in Raisers(c, Epi(r, s)) PROVE e = Epi(r, s)
  <2> SUFFICES ASSUME e # Epi(r, s) PROVE FALSE OBVIOUS
  <2>1. e \in Events(c) /\ e[1] = "op" /\ Epi(r, s) \in OpOf(c, e).raises BY DEF Raisers
  <2>2. e \in OpEvents(c) BY <2>1, EventKinds
  <2>3. OpOf(c, e) \in Operations(c) BY <2>2, OpFacts
  <2>4. Epi(r, s)[1] # "epilogue" BY <2>1, <2>3, OperationFacts
  <2> QED BY <2>4 DEF Epi
<1>3. Epi(r, s) \in Raisers(c, Epi(r, s)) BY <1>1 DEF Raisers
<1> QED BY <1>1, <1>2, <1>3 DEF Epi, Out
-----------------------------------------------------------------------------
(* The ring that pulls. *)

\* Operation i of rank r concerns this segment.
PullOps(c) ==
    \A r \in Members(c) :
        /\ Len(c.ops[r]) = c.world - 1
        /\ \A i \in 1..(c.world - 1) :
            LET q == Along(c.world, r, 1)
                s == Along(c.world, r, i + 1)
            IN  c.ops[r][i] = Op({Epi(r, s), IF i = 1 THEN Epi(q, s) ELSE Red(q, s)},
                                 {Out(r, s), Out(q, s)}, Out(r, s), {Red(r, s)})

\* It is over with its tile of the epilogue, and with the sum of the next rank.
PullBefore(c) == [e \in OpEvents(c) |->
    LET q == Along(c.world, e[2], 1)
        s == Along(c.world, e[2], e[3] + 1)
    IN  {Epi(e[2], s), IF e[3] = 1 THEN Epi(q, s) ELSE <<"op", q, e[3] - 1>>}]
PullParts(c) == [e \in OpEvents(c) |-> From(c.world, e[2], e[3] + 1)]

\* Who writes a segment, and who raises its flag.
LEMMA PullWriters ==
    ASSUME NEW c, Sound(c), PullOps(c), NEW p \in Members(c), NEW s \in Members(c)
    PROVE  /\ \A e \in Writers(c, Out(p, s)) :
                  e = Epi(p, s) \/ (e \in OpEvents(c) /\ e[2] = p /\ Along(c.world, p, e[3] + 1) = s)
           /\ Epi(p, s) \in Writers(c, Out(p, s))
           /\ \A e \in Raisers(c, Red(p, s)) :
                  e \in OpEvents(c) /\ e[2] = p /\ Along(c.world, p, e[3] + 1) = s
<1>1. ASSUME NEW e \in OpEvents(c)
      PROVE  /\ OpOf(c, e).to = Out(e[2], Along(c.world, e[2], e[3] + 1))
             /\ OpOf(c, e).raises = {Red(e[2], Along(c.world, e[2], e[3] + 1))}
  <2>1. e[2] \in Members(c) /\ e[3] \in Nat \ {0} /\ e[3] <= Len(c.ops[e[2]])
    BY OpFacts
  <2>2. e[3] \in 1..(c.world - 1) BY <2>1 DEF PullOps, Sound
  <2> DEFINE r == e[2]
             i == e[3]
             q == Along(c.world, r, 1)
             s1 == Along(c.world, r, i + 1)
  <2>3. OpOf(c, e) = Op({Epi(r, s1), IF i = 1 THEN Epi(q, s1) ELSE Red(q, s1)},
                        {Out(r, s1), Out(q, s1)}, Out(r, s1), {Red(r, s1)})
    BY <2>1, <2>2 DEF PullOps, OpOf
  <2> HIDE DEF r, i, q, s1
  <2>4. OpOf(c, e).to = Out(r, s1) /\ OpOf(c, e).raises = {Red(r, s1)} BY <2>3 DEF Op
  <2> QED BY <2>4 DEF r, i, s1
<1>2. ASSUME NEW e \in Writers(c, Out(p, s))
      PROVE  e = Epi(p, s) \/ (e \in OpEvents(c) /\ e[2] = p /\ Along(c.world, p, e[3] + 1) = s)
  <2>1. e \in Events(c) /\ Target(c, e) = Out(p, s) BY DEF Writers
  <2>2. CASE e \in OpEvents(c)
    <3>1. Out(p, s) = Out(e[2], Along(c.world, e[2], e[3] + 1)) BY <2>1, <2>2, <1>1, OpFacts
    <3> QED BY <3>1, <2>2 DEF Out
  <2>3. CASE e \in EpiEvents(c)
    <3>1. e = <<"epilogue", e[2], e[3]>> /\ Out(p, s) = <<"out", e[2], e[3]>> BY <2>1, <2>3, EpiFacts
    <3>2. e[2] = p /\ e[3] = s BY <3>1 DEF Out
    <3> QED BY <3>1, <3>2 DEF Epi
  <2> QED BY <2>1, <2>2, <2>3, EventKinds
<1>3. Epi(p, s) \in Writers(c, Out(p, s))
  <2>1. Epi(p, s) \in EpiEvents(c) /\ Epi(p, s) \in Events(c) BY EpiNames, EpiFacts DEF Epi
  <2>2. Target(c, Epi(p, s)) = Out(p, s) BY DEF Target, Epi, Out
  <2> QED BY <2>1, <2>2 DEF Writers
<1>4. ASSUME NEW e \in Raisers(c, Red(p, s))
      PROVE  e \in OpEvents(c) /\ e[2] = p /\ Along(c.world, p, e[3] + 1) = s
  <2>1. e \in Events(c) /\ (e = Red(p, s) \/ (e[1] = "op" /\ Red(p, s) \in OpOf(c, e).raises))
    BY DEF Raisers
  <2>2. e # Red(p, s) BY <2>1, EventKinds DEF Red
  <2>3. e \in OpEvents(c) /\ Red(p, s) \in OpOf(c, e).raises BY <2>1, <2>2, EventKinds
  <2>4. Red(p, s) = Red(e[2], Along(c.world, e[2], e[3] + 1)) BY <2>3, <1>1
  <2> QED BY <2>3, <2>4 DEF Red
<1> QED BY <1>2, <1>3, <1>4

\* One operation of a rank concerns a segment.
LEMMA PullOnce ==
    ASSUME NEW c, Sound(c), PullOps(c), NEW e \in OpEvents(c), NEW d \in OpEvents(c),
           e[2] = d[2], Along(c.world, e[2], e[3] + 1) = Along(c.world, e[2], d[3] + 1)
    PROVE  e = d
<1> DEFINE n == c.world
           r == e[2]
<1>1. /\ e = <<"op", e[2], e[3]>> /\ d = <<"op", d[2], d[3]>>
      /\ r \in Members(c) /\ e[3] \in Nat \ {0} /\ d[3] \in Nat \ {0}
      /\ e[3] <= Len(c.ops[r]) /\ d[3] <= Len(c.ops[r])
  BY OpFacts
<1>2. n \in Nat \ {0} /\ r \in 0..(n - 1) /\ e[3] <= n - 1 /\ d[3] <= n - 1
  BY <1>1 DEF Sound, Members, PullOps
<1>3. Circular(n, r) BY <1>2, AlongFacts
<1> HIDE DEF n, r
<1>4. /\ e[3] + 1 \in Int /\ d[3] + 1 \in Int
      /\ e[3] + 1 < (d[3] + 1) + n /\ d[3] + 1 < (e[3] + 1) + n
  BY <1>1, <1>2
<1>5. Along(n, r, e[3] + 1) = Along(n, r, d[3] + 1) BY DEF n, r
<1>6. \A i, j \in Int : i <= j /\ j < i + n /\ Along(n, r, i) = Along(n, r, j) => i = j
  BY <1>3 DEF Circular
<1>7. e[3] + 1 = d[3] + 1 BY <1>4, <1>5, <1>6
<1>8. e[3] = d[3] BY <1>1, <1>7
<1> QED BY <1>1, <1>8

\* What operation e reads from the next rank q, of segment s.
Pulls(c, e, q, s) ==
    /\ q \in Members(c) /\ s \in Members(c) /\ q # e[2] /\ e[3] \in 1..(c.world - 1)
    /\ OpOf(c, e) = Op({Epi(e[2], s), IF e[3] = 1 THEN Epi(q, s) ELSE Red(q, s)},
                       {Out(e[2], s), Out(q, s)}, Out(e[2], s), {Red(e[2], s)})
    /\ Writers(c, Out(e[2], s)) = {Epi(e[2], s), e}
    /\ e[3] = 1 => Writers(c, Out(q, s)) = {Epi(q, s)}
    /\ e[3] # 1 => /\ <<"op", q, e[3] - 1>> \in OpEvents(c)
                   /\ Along(c.world, q, (e[3] - 1) + 1) = s
                   /\ Writers(c, Out(q, s)) = {Epi(q, s), <<"op", q, e[3] - 1>>}
                   /\ Raisers(c, Red(q, s)) = {<<"op", q, e[3] - 1>>}

\* So it is.
LEMMA PullSources ==
    ASSUME NEW c, Sound(c), PullOps(c), NEW e \in OpEvents(c),
           NEW q, q = Along(c.world, e[2], 1), NEW s, s = Along(c.world, e[2], e[3] + 1)
    PROVE  Pulls(c, e, q, s)
<1> DEFINE n == c.world
           r == e[2]
           i == e[3]
<1>1. /\ e = <<"op", r, i>> /\ r \in Members(c) /\ i \in Nat \ {0} /\ i <= Len(c.ops[r])
      /\ Target(c, e) = OpOf(c, e).to /\ e \in Events(c)
  BY OpFacts
<1>2. n \in Nat \ {0} /\ Members(c) = 0..(n - 1) /\ i \in 1..(n - 1)
  BY <1>1 DEF Sound, Members, PullOps
<1>3. Circular(n, r) BY <1>1, <1>2, AlongFacts
<1>4. q \in Members(c) /\ s \in Members(c) /\ i + 1 \in Int
  <2>1. i + 1 \in Int /\ 1 \in Int BY <1>2
  <2>2. \A j \in Int : Along(n, r, j) \in 0..(n - 1) BY <1>3 DEF Circular
  <2>3. q = Along(n, r, 1) /\ s = Along(n, r, i + 1) OBVIOUS
  <2> QED BY <2>1, <2>2, <2>3, <1>2
<1>5. Circular(n, q) BY <1>2, <1>4, AlongFacts
<1>6. OpOf(c, e) = Op({Epi(r, s), IF i = 1 THEN Epi(q, s) ELSE Red(q, s)},
                      {Out(r, s), Out(q, s)}, Out(r, s), {Red(r, s)})
  BY <1>1, <1>2 DEF PullOps, OpOf
<1>7. Writers(c, Out(r, s)) = {Epi(r, s), e}
  <2>1. e \in Writers(c, Out(r, s)) BY <1>1, <1>6 DEF Writers, Op
  <2>2. \A d \in Writers(c, Out(r, s)) : d = Epi(r, s) \/ d = e
    BY <1>1, <1>4, PullWriters, PullOnce
  <2>3. Epi(r, s) \in Writers(c, Out(r, s)) BY <1>1, <1>4, PullWriters
  <2> QED BY <2>1, <2>2, <2>3
<1>8. \A j, k \in Int : j <= k /\ k < j + n /\ Along(n, q, j) = Along(n, q, k) => j = k
  BY <1>5 DEF Circular
<1>9. \A j \in Int : Along(n, q, j) = Along(n, r, 1 + j) BY <1>3 DEF Circular
<1>10. q # r
  <2> SUFFICES ASSUME q = r PROVE FALSE OBVIOUS
  <2>1. Along(n, r, 0) = Along(n, r, 1) BY <1>3 DEF Circular
  <2>2. 0 \in Int /\ 1 \in Int /\ 0 <= 1 /\ 1 < 0 + n BY <1>2
  <2>3. \A j, k \in Int : j <= k /\ k < j + n /\ Along(n, r, j) = Along(n, r, k) => j = k
    BY <1>3 DEF Circular
  <2>4. 0 = 1 BY <2>1, <2>2, <2>3
  <2> QED BY <2>4
<1>11. ASSUME i = 1 PROVE Writers(c, Out(q, s)) = {Epi(q, s)}
  <2>1. s = Along(n, q, 1) BY <1>9, <1>11
  <2>2. ASSUME NEW d \in Writers(c, Out(q, s)), d # Epi(q, s) PROVE FALSE
    <3>1. d \in OpEvents(c) /\ d[2] = q /\ Along(n, q, d[3] + 1) = s
      BY <2>2, <1>4, PullWriters
    <3>2. d[3] \in Nat \ {0} /\ d[3] <= n - 1 BY <3>1, <1>4, OpFacts DEF PullOps
    <3>3. 1 \in Int /\ d[3] + 1 \in Int /\ 1 <= d[3] + 1 /\ d[3] + 1 < 1 + n BY <3>2, <1>2
    <3>4. 1 = d[3] + 1 BY <2>1, <3>1, <3>3, <1>8
    <3> QED BY <3>2, <3>4
  <2>3. Epi(q, s) \in Writers(c, Out(q, s)) BY <1>4, PullWriters
  <2> QED BY <2>2, <2>3
<1>12. ASSUME i # 1
       PROVE  /\ <<"op", q, i - 1>> \in OpEvents(c)
              /\ Along(n, q, (i - 1) + 1) = s
              /\ Writers(c, Out(q, s)) = {Epi(q, s), <<"op", q, i - 1>>}
              /\ Raisers(c, Red(q, s)) = {<<"op", q, i - 1>>}
  <2> DEFINE x == <<"op", q, i - 1>>
  <2>1. i - 1 \in 1..(n - 1) /\ (i - 1) + 1 = i /\ 1 + i = i + 1 BY <1>2, <1>12
  <2>2. Len(c.ops[q]) = n - 1 BY <1>4 DEF PullOps
  <2>3. x \in OpEvents(c) /\ x[2] = q /\ x[3] = i - 1 BY <2>1, <2>2, <1>4, OpNames
  <2>4. Along(n, q, (i - 1) + 1) = s BY <2>1, <1>2, <1>9
  <2> HIDE DEF x
  <2>5. OpOf(c, x).to = Out(q, s) /\ OpOf(c, x).raises = {Red(q, s)}
    <3> DEFINE j == i - 1
               p == Along(n, q, 1)
    <3>1. c.ops[q][j] = Op({Epi(q, s), IF j = 1 THEN Epi(p, s) ELSE Red(p, s)},
                           {Out(q, s), Out(p, s)}, Out(q, s), {Red(q, s)})
      BY <2>1, <2>4, <1>4 DEF PullOps
    <3>2. OpOf(c, x) = c.ops[q][j] BY <2>3 DEF OpOf
    <3> HIDE DEF p, j
    <3> QED BY <3>1, <3>2 DEF Op
  <2>6. x \in Events(c) /\ x[1] = "op" /\ Target(c, x) = Out(q, s) BY <2>3, <2>5, OpFacts
  <2>7. x \in Writers(c, Out(q, s)) /\ x \in Raisers(c, Red(q, s))
    BY <2>5, <2>6 DEF Writers, Raisers
  <2>8. ASSUME NEW d \in OpEvents(c), d[2] = q, Along(n, q, d[3] + 1) = s PROVE d = x
    <3>1. d[2] = x[2] /\ Along(n, d[2], d[3] + 1) = Along(n, d[2], x[3] + 1)
      BY <2>3, <2>4, <2>8
    <3> QED BY <3>1, <2>3, PullOnce
  <2>9. \A d \in Writers(c, Out(q, s)) : d = Epi(q, s) \/ d = x BY <2>8, <1>4, PullWriters
  <2>10. Epi(q, s) \in Writers(c, Out(q, s)) BY <1>4, PullWriters
  <2>11. \A d \in Raisers(c, Red(q, s)) : d = x BY <2>8, <1>4, PullWriters
  <2> QED BY <2>3, <2>4, <2>7, <2>9, <2>10, <2>11 DEF x
<1> QED BY <1>2, <1>4, <1>6, <1>7, <1>10, <1>11, <1>12 DEF Pulls

\* Its certificate.
LEMMA PullCertified ==
    ASSUME NEW c, Sound(c), PullOps(c)
    PROVE  Certified(c, PullBefore(c), PullParts(c))
<1> DEFINE n == c.world
           before == PullBefore(c)
           parts == PullParts(c)
<1>1. n \in Nat \ {0} /\ Members(c) = 0..(n - 1) BY DEF Sound, Members
<1>2. ASSUME NEW e \in OpEvents(c)
      PROVE  /\ before[e] \in SUBSET Events(c) /\ parts[e] \in SUBSET Members(c)
             /\ before[e] \subseteq Over(c, before, e) /\ Adds(c, before, parts, e)
  <2> DEFINE r == e[2]
             i == e[3]
             q == Along(n, r, 1)
             s == Along(n, r, i + 1)
             x == <<"op", q, i - 1>>
             w == IF i = 1 THEN Epi(q, s) ELSE x
  <2>0. Pulls(c, e, q, s) /\ r \in Members(c) BY PullSources, OpFacts
  <2>1. /\ q \in Members(c) /\ s \in Members(c) /\ q # r /\ r \in Members(c)
        /\ i \in 1..(n - 1)
    BY <2>0 DEF Pulls
  <2>2. OpOf(c, e) = Op({Epi(r, s), IF i = 1 THEN Epi(q, s) ELSE Red(q, s)},
                        {Out(r, s), Out(q, s)}, Out(r, s), {Red(r, s)})
    BY <2>0 DEF Pulls
  <2>3. Writers(c, Out(r, s)) = {Epi(r, s), e} BY <2>0 DEF Pulls
  <2>4. i = 1 => Writers(c, Out(q, s)) = {Epi(q, s)} BY <2>0 DEF Pulls
  <2>5. i # 1 => /\ x \in OpEvents(c) /\ Along(n, q, (i - 1) + 1) = s
                 /\ Writers(c, Out(q, s)) = {Epi(q, s), x}
                 /\ Raisers(c, Red(q, s)) = {x}
    BY <2>0 DEF Pulls
  <2>6. before[e] = {Epi(r, s), w} BY DEF PullBefore
  <2>7. parts[e] = From(n, r, i + 1) BY DEF PullParts
  <2>8. /\ Raisers(c, Epi(r, s)) = {Epi(r, s)} /\ Epi(r, s) \in Events(c)
        /\ Raisers(c, Epi(q, s)) = {Epi(q, s)} /\ Epi(q, s) \in Events(c)
    BY <2>1, EpilogueRaises
  <2>9. Epi(r, s) # Epi(q, s) /\ Out(r, s) # Out(q, s) BY <2>1 DEF Epi, Out
  <2>10. /\ e[1] = "op" /\ Epi(r, s)[1] = "epilogue" /\ Epi(r, s)[2] = r
         /\ Epi(q, s)[1] = "epilogue" /\ Epi(q, s)[2] = q /\ x[1] = "op" /\ x[2] = q /\ x[3] = i - 1
    BY OpFacts DEF Epi
  <2>11. /\ OpOf(c, e).waits = {Epi(r, s), IF i = 1 THEN Epi(q, s) ELSE Red(q, s)}
         /\ OpOf(c, e).from = {Out(r, s), Out(q, s)}
    <3> HIDE DEF r, i, q, s
    <3> QED BY <2>2 DEF Op
  <2>12. i # 1 => PullBefore(c)[x] = {Epi(q, s), IF i - 1 = 1 THEN Epi(Along(n, q, 1), s)
                                                   ELSE <<"op", Along(n, q, 1), (i - 1) - 1>>}
    BY <2>5, <2>10 DEF PullBefore
  <2>13. i # 1 => PullParts(c)[x] = From(n, q, (i - 1) + 1) BY <2>5, <2>10 DEF PullParts
  <2>14. x \in OpEvents(c) => x \in Events(c) BY OpFacts
  <2>15. i \in Nat \ {0} /\ (i - 1) + 1 = i /\ i < n /\ i + 1 \in Int BY <2>1, <1>1
  <2>16. /\ From(n, r, i + 1) \subseteq Members(c) /\ From(n, q, 1) = {q}
         /\ From(n, r, i + 1) = {r} \cup From(n, q, i) /\ r \notin From(n, q, i)
    <3>1. Growing(n, r) /\ Growing(n, q) BY <1>1, <2>1, FromFacts
    <3> HIDE DEF q
    <3>2. From(n, r, i + 1) = {r} \cup From(n, Along(n, r, 1), i)
          /\ r \notin From(n, Along(n, r, 1), i)
      BY <3>1, <2>15 DEF Growing
    <3> QED BY <1>1, <2>15, <3>1, <3>2 DEF Growing, q
  <2> HIDE DEF n, before, parts, r, i, q, s, x
  <2>17. before[e] \in SUBSET Events(c) BY <2>5, <2>6, <2>8, <2>14
  <2>18. parts[e] \in SUBSET Members(c) BY <2>7, <2>16
  <2>19. before[e] \subseteq Over(c, before, e)
    <3>1. Epi(r, s) \in Over(c, before, e) BY <2>8, <2>11, OverByFlag
    <3>2. CASE i = 1
      <4>1. Epi(q, s) \in Over(c, before, e) BY <2>8, <2>11, <3>2, OverByFlag
      <4> QED BY <3>1, <3>2, <4>1, <2>6
    <3>3. CASE i # 1
      <4>1. x \in Over(c, before, e) BY <2>5, <2>11, <3>3, OverByFlag
      <4> QED BY <3>1, <3>3, <4>1, <2>6
    <3> QED BY <3>2, <3>3
  <2>20. /\ IsSource(Writers(c, Out(r, s)), before, e, Epi(r, s))
         /\ Found(c, before, parts, e, Out(r, s)) = {r}
    <3>1. IsSource(Writers(c, Out(r, s)), before, e, Epi(r, s)) BY <2>3, <2>6 DEF IsSource
    <3>2. \A v \in Writers(c, Out(r, s)) : v \in before[e] => v = Epi(r, s)
      <4>1. e # w
        <5>1. e[2] # q BY <2>1 DEF r
        <5>2. w[2] = q BY <2>10
        <5> QED BY <5>1, <5>2
      <4>2. e # Epi(r, s) BY <2>10
      <4> QED BY <4>1, <4>2, <2>3, <2>6
    <3>3. Found(c, before, parts, e, Out(r, s)) = Part(parts, Epi(r, s))
      BY <3>1, <3>2, <2>3, FoundIs
    <3>4. Part(parts, Epi(r, s)) = {r} BY <2>10 DEF Part
    <3> QED BY <3>1, <3>3, <3>4
  <2>21. /\ Writers(c, Out(q, s)) # {}
         /\ w \in Writers(c, Out(q, s)) /\ IsSource(Writers(c, Out(q, s)), before, e, w)
         /\ Found(c, before, parts, e, Out(q, s)) = From(n, q, i)
    <3>1. CASE i = 1
      <4>1. IsSource(Writers(c, Out(q, s)), before, e, w) BY <3>1, <2>4, <2>6 DEF IsSource
      <4>2. Found(c, before, parts, e, Out(q, s)) = Part(parts, w)
        BY <4>1, <3>1, <2>4, FoundIs
      <4>3. Part(parts, w) = {q} BY <3>1, <2>10 DEF Part
      <4> QED BY <4>1, <4>2, <4>3, <3>1, <2>4, <2>16
    <3>2. CASE i # 1
      <4>1. Past(before, x) = PullBefore(c)[x] BY <2>10 DEF Past, before
      <4>2. Epi(q, s) \in Past(before, x) BY <4>1, <3>2, <2>12
      <4>3. IsSource(Writers(c, Out(q, s)), before, e, w)
        BY <4>2, <3>2, <2>5, <2>6 DEF IsSource
      <4>4. Epi(q, s) # x BY <2>10
      <4>5. \A v \in Writers(c, Out(q, s)) : v \in before[e] => v = w
        BY <4>4, <3>2, <2>5, <2>6, <2>9
      <4>6. w \in Writers(c, Out(q, s)) BY <3>2, <2>5
      <4>7. Found(c, before, parts, e, Out(q, s)) = Part(parts, w)
        BY <4>3, <4>5, <4>6, FoundIs
      <4>8. Part(parts, w) = From(n, q, i) BY <3>2, <2>10, <2>13, <2>15 DEF Part, parts
      <4> QED BY <4>3, <4>6, <4>7, <4>8
    <3> QED BY <3>1, <3>2
  <2>22. Writers(c, Out(r, s)) # {} /\ Epi(r, s) \in Writers(c, Out(r, s)) BY <2>3
  <2>23. Adds(c, before, parts, e)
    <3> DEFINE F(p) == Found(c, before, parts, e, p)
    <3>1. F(Out(r, s)) = {r} /\ F(Out(q, s)) = From(n, q, i) BY <2>20, <2>21
    <3>2. OpOf(c, e).from = {Out(r, s), Out(q, s)} BY <2>11
    <3>3. \A p \in OpOf(c, e).from : IF Writers(c, p) = {} THEN p[1] = "red" /\ c.fresh = {}
                ELSE \E v \in Writers(c, p) : IsSource(Writers(c, p), before, e, v)
      BY <3>2, <2>20, <2>21, <2>22
    <3> HIDE DEF F
    <3>4. \A p, p1 \in OpOf(c, e).from : p = p1 \/ F(p) \cap F(p1) = {}
      BY <3>1, <3>2, <2>16
    <3>5. parts[e] = UNION {F(p) : p \in OpOf(c, e).from}
      BY <3>1, <3>2, <2>7, <2>16
    <3> QED BY <3>3, <3>4, <3>5 DEF Adds, F
  <2> QED BY <2>17, <2>18, <2>19, <2>23
<1>3. ASSUME NEW r \in Members(c) PROVE Completes(c, before, parts, r)
  <2> DEFINE W == Writers(c, Out(r, r))
  <2>1. Epi(r, r) \in W BY <1>3, PullWriters
  <2>2. CASE n = 1
    <3>1. OpEvents(c) = {}
      <4> SUFFICES ASSUME NEW e \in OpEvents(c) PROVE FALSE OBVIOUS
      <4>1. Pulls(c, e, Along(n, e[2], 1), Along(n, e[2], e[3] + 1)) BY PullSources
      <4>2. e[3] \in 1..(n - 1) BY <4>1 DEF Pulls
      <4> QED BY <4>2, <2>2
    <3>2. W = {Epi(r, r)} BY <1>3, <2>1, <3>1, PullWriters
    <3>3. Part(parts, Epi(r, r)) = {r} BY DEF Part, Epi
    <3>4. Members(c) = {r} BY <1>1, <2>2
    <3> QED BY <3>2, <3>3, <3>4 DEF Completes
  <2>3. CASE n # 1
    <3> DEFINE e == <<"op", r, n - 1>>
    <3>1. n - 1 \in 1..(n - 1) /\ (n - 1) + 1 = n BY <1>1, <2>3
    <3>2. e \in OpEvents(c) /\ e[1] = "op" /\ e[2] = r /\ e[3] = n - 1
      BY <3>1, <1>3, OpNames DEF PullOps
    <3>3. Circular(n, r) BY <1>1, <1>3, AlongFacts
    <3>4. Along(n, r, e[3] + 1) = r BY <3>1, <3>2, <3>3 DEF Circular
    <3>5. W = {Epi(r, r), e}
      <4>1. Pulls(c, e, Along(n, e[2], 1), r) BY <3>2, <3>4, PullSources
      <4> QED BY <4>1, <3>2 DEF Pulls
    <3>6. before[e] = {Epi(r, r), IF e[3] = 1 THEN Epi(Along(n, r, 1), r)
                                  ELSE <<"op", Along(n, r, 1), e[3] - 1>>}
      BY <3>2, <3>4 DEF PullBefore
    <3>7. parts[e] = From(n, r, n) BY <3>1, <3>2 DEF PullParts
    <3>8. From(n, r, n) = Members(c)
      <4>1. Growing(n, r) BY <1>1, <1>3, FromFacts
      <4> QED BY <4>1, <1>1 DEF Growing
    <3>9. W \ {e} \subseteq Past(before, e) BY <3>2, <3>5, <3>6 DEF Past
    <3>10. Part(parts, e) = Members(c) BY <3>2, <3>7, <3>8 DEF Part
    <3> HIDE DEF e
    <3>11. e \in W BY <3>5
    <3> QED BY <3>9, <3>10, <3>11 DEF Completes
  <2> QED BY <2>2, <2>3
<1>4. /\ before \in [OpEvents(c) -> SUBSET Events(c)]
      /\ parts \in [OpEvents(c) -> SUBSET Members(c)]
  <2>1. /\ before = [e \in OpEvents(c) |-> before[e]] /\ parts = [e \in OpEvents(c) |-> parts[e]]
    BY DEF PullBefore, PullParts
  <2> HIDE DEF before, parts
  <2> QED BY <2>1, <1>2
<1> HIDE DEF before, parts
<1> QED BY <1>2, <1>3, <1>4 DEF Certified, before, parts

\* The operations have a certificate.
LEMMA PullIsOrdered ==
    ASSUME NEW c, Sound(c), PullOps(c)
    PROVE  Ordered(c)
<1>1. Certified(c, PullBefore(c), PullParts(c)) BY PullCertified
<1>2. /\ PullBefore(c) \in [OpEvents(c) -> SUBSET Events(c)]
      /\ PullParts(c) \in [OpEvents(c) -> SUBSET Members(c)]
  BY <1>1 DEF Certified
<1> QED BY <1>1, <1>2 DEF Ordered

-----------------------------------------------------------------------------
(* The rings that push. *)

\* Operation i of rank r concerns this segment.  What r hands on it has from the next rank.
PushOps(c) ==
    \A r \in Members(c) :
        /\ Len(c.ops[r]) = c.world
        /\ \A i \in 1..c.world :
            LET q == Along(c.world, r, c.world - 1)
                s == Along(c.world, r, i)
                o == c.ops[r][i]
            IN  /\ o.waits = {Epi(r, s)} \cup (IF i = 1 THEN {} ELSE {Red(r, s)})
                /\ \/ o.from = {Out(r, s), Buf(r, s)} /\ (i = 1 => c.fresh = {})
                   \/ o.from = {Out(r, s)} /\ i = 1
                /\ o.to = (IF i = c.world THEN Out(r, s) ELSE Buf(q, s))
                /\ o.raises \subseteq {Red(q, s)} /\ (i # c.world => Red(q, s) \in o.raises)

\* It is over with its tile of the epilogue, and with the sum of the next rank.
PushBefore(c) == [e \in OpEvents(c) |->
    {Epi(e[2], Along(c.world, e[2], e[3]))}
        \cup (IF e[3] = 1 THEN {} ELSE {<<"op", Along(c.world, e[2], 1), e[3] - 1>>})]
PushParts(c) == [e \in OpEvents(c) |-> From(c.world, e[2], e[3])]

\* What an operation is.
LEMMA PushEvents ==
    ASSUME NEW c, Sound(c), PushOps(c), NEW e \in OpEvents(c),
           NEW s, s = Along(c.world, e[2], e[3]), NEW q, q = Along(c.world, e[2], c.world - 1)
    PROVE  /\ e = <<"op", e[2], e[3]>> /\ e[1] = "op" /\ e[2] \in Members(c) /\ e[3] \in 1..c.world
           /\ e \in Events(c) /\ Target(c, e) = OpOf(c, e).to
           /\ Epi(e[2], s) \in OpOf(c, e).waits /\ (e[3] # 1 => Red(e[2], s) \in OpOf(c, e).waits)
           /\ \/ OpOf(c, e).from = {Out(e[2], s), Buf(e[2], s)} /\ (e[3] = 1 => c.fresh = {})
              \/ OpOf(c, e).from = {Out(e[2], s)} /\ e[3] = 1
           /\ OpOf(c, e).to = (IF e[3] = c.world THEN Out(e[2], s) ELSE Buf(q, s))
           /\ OpOf(c, e).raises \subseteq {Red(q, s)}
           /\ e[3] # c.world => Red(q, s) \in OpOf(c, e).raises
<1>1. /\ e = <<"op", e[2], e[3]>> /\ e[1] = "op" /\ e[2] \in Members(c) /\ e[3] \in Nat \ {0}
      /\ e \in Events(c) /\ Target(c, e) = OpOf(c, e).to /\ e[3] <= Len(c.ops[e[2]])
  BY OpFacts
<1>2. e[3] \in 1..c.world BY <1>1 DEF PushOps, Sound
<1>3. OpOf(c, e) = c.ops[e[2]][e[3]] BY DEF OpOf
<1> QED BY <1>1, <1>2, <1>3 DEF PushOps

\* The two buffers have no place in common.
LEMMA OutIsNotBuf == ASSUME NEW a, NEW b, NEW d, NEW e PROVE Out(a, b) # Buf(d, e)
  BY DEF Out, Buf

\* Who writes a segment or the place of a sum handed on, and who raises the flag of one.
LEMMA PushWriters ==
    ASSUME NEW c, Sound(c), PushOps(c), NEW p \in Members(c), NEW s \in Members(c)
    PROVE  /\ \A e \in Writers(c, Out(p, s)) :
                  e = Epi(p, s) \/ (e \in OpEvents(c) /\ e[2] = p /\ Along(c.world, p, e[3]) = s)
           /\ Epi(p, s) \in Writers(c, Out(p, s))
           /\ \A e \in Writers(c, Buf(p, s)) :
                  /\ e \in OpEvents(c) /\ e[2] = Along(c.world, p, 1)
                  /\ Along(c.world, e[2], e[3]) = s /\ e[3] # c.world
           /\ \A e \in Raisers(c, Red(p, s)) :
                  /\ e \in OpEvents(c) /\ e[2] = Along(c.world, p, 1)
                  /\ Along(c.world, e[2], e[3]) = s
<1> DEFINE n == c.world
<1>0. n \in Nat \ {0} /\ Members(c) = 0..(n - 1) BY DEF Sound, Members
<1>1. ASSUME NEW e \in OpEvents(c)
      PROVE  /\ OpOf(c, e).to = (IF e[3] = n THEN Out(e[2], Along(n, e[2], e[3]))
                                 ELSE Buf(Along(n, e[2], n - 1), Along(n, e[2], e[3])))
             /\ OpOf(c, e).raises \subseteq {Red(Along(n, e[2], n - 1), Along(n, e[2], e[3]))}
             /\ Target(c, e) = OpOf(c, e).to /\ e[2] \in Members(c)
             /\ Along(n, e[2], n - 1) = p => e[2] = Along(n, p, 1)
  <2>1. e[2] \in Members(c) BY PushEvents
  <2>2. Along(n, e[2], n - 1) = p => e[2] = Along(n, p, 1) BY <1>0, <2>1, BeforeFacts
  <2> QED BY <2>1, <2>2, PushEvents
<1>2. ASSUME NEW e \in Writers(c, Out(p, s))
      PROVE  e = Epi(p, s) \/ (e \in OpEvents(c) /\ e[2] = p /\ Along(n, p, e[3]) = s)
  <2>1. e \in Events(c) /\ Target(c, e) = Out(p, s) BY DEF Writers
  <2>2. CASE e \in OpEvents(c)
    <3>1. Out(p, s) = Out(e[2], Along(n, e[2], e[3])) BY <2>1, <2>2, <1>1, OutIsNotBuf
    <3> QED BY <3>1, <2>2 DEF Out
  <2>3. CASE e \in EpiEvents(c)
    <3>1. e = <<"epilogue", e[2], e[3]>> /\ Out(p, s) = <<"out", e[2], e[3]>> BY <2>1, <2>3, EpiFacts
    <3>2. e[2] = p /\ e[3] = s BY <3>1 DEF Out
    <3> QED BY <3>1, <3>2 DEF Epi
  <2> QED BY <2>1, <2>2, <2>3, EventKinds
<1>3. Epi(p, s) \in Writers(c, Out(p, s))
  <2>1. Epi(p, s) \in EpiEvents(c) /\ Epi(p, s) \in Events(c) BY EpiNames, EpiFacts DEF Epi
  <2>2. Target(c, Epi(p, s)) = Out(p, s) BY DEF Target, Epi, Out
  <2> QED BY <2>1, <2>2 DEF Writers
<1>4. ASSUME NEW e \in Writers(c, Buf(p, s))
      PROVE  /\ e \in OpEvents(c) /\ e[2] = Along(n, p, 1)
             /\ Along(n, e[2], e[3]) = s /\ e[3] # n
  <2>1. e \in Events(c) /\ Target(c, e) = Buf(p, s) BY DEF Writers
  <2>2. e \notin EpiEvents(c)
    <3> SUFFICES ASSUME e \in EpiEvents(c) PROVE FALSE OBVIOUS
    <3>1. Buf(p, s) = <<"out", e[2], e[3]>> BY <2>1, EpiFacts
    <3> QED BY <3>1 DEF Buf
  <2>3. e \in OpEvents(c) BY <2>1, <2>2, EventKinds
  <2>4. e[3] # n /\ Buf(p, s) = Buf(Along(n, e[2], n - 1), Along(n, e[2], e[3]))
    BY <2>1, <2>3, <1>1, OutIsNotBuf
  <2>5. Along(n, e[2], n - 1) = p /\ Along(n, e[2], e[3]) = s BY <2>4 DEF Buf
  <2> QED BY <2>3, <2>4, <2>5, <1>1
<1>5. ASSUME NEW e \in Raisers(c, Red(p, s))
      PROVE  /\ e \in OpEvents(c) /\ e[2] = Along(n, p, 1)
             /\ Along(n, e[2], e[3]) = s
  <2>1. e \in Events(c) /\ (e = Red(p, s) \/ (e[1] = "op" /\ Red(p, s) \in OpOf(c, e).raises))
    BY DEF Raisers
  <2>2. e # Red(p, s) BY <2>1, EventKinds DEF Red
  <2>3. e \in OpEvents(c) /\ Red(p, s) \in OpOf(c, e).raises BY <2>1, <2>2, EventKinds
  <2>4. Red(p, s) = Red(Along(n, e[2], n - 1), Along(n, e[2], e[3])) BY <2>3, <1>1
  <2>5. Along(n, e[2], n - 1) = p /\ Along(n, e[2], e[3]) = s BY <2>4 DEF Red
  <2> QED BY <2>3, <2>5, <1>1
<1> QED BY <1>2, <1>3, <1>4, <1>5

\* One operation of a rank concerns a segment.
LEMMA PushOnce ==
    ASSUME NEW c, Sound(c), PushOps(c), NEW e \in OpEvents(c), NEW d \in OpEvents(c),
           e[2] = d[2], Along(c.world, e[2], e[3]) = Along(c.world, e[2], d[3])
    PROVE  e = d
<1> DEFINE n == c.world
           r == e[2]
<1>1. /\ e = <<"op", e[2], e[3]>> /\ d = <<"op", d[2], d[3]>>
      /\ r \in Members(c) /\ e[3] \in 1..n /\ d[3] \in 1..n
  BY PushEvents
<1>2. n \in Nat \ {0} /\ r \in 0..(n - 1) BY <1>1 DEF Sound, Members
<1>3. Circular(n, r) BY <1>2, AlongFacts
<1>5. Along(n, r, e[3]) = Along(n, r, d[3]) OBVIOUS
<1> HIDE DEF n, r
<1>4. /\ e[3] \in Int /\ d[3] \in Int /\ e[3] < d[3] + n /\ d[3] < e[3] + n BY <1>1, <1>2
<1>6. \A i, j \in Int : i <= j /\ j < i + n /\ Along(n, r, i) = Along(n, r, j) => i = j
  BY <1>3 DEF Circular
<1>7. e[3] = d[3] BY <1>4, <1>5, <1>6
<1> QED BY <1>1, <1>7

\* What operation e finds of segment s, and what rank q handed it.
Pushes(c, e, q, s) ==
    /\ q \in Members(c) /\ s \in Members(c)
    /\ Writers(c, Out(e[2], s)) \subseteq {Epi(e[2], s), e}
    /\ Epi(e[2], s) \in Writers(c, Out(e[2], s))
    /\ e[3] = 1 => Writers(c, Buf(e[2], s)) = {}
    /\ e[3] # 1 => /\ <<"op", q, e[3] - 1>> \in OpEvents(c)
                   /\ Along(c.world, q, e[3] - 1) = s
                   /\ Writers(c, Buf(e[2], s)) = {<<"op", q, e[3] - 1>>}
                   /\ Raisers(c, Red(e[2], s)) = {<<"op", q, e[3] - 1>>}

\* So it is.
LEMMA PushSources ==
    ASSUME NEW c, Sound(c), PushOps(c), NEW e \in OpEvents(c),
           NEW q, q = Along(c.world, e[2], 1), NEW s, s = Along(c.world, e[2], e[3])
    PROVE  Pushes(c, e, q, s)
<1> DEFINE n == c.world
           r == e[2]
           i == e[3]
<1>1. e = <<"op", r, i>> /\ r \in Members(c) /\ i \in 1..n /\ e \in Events(c)
  BY PushEvents
<1>2. n \in Nat \ {0} /\ Members(c) = 0..(n - 1) BY DEF Sound, Members
<1>3. Circular(n, r) BY <1>1, <1>2, AlongFacts
<1>4. q \in Members(c) /\ s \in Members(c)
  <2>1. i \in Int /\ 1 \in Int BY <1>1, <1>2
  <2>2. \A j \in Int : Along(n, r, j) \in 0..(n - 1) BY <1>3 DEF Circular
  <2>3. q = Along(n, r, 1) /\ s = Along(n, r, i) OBVIOUS
  <2> QED BY <2>1, <2>2, <2>3, <1>2
<1>5. Circular(n, q) BY <1>2, <1>4, AlongFacts
<1>6. \A j \in Int : Along(n, q, j) = Along(n, r, 1 + j) BY <1>3 DEF Circular
<1>7. Along(n, q, n - 1) = r BY <1>1, <1>2, BeforeFacts
<1>8. /\ Writers(c, Out(r, s)) \subseteq {Epi(r, s), e}
      /\ Epi(r, s) \in Writers(c, Out(r, s))
  BY <1>1, <1>4, PushWriters, PushOnce
<1>9. ASSUME i = 1 PROVE Writers(c, Buf(r, s)) = {}
  <2> SUFFICES ASSUME NEW d \in Writers(c, Buf(r, s)) PROVE FALSE OBVIOUS
  <2>1. d \in OpEvents(c) /\ d[2] = q /\ Along(n, q, d[3]) = s /\ d[3] # n
    BY <1>1, <1>4, PushWriters
  <2>2. d[3] \in 1..n BY <2>1, PushEvents
  <2>3. Along(n, q, n) = s BY <1>5, <1>9 DEF Circular
  <2>4. \A j, k \in Int : j <= k /\ k < j + n /\ Along(n, q, j) = Along(n, q, k) => j = k
    BY <1>5 DEF Circular
  <2>5. d[3] \in Int /\ n \in Int /\ d[3] <= n /\ n < d[3] + n BY <2>2, <1>2
  <2>6. d[3] = n BY <2>1, <2>3, <2>4, <2>5
  <2> QED BY <2>1, <2>6
<1>10. ASSUME i # 1
       PROVE  /\ <<"op", q, i - 1>> \in OpEvents(c) /\ Along(n, q, i - 1) = s
              /\ Writers(c, Buf(r, s)) = {<<"op", q, i - 1>>}
              /\ Raisers(c, Red(r, s)) = {<<"op", q, i - 1>>}
  <2> DEFINE x == <<"op", q, i - 1>>
  <2>1. i - 1 \in 1..n /\ i - 1 # n /\ 1 + (i - 1) = i BY <1>1, <1>2, <1>10
  <2>2. Len(c.ops[q]) = n BY <1>4 DEF PushOps
  <2>3. x \in OpEvents(c) /\ x[1] = "op" /\ x[2] = q /\ x[3] = i - 1 BY <2>1, <2>2, <1>4, OpNames
  <2>4. Along(n, q, i - 1) = s BY <2>1, <1>2, <1>6
  <2> HIDE DEF x
  <2>5. /\ OpOf(c, x).to = Buf(r, s) /\ Red(r, s) \in OpOf(c, x).raises
        /\ x \in Events(c) /\ Target(c, x) = OpOf(c, x).to
    BY <2>1, <2>3, <2>4, <1>7, PushEvents
  <2>6. x \in Writers(c, Buf(r, s)) /\ x \in Raisers(c, Red(r, s))
    BY <2>3, <2>5 DEF Writers, Raisers
  <2>7. ASSUME NEW d \in OpEvents(c), d[2] = q, Along(n, q, d[3]) = s PROVE d = x
    <3>1. d[2] = x[2] /\ Along(n, d[2], d[3]) = Along(n, d[2], x[3]) BY <2>3, <2>4, <2>7
    <3> QED BY <3>1, <2>3, PushOnce
  <2>8. \A d \in Writers(c, Buf(r, s)) : d = x BY <2>7, <1>1, <1>4, PushWriters
  <2>9. \A d \in Raisers(c, Red(r, s)) : d = x BY <2>7, <1>1, <1>4, PushWriters
  <2> QED BY <2>3, <2>4, <2>6, <2>8, <2>9 DEF x
<1> QED BY <1>4, <1>8, <1>9, <1>10 DEF Pushes

\* The certificate of a ring that pushes.
LEMMA PushCertified ==
    ASSUME NEW c, Sound(c), PushOps(c)
    PROVE  Certified(c, PushBefore(c), PushParts(c))
<1> DEFINE n == c.world
           before == PushBefore(c)
           parts == PushParts(c)
<1>1. n \in Nat \ {0} /\ Members(c) = 0..(n - 1) BY DEF Sound, Members
<1>2. ASSUME NEW e \in OpEvents(c)
      PROVE  /\ before[e] \in SUBSET Events(c) /\ parts[e] \in SUBSET Members(c)
             /\ before[e] \subseteq Over(c, before, e) /\ Adds(c, before, parts, e)
  <2> DEFINE r == e[2]
             i == e[3]
             q == Along(n, r, 1)
             s == Along(n, r, i)
             x == <<"op", q, i - 1>>
             X == IF i = 1 THEN {} ELSE {x}
             K == IF i = 1 THEN {} ELSE From(n, q, i - 1)
             a == Out(r, s)
             b == Buf(r, s)
             o == OpOf(c, e)
  <2>1. Pushes(c, e, q, s) BY PushSources
  <2>2. /\ r \in Members(c) /\ i \in 1..n /\ e[1] = "op"
        /\ Epi(r, s) \in o.waits /\ (i # 1 => Red(r, s) \in o.waits)
        /\ (o.from = {a, b} /\ (i = 1 => c.fresh = {})) \/ (o.from = {a} /\ i = 1)
    BY PushEvents
  <2>3. /\ q \in Members(c) /\ s \in Members(c)
        /\ Writers(c, a) \subseteq {Epi(r, s), e} /\ Epi(r, s) \in Writers(c, a)
        /\ i = 1 => Writers(c, b) = {}
        /\ i # 1 => x \in OpEvents(c) /\ Writers(c, b) = {x} /\ Raisers(c, Red(r, s)) = {x}
    BY <2>1 DEF Pushes
  <2>4. before[e] = {Epi(r, s)} \cup X BY DEF PushBefore
  <2>5. parts[e] = From(n, r, i) BY DEF PushParts
  <2>6. Raisers(c, Epi(r, s)) = {Epi(r, s)} /\ Epi(r, s) \in Events(c)
    BY <2>2, <2>3, EpilogueRaises
  <2>7. a # b /\ b[1] = "red" BY DEF Out, Buf
  <2>8. Epi(r, s)[1] = "epilogue" /\ Epi(r, s)[2] = r /\ x[1] = "op" /\ x[2] = q /\ x[3] = i - 1
    BY DEF Epi
  <2>9. x \in OpEvents(c) => x \in Events(c) BY PushEvents
  <2>10. i # 1 => PushParts(c)[x] = From(n, q, i - 1) BY <2>3, <2>8 DEF PushParts
  <2>11. i \in Nat \ {0} /\ i - 1 \in Nat /\ i - 1 < n /\ i # i - 1 /\ (i - 1) + 1 = i
    BY <1>1, <2>2
  <2>12. /\ From(n, r, i) \subseteq Members(c)
         /\ From(n, r, i) = {r} \cup K /\ r \notin K
    <3>1. Growing(n, r) BY <1>1, <2>2, FromFacts
    <3>2. CASE i = 1
      <4>1. K = {} BY <3>2
      <4> QED BY <4>1, <3>1, <3>2, <1>1 DEF Growing
    <3>3. CASE i # 1
      <4>1. i - 1 \in Nat \ {0} BY <2>11, <3>3
      <4>2. K = From(n, q, i - 1) BY <3>3
      <4>3. From(n, r, (i - 1) + 1) = {r} \cup From(n, q, i - 1) BY <3>1, <4>1 DEF Growing
      <4>4. r \notin From(n, q, i - 1) BY <3>1, <2>11 DEF Growing
      <4>5. From(n, r, i) \subseteq 0..(n - 1) BY <3>1, <2>11 DEF Growing
      <4> QED BY <4>2, <4>3, <4>4, <4>5, <2>11, <1>1
    <3> QED BY <3>2, <3>3
  <2>13. X = (IF i = 1 THEN {} ELSE {x}) /\ K = (IF i = 1 THEN {} ELSE From(n, q, i - 1))
    OBVIOUS
  <2>14. e[3] = i OBVIOUS
  <2> HIDE DEF n, before, parts, r, i, q, s, x, X, K, a, b, o
  <2>15. before[e] \in SUBSET Events(c) BY <2>3, <2>4, <2>6, <2>9, <2>13
  <2>16. parts[e] \in SUBSET Members(c) BY <2>5, <2>12
  <2>17. before[e] \subseteq Over(c, before, e)
    <3>1. Epi(r, s) \in Over(c, before, e) BY <2>2, <2>6, OverByFlag DEF o
    <3>2. i # 1 => x \in Over(c, before, e) BY <2>2, <2>3, OverByFlag DEF o
    <3> QED BY <3>1, <3>2, <2>4, <2>13
  <2>18. e \notin before[e]
    <3>1. e # Epi(r, s) BY <2>2, <2>8
    <3>2. e # x BY <2>8, <2>11, <2>14
    <3> QED BY <3>1, <3>2, <2>4, <2>13
  <2>19. /\ IsSource(Writers(c, a), before, e, Epi(r, s))
         /\ Found(c, before, parts, e, a) = {r}
    <3>1. IsSource(Writers(c, a), before, e, Epi(r, s)) BY <2>3, <2>4 DEF IsSource
    <3>2. \A v \in Writers(c, a) : v \in before[e] => v = Epi(r, s) BY <2>3, <2>18
    <3>3. Found(c, before, parts, e, a) = Part(parts, Epi(r, s))
      BY <3>1, <3>2, <2>3, FoundIs
    <3>4. Part(parts, Epi(r, s)) = {r} BY <2>8 DEF Part
    <3> QED BY <3>1, <3>3, <3>4
  <2>20. i = 1 => Found(c, before, parts, e, b) = K BY <2>3, <2>13 DEF Found
  <2>21. i # 1 => /\ IsSource(Writers(c, b), before, e, x)
                  /\ Found(c, before, parts, e, b) = K
    <3> SUFFICES ASSUME i # 1 PROVE /\ IsSource(Writers(c, b), before, e, x)
                                    /\ Found(c, before, parts, e, b) = K
      OBVIOUS
    <3>1. IsSource(Writers(c, b), before, e, x) BY <2>3, <2>4, <2>13 DEF IsSource
    <3>2. Found(c, before, parts, e, b) = Part(parts, x) BY <3>1, <2>3, FoundIs
    <3>3. Part(parts, x) = K BY <2>8, <2>10, <2>13 DEF Part, parts
    <3> QED BY <3>1, <3>2, <3>3
  <2>22. Adds(c, before, parts, e)
    <3> DEFINE F(p) == Found(c, before, parts, e, p)
    <3>1. F(a) = {r} /\ F(b) = K BY <2>19, <2>20, <2>21
    <3>2. ASSUME NEW p \in o.from
          PROVE  IF Writers(c, p) = {} THEN p[1] = "red" /\ c.fresh = {}
                 ELSE \E v \in Writers(c, p) : IsSource(Writers(c, p), before, e, v)
      <4>1. p = a \/ (p = b /\ (i = 1 => c.fresh = {})) BY <2>2
      <4>2. Writers(c, a) # {} BY <2>3
      <4>3. CASE p = a BY <4>2, <4>3, <2>3, <2>19
      <4>4. CASE p = b /\ i = 1 BY <4>1, <4>4, <2>2, <2>3, <2>7
      <4>5. CASE p = b /\ i # 1
        <5>1. x \in Writers(c, b) /\ IsSource(Writers(c, b), before, e, x)
          BY <4>5, <2>3, <2>21
        <5>2. Writers(c, b) # {} BY <5>1
        <5> QED BY <4>5, <5>1, <5>2
      <4> QED BY <4>1, <4>3, <4>4, <4>5
    <3> HIDE DEF F
    <3>3. \A p, p1 \in o.from : p = p1 \/ F(p) \cap F(p1) = {}
      BY <3>1, <2>2, <2>12
    <3>4. UNION {F(p) : p \in o.from} = {r} \cup K
      <4>1. CASE o.from = {a, b} BY <4>1, <3>1
      <4>2. CASE o.from = {a} /\ i = 1
        <5>1. K = {} BY <4>2, <2>13
        <5> QED BY <4>2, <5>1, <3>1
      <4> QED BY <4>1, <4>2, <2>2
    <3>5. parts[e] = UNION {F(p) : p \in o.from} BY <3>4, <2>5, <2>12
    <3> QED BY <3>2, <3>3, <3>5 DEF Adds, F, o
  <2> QED BY <2>15, <2>16, <2>17, <2>22
<1>3. ASSUME NEW r \in Members(c) PROVE Completes(c, before, parts, r)
  <2> DEFINE W == Writers(c, Out(r, r))
             e == <<"op", r, n>>
  <2>1. n \in 1..n BY <1>1
  <2>2. e \in OpEvents(c) /\ e[1] = "op" /\ e[2] = r /\ e[3] = n
    BY <2>1, <1>3, OpNames DEF PushOps
  <2>3. Circular(n, r) BY <1>1, <1>3, AlongFacts
  <2>4. Along(n, e[2], e[3]) = r BY <2>2, <2>3 DEF Circular
  <2>5. Pushes(c, e, Along(n, e[2], 1), r) BY <2>2, <2>4, PushSources
  <2>6. W \subseteq {Epi(r, r), e} BY <2>2, <2>5 DEF Pushes
  <2>7. Epi(r, r) \in before[e] BY <2>2, <2>4 DEF PushBefore
  <2>8. parts[e] = From(n, r, n) BY <2>2 DEF PushParts
  <2>9. From(n, r, n) = Members(c)
    <3>1. Growing(n, r) BY <1>1, <1>3, FromFacts
    <3> QED BY <3>1, <1>1 DEF Growing
  <2>10. e \in W
    <3>1. /\ OpOf(c, e).to = (IF e[3] = n THEN Out(e[2], r) ELSE Buf(Along(n, e[2], n - 1), r))
          /\ Target(c, e) = OpOf(c, e).to /\ e \in Events(c)
      BY <2>2, <2>4, PushEvents
    <3> QED BY <3>1, <2>2 DEF Writers
  <2>11. Past(before, e) = before[e] BY <2>2 DEF Past
  <2>12. Part(parts, e) = Members(c) BY <2>2, <2>8, <2>9 DEF Part
  <2> HIDE DEF e, W
  <2>13. W \ {e} \subseteq Past(before, e) BY <2>6, <2>7, <2>11
  <2> QED BY <2>10, <2>12, <2>13 DEF Completes, W
<1>4. /\ before \in [OpEvents(c) -> SUBSET Events(c)]
      /\ parts \in [OpEvents(c) -> SUBSET Members(c)]
  <2>1. /\ before = [e \in OpEvents(c) |-> before[e]] /\ parts = [e \in OpEvents(c) |-> parts[e]]
    BY DEF PushBefore, PushParts
  <2> HIDE DEF before, parts
  <2> QED BY <2>1, <1>2
<1> HIDE DEF before, parts
<1> QED BY <1>2, <1>3, <1>4 DEF Certified, before, parts

\* The operations have a certificate.
LEMMA PushIsOrdered ==
    ASSUME NEW c, Sound(c), PushOps(c)
    PROVE  Ordered(c)
<1>1. Certified(c, PushBefore(c), PushParts(c)) BY PushCertified
<1>2. /\ PushBefore(c) \in [OpEvents(c) -> SUBSET Events(c)]
      /\ PushParts(c) \in [OpEvents(c) -> SUBSET Members(c)]
  BY <1>1 DEF Certified
<1> QED BY <1>1, <1>2 DEF Ordered

-----------------------------------------------------------------------------
(* The ring of additions and copies. *)

\* Operation j of a rank concerns the segment of its round.
Round(j) == j \div 2 + 1

\* The even ones add what the next rank copied here, the odd ones copy the sum.
CopyOps(c) ==
    \A r \in Members(c) :
        /\ Len(c.ops[r]) = 2 * (c.world - 1)
        /\ \A j \in 1..(2 * (c.world - 1)) :
            LET q == Along(c.world, r, c.world - 1)
                s == Along(c.world, r, Round(j))
            IN  c.ops[r][j] =
                    IF j % 2 = 0
                    THEN Op({Epi(r, s), Red(r, s)}, {Out(r, s), Buf(r, s)}, Out(r, s), {})
                    ELSE Op({Epi(r, s)}, {Out(r, s)}, Buf(q, s), {Red(q, s)})

\* An addition is over with its tile of the epilogue and the copy of the next rank, a copy
\* with the addition before it, the first with its tile.
CopyBefore(c) == [e \in OpEvents(c) |->
    IF e[3] % 2 = 0
    THEN {Epi(e[2], Along(c.world, e[2], Round(e[3]))),
          <<"op", Along(c.world, e[2], 1), e[3] - 1>>}
    ELSE IF e[3] = 1 THEN {Epi(e[2], Along(c.world, e[2], 1))} ELSE {<<"op", e[2], e[3] - 1>>}]
CopyParts(c) == [e \in OpEvents(c) |-> From(c.world, e[2], Round(e[3]))]

\* Rounds of even and odd operations.
LEMMA RoundFacts ==
    ASSUME NEW n \in Nat \ {0}, NEW j \in 1..(2 * (n - 1))
    PROVE  /\ Round(j) \in 1..n /\ (Round(j) = 1 <=> j = 1) /\ j % 2 \in {0, 1}
           /\ j % 2 = 0 => /\ j = 2 * (Round(j) - 1) /\ j - 1 \in 1..(2 * (n - 1))
                           /\ (j - 1) % 2 # 0 /\ Round(j - 1) = Round(j) - 1
           /\ j % 2 # 0 => /\ j = 2 * (Round(j) - 1) + 1 /\ Round(j) < n
                           /\ (j # 1 => /\ j - 1 \in 1..(2 * (n - 1))
                                        /\ (j - 1) % 2 = 0 /\ Round(j - 1) = Round(j))
  BY DEF Round

\* What an operation is.
LEMMA CopyEvents ==
    ASSUME NEW c, Sound(c), CopyOps(c), NEW e \in OpEvents(c),
           NEW s, s = Along(c.world, e[2], Round(e[3])), NEW q, q = Along(c.world, e[2], c.world - 1)
    PROVE  /\ e = <<"op", e[2], e[3]>> /\ e[1] = "op" /\ e[2] \in Members(c)
           /\ e[3] \in 1..(2 * (c.world - 1)) /\ e \in Events(c) /\ Target(c, e) = OpOf(c, e).to
           /\ e[3] % 2 = 0 =>
                /\ OpOf(c, e).waits = {Epi(e[2], s), Red(e[2], s)}
                /\ OpOf(c, e).from = {Out(e[2], s), Buf(e[2], s)}
                /\ OpOf(c, e).to = Out(e[2], s) /\ OpOf(c, e).raises = {}
           /\ e[3] % 2 # 0 =>
                /\ OpOf(c, e).waits = {Epi(e[2], s)} /\ OpOf(c, e).from = {Out(e[2], s)}
                /\ OpOf(c, e).to = Buf(q, s) /\ OpOf(c, e).raises = {Red(q, s)}
<1>1. /\ e = <<"op", e[2], e[3]>> /\ e[1] = "op" /\ e[2] \in Members(c) /\ e[3] \in Nat \ {0}
      /\ e \in Events(c) /\ Target(c, e) = OpOf(c, e).to /\ e[3] <= Len(c.ops[e[2]])
  BY OpFacts
<1>2. e[3] \in 1..(2 * (c.world - 1)) BY <1>1 DEF CopyOps, Sound
<1>3. OpOf(c, e) = IF e[3] % 2 = 0
                   THEN Op({Epi(e[2], s), Red(e[2], s)}, {Out(e[2], s), Buf(e[2], s)}, Out(e[2], s), {})
                   ELSE Op({Epi(e[2], s)}, {Out(e[2], s)}, Buf(q, s), {Red(q, s)})
  BY <1>1, <1>2 DEF CopyOps, OpOf
<1> QED BY <1>1, <1>2, <1>3 DEF Op

\* Who writes a segment or the place of a copy, and who raises the flag of one.
LEMMA CopyWriters ==
    ASSUME NEW c, Sound(c), CopyOps(c), NEW p \in Members(c), NEW s \in Members(c)
    PROVE  /\ \A e \in Writers(c, Out(p, s)) :
                  \/ e = Epi(p, s)
                  \/ /\ e \in OpEvents(c) /\ e[2] = p /\ e[3] % 2 = 0
                     /\ Along(c.world, p, Round(e[3])) = s
           /\ Epi(p, s) \in Writers(c, Out(p, s))
           /\ \A e \in Writers(c, Buf(p, s)) :
                  /\ e \in OpEvents(c) /\ e[2] = Along(c.world, p, 1)
                  /\ Along(c.world, e[2], Round(e[3])) = s /\ e[3] % 2 # 0
           /\ \A e \in Raisers(c, Red(p, s)) :
                  /\ e \in OpEvents(c) /\ e[2] = Along(c.world, p, 1)
                  /\ Along(c.world, e[2], Round(e[3])) = s /\ e[3] % 2 # 0
<1> DEFINE n == c.world
<1>0. n \in Nat \ {0} /\ Members(c) = 0..(n - 1) BY DEF Sound, Members
<1>1. ASSUME NEW e \in OpEvents(c)
      PROVE  /\ OpOf(c, e).to = (IF e[3] % 2 = 0 THEN Out(e[2], Along(n, e[2], Round(e[3])))
                                 ELSE Buf(Along(n, e[2], n - 1), Along(n, e[2], Round(e[3]))))
             /\ OpOf(c, e).raises \subseteq {Red(Along(n, e[2], n - 1), Along(n, e[2], Round(e[3])))}
             /\ e[3] % 2 = 0 => OpOf(c, e).raises = {}
             /\ Target(c, e) = OpOf(c, e).to /\ e[2] \in Members(c)
             /\ Along(n, e[2], n - 1) = p => e[2] = Along(n, p, 1)
  <2>1. e[2] \in Members(c) BY CopyEvents
  <2>2. Along(n, e[2], n - 1) = p => e[2] = Along(n, p, 1) BY <1>0, <2>1, BeforeFacts
  <2> QED BY <2>1, <2>2, CopyEvents
<1>2. ASSUME NEW e \in Writers(c, Out(p, s))
      PROVE  \/ e = Epi(p, s)
             \/ /\ e \in OpEvents(c) /\ e[2] = p /\ e[3] % 2 = 0
                /\ Along(n, p, Round(e[3])) = s
  <2>1. e \in Events(c) /\ Target(c, e) = Out(p, s) BY DEF Writers
  <2>2. CASE e \in OpEvents(c)
    <3>1. e[3] % 2 = 0 /\ Out(p, s) = Out(e[2], Along(n, e[2], Round(e[3])))
      BY <2>1, <2>2, <1>1, OutIsNotBuf
    <3> QED BY <3>1, <2>2 DEF Out
  <2>3. CASE e \in EpiEvents(c)
    <3>1. e = <<"epilogue", e[2], e[3]>> /\ Out(p, s) = <<"out", e[2], e[3]>> BY <2>1, <2>3, EpiFacts
    <3>2. e[2] = p /\ e[3] = s BY <3>1 DEF Out
    <3> QED BY <3>1, <3>2 DEF Epi
  <2> QED BY <2>1, <2>2, <2>3, EventKinds
<1>3. Epi(p, s) \in Writers(c, Out(p, s))
  <2>1. Epi(p, s) \in EpiEvents(c) /\ Epi(p, s) \in Events(c) BY EpiNames, EpiFacts DEF Epi
  <2>2. Target(c, Epi(p, s)) = Out(p, s) BY DEF Target, Epi, Out
  <2> QED BY <2>1, <2>2 DEF Writers
<1>4. ASSUME NEW e \in Writers(c, Buf(p, s))
      PROVE  /\ e \in OpEvents(c) /\ e[2] = Along(n, p, 1)
             /\ Along(n, e[2], Round(e[3])) = s /\ e[3] % 2 # 0
  <2>1. e \in Events(c) /\ Target(c, e) = Buf(p, s) BY DEF Writers
  <2>2. e \notin EpiEvents(c)
    <3> SUFFICES ASSUME e \in EpiEvents(c) PROVE FALSE OBVIOUS
    <3>1. Buf(p, s) = <<"out", e[2], e[3]>> BY <2>1, EpiFacts
    <3> QED BY <3>1 DEF Buf
  <2>3. e \in OpEvents(c) BY <2>1, <2>2, EventKinds
  <2>4. e[3] % 2 # 0 /\ Buf(p, s) = Buf(Along(n, e[2], n - 1), Along(n, e[2], Round(e[3])))
    BY <2>1, <2>3, <1>1, OutIsNotBuf
  <2>5. Along(n, e[2], n - 1) = p /\ Along(n, e[2], Round(e[3])) = s BY <2>4 DEF Buf
  <2> QED BY <2>3, <2>4, <2>5, <1>1
<1>5. ASSUME NEW e \in Raisers(c, Red(p, s))
      PROVE  /\ e \in OpEvents(c) /\ e[2] = Along(n, p, 1)
             /\ Along(n, e[2], Round(e[3])) = s /\ e[3] % 2 # 0
  <2>1. e \in Events(c) /\ (e = Red(p, s) \/ (e[1] = "op" /\ Red(p, s) \in OpOf(c, e).raises))
    BY DEF Raisers
  <2>2. e # Red(p, s) BY <2>1, EventKinds DEF Red
  <2>3. e \in OpEvents(c) /\ Red(p, s) \in OpOf(c, e).raises BY <2>1, <2>2, EventKinds
  <2>4. e[3] % 2 # 0 /\ Red(p, s) = Red(Along(n, e[2], n - 1), Along(n, e[2], Round(e[3])))
    BY <2>3, <1>1
  <2>5. Along(n, e[2], n - 1) = p /\ Along(n, e[2], Round(e[3])) = s BY <2>4 DEF Red
  <2> QED BY <2>3, <2>4, <2>5, <1>1
<1> QED BY <1>2, <1>3, <1>4, <1>5

\* One addition and one copy of a rank concern a segment.
LEMMA CopyOnce ==
    ASSUME NEW c, Sound(c), CopyOps(c), NEW e \in OpEvents(c), NEW d \in OpEvents(c),
           e[2] = d[2], Along(c.world, e[2], Round(e[3])) = Along(c.world, e[2], Round(d[3])),
           e[3] % 2 = 0 <=> d[3] % 2 = 0
    PROVE  e = d
<1> DEFINE n == c.world
           r == e[2]
           i == Round(e[3])
           j == Round(d[3])
<1>1. /\ e = <<"op", e[2], e[3]>> /\ d = <<"op", d[2], d[3]>>
      /\ r \in Members(c) /\ e[3] \in 1..(2 * (n - 1)) /\ d[3] \in 1..(2 * (n - 1))
  BY CopyEvents
<1>2. n \in Nat \ {0} /\ r \in 0..(n - 1) BY <1>1 DEF Sound, Members
<1>3. Circular(n, r) BY <1>2, AlongFacts
<1>4. Along(n, r, i) = Along(n, r, j) OBVIOUS
<1>5. i \in 1..n /\ j \in 1..n BY <1>1, <1>2, RoundFacts
<1> HIDE DEF n, r, i, j
<1>6. i \in Int /\ j \in Int /\ i < j + n /\ j < i + n BY <1>2, <1>5
<1>7. \A k, l \in Int : k <= l /\ l < k + n /\ Along(n, r, k) = Along(n, r, l) => k = l
  BY <1>3 DEF Circular
<1>8. i = j BY <1>4, <1>6, <1>7
<1>9. e[3] = d[3]
  <2>1. CASE e[3] % 2 = 0
    <3>1. e[3] = 2 * (i - 1) /\ d[3] = 2 * (j - 1) BY <1>1, <1>2, <2>1, RoundFacts DEF i, j
    <3> QED BY <3>1, <1>8
  <2>2. CASE e[3] % 2 # 0
    <3>1. e[3] = 2 * (i - 1) + 1 /\ d[3] = 2 * (j - 1) + 1
      BY <1>1, <1>2, <2>2, RoundFacts DEF i, j
    <3> QED BY <3>1, <1>8
  <2> QED BY <2>1, <2>2
<1> QED BY <1>1, <1>9

\* What addition e finds of segment s, and what rank q copied here.
CopyAdds(c, e, q, s) ==
    /\ q \in Members(c) /\ s \in Members(c)
    /\ Writers(c, Out(e[2], s)) = {Epi(e[2], s), e}
    /\ <<"op", q, e[3] - 1>> \in OpEvents(c)
    /\ Round(e[3] - 1) = Round(e[3]) - 1 /\ Round(e[3]) - 1 \in Nat \ {0}
    /\ Round(e[3]) - 1 < c.world
    /\ Writers(c, Buf(e[2], s)) = {<<"op", q, e[3] - 1>>}
    /\ Raisers(c, Red(e[2], s)) = {<<"op", q, e[3] - 1>>}

\* So it is.
LEMMA CopyAddsSources ==
    ASSUME NEW c, Sound(c), CopyOps(c), NEW e \in OpEvents(c), e[3] % 2 = 0,
           NEW q, q = Along(c.world, e[2], 1), NEW s, s = Along(c.world, e[2], Round(e[3]))
    PROVE  CopyAdds(c, e, q, s)
<1> DEFINE n == c.world
           r == e[2]
           j == e[3]
           i == Round(j)
           x == <<"op", q, j - 1>>
<1>1. /\ e = <<"op", r, j>> /\ r \in Members(c) /\ j \in 1..(2 * (n - 1)) /\ e \in Events(c)
      /\ Target(c, e) = OpOf(c, e).to /\ OpOf(c, e).to = Out(r, s)
  BY CopyEvents
<1>2. n \in Nat \ {0} /\ Members(c) = 0..(n - 1) BY DEF Sound, Members
<1>3. Circular(n, r) BY <1>1, <1>2, AlongFacts
<1>4. /\ i \in 1..n /\ j - 1 \in 1..(2 * (n - 1)) /\ (j - 1) % 2 # 0
      /\ Round(j - 1) = i - 1 /\ i # 1 /\ j # 1
  <2>1. 1 % 2 = 1 OBVIOUS
  <2> QED BY <2>1, <1>1, <1>2, RoundFacts
<1>5. q \in Members(c) /\ s \in Members(c)
  <2>1. i \in Int /\ 1 \in Int BY <1>4, <1>2
  <2>2. \A k \in Int : Along(n, r, k) \in 0..(n - 1) BY <1>3 DEF Circular
  <2>3. q = Along(n, r, 1) /\ s = Along(n, r, i) OBVIOUS
  <2> HIDE DEF i
  <2> QED BY <2>1, <2>2, <2>3, <1>2
<1>6. Along(n, q, n - 1) = r BY <1>1, <1>2, BeforeFacts
<1>7. Along(n, q, i - 1) = s
  <2>1. i - 1 \in Int /\ 1 \in Int /\ 1 + (i - 1) = i BY <1>4, <1>2
  <2>2. \A k, l \in Int : Along(n, Along(n, r, k), l) = Along(n, r, k + l) BY <1>3 DEF Circular
  <2>3. q = Along(n, r, 1) /\ s = Along(n, r, i) OBVIOUS
  <2> HIDE DEF i
  <2> QED BY <2>1, <2>2, <2>3
<1>8. Len(c.ops[q]) = 2 * (n - 1) BY <1>5 DEF CopyOps
<1>9. x \in OpEvents(c) /\ x[1] = "op" /\ x[2] = q /\ x[3] = j - 1
  BY <1>4, <1>5, <1>8, OpNames
<1> HIDE DEF x
<1>10. /\ OpOf(c, x).to = Buf(r, s) /\ OpOf(c, x).raises = {Red(r, s)}
       /\ x \in Events(c) /\ Target(c, x) = OpOf(c, x).to
  BY <1>4, <1>6, <1>7, <1>9, CopyEvents
<1>11. x \in Writers(c, Buf(r, s)) /\ x \in Raisers(c, Red(r, s))
  BY <1>9, <1>10 DEF Writers, Raisers
<1>12. ASSUME NEW d \in OpEvents(c), d[2] = q, Along(n, q, Round(d[3])) = s, d[3] % 2 # 0
       PROVE  d = x
  <2>1. d[2] = x[2] /\ Along(n, d[2], Round(d[3])) = Along(n, d[2], Round(x[3]))
    BY <1>4, <1>7, <1>9, <1>12
  <2>2. (d[3] % 2 = 0 <=> x[3] % 2 = 0) BY <1>4, <1>9, <1>12
  <2> QED BY <2>1, <2>2, <1>9, CopyOnce
<1>13. \A d \in Writers(c, Buf(r, s)) : d = x BY <1>12, <1>1, <1>5, CopyWriters
<1>14. \A d \in Raisers(c, Red(r, s)) : d = x BY <1>12, <1>1, <1>5, CopyWriters
<1>15. Writers(c, Out(r, s)) = {Epi(r, s), e}
  <2>1. e \in Writers(c, Out(r, s)) BY <1>1 DEF Writers
  <2>2. \A d \in Writers(c, Out(r, s)) : d = Epi(r, s) \/ d = e
    BY <1>1, <1>5, CopyWriters, CopyOnce
  <2>3. Epi(r, s) \in Writers(c, Out(r, s)) BY <1>1, <1>5, CopyWriters
  <2> QED BY <2>1, <2>2, <2>3
<1>16. i - 1 \in Nat \ {0} /\ i - 1 < n BY <1>2, <1>4
<1> QED BY <1>4, <1>5, <1>9, <1>11, <1>13, <1>14, <1>15, <1>16 DEF CopyAdds, x

\* What copy e finds of segment s.
Copies(c, e, s) ==
    /\ s \in Members(c)
    /\ e[3] = 1 => Writers(c, Out(e[2], s)) = {Epi(e[2], s)}
    /\ e[3] # 1 => /\ <<"op", e[2], e[3] - 1>> \in OpEvents(c)
                   /\ (e[3] - 1) % 2 = 0 /\ Round(e[3] - 1) = Round(e[3])
                   /\ Writers(c, Out(e[2], s)) = {Epi(e[2], s), <<"op", e[2], e[3] - 1>>}

\* So it is.
LEMMA CopiesSources ==
    ASSUME NEW c, Sound(c), CopyOps(c), NEW e \in OpEvents(c), e[3] % 2 # 0,
           NEW s, s = Along(c.world, e[2], Round(e[3]))
    PROVE  Copies(c, e, s)
<1> DEFINE n == c.world
           r == e[2]
           j == e[3]
           i == Round(j)
           y == <<"op", r, j - 1>>
<1>1. e = <<"op", r, j>> /\ r \in Members(c) /\ j \in 1..(2 * (n - 1)) BY CopyEvents
<1>2. n \in Nat \ {0} /\ Members(c) = 0..(n - 1) BY DEF Sound, Members
<1>3. Circular(n, r) BY <1>1, <1>2, AlongFacts
<1>4. i \in 1..n /\ (i = 1 <=> j = 1) BY <1>1, <1>2, RoundFacts
<1>5. s \in Members(c)
  <2>1. i \in Int BY <1>4, <1>2
  <2>2. \A k \in Int : Along(n, r, k) \in 0..(n - 1) BY <1>3 DEF Circular
  <2>3. s = Along(n, r, i) OBVIOUS
  <2> HIDE DEF i
  <2> QED BY <2>1, <2>2, <2>3, <1>2
<1>6. Epi(r, s) \in Writers(c, Out(r, s)) BY <1>1, <1>5, CopyWriters
<1>7. ASSUME j = 1 PROVE Writers(c, Out(r, s)) = {Epi(r, s)}
  <2> SUFFICES ASSUME NEW d \in Writers(c, Out(r, s)), d # Epi(r, s) PROVE FALSE BY <1>6
  <2>1. d \in OpEvents(c) /\ d[2] = r /\ d[3] % 2 = 0 /\ Along(n, r, Round(d[3])) = s
    BY <1>1, <1>5, CopyWriters
  <2>2. d[3] \in 1..(2 * (n - 1)) BY <2>1, CopyEvents
  <2>3. Round(d[3]) \in 1..n /\ (Round(d[3]) = 1 <=> d[3] = 1) BY <2>2, <1>2, RoundFacts
  <2>4. \A k, l \in Int : k <= l /\ l < k + n /\ Along(n, r, k) = Along(n, r, l) => k = l
    BY <1>3 DEF Circular
  <2>5. /\ 1 \in Int /\ Round(d[3]) \in Int /\ 1 <= Round(d[3]) /\ Round(d[3]) < 1 + n
    BY <2>3, <1>2
  <2>6. s = Along(n, r, 1) BY <1>4, <1>7
  <2>7. Round(d[3]) = 1 BY <2>1, <2>4, <2>5, <2>6
  <2>8. d[3] = 1 BY <2>3, <2>7
  <2> QED BY <2>1, <2>8
<1>8. ASSUME j # 1
      PROVE  /\ y \in OpEvents(c) /\ (j - 1) % 2 = 0 /\ Round(j - 1) = Round(j)
             /\ Writers(c, Out(r, s)) = {Epi(r, s), y}
  <2>1. j - 1 \in 1..(2 * (n - 1)) /\ (j - 1) % 2 = 0 /\ Round(j - 1) = Round(j)
    BY <1>1, <1>2, <1>8, RoundFacts
  <2>2. Len(c.ops[r]) = 2 * (n - 1) BY <1>1 DEF CopyOps
  <2>3. y \in OpEvents(c) /\ y[1] = "op" /\ y[2] = r /\ y[3] = j - 1
    BY <2>1, <2>2, <1>1, OpNames
  <2> HIDE DEF y
  <2>4. OpOf(c, y).to = Out(r, s) /\ y \in Events(c) /\ Target(c, y) = OpOf(c, y).to
    BY <2>1, <2>3, CopyEvents
  <2>5. y \in Writers(c, Out(r, s)) BY <2>4 DEF Writers
  <2>6. ASSUME NEW d \in Writers(c, Out(r, s)), d # Epi(r, s) PROVE d = y
    <3>1. d \in OpEvents(c) /\ d[2] = r /\ d[3] % 2 = 0 /\ Along(n, r, Round(d[3])) = s
      BY <2>6, <1>1, <1>5, CopyWriters
    <3>2. d[2] = y[2] /\ Along(n, d[2], Round(d[3])) = Along(n, d[2], Round(y[3]))
      BY <3>1, <2>1, <2>3
    <3>3. (d[3] % 2 = 0 <=> y[3] % 2 = 0) BY <3>1, <2>1, <2>3
    <3> QED BY <3>1, <3>2, <3>3, <2>3, CopyOnce
  <2> QED BY <2>1, <2>3, <2>5, <2>6, <1>6
<1> QED BY <1>5, <1>7, <1>8 DEF Copies

\* The certificate, for an addition.
LEMMA AdditionCertified ==
    ASSUME NEW c, Sound(c), CopyOps(c), NEW e \in OpEvents(c), e[3] % 2 = 0
    PROVE  /\ CopyBefore(c)[e] \in SUBSET Events(c) /\ CopyParts(c)[e] \in SUBSET Members(c)
           /\ CopyBefore(c)[e] \subseteq Over(c, CopyBefore(c), e)
           /\ Adds(c, CopyBefore(c), CopyParts(c), e)
<1> DEFINE n == c.world
           before == CopyBefore(c)
           parts == CopyParts(c)
           r == e[2]
           j == e[3]
           i == Round(j)
           q == Along(n, r, 1)
           s == Along(n, r, i)
           x == <<"op", q, j - 1>>
           K == From(n, q, i - 1)
           a == Out(r, s)
           b == Buf(r, s)
           o == OpOf(c, e)
<1>1. n \in Nat \ {0} /\ Members(c) = 0..(n - 1) BY DEF Sound, Members
<1>2. /\ r \in Members(c) /\ j \in 1..(2 * (n - 1)) /\ e[1] = "op"
      /\ o.waits = {Epi(r, s), Red(r, s)} /\ o.from = {a, b}
  BY CopyEvents
<1>3. CopyAdds(c, e, q, s) BY CopyAddsSources
<1>4. /\ q \in Members(c) /\ s \in Members(c)
      /\ Writers(c, a) = {Epi(r, s), e} /\ Writers(c, b) = {x} /\ Raisers(c, Red(r, s)) = {x}
      /\ x \in OpEvents(c) /\ Round(j - 1) = i - 1 /\ i - 1 \in Nat \ {0} /\ i - 1 < n
  BY <1>3 DEF CopyAdds
<1>5. before[e] = {Epi(r, s), x} BY DEF CopyBefore
<1>6. parts[e] = From(n, r, i) BY DEF CopyParts
<1>7. Raisers(c, Epi(r, s)) = {Epi(r, s)} /\ Epi(r, s) \in Events(c)
  BY <1>2, <1>4, EpilogueRaises
<1>8. a # b BY DEF Out, Buf
<1>9. Epi(r, s)[1] = "epilogue" /\ Epi(r, s)[2] = r /\ x[1] = "op" /\ x[2] = q /\ x[3] = j - 1
  BY DEF Epi
<1>10. x \in Events(c) BY <1>4, CopyEvents
<1>11. parts[x] = K BY <1>4, <1>9 DEF CopyParts
<1>12. From(n, r, i) \subseteq Members(c) /\ From(n, r, i) = {r} \cup K /\ r \notin K
  <2>1. Growing(n, r) BY <1>1, <1>2, FromFacts
  <2>2. i \in Nat /\ (i - 1) + 1 = i
    <3>1. i \in 1..n BY <1>1, <1>2, RoundFacts
    <3> HIDE DEF i
    <3> QED BY <3>1
  <2>3. From(n, r, (i - 1) + 1) = {r} \cup From(n, q, i - 1) BY <2>1, <1>4 DEF Growing
  <2>4. r \notin From(n, q, i - 1) BY <2>1, <1>4 DEF Growing
  <2>5. From(n, r, i) \subseteq 0..(n - 1) BY <2>1, <2>2 DEF Growing
  <2> QED BY <2>2, <2>3, <2>4, <2>5, <1>1
<1>13. j # j - 1 /\ e[3] = j
  <2>1. j \in Int BY <1>1, <1>2
  <2> QED BY <2>1
<1> HIDE DEF n, before, parts, r, j, i, q, s, x, K, a, b, o
<1>14. before[e] \in SUBSET Events(c) BY <1>5, <1>7, <1>10
<1>15. parts[e] \in SUBSET Members(c) BY <1>6, <1>12
<1>16. before[e] \subseteq Over(c, before, e)
  <2>1. Epi(r, s) \in Over(c, before, e) BY <1>2, <1>7, OverByFlag DEF o
  <2>2. x \in Over(c, before, e) BY <1>2, <1>4, OverByFlag DEF o
  <2> QED BY <2>1, <2>2, <1>5
<1>17. e \notin before[e]
  <2>1. e # Epi(r, s) BY <1>2, <1>9
  <2>2. e # x BY <1>9, <1>13
  <2> QED BY <2>1, <2>2, <1>5
<1>18. /\ IsSource(Writers(c, a), before, e, Epi(r, s))
       /\ Found(c, before, parts, e, a) = {r}
  <2>1. IsSource(Writers(c, a), before, e, Epi(r, s)) BY <1>4, <1>5 DEF IsSource
  <2>2. /\ Epi(r, s) \in Writers(c, a)
        /\ \A v \in Writers(c, a) : v \in before[e] => v = Epi(r, s)
    BY <1>4, <1>17
  <2>3. Found(c, before, parts, e, a) = Part(parts, Epi(r, s)) BY <2>1, <2>2, FoundIs
  <2>4. Part(parts, Epi(r, s)) = {r} BY <1>9 DEF Part
  <2> QED BY <2>1, <2>3, <2>4
<1>19. /\ IsSource(Writers(c, b), before, e, x)
       /\ Found(c, before, parts, e, b) = K
  <2>1. IsSource(Writers(c, b), before, e, x) BY <1>4, <1>5 DEF IsSource
  <2>4. x \in Writers(c, b) /\ \A v \in Writers(c, b) : v \in before[e] => v = x BY <1>4
  <2>2. Found(c, before, parts, e, b) = Part(parts, x) BY <2>1, <2>4, FoundIs
  <2>3. Part(parts, x) = K BY <1>9, <1>11 DEF Part
  <2> QED BY <2>1, <2>2, <2>3
<1>20. Adds(c, before, parts, e)
  <2> DEFINE F(p) == Found(c, before, parts, e, p)
  <2>1. F(a) = {r} /\ F(b) = K BY <1>18, <1>19
  <2>2. ASSUME NEW p \in o.from
        PROVE  IF Writers(c, p) = {} THEN p[1] = "red" /\ c.fresh = {}
               ELSE \E v \in Writers(c, p) : IsSource(Writers(c, p), before, e, v)
    <3>1. CASE p = a
      <4>1. Epi(r, s) \in Writers(c, a) BY <1>4
      <4> QED BY <4>1, <3>1, <1>18
    <3>2. CASE p = b
      <4>1. x \in Writers(c, b) BY <1>4
      <4> QED BY <4>1, <3>2, <1>19
    <3> QED BY <3>1, <3>2, <1>2
  <2> HIDE DEF F
  <2>3. \A p, p1 \in o.from : p = p1 \/ F(p) \cap F(p1) = {} BY <2>1, <1>2, <1>12
  <2>4. UNION {F(p) : p \in o.from} = {r} \cup K BY <2>1, <1>2
  <2>5. parts[e] = UNION {F(p) : p \in o.from} BY <2>4, <1>6, <1>12
  <2> QED BY <2>2, <2>3, <2>5 DEF Adds, F, o
<1> QED BY <1>14, <1>15, <1>16, <1>20 DEF before, parts

\* The certificate, for a copy.
LEMMA CopyCertified ==
    ASSUME NEW c, Sound(c), CopyOps(c), NEW e \in OpEvents(c), e[3] % 2 # 0
    PROVE  /\ CopyBefore(c)[e] \in SUBSET Events(c) /\ CopyParts(c)[e] \in SUBSET Members(c)
           /\ CopyBefore(c)[e] \subseteq Over(c, CopyBefore(c), e)
           /\ Adds(c, CopyBefore(c), CopyParts(c), e)
<1> DEFINE n == c.world
           before == CopyBefore(c)
           parts == CopyParts(c)
           r == e[2]
           j == e[3]
           i == Round(j)
           s == Along(n, r, i)
           y == <<"op", r, j - 1>>
           w == IF j = 1 THEN Epi(r, s) ELSE y
           a == Out(r, s)
           o == OpOf(c, e)
<1>1. n \in Nat \ {0} /\ Members(c) = 0..(n - 1) BY DEF Sound, Members
<1>2. /\ r \in Members(c) /\ j \in 1..(2 * (n - 1)) /\ e[1] = "op"
      /\ o.waits = {Epi(r, s)} /\ o.from = {a}
  BY CopyEvents
<1>3. Copies(c, e, s) BY CopiesSources
<1>4. /\ s \in Members(c)
      /\ j = 1 => Writers(c, a) = {Epi(r, s)}
      /\ j # 1 => /\ y \in OpEvents(c) /\ (j - 1) % 2 = 0 /\ Round(j - 1) = i
                  /\ Writers(c, a) = {Epi(r, s), y}
  BY <1>3 DEF Copies
<1>5. i \in 1..n /\ (i = 1 <=> j = 1) /\ j \in Int
  <2>1. i \in 1..n /\ (i = 1 <=> j = 1) BY <1>1, <1>2, RoundFacts
  <2>2. j \in Int BY <1>1, <1>2
  <2> QED BY <2>1, <2>2
<1>6. before[e] = {w}
  <2>1. before[e] = IF j = 1 THEN {Epi(r, Along(n, r, 1))} ELSE {y} BY DEF CopyBefore
  <2>2. j = 1 => Along(n, r, 1) = s BY <1>5
  <2> HIDE DEF s, y
  <2> QED BY <2>1, <2>2
<1>7. parts[e] = From(n, r, i) BY DEF CopyParts
<1>8. Raisers(c, Epi(r, s)) = {Epi(r, s)} /\ Epi(r, s) \in Events(c)
  BY <1>2, <1>4, EpilogueRaises
<1>9. Epi(r, s)[1] = "epilogue" /\ Epi(r, s)[2] = r /\ y[1] = "op" /\ y[2] = r /\ y[3] = j - 1
  BY DEF Epi
<1>10. j # 1 => y \in Events(c) BY <1>4, CopyEvents
<1>11. j # 1 => /\ Epi(r, s) \in before[y] /\ parts[y] = From(n, r, i)
  BY <1>4, <1>9 DEF CopyBefore, CopyParts
<1>12. /\ From(n, r, i) \subseteq Members(c) /\ From(n, r, 1) = {r}
  <2>1. Growing(n, r) BY <1>1, <1>2, FromFacts
  <2>2. i \in Int BY <1>1, <1>5
  <2>3. From(n, r, i) \subseteq 0..(n - 1) BY <2>1, <2>2 DEF Growing
  <2> QED BY <2>1, <2>3, <1>1 DEF Growing
<1>13. w = (IF j = 1 THEN Epi(r, s) ELSE y) /\ y = <<"op", e[2], e[3] - 1>> /\ e[3] = j
  OBVIOUS
<1>14. e[3] > 1 <=> j # 1 BY <1>1, <1>2
<1> HIDE DEF n, before, parts, r, j, i, s, y, w, a, o
<1>15. before[e] \in SUBSET Events(c) BY <1>6, <1>8, <1>10, <1>13
<1>16. parts[e] \in SUBSET Members(c) BY <1>7, <1>12
<1>17. before[e] \subseteq Over(c, before, e)
  <2>1. Epi(r, s) \in Over(c, before, e) BY <1>2, <1>8, OverByFlag DEF o
  <2>2. j # 1 => y \in Over(c, before, e) BY <1>13, <1>14 DEF Over
  <2> QED BY <2>1, <2>2, <1>6, <1>13
<1>18. w \in Writers(c, a) BY <1>4, <1>13
<1>19. IsSource(Writers(c, a), before, e, w)
  <2>1. j # 1 => Epi(r, s) \in Past(before, y) BY <1>9, <1>11 DEF Past
  <2> QED BY <2>1, <1>4, <1>6, <1>13 DEF IsSource
<1>20. Found(c, before, parts, e, a) = From(n, r, i)
  <2>1. Found(c, before, parts, e, a) = Part(parts, w) BY <1>6, <1>18, <1>19, FoundIs
  <2>2. CASE j = 1
    <3>1. Part(parts, w) = {r} BY <2>2, <1>9, <1>13 DEF Part
    <3> QED BY <3>1, <2>1, <2>2, <1>5, <1>12
  <2>3. CASE j # 1
    <3>1. Part(parts, w) = parts[y] BY <2>3, <1>9, <1>13 DEF Part
    <3> QED BY <3>1, <2>1, <2>3, <1>11
  <2> QED BY <2>2, <2>3
<1>21. Adds(c, before, parts, e)
  <2> DEFINE F(p) == Found(c, before, parts, e, p)
  <2>1. F(a) = From(n, r, i) BY <1>20
  <2>2. \A p \in o.from : IF Writers(c, p) = {} THEN p[1] = "red" /\ c.fresh = {}
               ELSE \E v \in Writers(c, p) : IsSource(Writers(c, p), before, e, v)
    BY <1>2, <1>18, <1>19
  <2> HIDE DEF F
  <2>3. \A p, p1 \in o.from : p = p1 \/ F(p) \cap F(p1) = {} BY <1>2
  <2>4. UNION {F(p) : p \in o.from} = From(n, r, i) BY <2>1, <1>2
  <2> QED BY <2>2, <2>3, <2>4, <1>7 DEF Adds, F, o
<1> QED BY <1>15, <1>16, <1>17, <1>21 DEF before, parts

\* The certificate is complete: the last addition of a rank is of its own segment.
LEMMA CopyIsOrdered ==
    ASSUME NEW c, Sound(c), CopyOps(c)
    PROVE  Ordered(c)
<1> DEFINE n == c.world
           before == CopyBefore(c)
           parts == CopyParts(c)
<1>1. n \in Nat \ {0} /\ Members(c) = 0..(n - 1) BY DEF Sound, Members
<1>2. ASSUME NEW e \in OpEvents(c)
      PROVE  /\ before[e] \in SUBSET Events(c) /\ parts[e] \in SUBSET Members(c)
             /\ before[e] \subseteq Over(c, before, e) /\ Adds(c, before, parts, e)
  BY AdditionCertified, CopyCertified
<1>3. ASSUME NEW r \in Members(c) PROVE Completes(c, before, parts, r)
  <2> DEFINE W == Writers(c, Out(r, r))
             e == <<"op", r, 2 * (n - 1)>>
  <2>1. Epi(r, r) \in W BY <1>3, CopyWriters
  <2>2. CASE n = 1
    <3>1. OpEvents(c) = {}
      <4> SUFFICES ASSUME NEW e1 \in OpEvents(c) PROVE FALSE OBVIOUS
      <4>1. e1[3] \in 1..(2 * (n - 1)) BY CopyEvents
      <4> QED BY <4>1, <2>2
    <3>2. W = {Epi(r, r)} BY <1>3, <2>1, <3>1, CopyWriters
    <3>3. Part(parts, Epi(r, r)) = {r} BY DEF Part, Epi
    <3>4. Members(c) = {r} BY <1>1, <2>2
    <3> QED BY <3>2, <3>3, <3>4 DEF Completes
  <2>3. CASE n # 1
    <3>1. /\ 2 * (n - 1) \in 1..(2 * (n - 1)) /\ (2 * (n - 1)) % 2 = 0
          /\ Round(2 * (n - 1)) = n
      BY <1>1, <2>3 DEF Round
    <3>2. Len(c.ops[r]) = 2 * (n - 1) BY <1>3 DEF CopyOps
    <3>3. e \in OpEvents(c) /\ e[1] = "op" /\ e[2] = r /\ e[3] = 2 * (n - 1)
      BY <3>1, <3>2, <1>3, OpNames
    <3> HIDE DEF e
    <3>4. Circular(n, r) BY <1>1, <1>3, AlongFacts
    <3>5. Along(n, e[2], Round(e[3])) = r BY <3>1, <3>3, <3>4 DEF Circular
    <3>6. e[3] % 2 = 0 BY <3>1, <3>3
    <3>7. CopyAdds(c, e, Along(n, e[2], 1), r) BY <3>3, <3>5, <3>6, CopyAddsSources
    <3>8. W = {Epi(r, r), e} BY <3>3, <3>7 DEF CopyAdds
    <3>9. Epi(r, r) \in before[e] BY <3>3, <3>5, <3>6 DEF CopyBefore
    <3>10. parts[e] = From(n, r, n) BY <3>1, <3>3 DEF CopyParts
    <3>11. From(n, r, n) = Members(c)
      <4>1. Growing(n, r) BY <1>1, <1>3, FromFacts
      <4> QED BY <4>1, <1>1 DEF Growing
    <3>12. Past(before, e) = before[e] BY <3>3 DEF Past
    <3>13. Part(parts, e) = Members(c) BY <3>3, <3>10, <3>11 DEF Part
    <3> HIDE DEF W
    <3>14. W \ {e} \subseteq Past(before, e) /\ e \in W BY <3>8, <3>9, <3>12
    <3> QED BY <3>13, <3>14 DEF Completes, W
  <2> QED BY <2>2, <2>3
<1>4. /\ before \in [OpEvents(c) -> SUBSET Events(c)]
      /\ parts \in [OpEvents(c) -> SUBSET Members(c)]
  <2>1. /\ before = [e \in OpEvents(c) |-> before[e]] /\ parts = [e \in OpEvents(c) |-> parts[e]]
    BY DEF CopyBefore, CopyParts
  <2> HIDE DEF before, parts
  <2> QED BY <2>1, <1>2
<1> HIDE DEF before, parts
<1>5. Certified(c, before, parts) BY <1>2, <1>3, <1>4 DEF Certified
<1> QED BY <1>4, <1>5 DEF Ordered
-----------------------------------------------------------------------------
(* Their waits are not circular. *)

\* Operations are in order by their places in the lists of their ranks, where what one
\* waits for is raised one place earlier.
LEMMA NumberedByPlace ==
    ASSUME NEW c, Sound(c),
           \A e \in OpEvents(c) : \A f \in OpOf(c, e).waits :
               f \in EpiEvents(c)
                   \/ \E q \in Members(c) : /\ e[3] - 1 \in 1..Len(c.ops[q])
                                            /\ f \in c.ops[q][e[3] - 1].raises
    PROVE  Numbered(c)
<1> DEFINE number == [e \in OpEvents(c) |-> e[3]]
<1>1. \A e \in OpEvents(c) : e[3] \in Nat BY OpFacts
<1>2. number \in [OpEvents(c) -> Nat] BY <1>1
<1>3. ASSUME NEW e \in OpEvents(c), NEW f \in OpOf(c, e).waits, f \notin EpiEvents(c)
      PROVE  \E x \in OpEvents(c) : f \in OpOf(c, x).raises /\ number[x] < number[e]
  <2>1. PICK q \in Members(c) : e[3] - 1 \in 1..Len(c.ops[q]) /\ f \in c.ops[q][e[3] - 1].raises
    BY <1>3
  <2> DEFINE x == <<"op", q, e[3] - 1>>
  <2>2. x \in OpEvents(c) /\ OpOf(c, x) = c.ops[q][e[3] - 1] /\ x[3] = e[3] - 1
    BY <2>1, OpNames
  <2>3. number[x] < number[e] BY <2>2, <1>1
  <2> QED BY <2>1, <2>2, <2>3
<1>4. Acyclic(c, number) BY <1>2, <1>3 DEF Acyclic
<1> QED BY <1>2, <1>4 DEF Numbered

\* The next rank, and what is its own to it.
LEMMA NextRank ==
    ASSUME NEW n \in Nat \ {0}, NEW r \in 0..(n - 1), NEW i \in Int
    PROVE  /\ Along(n, r, 1) \in 0..(n - 1)
           /\ Along(n, Along(n, r, 1), n - 1) = r
           /\ Along(n, Along(n, r, 1), i) = Along(n, r, i + 1)
<1>1. Circular(n, r) BY AlongFacts
<1>2. 1 \in Int /\ n - 1 \in Int /\ 1 + (n - 1) = n /\ 1 + i = i + 1 OBVIOUS
<1>3. Along(n, Along(n, r, 1), n - 1) = Along(n, r, 1 + (n - 1)) BY <1>1, <1>2 DEF Circular
<1>4. Along(n, Along(n, r, 1), i) = Along(n, r, 1 + i) BY <1>1, <1>2 DEF Circular
<1>5. Along(n, r, 1) \in 0..(n - 1) /\ Along(n, r, n) = r BY <1>1, <1>2 DEF Circular
<1> QED BY <1>2, <1>3, <1>4, <1>5

\* The ring that pulls waits for what the next rank did in the round before,
LEMMA PullIsNumbered == ASSUME NEW c, Sound(c), PullOps(c) PROVE Numbered(c)
<1> SUFFICES ASSUME NEW e \in OpEvents(c), NEW f \in OpOf(c, e).waits, f \notin EpiEvents(c)
             PROVE  \E q \in Members(c) : /\ e[3] - 1 \in 1..Len(c.ops[q])
                                          /\ f \in c.ops[q][e[3] - 1].raises
  BY NumberedByPlace
<1> DEFINE n == c.world
           r == e[2]
           i == e[3]
           q == Along(n, r, 1)
           s == Along(n, r, i + 1)
<1>1. n \in Nat \ {0} /\ Members(c) = 0..(n - 1) BY DEF Sound, Members
<1>2. r \in Members(c) /\ i \in Nat \ {0} /\ i <= Len(c.ops[r]) BY OpFacts
<1>3. i \in 1..(n - 1) BY <1>1, <1>2 DEF PullOps
<1>4. /\ q \in Members(c) /\ Along(n, q, i) = s /\ s \in Members(c)
  <2>1. i \in Int /\ i + 1 \in Int BY <1>2
  <2>2. q \in Members(c) /\ Along(n, q, i) = s
    <3> HIDE DEF n, r, i
    <3>1. r \in 0..(n - 1) /\ i \in Int BY <1>1, <1>2
    <3>2. Along(n, r, 1) \in 0..(n - 1) /\ Along(n, Along(n, r, 1), i) = Along(n, r, i + 1)
      BY <1>1, <3>1, NextRank
    <3> QED BY <1>1, <3>2
  <2>3. Circular(n, r) BY <1>1, <1>2, AlongFacts
  <2>4. s \in Members(c) BY <2>1, <2>3, <1>1 DEF Circular
  <2> QED BY <2>2, <2>4
<1>5. OpOf(c, e) = Op({Epi(r, s), IF i = 1 THEN Epi(q, s) ELSE Red(q, s)},
                      {Out(r, s), Out(q, s)}, Out(r, s), {Red(r, s)})
  BY <1>2, <1>3 DEF PullOps, OpOf
<1>6. Epi(r, s) \in EpiEvents(c) /\ Epi(q, s) \in EpiEvents(c)
  BY <1>2, <1>4, EpiNames DEF Epi
<1>7. i # 1 /\ f = Red(q, s)
  <2> HIDE DEF s, q, i, r
  <2>1. OpOf(c, e).waits = {Epi(r, s), IF i = 1 THEN Epi(q, s) ELSE Red(q, s)} BY <1>5 DEF Op
  <2> QED BY <2>1, <1>6
<1> DEFINE u == Along(n, q, (i - 1) + 1)
<1>8. i - 1 \in 1..(n - 1) /\ (i - 1) + 1 = i
  <2> HIDE DEF i, n
  <2> QED BY <1>1, <1>3, <1>7
<1>9. c.ops[q][i - 1].raises = {Red(q, u)} /\ Len(c.ops[q]) = n - 1
  <2>1. c.ops[q][i - 1] = Op({Epi(q, u), IF i - 1 = 1 THEN Epi(Along(n, q, 1), u) ELSE Red(Along(n, q, 1), u)},
                             {Out(q, u), Out(Along(n, q, 1), u)}, Out(q, u), {Red(q, u)})
    BY <1>4, <1>8 DEF PullOps
  <2>2. Len(c.ops[q]) = n - 1 BY <1>4 DEF PullOps
  <2> HIDE DEF u, q, i
  <2>3. c.ops[q][i - 1].raises = {Red(q, u)} BY <2>1 DEF Op
  <2> QED BY <2>2, <2>3
<1>10. u = s BY <1>4, <1>8
<1> QED BY <1>4, <1>7, <1>8, <1>9, <1>10

\* as do those that push,
LEMMA PushIsNumbered == ASSUME NEW c, Sound(c), PushOps(c) PROVE Numbered(c)
<1> SUFFICES ASSUME NEW e \in OpEvents(c), NEW f \in OpOf(c, e).waits, f \notin EpiEvents(c)
             PROVE  \E q \in Members(c) : /\ e[3] - 1 \in 1..Len(c.ops[q])
                                          /\ f \in c.ops[q][e[3] - 1].raises
  BY NumberedByPlace
<1> DEFINE n == c.world
           r == e[2]
           i == e[3]
           q == Along(n, r, 1)
           s == Along(n, r, i)
<1>1. n \in Nat \ {0} /\ Members(c) = 0..(n - 1) BY DEF Sound, Members
<1>2. r \in Members(c) /\ i \in Nat \ {0} /\ i <= Len(c.ops[r]) BY OpFacts
<1>3. i \in 1..n BY <1>1, <1>2 DEF PushOps
<1>4. OpOf(c, e).waits = {Epi(r, s)} \cup (IF i = 1 THEN {} ELSE {Red(r, s)})
  BY <1>2, <1>3 DEF PushOps, OpOf
<1>5. /\ q \in Members(c) /\ s \in Members(c)
      /\ Along(n, q, n - 1) = r /\ Along(n, q, i - 1) = s
  <2> HIDE DEF n, r, i
  <2>1. PICK m \in Int : m = i - 1 /\ m + 1 = i /\ i \in Int BY <1>2
  <2>2. q \in Members(c) /\ Along(n, q, n - 1) = r /\ Along(n, q, m) = Along(n, r, m + 1)
    <3>1. r \in 0..(n - 1) BY <1>1, <1>2
    <3>2. /\ Along(n, r, 1) \in 0..(n - 1) /\ Along(n, Along(n, r, 1), n - 1) = r
          /\ Along(n, Along(n, r, 1), m) = Along(n, r, m + 1)
      BY <1>1, <2>1, <3>1, NextRank
    <3> QED BY <1>1, <3>2
  <2>3. Circular(n, r) BY <1>1, <1>2, AlongFacts
  <2>4. s \in Members(c) BY <2>1, <2>3, <1>1 DEF Circular
  <2> QED BY <2>1, <2>2, <2>4
<1>6. Epi(r, s) \in EpiEvents(c) BY <1>2, <1>5, EpiNames DEF Epi
<1>7. i # 1 /\ f = Red(r, s)
  <2> HIDE DEF s, i, r
  <2> QED BY <1>4, <1>6
<1>8. i - 1 \in 1..n /\ i - 1 # n BY <1>1, <1>3, <1>7
<1>9. /\ Len(c.ops[q]) = n
      /\ Red(Along(n, q, n - 1), Along(n, q, i - 1)) \in c.ops[q][i - 1].raises
  BY <1>5, <1>8 DEF PushOps
<1> QED BY <1>5, <1>7, <1>8, <1>9

\* and an addition waits for the copy of the next rank.
LEMMA CopyIsNumbered == ASSUME NEW c, Sound(c), CopyOps(c) PROVE Numbered(c)
<1> SUFFICES ASSUME NEW e \in OpEvents(c), NEW f \in OpOf(c, e).waits, f \notin EpiEvents(c)
             PROVE  \E q \in Members(c) : /\ e[3] - 1 \in 1..Len(c.ops[q])
                                          /\ f \in c.ops[q][e[3] - 1].raises
  BY NumberedByPlace
<1> DEFINE n == c.world
           r == e[2]
           j == e[3]
           k == Round(j)
           q == Along(n, r, 1)
           s == Along(n, r, k)
<1>1. n \in Nat \ {0} /\ Members(c) = 0..(n - 1) BY DEF Sound, Members
<1>2. r \in Members(c) /\ j \in Nat \ {0} /\ j <= Len(c.ops[r]) BY OpFacts
<1>3. j \in 1..(2 * (n - 1)) BY <1>1, <1>2 DEF CopyOps
<1>4. /\ k \in 1..n /\ j % 2 \in {0, 1}
      /\ j % 2 = 0 => j - 1 \in 1..(2 * (n - 1)) /\ (j - 1) % 2 # 0 /\ Round(j - 1) = k - 1
  BY <1>1, <1>3, RoundFacts
<1>5. /\ q \in Members(c) /\ s \in Members(c)
      /\ Along(n, q, n - 1) = r /\ Along(n, q, k - 1) = s
  <2> HIDE DEF n, r, k
  <2>1. PICK m \in Int : m = k - 1 /\ m + 1 = k /\ k \in Int BY <1>4
  <2>2. q \in Members(c) /\ Along(n, q, n - 1) = r /\ Along(n, q, m) = Along(n, r, m + 1)
    <3>1. r \in 0..(n - 1) BY <1>1, <1>2
    <3>2. /\ Along(n, r, 1) \in 0..(n - 1) /\ Along(n, Along(n, r, 1), n - 1) = r
          /\ Along(n, Along(n, r, 1), m) = Along(n, r, m + 1)
      BY <1>1, <2>1, <3>1, NextRank
    <3> QED BY <1>1, <3>2
  <2>3. Circular(n, r) BY <1>1, <1>2, AlongFacts
  <2>4. s \in Members(c) BY <2>1, <2>3, <1>1 DEF Circular
  <2> QED BY <2>1, <2>2, <2>4
<1>6. Epi(r, s) \in EpiEvents(c) BY <1>2, <1>5, EpiNames DEF Epi
<1>7. /\ j % 2 = 0 => OpOf(c, e).waits = {Epi(r, s), Red(r, s)}
      /\ j % 2 # 0 => OpOf(c, e).waits = {Epi(r, s)}
  <2>1. \E p : p = Along(c.world, e[2], c.world - 1) OBVIOUS
  <2> QED BY <2>1, CopyEvents
<1>8. j % 2 = 0 /\ f = Red(r, s)
  <2> HIDE DEF s, j, r
  <2> QED BY <1>6, <1>7
<1> DEFINE x == <<"op", q, j - 1>>
<1>9. j - 1 \in 1..(2 * (n - 1)) /\ (j - 1) % 2 # 0 /\ Round(j - 1) = k - 1 BY <1>4, <1>8
<1>10. Len(c.ops[q]) = 2 * (n - 1) BY <1>5 DEF CopyOps
<1>11. x \in OpEvents(c) /\ OpOf(c, x) = c.ops[q][j - 1] /\ x[2] = q /\ x[3] = j - 1
  BY <1>5, <1>9, <1>10, OpNames
<1> HIDE DEF x
<1>12. OpOf(c, x).raises = {Red(Along(n, q, n - 1), Along(n, q, Round(j - 1)))}
  BY <1>9, <1>11, CopyEvents
<1> QED BY <1>5, <1>8, <1>9, <1>10, <1>11, <1>12
-----------------------------------------------------------------------------
(* The paths of one node, for every number of ranks, tiles, groups, forwards. *)

NoOps(c) == [r \in Members(c) |-> <<>>]

\* What the paths have in common.
Basic(c) ==
    /\ c.world \in Nat \ {0} /\ c.tiles \in Nat \ {0} /\ c.groups \in Nat \ {0}
    /\ c.forwards \in 0..MaxForwards
    /\ c.fresh \subseteq {<<0, 0>>}

\* The epilogue stores or adds to the rank of the segment, or a ring kernel follows it; the
\* ring that pushes adds up in its first round too and needs buffers that read as zero.
IsPath(c) ==
    \/ c.epilogue = "store" /\ c.ops = NoOps(c) /\ c.sync
    \/ c.epilogue = "add" /\ c.ops = NoOps(c)
    \/ c.epilogue = "keep" /\ c.ops = Pull1d(c.world)
    \/ c.epilogue = "keep" /\ c.ops = Push1d(c.world) /\ c.fresh = {}
    \/ c.epilogue = "keep" /\ c.ops = Segment1d(c.world)
    \/ c.epilogue = "keep" /\ c.ops = Memcpy1d(c.world)

\* An operation.
LEMMA IsOperation ==
    ASSUME NEW c, NEW waits \in SUBSET Flags(c), NEW from \in SUBSET Places(c),
           NEW to \in Places(c), NEW raises \in SUBSET {f \in Flags(c) : f[1] # "epilogue"}
    PROVE  Op(waits, from, to, raises) \in Operations(c)
  BY DEF Op, Operations

\* A list of operations.
LEMMA IsSeqOf ==
    ASSUME NEW S, NEW n \in Nat, NEW f \in [1..n -> S]
    PROVE  f \in Seq(S) /\ Len(f) = n
<1>1. f \in Seq(S) BY SeqDef
<1>2. Len(f) \in Nat /\ DOMAIN f = 1..Len(f) BY <1>1, LenProperties
<1>3. 1..n = 1..Len(f) BY <1>2
<1> QED BY <1>1, <1>2, <1>3

\* Flags and places of a rank and a segment.
LEMMA FlagNames ==
    ASSUME NEW c, NEW p \in Members(c), NEW s \in Members(c)
    PROVE  /\ Epi(p, s) \in Flags(c)
           /\ Red(p, s) \in {f \in Flags(c) : f[1] # "epilogue"}
           /\ Red(p, s) \in Flags(c)
           /\ Out(p, s) \in Places(c) /\ Buf(p, s) \in Places(c)
  BY DEF Epi, Red, Out, Buf, Flags, Places

\* The ring that pulls has the operations PullOps says.
LEMMA PullShape ==
    ASSUME NEW c, c.world \in Nat \ {0}, c.ops = Pull1d(c.world)
    PROVE  PullOps(c) /\ c.ops \in [Members(c) -> Seq(Operations(c))]
<1> DEFINE n == c.world
<1>1. n \in Nat \ {0} /\ Members(c) = 0..(n - 1) BY DEF Members
<1>2. ASSUME NEW r \in Members(c)
      PROVE  /\ c.ops[r] \in Seq(Operations(c)) /\ Len(c.ops[r]) = n - 1
             /\ \A i \in 1..(n - 1) :
                    LET q == Along(n, r, 1)
                        s == Along(n, r, i + 1)
                    IN  c.ops[r][i] = Op({Epi(r, s), IF i = 1 THEN Epi(q, s) ELSE Red(q, s)},
                                         {Out(r, s), Out(q, s)}, Out(r, s), {Red(r, s)})
  <2> DEFINE q == Along(n, r, 1)
             S(i) == Along(n, r, i + 1)
             O(i) == Op({Epi(r, S(i)), IF i = 1 THEN Epi(q, S(i)) ELSE Red(q, S(i))},
                        {Out(r, S(i)), Out(q, S(i))}, Out(r, S(i)), {Red(r, S(i))})
  <2>1. c.ops[r] = [i \in 1..(n - 1) |->
            LET s == (q + i) % n
            IN  Op({Epi(r, s), IF i = 1 THEN Epi(q, s) ELSE Red(q, s)},
                   {Out(r, s), Out(q, s)}, Out(r, s), {Red(r, s)})]
    BY <1>1, <1>2 DEF Pull1d, Along
  <2>2. \A i \in 1..(n - 1) : (q + i) % n = S(i) /\ S(i) \in Members(c)
    <3> TAKE i \in 1..(n - 1)
    <3>1. Circular(n, r) BY <1>1, <1>2, AlongFacts
    <3>2. 1 \in Int /\ i \in Int /\ i + 1 \in Int /\ 1 + i = i + 1 BY <1>1
    <3>3. Along(n, q, i) = Along(n, r, 1 + i) BY <3>1, <3>2 DEF Circular
    <3>4. Along(n, r, i + 1) \in 0..(n - 1) BY <3>1, <3>2 DEF Circular
    <3> QED BY <3>2, <3>3, <3>4, <1>1 DEF Along
  <2>3. q \in Members(c)
    <3>1. Circular(n, r) BY <1>1, <1>2, AlongFacts
    <3>2. 1 \in Int OBVIOUS
    <3>3. Along(n, r, 1) \in 0..(n - 1) BY <3>1, <3>2 DEF Circular
    <3> QED BY <3>3, <1>1
  <2> HIDE DEF q, S
  <2>4. c.ops[r] = [i \in 1..(n - 1) |-> O(i)] BY <2>1, <2>2
  <2>5. \A i \in 1..(n - 1) : O(i) \in Operations(c)
    <3> TAKE i \in 1..(n - 1)
    <3> DEFINE s == S(i)
    <3>1. r \in Members(c) /\ q \in Members(c) /\ s \in Members(c) BY <1>2, <2>2, <2>3
    <3> HIDE DEF s
    <3>2. /\ {Epi(r, s), IF i = 1 THEN Epi(q, s) ELSE Red(q, s)} \in SUBSET Flags(c)
          /\ {Out(r, s), Out(q, s)} \in SUBSET Places(c) /\ Out(r, s) \in Places(c)
          /\ {Red(r, s)} \in SUBSET {f \in Flags(c) : f[1] # "epilogue"}
      BY <3>1, FlagNames
    <3>3. Op({Epi(r, s), IF i = 1 THEN Epi(q, s) ELSE Red(q, s)},
             {Out(r, s), Out(q, s)}, Out(r, s), {Red(r, s)}) \in Operations(c)
      BY <3>2, IsOperation
    <3> QED BY <3>3 DEF s
  <2> HIDE DEF O
  <2>6. c.ops[r] \in [1..(n - 1) -> Operations(c)] BY <2>4, <2>5
  <2>7. n - 1 \in Nat BY <1>1
  <2>8. c.ops[r] \in Seq(Operations(c)) /\ Len(c.ops[r]) = n - 1 BY <2>6, <2>7, IsSeqOf
  <2>9. \A i \in 1..(n - 1) : c.ops[r][i] = O(i) BY <2>4
  <2> QED BY <2>8, <2>9 DEF O, S, q
<1>3. PullOps(c) BY <1>2 DEF PullOps
<1>4. DOMAIN c.ops = Members(c) /\ c.ops = [r \in DOMAIN c.ops |-> c.ops[r]]
  BY <1>1 DEF Pull1d
<1>5. c.ops \in [Members(c) -> Seq(Operations(c))] BY <1>2, <1>4
<1> QED BY <1>3, <1>5

\* So have the ring that pushes and, in the next lemma, the one by segment, those of PushOps.
LEMMA PushShape ==
    ASSUME NEW c, c.world \in Nat \ {0}, c.ops = Push1d(c.world), c.fresh = {}
    PROVE  PushOps(c) /\ c.ops \in [Members(c) -> Seq(Operations(c))]
<1> DEFINE n == c.world
<1>1. n \in Nat \ {0} /\ Members(c) = 0..(n - 1) BY DEF Members
<1>2. ASSUME NEW r \in Members(c)
      PROVE  /\ c.ops[r] \in Seq(Operations(c)) /\ Len(c.ops[r]) = n
             /\ \A i \in 1..n :
                    LET q == Along(n, r, n - 1)
                        s == Along(n, r, i)
                        o == c.ops[r][i]
                    IN  /\ o.waits = {Epi(r, s)} \cup (IF i = 1 THEN {} ELSE {Red(r, s)})
                        /\ \/ o.from = {Out(r, s), Buf(r, s)} /\ (i = 1 => c.fresh = {})
                           \/ o.from = {Out(r, s)} /\ i = 1
                        /\ o.to = (IF i = n THEN Out(r, s) ELSE Buf(q, s))
                        /\ o.raises \subseteq {Red(q, s)} /\ (i # n => Red(q, s) \in o.raises)
  <2> DEFINE q == Along(n, r, n - 1)
             S(i) == Along(n, r, i)
             W(i) == {Epi(r, S(i))} \cup (IF i = 1 THEN {} ELSE {Red(r, S(i))})
             F(i) == {Out(r, S(i)), Buf(r, S(i))}
             T(i) == IF i = n THEN Out(r, S(i)) ELSE Buf(q, S(i))
             R(i) == {Red(q, S(i))}
  <2>1. (r + n - 1) % n = q BY <1>1, <1>2, BeforeFacts
  <2>2. c.ops[r] = [i \in 1..n |->
            LET s == (r + i) % n
            IN  Op({Epi(r, s)} \cup (IF i = 1 THEN {} ELSE {Red(r, s)}),
                   {Out(r, s), Buf(r, s)},
                   IF i = n THEN Out(r, s) ELSE Buf((r + n - 1) % n, s), {Red((r + n - 1) % n, s)})]
    BY <1>1, <1>2 DEF Push1d
  <2>3. \A i \in 1..n : (r + i) % n = S(i) /\ S(i) \in Members(c)
    <3> TAKE i \in 1..n
    <3>1. Circular(n, r) BY <1>1, <1>2, AlongFacts
    <3>2. i \in Int BY <1>1
    <3>3. Along(n, r, i) \in 0..(n - 1) BY <3>1, <3>2 DEF Circular
    <3> QED BY <3>3, <1>1 DEF Along
  <2>4. q \in Members(c)
    <3>1. Circular(n, r) BY <1>1, <1>2, AlongFacts
    <3>2. n - 1 \in Int BY <1>1
    <3>3. Along(n, r, n - 1) \in 0..(n - 1) BY <3>1, <3>2 DEF Circular
    <3> QED BY <3>3, <1>1
  <2> HIDE DEF q, S
  <2>5. c.ops[r] = [i \in 1..n |-> Op(W(i), F(i), T(i), R(i))]
    <3> DEFINE O(i) == Op(W(i), F(i), T(i), R(i))
               G(i) ==
                LET s == (r + i) % n
                IN  Op({Epi(r, s)} \cup (IF i = 1 THEN {} ELSE {Red(r, s)}),
                       {Out(r, s), Buf(r, s)},
                       IF i = n THEN Out(r, s) ELSE Buf((r + n - 1) % n, s), {Red((r + n - 1) % n, s)})
    <3>1. \A i \in 1..n : G(i) = O(i) BY <2>1, <2>3
    <3>2. c.ops[r] = [i \in 1..n |-> G(i)] BY <2>2
    <3> HIDE DEF G, O
    <3>3. c.ops[r] = [i \in 1..n |-> O(i)] BY <3>1, <3>2
    <3> QED BY <3>3 DEF O
  <2>6. \A i \in 1..n : Op(W(i), F(i), T(i), R(i)) \in Operations(c)
    <3> TAKE i \in 1..n
    <3>1. r \in Members(c) /\ q \in Members(c) /\ S(i) \in Members(c) BY <1>2, <2>3, <2>4
    <3>2. W(i) \in SUBSET Flags(c) /\ F(i) \in SUBSET Places(c) /\ T(i) \in Places(c)
      BY <3>1, FlagNames
    <3>3. R(i) \in SUBSET {f \in Flags(c) : f[1] # "epilogue"} BY <3>1, FlagNames
    <3> HIDE DEF W, F, T, R
    <3> QED BY <3>2, <3>3, IsOperation
  <2>7. c.ops[r] \in [1..n -> Operations(c)]
    <3> DEFINE O(i) == Op(W(i), F(i), T(i), R(i))
    <3>1. c.ops[r] = [i \in 1..n |-> O(i)] /\ \A i \in 1..n : O(i) \in Operations(c)
      BY <2>5, <2>6
    <3> HIDE DEF O
    <3> QED BY <3>1
  <2>8. c.ops[r] \in Seq(Operations(c)) /\ Len(c.ops[r]) = n BY <2>7, <1>1, IsSeqOf
  <2>9. ASSUME NEW i \in 1..n
        PROVE  LET s == S(i)
                   o == c.ops[r][i]
               IN  /\ o.waits = {Epi(r, s)} \cup (IF i = 1 THEN {} ELSE {Red(r, s)})
                   /\ \/ o.from = {Out(r, s), Buf(r, s)} /\ (i = 1 => c.fresh = {})
                      \/ o.from = {Out(r, s)} /\ i = 1
                   /\ o.to = (IF i = n THEN Out(r, s) ELSE Buf(q, s))
                   /\ o.raises \subseteq {Red(q, s)} /\ (i # n => Red(q, s) \in o.raises)
    <3>1. c.ops[r][i] = Op(W(i), F(i), T(i), R(i)) BY <2>5
    <3> HIDE DEF W, F, T, R
    <3>2. /\ c.ops[r][i].waits = W(i) /\ c.ops[r][i].from = F(i)
          /\ c.ops[r][i].to = T(i) /\ c.ops[r][i].raises = R(i)
      BY <3>1 DEF Op
    <3> QED BY <3>2 DEF W, F, T, R
  <2> QED BY <2>8, <2>9 DEF S, q
<1>3. PushOps(c) BY <1>2 DEF PushOps
<1>4. DOMAIN c.ops = Members(c) /\ c.ops = [r \in DOMAIN c.ops |-> c.ops[r]]
  BY <1>1 DEF Push1d
<1>5. c.ops \in [Members(c) -> Seq(Operations(c))] BY <1>2, <1>4
<1> QED BY <1>3, <1>5

\* The same of the ring by segment, whose first round copies and whose last raises no flag.
LEMMA SegmentShape ==
    ASSUME NEW c, c.world \in Nat \ {0}, c.ops = Segment1d(c.world)
    PROVE  PushOps(c) /\ c.ops \in [Members(c) -> Seq(Operations(c))]
<1> DEFINE n == c.world
<1>1. n \in Nat \ {0} /\ Members(c) = 0..(n - 1) BY DEF Members
<1>2. ASSUME NEW r \in Members(c)
      PROVE  /\ c.ops[r] \in Seq(Operations(c)) /\ Len(c.ops[r]) = n
             /\ \A i \in 1..n :
                    LET q == Along(n, r, n - 1)
                        s == Along(n, r, i)
                        o == c.ops[r][i]
                    IN  /\ o.waits = {Epi(r, s)} \cup (IF i = 1 THEN {} ELSE {Red(r, s)})
                        /\ \/ o.from = {Out(r, s), Buf(r, s)} /\ (i = 1 => c.fresh = {})
                           \/ o.from = {Out(r, s)} /\ i = 1
                        /\ o.to = (IF i = n THEN Out(r, s) ELSE Buf(q, s))
                        /\ o.raises \subseteq {Red(q, s)} /\ (i # n => Red(q, s) \in o.raises)
  <2> DEFINE q == Along(n, r, n - 1)
             S(i) == Along(n, r, i)
             W(i) == {Epi(r, S(i))} \cup (IF i = 1 THEN {} ELSE {Red(r, S(i))})
             F(i) == {Out(r, S(i))} \cup (IF i = 1 THEN {} ELSE {Buf(r, S(i))})
             T(i) == IF i = n THEN Out(r, S(i)) ELSE Buf(q, S(i))
             R(i) == IF i = n THEN {} ELSE {Red(q, S(i))}
  <2>1. (r + n - 1) % n = q BY <1>1, <1>2, BeforeFacts
  <2>2. c.ops[r] = [i \in 1..n |->
            LET s == (r + i) % n
            IN  Op({Epi(r, s)} \cup (IF i = 1 THEN {} ELSE {Red(r, s)}),
                   {Out(r, s)} \cup (IF i = 1 THEN {} ELSE {Buf(r, s)}),
                   IF i = n THEN Out(r, s) ELSE Buf((r + n - 1) % n, s), IF i = n THEN {} ELSE {Red((r + n - 1) % n, s)})]
    BY <1>1, <1>2 DEF Segment1d
  <2>3. \A i \in 1..n : (r + i) % n = S(i) /\ S(i) \in Members(c)
    <3> TAKE i \in 1..n
    <3>1. Circular(n, r) BY <1>1, <1>2, AlongFacts
    <3>2. i \in Int BY <1>1
    <3>3. Along(n, r, i) \in 0..(n - 1) BY <3>1, <3>2 DEF Circular
    <3> QED BY <3>3, <1>1 DEF Along
  <2>4. q \in Members(c)
    <3>1. Circular(n, r) BY <1>1, <1>2, AlongFacts
    <3>2. n - 1 \in Int BY <1>1
    <3>3. Along(n, r, n - 1) \in 0..(n - 1) BY <3>1, <3>2 DEF Circular
    <3> QED BY <3>3, <1>1
  <2> HIDE DEF q, S
  <2>5. c.ops[r] = [i \in 1..n |-> Op(W(i), F(i), T(i), R(i))]
    <3> DEFINE O(i) == Op(W(i), F(i), T(i), R(i))
               G(i) ==
                LET s == (r + i) % n
                IN  Op({Epi(r, s)} \cup (IF i = 1 THEN {} ELSE {Red(r, s)}),
                       {Out(r, s)} \cup (IF i = 1 THEN {} ELSE {Buf(r, s)}),
                       IF i = n THEN Out(r, s) ELSE Buf((r + n - 1) % n, s), IF i = n THEN {} ELSE {Red((r + n - 1) % n, s)})
    <3>1. \A i \in 1..n : G(i) = O(i) BY <2>1, <2>3
    <3>2. c.ops[r] = [i \in 1..n |-> G(i)] BY <2>2
    <3> HIDE DEF G, O
    <3>3. c.ops[r] = [i \in 1..n |-> O(i)] BY <3>1, <3>2
    <3> QED BY <3>3 DEF O
  <2>6. \A i \in 1..n : Op(W(i), F(i), T(i), R(i)) \in Operations(c)
    <3> TAKE i \in 1..n
    <3>1. r \in Members(c) /\ q \in Members(c) /\ S(i) \in Members(c) BY <1>2, <2>3, <2>4
    <3>2. W(i) \in SUBSET Flags(c) /\ F(i) \in SUBSET Places(c) /\ T(i) \in Places(c)
      BY <3>1, FlagNames
    <3>3. R(i) \in SUBSET {f \in Flags(c) : f[1] # "epilogue"} BY <3>1, FlagNames
    <3> HIDE DEF W, F, T, R
    <3> QED BY <3>2, <3>3, IsOperation
  <2>7. c.ops[r] \in [1..n -> Operations(c)]
    <3> DEFINE O(i) == Op(W(i), F(i), T(i), R(i))
    <3>1. c.ops[r] = [i \in 1..n |-> O(i)] /\ \A i \in 1..n : O(i) \in Operations(c)
      BY <2>5, <2>6
    <3> HIDE DEF O
    <3> QED BY <3>1
  <2>8. c.ops[r] \in Seq(Operations(c)) /\ Len(c.ops[r]) = n BY <2>7, <1>1, IsSeqOf
  <2>9. ASSUME NEW i \in 1..n
        PROVE  LET s == S(i)
                   o == c.ops[r][i]
               IN  /\ o.waits = {Epi(r, s)} \cup (IF i = 1 THEN {} ELSE {Red(r, s)})
                   /\ \/ o.from = {Out(r, s), Buf(r, s)} /\ (i = 1 => c.fresh = {})
                      \/ o.from = {Out(r, s)} /\ i = 1
                   /\ o.to = (IF i = n THEN Out(r, s) ELSE Buf(q, s))
                   /\ o.raises \subseteq {Red(q, s)} /\ (i # n => Red(q, s) \in o.raises)
    <3>1. c.ops[r][i] = Op(W(i), F(i), T(i), R(i)) BY <2>5
    <3> HIDE DEF W, F, T, R
    <3>2. /\ c.ops[r][i].waits = W(i) /\ c.ops[r][i].from = F(i)
          /\ c.ops[r][i].to = T(i) /\ c.ops[r][i].raises = R(i)
      BY <3>1 DEF Op
    <3> QED BY <3>2 DEF W, F, T, R
  <2> QED BY <2>8, <2>9 DEF S, q
<1>3. PushOps(c) BY <1>2 DEF PushOps
<1>4. DOMAIN c.ops = Members(c) /\ c.ops = [r \in DOMAIN c.ops |-> c.ops[r]]
  BY <1>1 DEF Segment1d
<1>5. c.ops \in [Members(c) -> Seq(Operations(c))] BY <1>2, <1>4
<1> QED BY <1>3, <1>5

\* The ring of additions and copies has the operations CopyOps says.
LEMMA CopyShape ==
    ASSUME NEW c, c.world \in Nat \ {0}, c.ops = Memcpy1d(c.world)
    PROVE  CopyOps(c) /\ c.ops \in [Members(c) -> Seq(Operations(c))]
<1> DEFINE n == c.world
           m == 2 * (n - 1)
<1>1. n \in Nat \ {0} /\ Members(c) = 0..(n - 1) BY DEF Members
<1>2. ASSUME NEW r \in Members(c)
      PROVE  /\ c.ops[r] \in Seq(Operations(c)) /\ Len(c.ops[r]) = m
             /\ \A j \in 1..m :
                    LET q == Along(n, r, n - 1)
                        s == Along(n, r, Round(j))
                    IN  c.ops[r][j] =
                            IF j % 2 = 0
                            THEN Op({Epi(r, s), Red(r, s)}, {Out(r, s), Buf(r, s)}, Out(r, s), {})
                            ELSE Op({Epi(r, s)}, {Out(r, s)}, Buf(q, s), {Red(q, s)})
  <2> DEFINE q == Along(n, r, n - 1)
             S(j) == Along(n, r, Round(j))
             A(s) == Op({Epi(r, s), Red(r, s)}, {Out(r, s), Buf(r, s)}, Out(r, s), {})
             C(s) == Op({Epi(r, s)}, {Out(r, s)}, Buf(q, s), {Red(q, s)})
             O(j) == IF j % 2 = 0 THEN A(S(j)) ELSE C(S(j))
  <2>1. (r + n - 1) % n = q BY <1>1, <1>2, BeforeFacts
  <2>2. c.ops[r] = [j \in 1..m |->
            LET s == (r + (j \div 2 + 1)) % n
            IN  IF j % 2 = 0
                THEN Op({Epi(r, s), Red(r, s)}, {Out(r, s), Buf(r, s)}, Out(r, s), {})
                ELSE Op({Epi(r, s)}, {Out(r, s)}, Buf((r + n - 1) % n, s),
                        {Red((r + n - 1) % n, s)})]
    BY <1>1, <1>2 DEF Memcpy1d
  <2>3. \A j \in 1..m : (r + (j \div 2 + 1)) % n = S(j) /\ S(j) \in Members(c)
    <3> TAKE j \in 1..m
    <3>1. Circular(n, r) BY <1>1, <1>2, AlongFacts
    <3>2. Round(j) \in 1..n BY <1>1, RoundFacts
    <3>3. Round(j) \in Int BY <3>2, <1>1
    <3>4. Along(n, r, Round(j)) \in 0..(n - 1) BY <3>1, <3>3 DEF Circular
    <3> QED BY <3>4, <1>1 DEF Along, Round
  <2>4. q \in Members(c)
    <3>1. Circular(n, r) BY <1>1, <1>2, AlongFacts
    <3>2. n - 1 \in Int BY <1>1
    <3>3. Along(n, r, n - 1) \in 0..(n - 1) BY <3>1, <3>2 DEF Circular
    <3> QED BY <3>3, <1>1
  <2> HIDE DEF q, S
  <2>5. c.ops[r] = [j \in 1..m |-> O(j)] BY <2>1, <2>2, <2>3
  <2>6. \A j \in 1..m : O(j) \in Operations(c)
    <3> TAKE j \in 1..m
    <3> DEFINE s == S(j)
    <3>1. r \in Members(c) /\ q \in Members(c) /\ s \in Members(c) BY <1>2, <2>3, <2>4
    <3>2. O(j) = IF j % 2 = 0 THEN A(s) ELSE C(s) OBVIOUS
    <3> HIDE DEF s, O
    <3>3. A(s) \in Operations(c)
      <4>1. /\ {Epi(r, s), Red(r, s)} \in SUBSET Flags(c)
            /\ {Out(r, s), Buf(r, s)} \in SUBSET Places(c) /\ Out(r, s) \in Places(c)
            /\ {} \in SUBSET {f \in Flags(c) : f[1] # "epilogue"}
        BY <3>1, FlagNames
      <4> QED BY <4>1, IsOperation
    <3>4. C(s) \in Operations(c)
      <4>1. /\ {Epi(r, s)} \in SUBSET Flags(c)
            /\ {Out(r, s)} \in SUBSET Places(c) /\ Buf(q, s) \in Places(c)
            /\ {Red(q, s)} \in SUBSET {f \in Flags(c) : f[1] # "epilogue"}
        BY <3>1, FlagNames
      <4> QED BY <4>1, IsOperation
    <3> HIDE DEF A, C
    <3> QED BY <3>2, <3>3, <3>4
  <2> HIDE DEF O
  <2>7. c.ops[r] \in [1..m -> Operations(c)] BY <2>5, <2>6
  <2>8. m \in Nat BY <1>1
  <2>9. c.ops[r] \in Seq(Operations(c)) /\ Len(c.ops[r]) = m BY <2>7, <2>8, IsSeqOf
  <2>10. \A j \in 1..m : c.ops[r][j] = O(j) BY <2>5
  <2> QED BY <2>9, <2>10 DEF O, S, q
<1>3. CopyOps(c) BY <1>2 DEF CopyOps
<1>4. DOMAIN c.ops = Members(c) /\ c.ops = [r \in DOMAIN c.ops |-> c.ops[r]]
  BY <1>1 DEF Memcpy1d
<1>5. c.ops \in [Members(c) -> Seq(Operations(c))] BY <1>2, <1>4
<1> QED BY <1>3, <1>5

\* A configuration with one of these paths is fine.
LEMMA PathIsFine ==
    ASSUME MaxForwards \in Nat, NEW c, Basic(c), IsPath(c)
    PROVE  Fine(c)
<1>1. c.world \in Nat \ {0} /\ c.forwards \in Nat /\ c.forwards <= MaxForwards BY DEF Basic
<1>2. ASSUME c.ops = NoOps(c)
      PROVE  /\ c.ops \in [Members(c) -> Seq(Operations(c))]
             /\ \A r \in Members(c) : c.ops[r] = <<>>
  BY <1>2, EmptySeq DEF NoOps
<1>3. ASSUME c.ops \in [Members(c) -> Seq(Operations(c))], c.epilogue \in {"store", "add", "keep"},
             c.epilogue = "store" => c.sync,
             c.epilogue # "keep" => \A r \in Members(c) : c.ops[r] = <<>>
      PROVE  Sound(c)
  BY <1>1, <1>3 DEF Sound, Basic
<1>4. CASE c.epilogue # "keep"
  <2>1. c.ops = NoOps(c) /\ c.epilogue \in {"store", "add"} /\ (c.epilogue = "store" => c.sync)
    BY <1>4 DEF IsPath
  <2> QED BY <2>1, <1>1, <1>2, <1>3, <1>4 DEF Fine
<1>5. CASE c.epilogue = "keep" /\ c.ops = Pull1d(c.world)
  <2>1. PullOps(c) /\ Sound(c) BY <1>1, <1>3, <1>5, PullShape
  <2> QED BY <2>1, <1>1, PullIsOrdered DEF Fine
<1>6. CASE c.epilogue = "keep" /\ c.ops = Push1d(c.world) /\ c.fresh = {}
  <2>1. PushOps(c) /\ Sound(c) BY <1>1, <1>3, <1>6, PushShape
  <2> QED BY <2>1, <1>1, PushIsOrdered DEF Fine
<1>7. CASE c.epilogue = "keep" /\ c.ops = Segment1d(c.world)
  <2>1. PushOps(c) /\ Sound(c) BY <1>1, <1>3, <1>7, SegmentShape
  <2> QED BY <2>1, <1>1, PushIsOrdered DEF Fine
<1>8. CASE c.epilogue = "keep" /\ c.ops = Memcpy1d(c.world)
  <2>1. CopyOps(c) /\ Sound(c) BY <1>1, <1>3, <1>8, CopyShape
  <2> QED BY <2>1, <1>1, CopyIsOrdered DEF Fine
<1> QED BY <1>4, <1>5, <1>6, <1>7, <1>8 DEF IsPath

(***************************************************************************)
(* So a forward of these paths returns every partial product of it once,   *)
(* whatever the number of ranks, tiles, groups and forwards, the pace of   *)
(* the ranks and the order of their tiles.                                 *)
(***************************************************************************)
THEOREM PathsAreExact ==
    ASSUME MaxForwards \in Nat,
           \A name \in DOMAIN Configs : Basic(Configs[name]) /\ IsPath(Configs[name])
    PROVE  Spec => []SumsExact
<1>1. ConfigsOK BY PathIsFine DEF ConfigsOK
<1> QED BY <1>1, SumsAreExact

\* The ring kernels among them have numbers.
LEMMA PathIsNumbered ==
    ASSUME MaxForwards \in Nat, NEW c, Basic(c), IsPath(c), c.epilogue = "keep"
    PROVE  Numbered(c)
<1>1. c.world \in Nat \ {0} /\ Sound(c) BY PathIsFine DEF Basic, Fine
<1>2. \/ c.ops = Pull1d(c.world)
      \/ c.ops = Push1d(c.world) /\ c.fresh = {}
      \/ c.ops = Segment1d(c.world) \/ c.ops = Memcpy1d(c.world)
  BY DEF IsPath
<1>3. CASE c.ops = Pull1d(c.world) BY <1>1, <1>3, PullShape, PullIsNumbered
<1>4. CASE c.ops = Push1d(c.world) /\ c.fresh = {} BY <1>1, <1>4, PushShape, PushIsNumbered
<1>5. CASE c.ops = Segment1d(c.world) BY <1>1, <1>5, SegmentShape, PushIsNumbered
<1>6. CASE c.ops = Memcpy1d(c.world) BY <1>1, <1>6, CopyShape, CopyIsNumbered
<1> QED BY <1>2, <1>3, <1>4, <1>5, <1>6

(***************************************************************************)
(* And their ranks never all wait for each other: neither in the barriers  *)
(* nor for the flags of the ring, however many ranks it has.               *)
(***************************************************************************)
THEOREM PathsNeverStuck ==
    ASSUME MaxForwards \in Nat,
           \A name \in DOMAIN Configs : Basic(Configs[name]) /\ IsPath(Configs[name])
    PROVE  Spec => []NeverStuck
<1>1. ConfigsOK BY PathIsFine DEF ConfigsOK
<1>2. AllNumbered BY PathIsNumbered DEF AllNumbered
<1> QED BY <1>1, <1>2, ForwardsNeverStuck
=============================================================================
