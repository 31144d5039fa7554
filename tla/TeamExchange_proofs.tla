--------------------------- MODULE TeamExchange_proofs ---------------------------
(***************************************************************************)
(* What the exchanges of a team take out of their buffers is of their own  *)
(* forward (ResultsExact), for every number of nodes, ranks, tokens,       *)
(* experts, splits, warps and forwards, and every list of stages that      *)
(* keeps the order of the code (ConfigsOK).                                *)
(*                                                                         *)
(* The argument.  Arrivals are counted (ArrivalsCounted), so that a rank   *)
(* through a barrier has met its members there (BarriersHold): a rank that *)
(* reads results finds every peer through the kernel, with its puts        *)
(* complete and the next ones not begun (Reading).  A put in flight is of  *)
(* a kernel that no barrier of the team is behind (WireOpen) and reads a   *)
(* source that stands meanwhile (SourcesStand); no two puts write one      *)
(* place (TargetsDiffer), so what has landed stands until its own kernel   *)
(* puts it again (TargetsStand).  Within the dispatch, where rows are      *)
(* passed on before any barrier, the signals take its place: they come     *)
(* behind their rows (RowsBeforeSignals) and are those of this forward,    *)
(* because the counter is zeroed between two (SignalsCounted), and a rank  *)
(* does not zero it with a signal on its way (SignalsHeard).               *)
(*                                                                         *)
(* Nor is an exchange ever stuck (NeverStuck).  If nobody could move,      *)
(* nothing would be in flight, and all would wait, in a barrier or for     *)
(* signals in a dispatch (WhereStuck).  But a rank furthest behind finds   *)
(* its barriers complete (LastPasses), and all signals of its peers        *)
(* (LastIsSignalled), which have sent them and are no forward ahead.       *)
(***************************************************************************)
EXTENDS TeamExchange, FiniteSetTheorems, WellFoundedInduction, TLAPS

-----------------------------------------------------------------------------
(* Stages and barriers. *)

Stages    == Exchange.stages
Pos(name) == StagesOf(Stages, name)

\* Where r is; its forward and stage are in the order of its stream.
At(r) == <<forward[r], stage[r]>>
Before(x, y) == x[1] < y[1] \/ (x[1] = y[1] /\ x[2] < y[2])

\* The calls of barrier b of a stream, those r is through with and those it has arrived at.
Calls(b)      == {x \in Nat \X DOMAIN Stages : Stages[x[2]] = b}
Passed(r, b)  == {x \in Calls(b) : Before(x, At(r))}
Reached(r, b) == {x \in Calls(b) : Before(x, At(r)) \/ (waiting[r] /\ x = At(r))}

Begun(r, name) == \E i \in Pos(name) : i <= stage[r]
Past(r, name)  == \E i \in Pos(name) : i < stage[r]

\* A barrier of the team behind stage name has completed the puts of r.
Flushed(r, name) ==
    \E i \in Pos(name), m \in Pos("team") :
        i < m /\ (m < stage[r] \/ (m = stage[r] /\ waiting[r]))
Open(r, name) == Begun(r, name) /\ ~Flushed(r, name)

\* The forward of r the last results of stage name are of.
Round(r, name) == IF Begun(r, name) THEN forward[r] + 1 ELSE forward[r]

\* Streams stand somewhere in their list; a rank in a barrier of the team has nothing in
\* flight.
StreamsInOrder ==
    /\ exchange \in DOMAIN Configs
    /\ forward \in [World -> 0..Exchange.forwards]
    /\ stage \in [World -> DOMAIN Stages]
    /\ waiting \in [World -> BOOLEAN]
    /\ \A r \in World :
        /\ forward[r] = Exchange.forwards => stage[r] = 1 /\ ~waiting[r] /\ did[r] = {}
        /\ waiting[r] => Stages[stage[r]] \in {"team", "node"}
        /\ waiting[r] /\ Stages[stage[r]] = "team" => wire[r] = {}

\* The functions of the state have their domains.
Shapes ==
    /\ did = [r \in World |-> did[r]] /\ wire = [r \in World |-> wire[r]]
    /\ mem = [r \in World |-> mem[r]] /\ bad \in [World -> BOOLEAN]
    /\ seen = [r \in World |-> [s \in Splits |-> [n \in Nodes |-> seen[r][s][n]]]]
    /\ met = [b \in {"team", "node"} |-> [r \in World |-> met[b][r]]]

\* The counter of a barrier is the number of calls its rank has arrived at.
ArrivalsCounted ==
    \A b \in {"team", "node"}, r \in World :
        /\ IsFiniteSet(Reached(r, b)) /\ met[b][r] \in Nat
        /\ met[b][r] = Cardinality(Reached(r, b))

\* Whoever is through a call has met all its members there.
BarriersHold ==
    \A b \in {"team", "node"}, r \in World : \A p \in Members(r, b) :
        Passed(r, b) \subseteq Reached(p, b)

-----------------------------------------------------------------------------
(* What is put where. *)

Kinds == {"exchange", "indices", "send", "rows", "sums"}
KernelOf(kind) == CASE kind \in {"send", "rows"} -> "dispatch"
                    [] kind = "sums" -> "combine"
                    [] OTHER -> kind

\* An item that one rank puts to another: the <<of, item>> of its content.
Puts ==
    {x \in [kind : Kinds, from : World, to : World, of : World, item : Nat] :
        CASE x.kind = "exchange" -> x.of = x.from /\ x.item = x.to
          [] x.kind = "indices"  -> x.of = x.from /\ x.from # x.to /\ x.item \in Copiers
          [] x.kind = "send"     ->
                /\ x.of = x.from /\ NodeOf(x.to) # NodeOf(x.from)
                /\ x.to = RailOf(x.from, NodeOf(x.to))
                /\ x.item \in Wanted(x.from, NodeOf(x.to))
          [] x.kind = "rows"     ->
                /\ x.from = RailOf(x.of, NodeOf(x.from)) /\ x.item \in Tokens(x.of)
                /\ x.to \in Hits(x.of, x.item, NodeOf(x.from))
          [] x.kind = "sums"     ->
                /\ x.of = x.to /\ NodeOf(x.to) # NodeOf(x.from)
                /\ x.from = RailOf(x.to, NodeOf(x.from))
                /\ x.item \in Wanted(x.to, NodeOf(x.from))}

Source(x) ==
    CASE x.kind = "exchange" -> <<"segment", x.to>>
      [] x.kind = "indices"  -> <<"index", x.from, x.item>>
      [] x.kind = "send"     -> <<"in", NodeOf(x.from), x.item>>
      [] x.kind = "rows"     -> <<"in", NodeOf(x.of), x.item>>
      [] x.kind = "sums"     -> <<"red", NodeOf(x.to), SumRow(x.to, NodeOf(x.from), x.item)>>

Target(x) ==
    CASE x.kind = "exchange" -> <<"got", x.from>>
      [] x.kind = "indices"  -> <<"index", x.from, x.item>>
      [] x.kind = "send"     -> <<"in", NodeOf(x.from), x.item>>
      [] x.kind = "rows"     -> <<"out", x.of, x.item>>
      [] x.kind = "sums"     -> <<"sum", NodeOf(x.from), SumRow(x.to, NodeOf(x.from), x.item)>>

\* The step of a warp that goes from node n to node m, for a split.
StepOf(n, m, s) == ((m + Exchange.nodes - n) % Exchange.nodes) * Exchange.splits + s

SendBlocks(r, n, s)   == {b \in BlocksTo(r, n) : SplitOf(r, b * Exchange.block) = s}
SplitTokens(q, n, s)  == {t \in Wanted(q, n) : SplitOf(q, t) = s}

TaskOf(x) ==
    CASE x.kind \in {"exchange", "indices"} -> <<"put", x.to>>
      [] x.kind = "send" ->
            LET n == NodeOf(x.to)
                s == SplitOf(x.from, x.item)
            IN  <<"send", Offset(BlockOf(x.item), SendBlocks(x.from, n, s)) % Exchange.senders,
                  StepOf(NodeOf(x.from), n, s)>>
      [] x.kind = "rows" ->
            LET n == NodeOf(x.from)
                s == SplitOf(x.of, x.item)
            IN  <<"dispatch", Offset(x.item, SplitTokens(x.of, n, s)) % Exchange.dispatchers,
                  StepOf(NodeOf(x.of), n, s)>>
      [] x.kind = "sums" -> <<"sums", NodeOf(x.to), BlockOf(x.item)>>

\* x goes by the same operation as y.
Together(x, y) == x.kind = y.kind /\ x.from = y.from /\ x.to = y.to /\ TaskOf(x) = TaskOf(y)
RowsWith(y) == {<<Source(x), Target(x)>> : x \in {z \in Puts : Together(z, y)}}
OpOf(y) == [to |-> y.to, rows |-> RowsWith(y), flag |-> <<>>, task |-> TaskOf(y)]

Kernel(x) == KernelOf(x.kind)
DidTask(r, name, task) == Past(r, name) \/ (Stages[stage[r]] = name /\ task \in did[r])
IsDone(x) == DidTask(x.from, Kernel(x), TaskOf(x))

\* A signal of send warp w after step i.
SignalOf(r, w, i) ==
    [to |-> RailOf(r, (NodeOf(r) + NodeOffset(i)) % Exchange.nodes), rows |-> {},
     flag |-> <<Split(i), NodeOf(r)>>, task |-> <<"send", w, i>>]

\* Only a kernel has done something, and nothing but its tasks.
TasksInOrder ==
    \A r \in World : did[r] # {} =>
        /\ Stages[stage[r]] \in {"dispatch", "combine", "exchange", "indices"}
        /\ did[r] \subseteq Tasks(r)

\* Everything in flight is a put or a signal of its rank,
WireKnown ==
    \A r \in World : \A op \in wire[r] :
        \/ \E x \in Puts : x.from = r /\ op = OpOf(x)
        \/ \E w \in Senders, i \in Steps("send") : op = SignalOf(r, w, i)

\* done by a kernel that no barrier of the team is behind yet,
WireOpen ==
    /\ \A x \in Puts : OpOf(x) \in wire[x.from] =>
            Open(x.from, Kernel(x)) /\ IsDone(x)
    /\ \A r \in World, w \in Senders, i \in Steps("send") :
            SignalOf(r, w, i) \in wire[r] =>
                Open(r, "dispatch") /\ DidTask(r, "dispatch", <<"send", w, i>>)

Content(f, x) == <<f, x.of, x.item>>

\* and what it will read is of this forward.
SourcesStand ==
    \A x \in Puts : OpOf(x) \in wire[x.from] =>
        Held(x.from, Source(x)) = Content(forward[x.from] + 1, x)

\* What has been put stands, until the kernel puts it again.
Landed(x) ==
    /\ Pos(Kernel(x)) # {} /\ Round(x.from, Kernel(x)) >= 1
    /\ Begun(x.from, Kernel(x)) => IsDone(x) /\ OpOf(x) \notin wire[x.from]

TargetsStand ==
    \A x \in Puts : Landed(x) =>
        Held(x.to, Target(x)) = Content(Round(x.from, Kernel(x)), x)

-----------------------------------------------------------------------------
(* What a rank writes itself. *)

\* What a rank has copied for its forward stands while its kernel needs it.
CopiesStand ==
    \A r \in World :
        /\ Past(r, "segments") =>
              \A q \in World : Held(r, <<"segment", q>>) = <<forward[r] + 1, r, q>>
        /\ \A c \in Copiers : DidTask(r, "indices", <<"copy", c>>) =>
              Held(r, <<"index", r, c>>) = <<forward[r] + 1, r, c>>
        /\ Past(r, "copy") =>
              \A t \in Tokens(r) : Held(r, <<"in", NodeOf(r), t>>) = <<forward[r] + 1, r, t>>

\* Before a put of indices, all of them are copied.
IndicesCopied ==
    \A r \in World, q \in World, c \in Copiers :
        Stages[stage[r]] = "indices" /\ <<"put", q>> \in did[r] => <<"copy", c>> \in did[r]

\* The results of the experts are those of the last forward they ran in.
ResultsOfExperts ==
    \A r \in World : \A x \in AllTokens : r \in Experts(x[1], x[2]) =>
        (Pos("experts") # {} /\ (Past(r, "experts") \/ forward[r] >= 1) =>
            Held(r, <<"act", x[1], x[2]>>) =
                <<IF Past(r, "experts") THEN forward[r] + 1 ELSE forward[r], x[1], x[2]>>)

\* So are the sums that a rank writes into its own output_buffer, and with one node into
\* that of a peer.
SumsStand ==
    /\ \A r \in World : \A t \in Wanted(r, NodeOf(r)) :
        Exchange.nodes > 1 /\ DidTask(r, "combine", <<"sums", NodeOf(r), BlockOf(t)>>) =>
            Held(r, <<"sum", NodeOf(r), SumRow(r, NodeOf(r), t)>>) = <<forward[r] + 1, r, t>>
    /\ Exchange.nodes = 1 =>
        \A r \in World : \A x \in AllTokens :
            /\ r \in Experts(x[1], x[2])
            /\ Pos("combine") # {} /\ Round(r, "combine") >= 1
            /\ Begun(r, "combine") => DidTask(r, "combine", <<"sum", x[1], x[2]>>)
            => Held(x[1], <<"sum", r, x[2]>>) = <<Round(r, "combine"), x[1], x[2]>>

-----------------------------------------------------------------------------
(* Signals. *)

\* The warps of p whose signal of step i has come.
GotOf(p, i) ==
    {w \in Senders : /\ DidTask(p, "dispatch", <<"send", w, i>>)
                     /\ SignalOf(p, w, i) \notin wire[p]}

\* How many of r's dispatches have their signals zeroed.
Zeroed(r) == IF Past(r, "zero") THEN forward[r] + 1 ELSE forward[r]

PeerOf(p, i) == RailOf(p, (NodeOf(p) + NodeOffset(i)) % Exchange.nodes)

\* A counter has the signals that have come since it was zeroed for this forward.
SignalsCounted ==
    /\ \A p \in World, i \in Steps("send") :
        seen[PeerOf(p, i)][Split(i)][NodeOf(p)] =
            IF forward[p] = Zeroed(PeerOf(p, i)) THEN Cardinality(GotOf(p, i)) ELSE 0
    /\ \A r \in World, s \in Splits : seen[r][s][NodeOf(r)] = 0

\* q knows that the rows of p for it in this split are there.
Heard(p, i) ==
    LET q == PeerOf(p, i)
    IN  forward[p] > forward[q] \/ (forward[p] = forward[q] /\ GotOf(p, i) = Senders)

\* A rank that has dispatched rows of a peer knows that all have come.
SignalsHeard ==
    \A p \in World, i \in Steps("send") :
        LET q == PeerOf(p, i)
        IN  Past(q, "dispatch")
                \/ (\E w \in Dispatchers : DidTask(q, "dispatch", <<"dispatch", w, i>>))
            => Heard(p, i)

\* A signal is behind the rows it is about.
RowsBeforeSignals ==
    \A x \in Puts : x.kind = "send" =>
        LET task == TaskOf(x)
        IN  IsDone(x) /\ SignalOf(x.from, task[2], task[3]) \notin wire[x.from]
                => OpOf(x) \notin wire[x.from]

\* The inductive invariant.
IInv ==
    /\ StreamsInOrder /\ Shapes /\ ArrivalsCounted /\ BarriersHold
    /\ TasksInOrder /\ WireKnown /\ WireOpen /\ SourcesStand /\ TargetsStand
    /\ CopiesStand /\ IndicesCopied /\ ResultsOfExperts /\ SumsStand
    /\ SignalsCounted /\ SignalsHeard /\ RowsBeforeSignals
    /\ ResultsExact

-----------------------------------------------------------------------------
(* Arithmetic. *)

\* Multiplying by a natural keeps the order.
LEMMA MulMono == ASSUME NEW x \in Int, NEW y \in Int, NEW k \in Nat, x <= y
                 PROVE  x * k <= y * k /\ x * k \in Int /\ y * k \in Int
<1>1. (y - x) * k >= 0 /\ (y - x) * k = y * k - x * k OBVIOUS
<1> QED BY <1>1

\* The quotient and the remainder of a division.
LEMMA DivMod == ASSUME NEW a \in Int, NEW k \in Nat \ {0}
                PROVE  /\ a \div k \in Int /\ a % k \in 0..(k - 1)
                       /\ a = (a \div k) * k + (a % k)
  OBVIOUS

\* A number and a remainder below the divisor are what dividing gives back.
LEMMA DivUnique == ASSUME NEW q \in Int, NEW s \in Int, NEW k \in Nat \ {0}, 0 <= s, s < k
                   PROVE  (q * k + s) \div k = q /\ (q * k + s) % k = s
<1> DEFINE a == q * k + s
           d == a \div k
           m == a % k
<1>1. a \in Int OBVIOUS
<1>2. d \in Int /\ m \in 0..(k - 1) /\ a = d * k + m
  <2> HIDE DEF a
  <2> QED BY <1>1, DivMod
<1>3. q * k \in Int /\ d * k \in Int /\ q * k + s = d * k + m BY <1>2
<1> HIDE DEF d, m
<1>4. ~(d >= q + 1)
  <2> SUFFICES ASSUME d >= q + 1 PROVE FALSE OBVIOUS
  <2>1. (q + 1) * k <= d * k BY <1>2, MulMono
  <2>2. (q + 1) * k = q * k + k OBVIOUS
  <2> QED BY <2>1, <2>2, <1>2, <1>3
<1>5. ~(d <= q - 1)
  <2> SUFFICES ASSUME d <= q - 1 PROVE FALSE OBVIOUS
  <2>1. d * k <= (q - 1) * k BY <1>2, MulMono
  <2>2. (q - 1) * k = q * k - k OBVIOUS
  <2> QED BY <2>1, <2>2, <1>2, <1>3
<1>6. d = q BY <1>4, <1>5, <1>2
<1>7. m = s BY <1>6, <1>3, <1>2
<1> QED BY <1>6, <1>7 DEF d, m

\* A quotient is less than n if the number is less than n times the divisor.
LEMMA DivLess == ASSUME NEW a \in Nat, NEW k \in Nat \ {0}, NEW n \in Nat, a < n * k
                 PROVE  a \div k \in 0..(n - 1)
<1> DEFINE d == a \div k
           m == a % k
<1>1. d \in Int /\ m \in 0..(k - 1) /\ a = d * k + m BY DivMod
<1> HIDE DEF d, m
<1>2. d >= n => n * k <= d * k BY <1>1, MulMono
<1>3. d <= -1 => d * k <= (-1) * k BY <1>1, MulMono
<1>4. (-1) * k = -k /\ n * k \in Int /\ d * k \in Int BY <1>1
<1> QED BY <1>1, <1>2, <1>3, <1>4 DEF d

\* How far it is from n to m in a ring.
LEMMA RingOffset == ASSUME NEW N \in Nat \ {0}, NEW n \in 0..(N - 1), NEW m \in 0..(N - 1)
                    PROVE  (m + N - n) % N = IF m >= n THEN m - n ELSE m + N - n
<1>1. m >= n => (1 * N + (m - n)) % N = m - n BY DivUnique
<1>2. m < n => (0 * N + (m + N - n)) % N = m + N - n BY DivUnique
<1>3. 1 * N + (m - n) = m + N - n /\ 0 * N + (m + N - n) = m + N - n OBVIOUS
<1> QED BY <1>1, <1>2, <1>3

\* Where d steps forward lead.
LEMMA RingForward == ASSUME NEW N \in Nat \ {0}, NEW n \in 0..(N - 1), NEW d \in 0..(N - 1)
                     PROVE  (n + d) % N = IF n + d < N THEN n + d ELSE n + d - N
<1>1. n + d < N => (0 * N + (n + d)) % N = n + d BY DivUnique
<1>2. n + d >= N => (1 * N + (n + d - N)) % N = n + d - N BY DivUnique
<1>3. 0 * N + (n + d) = n + d /\ 1 * N + (n + d - N) = n + d OBVIOUS
<1> QED BY <1>1, <1>2, <1>3

-----------------------------------------------------------------------------
(* Ranks, rails and steps. *)

\* The numbers of a configuration.
Numbers ==
    /\ Exchange.nodes \in Nat \ {0} /\ Exchange.local \in Nat \ {0}
    /\ Exchange.block \in Nat \ {0} /\ Exchange.splits \in Nat \ {0}
    /\ Exchange.senders \in Nat \ {0} /\ Exchange.dispatchers \in Nat \ {0}
    /\ Exchange.copiers \in Nat /\ Exchange.forwards \in Nat

\* What Sound says of the configuration of the behaviour.
LEMMA SoundFacts ==
    ASSUME Sound(Exchange)
    PROVE  /\ Numbers
           /\ Exchange.experts \in [World -> Seq(SUBSET World)]
           /\ Stages \in Seq(StageNames) /\ Stages # <<>>
  BY DEF Sound, Numbers, World, Stages

\* A rank is its node and its place in the node.
LEMMA RankFacts ==
    ASSUME Numbers, NEW r \in World
    PROVE  /\ r \in Nat /\ NodeOf(r) \in Nodes /\ r % Exchange.local \in 0..(Exchange.local - 1)
           /\ r = NodeOf(r) * Exchange.local + (r % Exchange.local)
<1> DEFINE N == Exchange.nodes
           L == Exchange.local
<1>1. N \in Nat \ {0} /\ L \in Nat \ {0} BY DEF Numbers
<1>2. r \in Nat /\ r < N * L
  <2>1. N * L \in Int BY <1>1
  <2>2. r \in 0..(N * L - 1) BY DEF World
  <2> HIDE DEF N, L
  <2> QED BY <2>1, <2>2
<1>3. r \div L \in 0..(N - 1) BY <1>1, <1>2, DivLess
<1>4. r % L \in 0..(L - 1) /\ r = (r \div L) * L + (r % L)
  <2> HIDE DEF N, L
  <2> QED BY <1>1, <1>2, DivMod
<1> QED BY <1>2, <1>3, <1>4 DEF NodeOf, Nodes

\* The rank of r's rail in a node is a rank of that node.
LEMMA RailFacts ==
    ASSUME Numbers, NEW r \in World, NEW n \in Nodes
    PROVE  /\ RailOf(r, n) \in World /\ NodeOf(RailOf(r, n)) = n
           /\ RailOf(r, n) % Exchange.local = r % Exchange.local
<1> DEFINE N == Exchange.nodes
           L == Exchange.local
           m == r % L
<1>1. N \in Nat \ {0} /\ L \in Nat \ {0} /\ n \in 0..(N - 1) BY DEF Numbers, Nodes
<1>2. m \in 0..(L - 1) BY RankFacts
<1> HIDE DEF m
<1>3. (n * L + m) \div L = n /\ (n * L + m) % L = m
  <2> HIDE DEF N, L
  <2> QED BY <1>1, <1>2, DivUnique
<1>4. n * L + m \in 0..(N * L - 1)
  <2> HIDE DEF N, L
  <2>1. n * L <= (N - 1) * L /\ 0 * L <= n * L BY <1>1, MulMono
  <2>2. (N - 1) * L = N * L - L /\ 0 * L = 0 /\ n * L \in Int /\ N * L \in Int BY <1>1
  <2> QED BY <2>1, <2>2, <1>1, <1>2
<1>5. RailOf(r, n) = n * L + m BY DEF RailOf, m
<1> QED BY <1>3, <1>4, <1>5 DEF World, NodeOf, m

\* A rail stays the same from wherever it is followed.
LEMMA RailRail ==
    ASSUME Numbers, NEW r \in World, NEW n \in Nodes, NEW m \in Nodes
    PROVE  RailOf(RailOf(r, n), m) = RailOf(r, m) /\ RailOf(r, NodeOf(r)) = r
<1>1. RailOf(r, n) % Exchange.local = r % Exchange.local BY RailFacts
<1>2. r = NodeOf(r) * Exchange.local + (r % Exchange.local) BY RankFacts
<1>3. RailOf(r, NodeOf(r)) = r BY <1>2 DEF RailOf
<1>4. RailOf(RailOf(r, n), m) = RailOf(r, m) BY <1>1 DEF RailOf
<1> QED BY <1>3, <1>4

\* The step from node n to node m for a split, and what it decodes to.
LEMMA StepFacts ==
    ASSUME Numbers, NEW n \in Nodes, NEW m \in Nodes, NEW s \in Splits
    PROVE  LET i == StepOf(n, m, s)
           IN  /\ i \in Steps("dispatch") /\ Split(i) = s
               /\ NodeOffset(i) = (m + Exchange.nodes - n) % Exchange.nodes
               /\ (n + NodeOffset(i)) % Exchange.nodes = m
               /\ (m + Exchange.nodes - NodeOffset(i)) % Exchange.nodes = n
               /\ n # m => i \in Steps("send")
<1> DEFINE N == Exchange.nodes
           S == Exchange.splits
           d == (m + N - n) % N
<1>1. N \in Nat \ {0} /\ S \in Nat \ {0} BY DEF Numbers
<1>2. n \in 0..(N - 1) /\ m \in 0..(N - 1) /\ s \in 0..(S - 1) BY DEF Nodes, Splits
<1>3. d = IF m >= n THEN m - n ELSE m + N - n BY <1>1, <1>2, RingOffset
<1>4. d \in 0..(N - 1) /\ (n # m => d >= 1) BY <1>1, <1>2, <1>3
<1>5. (n + d) % N = IF n + d < N THEN n + d ELSE n + d - N
  <2> HIDE DEF d, N
  <2> QED BY <1>1, <1>2, <1>4, RingForward
<1>6. (m + N - d) % N = IF m >= d THEN m - d ELSE m + N - d
  <2> HIDE DEF d, N
  <2> QED BY <1>1, <1>2, <1>4, RingOffset
<1>7. (n + d) % N = m /\ (m + N - d) % N = n
  <2> HIDE DEF d, N
  <2> QED BY <1>1, <1>2, <1>3, <1>4, <1>5, <1>6
<1> HIDE DEF d
<1>8. (d * S + s) \div S = d /\ (d * S + s) % S = s
  <2> HIDE DEF N, S
  <2>1. d \in Int /\ s \in Int /\ 0 <= s /\ s < S BY <1>1, <1>2, <1>4
  <2> QED BY <1>1, <2>1, DivUnique
<1>9. d * S + s \in 0..(N * S - 1) /\ (d >= 1 => d * S + s >= S)
  <2> HIDE DEF N, S
  <2>1. d * S <= (N - 1) * S /\ 0 * S <= d * S /\ (d >= 1 => 1 * S <= d * S)
    BY <1>1, <1>4, MulMono
  <2>2. (N - 1) * S = N * S - S /\ 0 * S = 0 /\ 1 * S = S /\ d * S \in Int /\ N * S \in Int
    BY <1>1, <1>4
  <2> QED BY <2>1, <2>2, <1>1, <1>2, <1>4
<1>10. StepOf(n, m, s) = d * S + s BY DEF StepOf, d
<1>11. d * S + s \in Steps("dispatch") /\ (d >= 1 => d * S + s \in Steps("send"))
  <2>1. Steps("dispatch") = 0..(N * S - 1) /\ Steps("send") = S..(N * S - 1) BY DEF Steps
  <2>2. N * S \in Int /\ d * S + s \in Int BY <1>9, <1>1
  <2> HIDE DEF N, S
  <2> QED BY <2>1, <2>2, <1>9, <1>1
<1> QED BY <1>4, <1>7, <1>8, <1>10, <1>11 DEF Split, NodeOffset, d

\* Every step is one of these.
LEMMA StepDecodes ==
    ASSUME Numbers, NEW i \in Steps("dispatch"), NEW n \in Nodes
    PROVE  /\ Split(i) \in Splits /\ NodeOffset(i) \in Nodes
           /\ LET m == (n + NodeOffset(i)) % Exchange.nodes
              IN  /\ m \in Nodes /\ StepOf(n, m, Split(i)) = i
                  /\ i \in Steps("send") => m # n
           /\ LET m == (n + Exchange.nodes - NodeOffset(i)) % Exchange.nodes
              IN  m \in Nodes /\ StepOf(m, n, Split(i)) = i
<1> DEFINE N == Exchange.nodes
           S == Exchange.splits
           d == i \div S
           s == i % S
           a == (n + d) % N
           b == (n + N - d) % N
<1>1. N \in Nat \ {0} /\ S \in Nat \ {0} BY DEF Numbers
<1>2. n \in 0..(N - 1) /\ i \in Nat /\ i < N * S /\ (i \in Steps("send") => i >= S)
  <2>1. i \in 0..(N * S - 1) /\ (i \in Steps("send") => i \in S..(N * S - 1)) BY DEF Steps
  <2>2. N * S \in Int BY <1>1
  <2>3. n \in 0..(N - 1) BY DEF Nodes
  <2> HIDE DEF N, S
  <2> QED BY <2>1, <2>2, <2>3, <1>1
<1>3. d \in 0..(N - 1) BY <1>1, <1>2, DivLess
<1>4. s \in 0..(S - 1) /\ i = d * S + s
  <2> HIDE DEF N, S
  <2> QED BY <1>1, <1>2, DivMod
<1> HIDE DEF d, s
<1>5. a = IF n + d < N THEN n + d ELSE n + d - N BY <1>1, <1>2, <1>3, RingForward
<1>6. b = IF n >= d THEN n - d ELSE n + N - d BY <1>1, <1>2, <1>3, RingOffset
<1> HIDE DEF a, b
<1>7. a \in 0..(N - 1) /\ b \in 0..(N - 1) BY <1>1, <1>2, <1>3, <1>5, <1>6
<1>8. (a + N - n) % N = d
  <2>1. (a + N - n) % N = IF a >= n THEN a - n ELSE a + N - n BY <1>1, <1>2, <1>7, RingOffset
  <2> QED BY <2>1, <1>1, <1>2, <1>3, <1>5
<1>9. (n + N - b) % N = d
  <2>1. (n + N - b) % N = IF n >= b THEN n - b ELSE n + N - b BY <1>1, <1>2, <1>7, RingOffset
  <2> QED BY <2>1, <1>1, <1>2, <1>3, <1>6
<1>10. i \in Steps("send") => d >= 1
  <2> SUFFICES ASSUME i \in Steps("send"), d < 1 PROVE FALSE BY <1>3
  <2>1. d = 0 /\ 0 * S = 0 BY <1>1, <1>3
  <2> QED BY <2>1, <1>1, <1>2, <1>4
<1>11. i \in Steps("send") => a # n BY <1>1, <1>2, <1>3, <1>5, <1>10
<1>12. Split(i) = s /\ NodeOffset(i) = d BY DEF Split, NodeOffset, d, s
<1>13. StepOf(n, a, s) = d * S + s /\ StepOf(b, n, s) = d * S + s BY <1>8, <1>9 DEF StepOf
<1> QED BY <1>3, <1>4, <1>7, <1>11, <1>12, <1>13 DEF Nodes, Splits, a, b

-----------------------------------------------------------------------------
(* Tokens, blocks and rows. *)

\* How many numbers lie below n.
LEMMA UpTo == ASSUME NEW n \in Nat
              PROVE  IsFiniteSet(0..(n - 1)) /\ Cardinality(0..(n - 1)) = n
  BY FS_Interval

\* The tokens of a rank are the first naturals; their experts are on ranks.
LEMMA TokenFacts ==
    ASSUME Sound(Exchange), NEW q \in World
    PROVE  /\ Tokens(q) \subseteq Nat /\ IsFiniteSet(Tokens(q))
           /\ Cardinality(Tokens(q)) \in Nat
           /\ \A t \in Tokens(q) : t < Cardinality(Tokens(q)) /\ Experts(q, t) \subseteq World
<1> DEFINE n == Len(Exchange.experts[q])
<1>1. Exchange.experts[q] \in Seq(SUBSET World) BY SoundFacts
<1>2. n \in Nat BY <1>1
<1>3. Tokens(q) = 0..(n - 1) BY DEF Tokens
<1> HIDE DEF n
<1>4. IsFiniteSet(0..(n - 1)) /\ Cardinality(0..(n - 1)) = n BY <1>2, UpTo
<1>5. Cardinality(Tokens(q)) = n BY <1>3, <1>4
<1>6. ASSUME NEW t \in Tokens(q) PROVE Experts(q, t) \subseteq World
  <2>1. t + 1 \in 1..Len(Exchange.experts[q]) BY <1>2, <1>3 DEF n
  <2>2. Exchange.experts[q][t + 1] \in SUBSET World BY <1>1, <2>1
  <2> QED BY <2>2 DEF Experts
<1>7. Tokens(q) \subseteq Nat /\ \A t \in Tokens(q) : t < n BY <1>2, <1>3
<1> QED BY <1>2, <1>3, <1>4, <1>5, <1>6, <1>7

\* Where the block of a token lies.
LEMMA BlockFacts ==
    ASSUME Numbers, NEW t \in Nat
    PROVE  LET b == BlockOf(t)
           IN  /\ b \in Nat /\ b <= t /\ b * Exchange.block \in Nat
               /\ b * Exchange.block <= t /\ t < b * Exchange.block + Exchange.block
               /\ BlockOf(b * Exchange.block) = b
<1> DEFINE B == Exchange.block
           b == t \div B
           m == t % B
<1>1. B \in Nat \ {0} BY DEF Numbers
<1>2. b \in Int /\ m \in 0..(B - 1) /\ t = b * B + m
  <2> HIDE DEF B
  <2> QED BY <1>1, DivMod
<1>3. b >= 0
  <2> HIDE DEF B
  <2>1. t < (t + 1) * B
    <3>1. (t + 1) * 1 <= (t + 1) * B BY <1>1
    <3> QED BY <3>1, <1>1
  <2> QED BY <1>1, <2>1, DivLess
<1> HIDE DEF b, m, B
<1>4. 0 * B <= b * B /\ b * B \in Int /\ 0 * B = 0 BY <1>1, <1>2, <1>3, MulMono
<1>5. b * 1 <= b * B BY <1>1, <1>2, <1>3
<1>6. (b * B + 0) \div B = b BY <1>1, <1>2, DivUnique
<1>7. (b * B) \div B = b BY <1>6, <1>4
<1>8. b \in Nat /\ b <= t /\ b * B \in Nat /\ b * B <= t /\ t < b * B + B
  BY <1>1, <1>2, <1>3, <1>4, <1>5
<1> QED BY <1>7, <1>8 DEF BlockOf, b, B

\* A token and the first token of its block are of the same split.
LEMMA SplitFacts ==
    ASSUME Sound(Exchange), NEW q \in World, NEW t \in Tokens(q)
    PROVE  /\ SplitOf(q, t) \in Splits
           /\ SplitOf(q, BlockOf(t) * Exchange.block) = SplitOf(q, t)
<1> DEFINE S == Exchange.splits
           T == Cardinality(Tokens(q))
           c == (T + S - 1) \div S
           m == (T + S - 1) % S
           b == BlockOf(t) * Exchange.block
<1>1. S \in Nat \ {0} /\ Numbers BY SoundFacts DEF Numbers
<1>2. T \in Nat /\ t \in Nat /\ t < T BY TokenFacts
<1>3. b \in Nat /\ b <= t /\ BlockOf(b) = BlockOf(t) BY <1>1, <1>2, BlockFacts
<1> HIDE DEF b, T, S
<1>4. c \in Int /\ m \in 0..(S - 1) /\ T + S - 1 = c * S + m
  <2>1. T + S - 1 \in Int BY <1>1, <1>2
  <2> QED BY <2>1, <1>1, DivMod
<1> HIDE DEF c, m
<1>5. c * S \in Int /\ T <= c * S BY <1>1, <1>2, <1>4
<1>6. c >= 1
  <2> SUFFICES ASSUME c <= 0 PROVE FALSE BY <1>4
  <2>1. c * S <= 0 * S /\ 0 * S = 0 BY <1>1, <1>4, MulMono
  <2> QED BY <2>1, <1>2, <1>5
<1>7. b < S * c
  <2>1. S * c = c * S BY <1>1, <1>4
  <2> QED BY <2>1, <1>2, <1>3, <1>5
<1>8. b \div c \in 0..(S - 1)
  <2>1. c \in Nat \ {0} /\ S \in Nat BY <1>1, <1>4, <1>6
  <2> QED BY <2>1, <1>3, <1>7, DivLess
<1>9. SplitOf(q, t) = b \div c BY DEF SplitOf, b, c, T, S
<1>10. SplitOf(q, b) = b \div c BY <1>3 DEF SplitOf, b, c, T, S
<1> QED BY <1>8, <1>9, <1>10 DEF Splits, S, b

\* What warps share out are finite sets of naturals.
LEMMA WantedFacts ==
    ASSUME Sound(Exchange), NEW q \in World, NEW n \in Nodes, NEW s \in Splits
    PROVE  /\ Wanted(q, n) \subseteq Tokens(q)
           /\ IsFiniteSet(SplitTokens(q, n, s)) /\ SplitTokens(q, n, s) \subseteq Nat
           /\ IsFiniteSet(SendBlocks(q, n, s)) /\ SendBlocks(q, n, s) \subseteq Nat
<1>1. Wanted(q, n) \subseteq Tokens(q) BY DEF Wanted
<1>2. Tokens(q) \subseteq Nat /\ IsFiniteSet(Tokens(q)) BY TokenFacts
<1>3. SplitTokens(q, n, s) \subseteq Tokens(q) BY <1>1 DEF SplitTokens
<1>4. SendBlocks(q, n, s) \subseteq 0..Cardinality(Tokens(q))
  <2> SUFFICES ASSUME NEW t \in Tokens(q) PROVE BlockOf(t) \in 0..Cardinality(Tokens(q))
    BY <1>1 DEF SendBlocks, BlocksTo
  <2>1. t \in Nat /\ t < Cardinality(Tokens(q)) /\ Cardinality(Tokens(q)) \in Nat BY TokenFacts
  <2>2. BlockOf(t) \in Nat /\ BlockOf(t) <= t BY <2>1, SoundFacts, BlockFacts
  <2> QED BY <2>1, <2>2
<1>5. IsFiniteSet(0..Cardinality(Tokens(q)))
  <2>1. Cardinality(Tokens(q)) \in Int BY TokenFacts
  <2> QED BY <2>1, FS_Interval
<1>6. IsFiniteSet(SendBlocks(q, n, s)) BY <1>4, <1>5, FS_Subset
<1>7. 0..Cardinality(Tokens(q)) \subseteq Nat OBVIOUS
<1> QED BY <1>1, <1>2, <1>3, <1>4, <1>6, <1>7, FS_Subset

\* An offset counts, and grows from member to member.
LEMMA OffsetFacts ==
    ASSUME NEW S, IsFiniteSet(S), S \subseteq Nat, NEW x \in Nat
    PROVE  /\ Offset(x, S) \in Nat
           /\ \A y \in S : y < x => Offset(y, S) < Offset(x, S)
<1>1. \A u : {y \in S : y < u} \in SUBSET S OBVIOUS
<1>2. \A u : IsFiniteSet({y \in S : y < u}) BY <1>1, FS_Subset
<1>3. \A u : Cardinality({y \in S : y < u}) \in Nat BY <1>2, FS_CardinalityType
<1>4. ASSUME NEW y \in S, y < x PROVE Offset(y, S) < Offset(x, S)
  <2>1. {z \in S : z < y} \in SUBSET {z \in S : z < x}
    <3> SUFFICES ASSUME NEW z \in S, z < y PROVE z < x OBVIOUS
    <3>1. z \in Nat /\ y \in Nat OBVIOUS
    <3> QED BY <3>1, <1>4
  <2>2. y \in {z \in S : z < x} /\ y \notin {z \in S : z < y} BY <1>4
  <2>3. Cardinality({z \in S : z < y}) <= Cardinality({z \in S : z < x})
        /\ (Cardinality({z \in S : z < x}) = Cardinality({z \in S : z < y}) =>
                {z \in S : z < x} = {z \in S : z < y})
    BY <2>1, <1>2, FS_Subset
  <2>4. {z \in S : z < x} # {z \in S : z < y} BY <2>2
  <2>5. Cardinality({z \in S : z < x}) \in Nat /\ Cardinality({z \in S : z < y}) \in Nat BY <1>3
  <2> QED BY <2>3, <2>4, <2>5 DEF Offset
<1> QED BY <1>3, <1>4 DEF Offset

\* The tokens of q for node n in the block of t.
WantedWith(q, n, t) == {u \in Wanted(q, n) : BlockOf(u) = BlockOf(t)}

\* Both sides find the sum of a token in the same row.
LEMMA RowsAgree ==
    ASSUME Sound(Exchange), NEW q \in World, NEW n \in Nodes, NEW t \in Wanted(q, n)
    PROVE  SumRow(q, n, t) = ReduceRow(q, n, t)
<1> DEFINE b == BlockOf(t) * Exchange.block
           A == {y \in WantedWith(q, n, t) : y < t}
           C == {u \in b..(t - 1) : \E e \in Experts(q, u) : NodeOf(e) = n}
<1>1. t \in Tokens(q) /\ t \in Nat /\ Tokens(q) \subseteq Nat BY TokenFacts DEF Wanted
<1>2. Numbers BY SoundFacts
<1>3. b \in Nat /\ b <= t /\ t < b + Exchange.block BY <1>1, <1>2, BlockFacts
<1>4. ASSUME NEW u \in A PROVE u \in C
  <2>1. u \in Tokens(q) /\ u \in Nat /\ BlockOf(u) = BlockOf(t) /\ u < t
    BY <1>1 DEF WantedWith, Wanted
  <2>2. b <= u BY <2>1, <1>2, BlockFacts
  <2>3. u \in b..(t - 1) BY <2>1, <2>2, <1>1, <1>3
  <2>4. Hits(q, u, n) # {} BY DEF WantedWith, Wanted
  <2> QED BY <2>3, <2>4 DEF Hits, NodeRanks
<1>5. ASSUME NEW u \in C PROVE u \in A
  <2>1. u \in Nat /\ b <= u /\ u < t BY <1>1, <1>3
  <2>2. u \in Tokens(q)
    <3>1. Tokens(q) = 0..(Len(Exchange.experts[q]) - 1) BY DEF Tokens
    <3>2. Len(Exchange.experts[q]) \in Nat BY SoundFacts
    <3> QED BY <3>1, <3>2, <2>1, <1>1
  <2>3. Hits(q, u, n) # {}
    <3>1. PICK e \in Experts(q, u) : NodeOf(e) = n OBVIOUS
    <3>2. e \in World BY <2>2, TokenFacts
    <3> QED BY <3>1, <3>2 DEF Hits, NodeRanks
  <2>4. BlockOf(u) = BlockOf(t)
    <3> DEFINE B == Exchange.block
               k == BlockOf(u)
               l == BlockOf(t)
    <3>1. B \in Nat \ {0} BY <1>2 DEF Numbers
    <3>2. k \in Nat /\ k * B <= u /\ u < k * B + B /\ k * B \in Nat BY <2>1, <1>2, BlockFacts
    <3>3. l \in Nat /\ l * B <= t /\ t < l * B + B /\ l * B \in Nat BY <1>1, <1>2, BlockFacts
    <3>4. l * B <= u BY <2>1
    <3> HIDE DEF B, k, l
    <3>5. (k + 1) * B = k * B + B /\ (l + 1) * B = l * B + B BY <3>1, <3>2, <3>3
    <3>6. k >= l + 1 => (l + 1) * B <= k * B BY <3>1, <3>2, <3>3, MulMono
    <3>7. l >= k + 1 => (k + 1) * B <= l * B BY <3>1, <3>2, <3>3, MulMono
    <3>8. k = l BY <3>1, <3>2, <3>3, <3>4, <3>5, <3>6, <3>7, <2>1, <1>1
    <3> QED BY <3>8 DEF k, l
  <2> QED BY <2>1, <2>2, <2>3, <2>4 DEF WantedWith, Wanted
<1>6. A = C BY <1>4, <1>5
<1>7. SumRow(q, n, t) = b + Cardinality(A) BY DEF SumRow, Offset, WantedWith
<1>8. ReduceRow(q, n, t) = b + Cardinality(C) BY DEF ReduceRow
<1> QED BY <1>6, <1>7, <1>8

\* Different tokens have different rows.
LEMMA SumRowInjective ==
    ASSUME Sound(Exchange), NEW q \in World, NEW n \in Nodes,
           NEW t \in Wanted(q, n), NEW u \in Wanted(q, n), SumRow(q, n, t) = SumRow(q, n, u)
    PROVE  t = u
<1> DEFINE B == Exchange.block
           Row(v) == BlockOf(v) * B + Offset(v, WantedWith(q, n, v))
<1>1. Numbers /\ B \in Nat \ {0} BY SoundFacts DEF Numbers
<1>2. Wanted(q, n) \subseteq Nat /\ IsFiniteSet(Wanted(q, n))
  BY TokenFacts, FS_Subset DEF Wanted
<1>3. ASSUME NEW v \in Wanted(q, n)
      PROVE  /\ WantedWith(q, n, v) \subseteq Nat /\ IsFiniteSet(WantedWith(q, n, v))
             /\ Offset(v, WantedWith(q, n, v)) \in 0..(B - 1)
  <2> DEFINE b == BlockOf(v) * B
             W == WantedWith(q, n, v)
  <2>1. v \in Nat BY <1>2
  <2>2. b \in Nat /\ b <= v /\ v < b + B BY <1>1, <2>1, BlockFacts
  <2>3. W \in SUBSET Wanted(q, n) BY DEF WantedWith
  <2>4. IsFiniteSet(W) /\ W \subseteq Nat BY <2>3, <1>2, FS_Subset
  <2>5. {y \in W : y < v} \in SUBSET (b..(v - 1))
    <3> SUFFICES ASSUME NEW y \in W, y < v PROVE y \in b..(v - 1) OBVIOUS
    <3>1. y \in Nat /\ BlockOf(y) = BlockOf(v) BY <2>4 DEF WantedWith
    <3>2. b <= y BY <3>1, <1>1, BlockFacts
    <3> QED BY <3>1, <3>2, <2>1, <2>2
  <2> HIDE DEF b
  <2>6. IsFiniteSet(b..(v - 1)) /\ Cardinality(b..(v - 1)) = IF b > v - 1 THEN 0 ELSE v - 1 - b + 1
    <3>1. b \in Int /\ v - 1 \in Int BY <2>1, <2>2
    <3> QED BY <3>1, FS_Interval
  <2>7. Cardinality({y \in W : y < v}) <= Cardinality(b..(v - 1)) BY <2>5, <2>6, FS_Subset
  <2>8. Offset(v, W) \in Nat BY <2>1, <2>4, OffsetFacts
  <2>9. Offset(v, W) = Cardinality({y \in W : y < v}) BY DEF Offset
  <2>10. Offset(v, W) \in 0..(B - 1) BY <2>1, <2>2, <2>6, <2>7, <2>8, <2>9, <1>1
  <2> QED BY <2>4, <2>10
<1>4. \A v \in Wanted(q, n) : Row(v) = SumRow(q, n, v) BY DEF SumRow, WantedWith
<1>5. BlockOf(t) \in Nat /\ BlockOf(u) \in Nat BY <1>1, <1>2, BlockFacts
<1>6. BlockOf(t) = BlockOf(u)
  <2> DEFINE k == BlockOf(t)
             l == BlockOf(u)
             i == Offset(t, WantedWith(q, n, t))
             j == Offset(u, WantedWith(q, n, u))
  <2>1. k * B + i = l * B + j BY <1>4
  <2>2. i \in 0..(B - 1) /\ j \in 0..(B - 1) BY <1>3
  <2>3. k \in Nat /\ l \in Nat BY <1>5
  <2> HIDE DEF k, l, i, j, B
  <2>4. (k * B + i) \div B = k /\ (l * B + j) \div B = l BY <1>1, <2>2, <2>3, DivUnique
  <2>5. k = l BY <2>1, <2>4
  <2> QED BY <2>5 DEF k, l
<1>7. WantedWith(q, n, t) = WantedWith(q, n, u) BY <1>6 DEF WantedWith
<1>8. Offset(t, WantedWith(q, n, t)) = Offset(u, WantedWith(q, n, t))
  <2> DEFINE k == BlockOf(t) * B
  <2>1. k \in Int BY <1>1, <1>5
  <2>2. k + Offset(t, WantedWith(q, n, t)) = k + Offset(u, WantedWith(q, n, t))
    BY <1>4, <1>6, <1>7
  <2>3. Offset(t, WantedWith(q, n, t)) \in Int /\ Offset(u, WantedWith(q, n, t)) \in Int
    BY <1>3, <1>7
  <2> HIDE DEF k
  <2> QED BY <2>1, <2>2, <2>3
<1>9. t \in WantedWith(q, n, t) /\ u \in WantedWith(q, n, t) BY <1>6 DEF WantedWith
<1>10. t \in Nat /\ u \in Nat BY <1>2
<1>11. ~(t < u) /\ ~(u < t)
  <2>1. t < u => Offset(t, WantedWith(q, n, t)) < Offset(u, WantedWith(q, n, t))
    BY <1>3, <1>9, <1>10, OffsetFacts
  <2>2. u < t => Offset(u, WantedWith(q, n, t)) < Offset(t, WantedWith(q, n, t))
    BY <1>3, <1>9, <1>10, OffsetFacts
  <2>3. Offset(t, WantedWith(q, n, t)) \in Int /\ Offset(u, WantedWith(q, n, t)) \in Int
    BY <1>3, <1>7
  <2> QED BY <2>1, <2>2, <2>3, <1>8
<1> QED BY <1>10, <1>11

-----------------------------------------------------------------------------
(* The puts. *)

\* What a put of each kind is about.
LEMMA PutFacts ==
    ASSUME NEW x \in Puts
    PROVE  /\ x.kind \in Kinds /\ x.from \in World /\ x.to \in World /\ x.of \in World
           /\ x.item \in Nat
           /\ x.kind = "exchange" => x.of = x.from /\ x.item = x.to
           /\ x.kind = "indices" => x.of = x.from /\ x.from # x.to /\ x.item \in Copiers
           /\ x.kind = "send" =>
                /\ x.of = x.from /\ NodeOf(x.to) # NodeOf(x.from)
                /\ x.to = RailOf(x.from, NodeOf(x.to))
                /\ x.item \in Wanted(x.from, NodeOf(x.to))
           /\ x.kind = "rows" =>
                /\ x.from = RailOf(x.of, NodeOf(x.from)) /\ x.item \in Tokens(x.of)
                /\ x.to \in Hits(x.of, x.item, NodeOf(x.from))
           /\ x.kind = "sums" =>
                /\ x.of = x.to /\ NodeOf(x.to) # NodeOf(x.from)
                /\ x.from = RailOf(x.to, NodeOf(x.from))
                /\ x.item \in Wanted(x.to, NodeOf(x.from))
<1> DEFINE R == [kind : Kinds, from : World, to : World, of : World, item : Nat]
<1>1. x \in R BY DEF Puts
<1>2. x.kind \in Kinds /\ x.from \in World /\ x.to \in World /\ x.of \in World /\ x.item \in Nat
  BY <1>1
<1> QED BY <1>2 DEF Puts

\* A put is given by its fields.
LEMMA PutEqual ==
    ASSUME NEW x \in Puts, NEW y \in Puts, x.kind = y.kind, x.from = y.from, x.to = y.to,
           x.of = y.of, x.item = y.item
    PROVE  x = y
<1> DEFINE R == [kind : Kinds, from : World, to : World, of : World, item : Nat]
<1>1. x \in R /\ y \in R BY DEF Puts
<1> QED BY <1>1

\* Where a put of each kind reads and writes.
LEMMA SourceTarget ==
    ASSUME NEW x
    PROVE  /\ x.kind = "exchange" =>
                Source(x) = <<"segment", x.to>> /\ Target(x) = <<"got", x.from>>
           /\ x.kind = "indices" =>
                Source(x) = <<"index", x.from, x.item>> /\ Target(x) = <<"index", x.from, x.item>>
           /\ x.kind = "send" =>
                /\ Source(x) = <<"in", NodeOf(x.from), x.item>>
                /\ Target(x) = <<"in", NodeOf(x.from), x.item>>
           /\ x.kind = "rows" =>
                Source(x) = <<"in", NodeOf(x.of), x.item>> /\ Target(x) = <<"out", x.of, x.item>>
           /\ x.kind = "sums" =>
                /\ Source(x) = <<"red", NodeOf(x.to), SumRow(x.to, NodeOf(x.from), x.item)>>
                /\ Target(x) = <<"sum", NodeOf(x.from), SumRow(x.to, NodeOf(x.from), x.item)>>
  BY DEF Source, Target

\* Everything put has a place of its own.
LEMMA TargetsDiffer ==
    ASSUME Sound(Exchange), NEW x \in Puts, NEW y \in Puts,
           x.to = y.to, Target(x) = Target(y)
    PROVE  x = y
<1>1. Numbers BY SoundFacts
<1>2. x.kind = y.kind
  <2>1. x.kind \in Kinds /\ y.kind \in Kinds BY PutFacts
  <2>2. x.kind = "exchange" => Target(x)[1] = "got" BY SourceTarget
  <2>3. y.kind = "exchange" => Target(y)[1] = "got" BY SourceTarget
  <2>4. x.kind = "indices" => Target(x)[1] = "index" BY SourceTarget
  <2>5. y.kind = "indices" => Target(y)[1] = "index" BY SourceTarget
  <2>6. x.kind = "send" => Target(x)[1] = "in" BY SourceTarget
  <2>7. y.kind = "send" => Target(y)[1] = "in" BY SourceTarget
  <2>8. x.kind = "rows" => Target(x)[1] = "out" BY SourceTarget
  <2>9. y.kind = "rows" => Target(y)[1] = "out" BY SourceTarget
  <2>10. x.kind = "sums" => Target(x)[1] = "sum" BY SourceTarget
  <2>11. y.kind = "sums" => Target(y)[1] = "sum" BY SourceTarget
  <2> QED BY <2>1, <2>2, <2>3, <2>4, <2>5, <2>6, <2>7, <2>8, <2>9, <2>10, <2>11 DEF Kinds
<1>3. CASE x.kind = "exchange"
  <2>1. Target(x) = <<"got", x.from>> /\ Target(y) = <<"got", y.from>>
    BY <1>2, <1>3, SourceTarget
  <2>2. <<"got", x.from>> = <<"got", y.from>> BY <2>1
  <2>3. x.from = y.from BY ONLY <2>2
  <2> QED BY <2>3, <1>2, <1>3, PutFacts, PutEqual
<1>4. CASE x.kind = "indices"
  <2>1. Target(x) = <<"index", x.from, x.item>> /\ Target(y) = <<"index", y.from, y.item>>
    BY <1>2, <1>4, SourceTarget
  <2>3. <<"index", x.from, x.item>> = <<"index", y.from, y.item>> BY <2>1
  <2>2. x.from = y.from /\ x.item = y.item BY ONLY <2>3
  <2> QED BY <2>2, <1>2, <1>4, PutFacts, PutEqual
<1>5. CASE x.kind = "send"
  <2>0. Target(x) = <<"in", NodeOf(x.from), x.item>> /\ Target(y) = <<"in", NodeOf(y.from), y.item>>
    BY <1>2, <1>5, SourceTarget
  <2>4. <<"in", NodeOf(x.from), x.item>> = <<"in", NodeOf(y.from), y.item>> BY <2>0
  <2>1. NodeOf(x.from) = NodeOf(y.from) /\ x.item = y.item BY ONLY <2>4
  <2>2. \A z \in {x, y} : z.from = RailOf(z.to, NodeOf(z.from))
    <3> SUFFICES ASSUME NEW z \in Puts, z.kind = "send" PROVE z.from = RailOf(z.to, NodeOf(z.from))
      BY <1>2, <1>5
    <3>0. z.from \in World /\ z.to \in World /\ z.to = RailOf(z.from, NodeOf(z.to)) BY PutFacts
    <3>1. NodeOf(z.from) \in Nodes /\ NodeOf(z.to) \in Nodes BY <3>0, <1>1, RankFacts
    <3>2. RailOf(RailOf(z.from, NodeOf(z.to)), NodeOf(z.from)) = RailOf(z.from, NodeOf(z.from))
      BY <1>1, <3>0, <3>1, RailRail
    <3>3. RailOf(z.from, NodeOf(z.from)) = z.from BY <1>1, <3>0, <3>1, RailRail
    <3> QED BY <3>0, <3>2, <3>3
  <2>3. x.from = y.from BY <2>1, <2>2
  <2> QED BY <1>2, <1>5, <2>1, <2>3, PutFacts, PutEqual
<1>6. CASE x.kind = "rows"
  <2>0. Target(x) = <<"out", x.of, x.item>> /\ Target(y) = <<"out", y.of, y.item>>
    BY <1>2, <1>6, SourceTarget
  <2>5. <<"out", x.of, x.item>> = <<"out", y.of, y.item>> BY <2>0
  <2>1. x.of = y.of /\ x.item = y.item BY ONLY <2>5
  <2>2. \A z \in {x, y} : NodeOf(z.from) = NodeOf(z.to)
    BY <1>2, <1>6, PutFacts DEF Hits, NodeRanks
  <2>3. \A z \in {x, y} : z.from = RailOf(z.of, NodeOf(z.from)) BY <1>2, <1>6, PutFacts
  <2>4. x.from = y.from BY <2>1, <2>2, <2>3
  <2> QED BY <1>2, <1>6, <2>1, <2>4, PutEqual
<1>7. CASE x.kind = "sums"
  <2>1. /\ NodeOf(x.from) = NodeOf(y.from)
        /\ SumRow(x.to, NodeOf(x.from), x.item) = SumRow(y.to, NodeOf(y.from), y.item)
    <3>1. /\ Target(x) = <<"sum", NodeOf(x.from), SumRow(x.to, NodeOf(x.from), x.item)>>
          /\ Target(y) = <<"sum", NodeOf(y.from), SumRow(y.to, NodeOf(y.from), y.item)>>
      BY <1>2, <1>7, SourceTarget
    <3>2. <<"sum", NodeOf(x.from), SumRow(x.to, NodeOf(x.from), x.item)>>
            = <<"sum", NodeOf(y.from), SumRow(y.to, NodeOf(y.from), y.item)>> BY <3>1
    <3> QED BY ONLY <3>2
  <2>2. x.from = y.from /\ x.of = y.of BY <2>1, <1>2, <1>7, PutFacts
  <2>3. NodeOf(x.from) \in Nodes /\ x.to \in World BY <1>1, RankFacts, PutFacts
  <2>4. x.item \in Wanted(x.to, NodeOf(x.from)) /\ y.item \in Wanted(x.to, NodeOf(x.from))
    BY <2>1, <1>2, <1>7, PutFacts
  <2>5. x.item = y.item BY <2>1, <2>3, <2>4, SumRowInjective
  <2> QED BY <1>2, <1>7, <2>2, <2>5, PutEqual
<1> QED BY <1>3, <1>4, <1>5, <1>6, <1>7, PutFacts DEF Kinds

\* The fields of the operation of a put.
LEMMA OpFacts ==
    ASSUME NEW x \in Puts
    PROVE  /\ OpOf(x).to = x.to /\ OpOf(x).flag = <<>> /\ OpOf(x).task = TaskOf(x)
           /\ OpOf(x).rows = RowsWith(x)
           /\ <<Source(x), Target(x)>> \in RowsWith(x) /\ RowsWith(x) # {}
<1>1. Together(x, x) BY DEF Together
<1> QED BY <1>1 DEF OpOf, RowsWith

\* What an operation puts goes together.
LEMMA SameOp ==
    ASSUME Sound(Exchange), NEW x \in Puts, NEW y \in Puts, x.from = y.from
    PROVE  OpOf(x) = OpOf(y) <=> Together(x, y)
<1>1. ASSUME OpOf(x) = OpOf(y) PROVE Together(x, y)
  <2>1. x.to = y.to /\ RowsWith(x) = RowsWith(y) BY <1>1, OpFacts
  <2>2. <<Source(x), Target(x)>> \in RowsWith(y) BY <2>1, OpFacts
  <2>3. PICK z \in Puts : Together(z, y) /\ Target(z) = Target(x) BY <2>2 DEF RowsWith
  <2>4. z.to = x.to BY <2>1, <2>3 DEF Together
  <2>5. z = x BY <2>3, <2>4, TargetsDiffer
  <2> QED BY <2>3, <2>5
<1>2. ASSUME Together(x, y) PROVE OpOf(x) = OpOf(y)
  <2>1. \A z : Together(z, x) <=> Together(z, y) BY <1>2 DEF Together
  <2>2. RowsWith(x) = RowsWith(y) BY <2>1 DEF RowsWith
  <2> QED BY <1>2, <2>2 DEF OpOf, Together
<1> QED BY <1>1, <1>2

\* A row of an operation is the source and the target of one put.
LEMMA RowsOf ==
    ASSUME Sound(Exchange), NEW y \in Puts, NEW x \in Puts, Together(x, y)
    PROVE  LET row == CHOOSE z \in RowsWith(y) : z[2] = Target(x)
           IN  row[1] = Source(x)
<1>1. <<Source(x), Target(x)>> \in RowsWith(y) BY DEF RowsWith
<1>2. PICK row \in RowsWith(y) :
        row[2] = Target(x) /\ row = (CHOOSE z \in RowsWith(y) : z[2] = Target(x))
  BY <1>1
<1>3. PICK z \in Puts : Together(z, y) /\ row = <<Source(z), Target(z)>> BY DEF RowsWith
<1>4. z.to = x.to /\ Target(z) = Target(x) BY <1>2, <1>3 DEF Together
<1>5. z = x BY <1>4, TargetsDiffer
<1>6. row[1] = Source(x) BY <1>3, <1>5
<1> QED BY <1>2, <1>6

\* What the operation of a put is called.
LEMMA TaskFacts ==
    ASSUME Sound(Exchange), NEW x \in Puts
    PROVE  /\ x.kind \in {"exchange", "indices"} => TaskOf(x) = <<"put", x.to>>
           /\ x.kind = "send" =>
                LET s == SplitOf(x.from, x.item)
                    i == StepOf(NodeOf(x.from), NodeOf(x.to), s)
                    w == Offset(BlockOf(x.item), SendBlocks(x.from, NodeOf(x.to), s))
                            % Exchange.senders
                IN  /\ s \in Splits /\ w \in Senders /\ i \in Steps("send")
                    /\ TaskOf(x) = <<"send", w, i>>
                    /\ x.item \in Tokens(x.from)
                    /\ SignalOf(x.from, w, i).to = x.to
           /\ x.kind = "rows" =>
                LET s == SplitOf(x.of, x.item)
                    i == StepOf(NodeOf(x.of), NodeOf(x.from), s)
                    w == Offset(x.item, SplitTokens(x.of, NodeOf(x.from), s))
                            % Exchange.dispatchers
                IN  /\ s \in Splits /\ w \in Dispatchers /\ i \in Steps("dispatch")
                    /\ TaskOf(x) = <<"dispatch", w, i>>
                    /\ x.item \in Wanted(x.of, NodeOf(x.from))
           /\ x.kind = "sums" => TaskOf(x) = <<"sums", NodeOf(x.to), BlockOf(x.item)>>
<1>1. Numbers BY SoundFacts
<1>2. NodeOf(x.from) \in Nodes /\ NodeOf(x.to) \in Nodes /\ NodeOf(x.of) \in Nodes
  BY <1>1, PutFacts, RankFacts
<1>3. CASE x.kind = "send"
  <2> DEFINE s == SplitOf(x.from, x.item)
             i == StepOf(NodeOf(x.from), NodeOf(x.to), s)
             o == Offset(BlockOf(x.item), SendBlocks(x.from, NodeOf(x.to), s))
             w == o % Exchange.senders
  <2>1. x.item \in Tokens(x.from) /\ x.item \in Nat BY <1>3, PutFacts DEF Wanted
  <2>2. s \in Splits BY <2>1, PutFacts, SplitFacts
  <2> HIDE DEF s
  <2>3. i \in Steps("send") /\ (NodeOf(x.from) + NodeOffset(i)) % Exchange.nodes = NodeOf(x.to)
    BY <1>1, <1>2, <1>3, <2>2, PutFacts, StepFacts
  <2>4. o \in Nat
    <3>1. IsFiniteSet(SendBlocks(x.from, NodeOf(x.to), s))
          /\ SendBlocks(x.from, NodeOf(x.to), s) \subseteq Nat
      BY <1>2, <2>2, PutFacts, WantedFacts
    <3>2. BlockOf(x.item) \in Nat BY <1>1, <2>1, BlockFacts
    <3> QED BY <3>1, <3>2, OffsetFacts
  <2>5. w \in Senders
    <3> HIDE DEF o
    <3> DEFINE k == Exchange.senders
    <3>1. k \in Nat \ {0} BY <1>1 DEF Numbers
    <3> HIDE DEF k
    <3>2. o % k \in 0..(k - 1) BY <2>4, <3>1, DivMod
    <3> QED BY <3>2 DEF Senders, k
  <2>6. SignalOf(x.from, w, i).to = x.to
    BY <2>3, <1>3, PutFacts DEF SignalOf
  <2>7. TaskOf(x) = <<"send", w, i>> BY <1>3 DEF TaskOf, s
  <2> QED BY <1>3, <2>1, <2>2, <2>3, <2>5, <2>6, <2>7 DEF s
<1>4. CASE x.kind = "rows"
  <2> DEFINE s == SplitOf(x.of, x.item)
             i == StepOf(NodeOf(x.of), NodeOf(x.from), s)
             o == Offset(x.item, SplitTokens(x.of, NodeOf(x.from), s))
             w == o % Exchange.dispatchers
  <2>1. x.item \in Tokens(x.of) /\ x.item \in Nat BY <1>4, PutFacts
  <2>2. s \in Splits BY <2>1, PutFacts, SplitFacts
  <2> HIDE DEF s
  <2>3. i \in Steps("dispatch") BY <1>1, <1>2, <2>2, StepFacts
  <2>4. o \in Nat
    <3>1. IsFiniteSet(SplitTokens(x.of, NodeOf(x.from), s))
          /\ SplitTokens(x.of, NodeOf(x.from), s) \subseteq Nat
      BY <1>2, <2>2, PutFacts, WantedFacts
    <3> QED BY <3>1, <2>1, OffsetFacts
  <2>5. w \in Dispatchers
    <3> HIDE DEF o
    <3> DEFINE k == Exchange.dispatchers
    <3>1. k \in Nat \ {0} BY <1>1 DEF Numbers
    <3> HIDE DEF k
    <3>2. o % k \in 0..(k - 1) BY <2>4, <3>1, DivMod
    <3> QED BY <3>2 DEF Dispatchers, k
  <2>6. x.item \in Wanted(x.of, NodeOf(x.from)) BY <1>4, PutFacts DEF Wanted
  <2>7. TaskOf(x) = <<"dispatch", w, i>> BY <1>4 DEF TaskOf, s
  <2> QED BY <1>4, <2>2, <2>3, <2>5, <2>6, <2>7 DEF s
<1>5. x.kind \in {"exchange", "indices"} => TaskOf(x) = <<"put", x.to>> BY DEF TaskOf
<1>6. x.kind = "sums" => TaskOf(x) = <<"sums", NodeOf(x.to), BlockOf(x.item)>> BY DEF TaskOf
<1>7. x.kind # "send" /\ x.kind # "rows" => ~(x.kind = "send") /\ ~(x.kind = "rows") OBVIOUS
<1> QED BY <1>3, <1>4, <1>5, <1>6, <1>7

-----------------------------------------------------------------------------
(* What a step does to the streams. *)

Barriers     == {"team", "node"}

\* r goes on to its next stage.
Advances(r) ==
    /\ forward[r] < Exchange.forwards /\ NextStage(r)
    /\ Stages[stage[r]] \in Barriers =>
          waiting[r] /\ \A p \in Members(r, Stages[stage[r]]) :
                            met[Stages[stage[r]]][p] >= met[Stages[stage[r]]][r]
    /\ waiting' = [waiting EXCEPT ![r] = FALSE]
    /\ Stages[stage[r]] \in Kernels => did[r] = Tasks(r)
    /\ did' = [did EXCEPT ![r] = {}]
    /\ UNCHANGED <<wire, met>>

Arrives(r) == \E b \in Barriers : Arrive(r, b)

\* The kernel of r does a task.
Works(r) ==
    \E task, ops :
        /\ forward[r] < Exchange.forwards /\ Stages[stage[r]] \in Kernels
        /\ task \in Tasks(r) /\ task \notin did[r]
        /\ did' = [did EXCEPT ![r] = @ \cup {task}]
        /\ wire' = [wire EXCEPT ![r] = @ \cup ops]
        /\ UNCHANGED <<forward, stage, waiting, met>>

Delivers(r) ==
    /\ \E op \in wire[r] : wire' = [wire EXCEPT ![r] = @ \ {op}]
    /\ UNCHANGED <<forward, stage, waiting, did, met>>

\* The configuration is a constant of the behaviour.
LEMMA Fixed ==
    ASSUME exchange' = exchange
    PROVE  /\ Exchange' = Exchange /\ World' = World /\ Stages' = Stages /\ Nodes' = Nodes
           /\ Splits' = Splits /\ Senders' = Senders /\ Dispatchers' = Dispatchers
           /\ Copiers' = Copiers /\ Puts' = Puts /\ AllTokens' = AllTokens
           /\ \A name : Pos(name)' = Pos(name) /\ Calls(name)' = Calls(name)
                        /\ Steps(name)' = Steps(name)
           /\ \A x : Source(x)' = Source(x) /\ Target(x)' = Target(x) /\ TaskOf(x)' = TaskOf(x)
                     /\ OpOf(x)' = OpOf(x) /\ Kernel(x)' = Kernel(x)
           /\ \A r, b : Members(r, b)' = Members(r, b)
           /\ \A r, w, i : SignalOf(r, w, i)' = SignalOf(r, w, i)
           /\ \A p, i : PeerOf(p, i)' = PeerOf(p, i) /\ Split(i)' = Split(i)
<1>1. Exchange' = Exchange BY DEF Exchange
<1>2. World' = World /\ Stages' = Stages /\ Nodes' = Nodes /\ Splits' = Splits
      /\ Senders' = Senders /\ Dispatchers' = Dispatchers /\ Copiers' = Copiers
  BY <1>1 DEF World, Stages, Nodes, Splits, Senders, Dispatchers, Copiers
<1>3. (\A r : NodeOf(r)' = NodeOf(r)) /\ (\A r, n : RailOf(r, n)' = RailOf(r, n))
  BY <1>1 DEF NodeOf, RailOf
<1>4. (\A n : NodeRanks(n)' = NodeRanks(n)) /\ (\A r : Tokens(r)' = Tokens(r))
      /\ (\A q, t : Experts(q, t)' = Experts(q, t)) /\ (\A t : BlockOf(t)' = BlockOf(t))
  BY <1>1, <1>2, <1>3 DEF NodeRanks, Tokens, Experts, BlockOf
<1>5. (\A q, t, n : Hits(q, t, n)' = Hits(q, t, n)) /\ AllTokens' = AllTokens
  BY <1>2, <1>4 DEF Hits, AllTokens
<1>6. \A q, n : Wanted(q, n)' = Wanted(q, n) BY <1>4, <1>5 DEF Wanted
<1>7. (\A q, t : SplitOf(q, t)' = SplitOf(q, t)) /\ (\A q, n : BlocksTo(q, n)' = BlocksTo(q, n))
  BY <1>1, <1>4, <1>6 DEF SplitOf, BlocksTo
<1>8. \A q, n, t : SumRow(q, n, t)' = SumRow(q, n, t)
  BY <1>1, <1>4, <1>6 DEF SumRow
<1>9. /\ \A q, n, s : SendBlocks(q, n, s)' = SendBlocks(q, n, s)
      /\ \A q, n, s : SplitTokens(q, n, s)' = SplitTokens(q, n, s)
      /\ \A n, m, s : StepOf(n, m, s)' = StepOf(n, m, s)
  BY <1>1, <1>6, <1>7 DEF SendBlocks, SplitTokens, StepOf
<1>10. Puts' = Puts BY <1>2, <1>3, <1>4, <1>5, <1>6 DEF Puts
<1>11. /\ \A x : Source(x)' = Source(x)
       /\ \A x : Target(x)' = Target(x)
       /\ \A x : TaskOf(x)' = TaskOf(x)
  <2>1. \A x : Source(x)' = Source(x) BY <1>3, <1>8 DEF Source
  <2>2. \A x : Target(x)' = Target(x) BY <1>3, <1>8 DEF Target
  <2>3. \A x : TaskOf(x)' = TaskOf(x) BY <1>1, <1>3, <1>4, <1>7, <1>9 DEF TaskOf
  <2> QED BY <2>1, <2>2, <2>3
<1>12. \A x, y : Together(x, y)' <=> Together(x, y) BY <1>11 DEF Together
<1>13. \A x : RowsWith(x)' = RowsWith(x) BY <1>10, <1>11, <1>12 DEF RowsWith
<1>14. (\A x : OpOf(x)' = OpOf(x)) /\ (\A x : Kernel(x)' = Kernel(x))
  BY <1>11, <1>13 DEF OpOf, Kernel, KernelOf
<1>15. (\A name : Pos(name)' = Pos(name)) /\ (\A b : Calls(b)' = Calls(b))
       /\ (\A name : Steps(name)' = Steps(name)) /\ (\A i : Split(i)' = Split(i))
       /\ (\A i : NodeOffset(i)' = NodeOffset(i))
  BY <1>1, <1>2 DEF Pos, Calls, Steps, Split, NodeOffset
<1>16. \A r, w, i : SignalOf(r, w, i)' = SignalOf(r, w, i)
  BY <1>1, <1>3, <1>15 DEF SignalOf
<1>17. (\A p, i : PeerOf(p, i)' = PeerOf(p, i)) /\ (\A r, b : Members(r, b)' = Members(r, b))
  BY <1>1, <1>2, <1>3, <1>4, <1>15 DEF PeerOf, Members
<1> QED BY <1>1, <1>2, <1>5, <1>10, <1>11, <1>14, <1>15, <1>16, <1>17

\* The tasks of each kernel.
LEMMA TasksOf ==
    ASSUME NEW r
    PROVE  /\ In(r, "dispatch") =>
                Tasks(r) = ({"send"} \X Senders \X Steps("send"))
                                \cup ({"dispatch"} \X Dispatchers \X Steps("dispatch"))
           /\ In(r, "combine") /\ Exchange.nodes > 1 =>
                Tasks(r) = UNION {{<<"sums", n, b>> : b \in BlocksTo(RailOf(r, n), NodeOf(r))} : n \in Nodes}
           /\ In(r, "combine") /\ Exchange.nodes = 1 =>
                Tasks(r) = {<<"sum", x[1], x[2]>> : x \in {y \in AllTokens : r \in Experts(y[1], y[2])}}
           /\ In(r, "exchange") => Tasks(r) = {"put"} \X World
           /\ In(r, "indices") => Tasks(r) = ({"copy"} \X Copiers) \cup ({"put"} \X (World \ {r}))
<1>1. CASE In(r, "dispatch") BY <1>1 DEF Tasks, In
<1>2. CASE In(r, "combine") /\ Exchange.nodes > 1
  <2>1. ~In(r, "dispatch") /\ ~In(r, "exchange") /\ ~In(r, "indices") BY <1>2 DEF In
  <2>2. Exchange.nodes # 1 BY <1>2
  <2> QED BY <1>2, <2>1, <2>2 DEF Tasks
<1>3. CASE In(r, "combine") /\ Exchange.nodes = 1
  <2>1. ~In(r, "dispatch") /\ ~In(r, "exchange") /\ ~In(r, "indices") BY <1>3 DEF In
  <2>2. ~(Exchange.nodes > 1) BY <1>3
  <2> QED BY <1>3, <2>1, <2>2 DEF Tasks
<1>4. CASE In(r, "exchange")
  <2>1. ~In(r, "dispatch") /\ ~In(r, "combine") /\ ~In(r, "indices") BY <1>4 DEF In
  <2> QED BY <1>4, <2>1 DEF Tasks
<1>5. CASE In(r, "indices")
  <2>1. ~In(r, "dispatch") /\ ~In(r, "combine") /\ ~In(r, "exchange") BY <1>5 DEF In
  <2> QED BY <1>5, <2>1 DEF Tasks
<1>6. In(r, "dispatch") => ~In(r, "combine") /\ ~In(r, "exchange") /\ ~In(r, "indices") BY DEF In
<1>7. In(r, "combine") => ~In(r, "dispatch") /\ ~In(r, "exchange") /\ ~In(r, "indices") BY DEF In
<1>8. Exchange.nodes > 1 => Exchange.nodes # 1 OBVIOUS
<1> QED BY <1>1, <1>2, <1>3, <1>4, <1>5, <1>6, <1>7, <1>8

\* A stage that is neither a kernel nor a barrier only goes on.
LEMMA StageAdvances ==
    ASSUME StreamsInOrder, Shapes, TasksInOrder, NEW r \in World, forward[r] < Exchange.forwards,
           Stages[stage[r]] \notin Barriers, Stages[stage[r]] \notin Kernels,
           NextStage(r), UNCHANGED <<waiting, did, wire, met>>
    PROVE  Advances(r)
<1>1. waiting[r] = FALSE BY DEF StreamsInOrder, Barriers
<1>2. waiting' = [waiting EXCEPT ![r] = FALSE] BY <1>1 DEF StreamsInOrder
<1>3. did[r] = {} BY DEF TasksInOrder, Kernels
<1>4. did' = [did EXCEPT ![r] = {}] BY <1>3 DEF Shapes
<1> QED BY <1>2, <1>4 DEF Advances

\* A task of a kernel is work of the rank.
LEMMA WorkIsDone ==
    ASSUME NEW r \in World, NEW task, NEW ops,
           forward[r] < Exchange.forwards, Stages[stage[r]] \in Kernels,
           task \in Tasks(r), task \notin did[r], Task(r, task, ops)
    PROVE  Works(r)
  BY DEF Works, Task

\* Every step goes on, arrives at a barrier, does a task or delivers.
LEMMA StepKinds ==
    ASSUME Sound(Exchange), StreamsInOrder, Shapes, TasksInOrder,
           NEW r \in World, StreamStep(r) \/ KernelStep(r) \/ Deliver(r)
    PROVE  exchange' = exchange /\ (Advances(r) \/ Arrives(r) \/ Works(r) \/ Delivers(r))
<1>1. ASSUME NEW name \in {"copy", "zero", "rows", "experts", "reduce", "segments", "got", "allIndices"},
             In(r, name), NextStage(r), UNCHANGED <<waiting, did, wire, met>>
      PROVE  Advances(r)
  <2>1. forward[r] < Exchange.forwards /\ Stages[stage[r]] = name BY <1>1 DEF In, Stages
  <2>2. name \notin Barriers /\ name \notin Kernels BY DEF Barriers, Kernels
  <2> QED BY <1>1, <2>1, <2>2, StageAdvances
<1>2. CASE CopyInput(r) BY <1>2, <1>1 DEF CopyInput, Copy
<1>3. CASE ZeroSignals(r) BY <1>3, <1>1 DEF ZeroSignals
<1>4. CASE TakeRows(r) BY <1>4, <1>1 DEF TakeRows, Result
<1>5. CASE RunExperts(r) BY <1>5, <1>1 DEF RunExperts, Copy
<1>6. CASE Reduce(r) BY <1>6, <1>1 DEF Reduce, Result
<1>7. CASE CopySegments(r) BY <1>7, <1>1 DEF CopySegments, Copy
<1>8. CASE TakeSegments(r) BY <1>8, <1>1 DEF TakeSegments, Result
<1>9. CASE TakeIndices(r) BY <1>9, <1>1 DEF TakeIndices, Result
<1>10. CASE KernelEnd(r)
  <2>1. Stages[stage[r]] \in Kernels /\ forward[r] < Exchange.forwards
    BY <1>10 DEF KernelEnd, In, Kernels, Stages, KernelOver
  <2>2. waiting[r] = FALSE BY <2>1 DEF StreamsInOrder, Kernels
  <2>3. waiting' = [waiting EXCEPT ![r] = FALSE] BY <1>10, <2>2 DEF KernelEnd, StreamsInOrder, KernelOver
  <2>4. Stages[stage[r]] \notin Barriers BY <2>1 DEF Barriers, Kernels
  <2> QED BY <1>10, <2>1, <2>3, <2>4 DEF KernelEnd, Advances, KernelOver
<1>11. ASSUME NEW b \in Barriers, Arrive(r, b) PROVE exchange' = exchange /\ Arrives(r)
  BY <1>11 DEF Arrives, Arrive, MayArrive
<1>12. ASSUME NEW b \in Barriers, Pass(r, b) PROVE exchange' = exchange /\ Advances(r)
  <2>1. Stages[stage[r]] = b /\ forward[r] < Exchange.forwards BY <1>12 DEF Pass, In, Stages, MayPass
  <2>2. b \notin Kernels BY DEF Barriers, Kernels
  <2>3. did[r] = {} BY <2>1, <2>2 DEF TasksInOrder, Kernels
  <2>4. did' = [did EXCEPT ![r] = {}] BY <1>12, <2>3 DEF Pass, Shapes, MayPass
  <2> QED BY <1>12, <2>1, <2>2, <2>4 DEF Pass, Advances, MayPass
<1>13. ASSUME NEW w \in Senders, SendSplit(r, w) PROVE exchange' = exchange /\ Works(r)
  <2>1. PICK i \in Steps("send") : \E ops :
            In(r, "dispatch") /\ Follows(r, "send", w, i) /\ Task(r, <<"send", w, i>>, ops)
    BY <1>13 DEF SendSplit, MaySend
  <2>2. <<"send", w, i>> \in Tasks(r) BY <2>1, TasksOf
  <2>3. <<"send", w, i>> \notin did[r] BY <2>1 DEF Follows
  <2>4. forward[r] < Exchange.forwards /\ Stages[stage[r]] \in Kernels
    BY <2>1 DEF In, Stages, Kernels
  <2> QED BY <2>1, <2>2, <2>3, <2>4, WorkIsDone DEF Task
<1>14. ASSUME NEW w \in Dispatchers, DispatchSplit(r, w) PROVE exchange' = exchange /\ Works(r)
  <2>1. PICK i \in Steps("dispatch") : \E ops :
            In(r, "dispatch") /\ Follows(r, "dispatch", w, i) /\ Task(r, <<"dispatch", w, i>>, ops)
    BY <1>14 DEF DispatchSplit, MayDispatch, NodeFrom
  <2>2. <<"dispatch", w, i>> \in Tasks(r) BY <2>1, TasksOf
  <2>3. <<"dispatch", w, i>> \notin did[r] BY <2>1 DEF Follows
  <2>4. forward[r] < Exchange.forwards /\ Stages[stage[r]] \in Kernels
    BY <2>1 DEF In, Stages, Kernels
  <2> QED BY <2>1, <2>2, <2>3, <2>4, WorkIsDone DEF Task
<1>15. CASE CombineBlock(r)
  <2>1. PICK n \in Nodes : \E b \in BlocksTo(RailOf(r, n), NodeOf(r)) : \E ops :
            /\ In(r, "combine") /\ Exchange.nodes > 1 /\ <<"sums", n, b>> \notin did[r]
            /\ Task(r, <<"sums", n, b>>, ops)
    BY <1>15 DEF CombineBlock, Undone
  <2>2. PICK b \in BlocksTo(RailOf(r, n), NodeOf(r)) : \E ops :
            /\ In(r, "combine") /\ Exchange.nodes > 1 /\ <<"sums", n, b>> \notin did[r]
            /\ Task(r, <<"sums", n, b>>, ops)
    BY <2>1
  <2>3. <<"sums", n, b>> \in Tasks(r) BY <2>2, TasksOf
  <2>4. forward[r] < Exchange.forwards /\ Stages[stage[r]] \in Kernels
    BY <2>2 DEF In, Stages, Kernels
  <2> QED BY <2>2, <2>3, <2>4, WorkIsDone DEF Task
<1>16. CASE CombineToken(r)
  <2>0. PICK q \in World : \E t \in Tokens(q) :
            /\ In(r, "combine") /\ Exchange.nodes = 1 /\ r \in Experts(q, t)
            /\ <<"sum", q, t>> \notin did[r] /\ Task(r, <<"sum", q, t>>, {})
    BY <1>16 DEF CombineToken, Undone
  <2>1. PICK t \in Tokens(q) :
            /\ In(r, "combine") /\ Exchange.nodes = 1 /\ r \in Experts(q, t)
            /\ <<"sum", q, t>> \notin did[r] /\ Task(r, <<"sum", q, t>>, {})
    BY <2>0
  <2>2. <<q, t>> \in AllTokens BY DEF AllTokens
  <2>3. <<"sum", q, t>> \in Tasks(r) BY <2>1, <2>2, TasksOf
  <2>4. forward[r] < Exchange.forwards /\ Stages[stage[r]] \in Kernels
    BY <2>1 DEF In, Stages, Kernels
  <2> QED BY <2>1, <2>3, <2>4, WorkIsDone DEF Task
<1>17. CASE PutSegment(r)
  <2>1. PICK q \in World : \E ops :
            In(r, "exchange") /\ <<"put", q>> \notin did[r] /\ Task(r, <<"put", q>>, ops)
    BY <1>17 DEF PutSegment, Undone
  <2>2. <<"put", q>> \in Tasks(r) BY <2>1, TasksOf
  <2>3. forward[r] < Exchange.forwards /\ Stages[stage[r]] \in Kernels
    BY <2>1 DEF In, Stages, Kernels
  <2> QED BY <2>1, <2>2, <2>3, WorkIsDone DEF Task
<1>18. CASE CopyIndices(r)
  <2>1. PICK c \in Copiers :
            In(r, "indices") /\ <<"copy", c>> \notin did[r] /\ Task(r, <<"copy", c>>, {})
    BY <1>18 DEF CopyIndices, Undone
  <2>2. <<"copy", c>> \in Tasks(r) BY <2>1, TasksOf
  <2>3. forward[r] < Exchange.forwards /\ Stages[stage[r]] \in Kernels
    BY <2>1 DEF In, Stages, Kernels
  <2> QED BY <2>1, <2>2, <2>3, WorkIsDone DEF Task
<1>19. CASE PutIndices(r)
  <2>1. PICK q \in World \ {r} : \E ops :
            In(r, "indices") /\ <<"put", q>> \notin did[r] /\ Task(r, <<"put", q>>, ops)
    BY <1>19 DEF PutIndices, MayPutIndices, Undone
  <2>2. <<"put", q>> \in Tasks(r) BY <2>1, TasksOf
  <2>3. forward[r] < Exchange.forwards /\ Stages[stage[r]] \in Kernels
    BY <2>1 DEF In, Stages, Kernels
  <2> QED BY <2>1, <2>2, <2>3, WorkIsDone DEF Task
<1>20. CASE Deliver(r) BY <1>20 DEF Deliver, Delivers, MayDeliver
<1>22. (CopyInput(r) \/ ZeroSignals(r) \/ TakeRows(r) \/ RunExperts(r) \/ Reduce(r)
            \/ CopySegments(r) \/ TakeSegments(r) \/ TakeIndices(r) \/ KernelEnd(r) \/ Deliver(r))
       => exchange' = exchange
  BY DEF CopyInput, ZeroSignals, TakeRows, RunExperts, Reduce, CopySegments, TakeSegments,
         TakeIndices, KernelEnd, Deliver, Copy, Result, KernelOver, MayDeliver
<1>23. (CombineBlock(r) \/ CombineToken(r) \/ PutSegment(r) \/ CopyIndices(r) \/ PutIndices(r))
       => exchange' = exchange
  BY DEF CombineBlock, CombineToken, PutSegment, CopyIndices, PutIndices, Task, Undone, MayPutIndices
<1>24. CASE StreamStep(r)
  BY <1>24, <1>2, <1>3, <1>4, <1>5, <1>6, <1>7, <1>8, <1>9, <1>10, <1>11, <1>12, <1>22
     DEF StreamStep, Barriers
<1>25. CASE KernelStep(r)
  BY <1>25, <1>13, <1>14, <1>15, <1>16, <1>17, <1>18, <1>19, <1>23 DEF KernelStep
<1> QED BY <1>20, <1>22, <1>24, <1>25

-----------------------------------------------------------------------------
(* The barriers. *)

\* There is a first and a last stage.
LEMMA StageFacts ==
    ASSUME Sound(Exchange)
    PROVE  Len(Stages) \in Nat \ {0} /\ DOMAIN Stages = 1..Len(Stages)
<1>1. Stages \in Seq(StageNames) /\ Stages # <<>> BY SoundFacts
<1> QED BY <1>1

\* Where the rank that goes on comes to.
LEMMA AdvanceTo ==
    ASSUME Sound(Exchange), StreamsInOrder, NEW r \in World, NextStage(r)
    PROVE  /\ forward[r] \in Nat /\ stage[r] \in 1..Len(Stages)
           /\ \/ /\ stage[r] < Len(Stages)
                 /\ forward'[r] = forward[r] /\ stage'[r] = stage[r] + 1
              \/ /\ stage[r] = Len(Stages)
                 /\ forward'[r] = forward[r] + 1 /\ stage'[r] = 1
           /\ \A p \in World \ {r} : forward'[p] = forward[p] /\ stage'[p] = stage[p]
           /\ forward' = [forward EXCEPT ![r] = forward'[r]]
           /\ stage' = [stage EXCEPT ![r] = stage'[r]]
<1>1. Len(Stages) \in Nat \ {0} /\ DOMAIN Stages = 1..Len(Stages) BY StageFacts
<1>2. forward[r] \in 0..Exchange.forwards /\ stage[r] \in 1..Len(Stages)
      /\ Exchange.forwards \in Nat
  BY <1>1, SoundFacts DEF StreamsInOrder, Numbers
<1>3. DOMAIN forward = World /\ DOMAIN stage = World BY DEF StreamsInOrder
<1>4. CASE stage[r] < Len(Stages)
  <2>1. stage' = [stage EXCEPT ![r] = stage[r] + 1] /\ forward' = forward
    BY <1>4 DEF NextStage, Stages
  <2>2. forward' = [forward EXCEPT ![r] = forward'[r]] BY <2>1 DEF StreamsInOrder
  <2> QED BY <1>2, <1>3, <1>4, <2>1, <2>2
<1>5. CASE stage[r] = Len(Stages)
  <2>0. ~(stage[r] < Len(Exchange.stages)) BY <1>1, <1>5 DEF Stages
  <2>1. stage' = [stage EXCEPT ![r] = 1] /\ forward' = [forward EXCEPT ![r] = forward[r] + 1]
    BY <2>0 DEF NextStage
  <2> QED BY <1>2, <1>3, <1>5, <2>1
<1> QED BY <1>1, <1>2, <1>4, <1>5

\* By going on, a rank passes the call it was at and no other.
LEMMA AdvancePasses ==
    ASSUME Sound(Exchange), exchange' = exchange, StreamsInOrder, NEW r \in World,
           NextStage(r), NEW x \in Nat \X DOMAIN Stages
    PROVE  /\ Before(x, At(r))' <=> Before(x, At(r)) \/ x = At(r)
           /\ \A p \in World \ {r} : At(p)' = At(p)
<1>1. x[1] \in Nat /\ x[2] \in 1..Len(Stages) /\ x = <<x[1], x[2]>>
      /\ Len(Stages) \in Nat \ {0}
  BY StageFacts
<1>2. At(r)' = <<forward'[r], stage'[r]>> /\ At(r) = <<forward[r], stage[r]>> BY DEF At
<1>3. x = At(r) <=> x[1] = forward[r] /\ x[2] = stage[r] BY <1>1, <1>2
<1>4. Before(x, At(r)) <=> x[1] < forward[r] \/ (x[1] = forward[r] /\ x[2] < stage[r])
  BY <1>2 DEF Before
<1>5. Before(x, At(r))' <=> x[1] < forward'[r] \/ (x[1] = forward'[r] /\ x[2] < stage'[r])
  BY <1>2 DEF Before
<1>6. Before(x, At(r))' <=> Before(x, At(r)) \/ x = At(r)
  <2>1. /\ forward[r] \in Nat /\ stage[r] \in 1..Len(Stages)
        /\ \/ /\ stage[r] < Len(Stages)
              /\ forward'[r] = forward[r] /\ stage'[r] = stage[r] + 1
           \/ /\ stage[r] = Len(Stages)
              /\ forward'[r] = forward[r] + 1 /\ stage'[r] = 1
    BY AdvanceTo
  <2> QED BY <1>1, <1>3, <1>4, <1>5, <2>1
<1>7. \A p \in World \ {r} : At(p)' = At(p) BY AdvanceTo DEF At
<1> QED BY <1>6, <1>7

\* Who has arrived as often as r, which waits, is at its call or beyond.
LEMMA CountMeans ==
    ASSUME Sound(Exchange), StreamsInOrder, ArrivalsCounted,
           NEW b \in Barriers, NEW r \in World, NEW p \in World,
           waiting[r], Stages[stage[r]] = b, met[b][p] >= met[b][r]
    PROVE  At(r) \in Reached(p, b)
<1> DEFINE R == Reached(r, b)
           P == Passed(r, b)
           Q == Reached(p, b)
<1>1. /\ Len(Stages) \in Nat \ {0} /\ DOMAIN Stages = 1..Len(Stages)
      /\ forward[r] \in Nat /\ stage[r] \in DOMAIN Stages
      /\ forward[p] \in Nat /\ stage[p] \in DOMAIN Stages
  BY StageFacts DEF StreamsInOrder
<1>2. At(r) \in Calls(b) BY <1>1 DEF At, Calls
<1>3. ~Before(At(r), At(r)) BY <1>1 DEF Before, At
<1>4. R = P \cup {At(r)} /\ At(r) \notin P BY <1>2, <1>3 DEF Reached, Passed
<1>5. IsFiniteSet(R) /\ IsFiniteSet(Q) /\ met[b][r] = Cardinality(R) /\ met[b][p] = Cardinality(Q)
  BY DEF ArrivalsCounted, Barriers
<1>6. IsFiniteSet(P) /\ Cardinality(P) \in Nat /\ Cardinality(R) = Cardinality(P) + 1
  <2>1. P \in SUBSET R BY <1>4
  <2>2. IsFiniteSet(P) BY <1>5, <2>1, FS_Subset
  <2>3. Cardinality(P \cup {At(r)}) = Cardinality(P) + 1 BY <1>4, <2>2, FS_AddElement
  <2> QED BY <1>4, <2>2, <2>3, FS_CardinalityType
<1> SUFFICES ASSUME At(r) \notin Q PROVE FALSE OBVIOUS
<1>7. ~Before(At(r), At(p)) /\ ~(waiting[p] /\ At(r) = At(p)) BY <1>2 DEF Reached
<1>8. Q \in SUBSET P
  <2> SUFFICES ASSUME NEW x \in Q PROVE Before(x, At(r)) BY DEF Reached, Passed
  <2>1. x \in Calls(b) /\ (Before(x, At(p)) \/ (waiting[p] /\ x = At(p))) BY DEF Reached
  <2>2. x[1] \in Nat /\ x[2] \in 1..Len(Stages) BY <1>1, <2>1 DEF Calls
  <2> QED BY <1>1, <1>7, <2>1, <2>2 DEF Before, At
<1>9. Cardinality(Q) <= Cardinality(P) BY <1>6, <1>8, FS_Subset
<1>10. Cardinality(Q) \in Nat BY <1>5, FS_CardinalityType
<1> QED BY <1>5, <1>6, <1>9, <1>10

\* Who is in a barrier.
LEMMA MembersFacts ==
    ASSUME NEW r \in World, NEW b
    PROVE  Members(r, b) \subseteq World /\ (b # "node" => Members(r, b) = World)
           /\ (b = "node" => Members(r, b) = NodeRanks(NodeOf(r)))
  BY DEF Members, NodeRanks

\* Every step keeps the count of the arrivals, and what a barrier means.
LEMMA BarrierStep ==
    ASSUME Sound(Exchange), StreamsInOrder, Shapes, ArrivalsCounted, BarriersHold,
           NEW r \in World, exchange' = exchange,
           Advances(r) \/ Arrives(r) \/ Works(r) \/ Delivers(r)
    PROVE  ArrivalsCounted' /\ BarriersHold'
<1>0. World' = World /\ Stages' = Stages /\ (\A b : Calls(b)' = Calls(b))
      /\ (\A q, b : Members(q, b)' = Members(q, b))
  BY Fixed
<1>1. ASSUME \A q \in World, b \in Barriers : Reached(q, b)' = Reached(q, b)
                                              /\ Passed(q, b)' = Passed(q, b),
             met' = met
      PROVE  ArrivalsCounted' /\ BarriersHold'
  <2>1. ArrivalsCounted' BY <1>0, <1>1 DEF ArrivalsCounted, Barriers
  <2>2. BarriersHold'
    <3> SUFFICES ASSUME NEW b \in Barriers, NEW q \in World, NEW p \in Members(q, b)
                 PROVE  Passed(q, b)' \subseteq Reached(p, b)'
      BY <1>0 DEF BarriersHold, Barriers
    <3>1. p \in World BY MembersFacts
    <3> QED BY <1>1, <3>1 DEF BarriersHold, Barriers
  <2> QED BY <2>1, <2>2
<1>2. CASE Works(r) \/ Delivers(r)
  <2>1. UNCHANGED <<forward, stage, waiting, met>> BY <1>2 DEF Works, Delivers
  <2>2. \A q \in World, b \in Barriers : Reached(q, b)' = Reached(q, b) /\ Passed(q, b)' = Passed(q, b)
    BY <1>0, <2>1 DEF Reached, Passed, At, Before
  <2> QED BY <1>1, <2>1, <2>2
<1>3. CASE Arrives(r)
  <2>1. PICK c \in Barriers : Arrive(r, c) BY <1>3 DEF Arrives
  <2>2. /\ UNCHANGED <<forward, stage>> /\ Stages[stage[r]] = c /\ ~waiting[r]
        /\ waiting' = [waiting EXCEPT ![r] = TRUE] /\ met' = [met EXCEPT ![c][r] = @ + 1]
    BY <2>1 DEF Arrive, In, Stages, MayArrive
  <2>3. \A q \in World : At(q)' = At(q) BY <2>2 DEF At
  <2>4. \A q \in World, b \in Barriers : Passed(q, b)' = Passed(q, b)
    BY <1>0, <2>3 DEF Passed, Before
  <2>5. \A q \in World : q # r => waiting'[q] = waiting[q] BY <2>2 DEF StreamsInOrder
  <2>6. waiting'[r] = TRUE BY <2>2 DEF StreamsInOrder
  <2>7. \A q \in World, b \in Barriers : q # r => Reached(q, b)' = Reached(q, b)
    BY <1>0, <2>3, <2>5 DEF Reached, Before
  <2>8. At(r) \in Calls(c) /\ \A b \in Barriers \ {c} : At(r) \notin Calls(b)
    BY <2>2 DEF At, Calls, StreamsInOrder
  <2>9. \A b \in Barriers \ {c} : Reached(r, b)' = Reached(r, b)
    BY <1>0, <2>3, <2>8 DEF Reached, Before
  <2>10. Reached(r, c)' = Reached(r, c) \cup {At(r)}
    BY <1>0, <2>2, <2>3, <2>6, <2>8 DEF Reached, Before
  <2>11. At(r) \notin Reached(r, c)
    <3>1. ~Before(At(r), At(r))
      <4>1. forward[r] \in Int /\ stage[r] \in Int
        BY StageFacts DEF StreamsInOrder
      <4> QED BY <4>1 DEF Before, At
    <3> QED BY <2>2, <3>1 DEF Reached
  <2>12. \A q \in World, b \in Barriers : met'[b][q] = IF q = r /\ b = c THEN met[b][q] + 1 ELSE met[b][q]
    BY <2>2 DEF Shapes, Barriers
  <2>13. ArrivalsCounted'
    <3> SUFFICES ASSUME NEW b \in Barriers, NEW q \in World
                 PROVE  IsFiniteSet(Reached(q, b)') /\ met'[b][q] \in Nat
                        /\ met'[b][q] = Cardinality(Reached(q, b)')
      BY <1>0 DEF ArrivalsCounted, Barriers
    <3>1. IsFiniteSet(Reached(q, b)) /\ met[b][q] \in Nat /\ met[b][q] = Cardinality(Reached(q, b))
      BY DEF ArrivalsCounted, Barriers
    <3>2. CASE q = r /\ b = c
      <4>1. IsFiniteSet(Reached(q, b) \cup {At(r)})
            /\ Cardinality(Reached(q, b) \cup {At(r)}) = Cardinality(Reached(q, b)) + 1
        BY <3>1, <3>2, <2>11, FS_AddElement
      <4> QED BY <4>1, <3>1, <3>2, <2>10, <2>12
    <3>3. CASE ~(q = r /\ b = c)
      <4>1. Reached(q, b)' = Reached(q, b) BY <3>3, <2>7, <2>9
      <4> QED BY <4>1, <3>1, <3>3, <2>12
    <3> QED BY <3>2, <3>3
  <2>14. BarriersHold'
    <3> SUFFICES ASSUME NEW b \in Barriers, NEW q \in World, NEW p \in Members(q, b)
                 PROVE  Passed(q, b)' \subseteq Reached(p, b)'
      BY <1>0 DEF BarriersHold, Barriers
    <3>1. p \in World BY MembersFacts
    <3>2. Passed(q, b) \subseteq Reached(p, b) BY DEF BarriersHold, Barriers
    <3>3. Reached(p, b) \subseteq Reached(p, b)' BY <3>1, <2>7, <2>9, <2>10
    <3> QED BY <2>4, <3>2, <3>3
  <2> QED BY <2>13, <2>14
<1>4. CASE Advances(r)
  <2>1. /\ NextStage(r) /\ waiting' = [waiting EXCEPT ![r] = FALSE] /\ met' = met
        /\ Stages[stage[r]] \in Barriers =>
              waiting[r] /\ \A p \in Members(r, Stages[stage[r]]) :
                                met[Stages[stage[r]]][p] >= met[Stages[stage[r]]][r]
    BY <1>4 DEF Advances
  <2>2. \A x \in Nat \X DOMAIN Stages : Before(x, At(r))' <=> Before(x, At(r)) \/ x = At(r)
    BY <2>1, AdvancePasses
  <2>3. \A p \in World \ {r} : At(p)' = At(p) BY <2>1, AdvanceTo DEF At
  <2>4. \A p \in World \ {r} : waiting'[p] = waiting[p] BY <2>1 DEF StreamsInOrder
  <2>5. waiting'[r] = FALSE BY <2>1 DEF StreamsInOrder
  <2>6. \A b \in Barriers, p \in World \ {r} :
            Passed(p, b)' = Passed(p, b) /\ Reached(p, b)' = Reached(p, b)
    BY <1>0, <2>3, <2>4 DEF Passed, Reached, Before
  <2>7. \A b : Calls(b) \subseteq Nat \X DOMAIN Stages BY DEF Calls
  <2>8. \A b : At(r) \in Calls(b) => Stages[stage[r]] = b BY DEF At, Calls
  <2>9. \A b \in Barriers : Passed(r, b)' = Reached(r, b) /\ Reached(r, b)' = Reached(r, b)
    <3> SUFFICES ASSUME NEW b \in Barriers, NEW x \in Calls(b)
                 PROVE  Before(x, At(r))' <=> Before(x, At(r)) \/ (waiting[r] /\ x = At(r))
      BY <1>0, <2>5 DEF Passed, Reached
    <3>1. x = At(r) => waiting[r] BY <2>1, <2>8
    <3> QED BY <2>2, <2>7, <3>1
  <2>10. ArrivalsCounted'
    <3>1. \A b \in Barriers, q \in World : Reached(q, b)' = Reached(q, b) BY <2>6, <2>9
    <3> QED BY <1>0, <2>1, <3>1 DEF ArrivalsCounted, Barriers
  <2>11. BarriersHold'
    <3> SUFFICES ASSUME NEW b \in Barriers, NEW q \in World, NEW p \in Members(q, b)
                 PROVE  Passed(q, b)' \subseteq Reached(p, b)'
      BY <1>0 DEF BarriersHold, Barriers
    <3>1. p \in World BY MembersFacts
    <3>2. Passed(q, b) \subseteq Reached(p, b) BY DEF BarriersHold, Barriers
    <3>3. Reached(p, b)' = Reached(p, b) BY <3>1, <2>6, <2>9
    <3>4. CASE q # r BY <3>2, <3>3, <3>4, <2>6
    <3>5. CASE q = r
      <4> SUFFICES ASSUME NEW x \in Reached(r, b) PROVE x \in Reached(p, b)
        BY <3>3, <3>5, <2>9
      <4>1. CASE x \in Passed(r, b) BY <4>1, <3>2, <3>5
      <4>2. CASE x \notin Passed(r, b)
        <5>1. x = At(r) /\ waiting[r] /\ x \in Calls(b) BY <4>2 DEF Reached, Passed
        <5>2. Stages[stage[r]] = b BY <5>1, <2>8
        <5>3. met[b][p] >= met[b][r] BY <5>2, <2>1, <3>5
        <5> QED BY <5>1, <5>2, <5>3, <3>1, CountMeans
      <4> QED BY <4>1, <4>2
    <3> QED BY <3>4, <3>5
  <2> QED BY <2>10, <2>11
<1> QED BY <1>2, <1>3, <1>4

-----------------------------------------------------------------------------
(* How far a rank is, and how far it knows the others to be. *)

ReaderOf(k) == CASE k = "exchange" -> "got" [] k = "indices" -> "allIndices"
                 [] k = "dispatch" -> "rows" [] k = "combine" -> "reduce"

\* A kernel stands once in the list, with a barrier of the team behind it and two
\* between it and its next results.
LEMMA KernelFacts ==
    ASSUME Sound(Exchange), InOrder(Exchange), NEW k \in Kernels
    PROVE  /\ Pos(k) \subseteq 1..Len(Stages) /\ Pos("team") \subseteq 1..Len(Stages)
           /\ \A i \in Pos(k), j \in DOMAIN Stages : Stages[j] = k => i = j
           /\ \A i \in Pos(k) : Stages[i] = k /\ \E m \in Pos("team") : i < m
           /\ \A i \in Pos(ReaderOf(k)) : \E j \in Pos(k) :
                /\ \E m \in Pos("team") : j < m /\ m < i
                /\ \E m \in Pos("team") : m < j \/ i < m
<1>1. Apart(Stages, k, ReaderOf(k)) BY DEF InOrder, Kernels, ReaderOf, Stages
<1>2. \A i, j \in DOMAIN Stages : Stages[i] = Stages[j] /\ Stages[i] \notin {"team", "node"} => i = j
  BY DEF InOrder, Stages
<1>3. k \notin {"team", "node"} BY DEF Kernels
<1>4. DOMAIN Stages = 1..Len(Stages) BY StageFacts
<1>5. Pos(k) \subseteq 1..Len(Stages) /\ Pos("team") \subseteq 1..Len(Stages)
      /\ \A i \in Pos(k) : Stages[i] = k
  BY <1>4 DEF Pos, StagesOf
<1>6. \A i \in Pos(k), j \in DOMAIN Stages : Stages[j] = k => i = j
  BY <1>2, <1>3, <1>4, <1>5
<1>7. \A i \in Pos(k) : \E m \in Pos("team") : i < m
  BY <1>1 DEF Apart, Pos
<1>8. \A i \in Pos(ReaderOf(k)) : \E j \in Pos(k) :
                /\ \E m \in Pos("team") : j < m /\ m < i
                /\ \E m \in Pos("team") : m < j \/ i < m
  BY <1>1 DEF Apart, Pos
<1> QED BY <1>5, <1>6, <1>7, <1>8

\* Where a rank can be.
LEMMA StreamFacts ==
    ASSUME Sound(Exchange), StreamsInOrder, NEW r \in World
    PROVE  /\ forward[r] \in Nat /\ stage[r] \in 1..Len(Stages) /\ Len(Stages) \in Nat \ {0}
           /\ waiting[r] \in BOOLEAN /\ DOMAIN Stages = 1..Len(Stages)
           /\ forward[r] <= Exchange.forwards /\ Exchange.forwards \in Nat
<1>1. Exchange.forwards \in Nat BY SoundFacts DEF Numbers
<1> QED BY <1>1, StageFacts DEF StreamsInOrder

\* A barrier of forward f that r is through with, p has at least arrived at.
LEMMA Ahead ==
    ASSUME BarriersHold, Sound(Exchange), NEW b \in Barriers,
           NEW r \in World, NEW p \in Members(r, b), NEW m \in Pos(b), NEW f \in Nat,
           f < forward[r] \/ (f = forward[r] /\ m < stage[r])
    PROVE  \/ f < forward[p]
           \/ f = forward[p] /\ (m < stage[p] \/ (m = stage[p] /\ waiting[p]))
<1> DEFINE x == <<f, m>>
<1>1. x \in Calls(b) BY DEF Calls, Pos, StagesOf
<1>2. x \in Passed(r, b) BY <1>1 DEF Passed, Before, At
<1>3. x \in Reached(p, b) BY <1>2 DEF BarriersHold, Barriers
<1>4. Before(x, At(p)) \/ (waiting[p] /\ x = At(p)) BY <1>3 DEF Reached
<1> QED BY <1>4 DEF Before, At

\* While q reads what kernel k of all ranks has put, they are through with the kernel of
\* q's forward, all has been delivered, and they do not yet put again.
LEMMA Reading ==
    ASSUME Sound(Exchange), InOrder(Exchange), StreamsInOrder, BarriersHold,
           NEW k \in Kernels, NEW q \in World, NEW p \in World,
           In(q, ReaderOf(k))
    PROVE  /\ Pos(k) # {} /\ Round(p, k) = forward[q] + 1
           /\ Begun(p, k) => Flushed(p, k)
<1>1. Stages[stage[q]] = ReaderOf(k) /\ stage[q] \in Pos(ReaderOf(k))
  <2>1. stage[q] \in DOMAIN Stages BY DEF StreamsInOrder
  <2> QED BY <2>1 DEF In, Stages, Pos, StagesOf
<1>2. PICK i \in Pos(k) :
        /\ \E m \in Pos("team") : i < m /\ m < stage[q]
        /\ \E m \in Pos("team") : m < i \/ stage[q] < m
  BY <1>1, KernelFacts
<1>3. PICK m \in Pos("team") : i < m /\ m < stage[q] BY <1>2
<1>4. PICK n \in Pos("team") : n < i \/ stage[q] < n BY <1>2
<1>5. /\ Pos(k) \subseteq 1..Len(Stages) /\ Pos("team") \subseteq 1..Len(Stages)
      /\ \A j \in Pos(k) : i = j
  <2>1. \A j \in Pos(k) : j \in DOMAIN Stages /\ Stages[j] = k BY DEF Pos, StagesOf
  <2> QED BY <2>1, KernelFacts
<1>6. /\ forward[p] \in Nat /\ stage[p] \in 1..Len(Stages)
      /\ forward[q] \in Nat /\ stage[q] \in 1..Len(Stages) /\ Len(Stages) \in Nat
  BY StreamFacts
<1>7. waiting[q] = FALSE
  <2>1. ReaderOf(k) \notin {"team", "node"} BY DEF ReaderOf, Kernels
  <2> QED BY <1>1, <2>1 DEF StreamsInOrder
<1>8. \A a, c \in World : c \in Members(a, "team") BY DEF Members
<1>9. forward[q] < forward[p]
      \/ (forward[q] = forward[p] /\ (m < stage[p] \/ (m = stage[p] /\ waiting[p])))
  BY <1>3, <1>6, <1>8, Ahead DEF Barriers
<1>10. CASE forward[q] = forward[p]
  <2>1. m < stage[p] \/ (m = stage[p] /\ waiting[p]) BY <1>6, <1>9, <1>10
  <2>2. Flushed(p, k) BY <2>1, <1>3 DEF Flushed
  <2>3. i <= stage[p] BY <2>1, <1>3, <1>5, <1>6
  <2> QED BY <2>2, <2>3, <1>10 DEF Begun, Round
<1>11. CASE forward[q] < forward[p]
  <2>1. ~(stage[q] < n)
    <3> SUFFICES ASSUME stage[q] < n PROVE FALSE OBVIOUS
    <3>1. forward[q] < forward[q]
          \/ (forward[q] = forward[q] /\ (n < stage[q] \/ (n = stage[q] /\ waiting[q])))
      BY <1>4, <1>6, <1>8, <1>11, Ahead DEF Barriers
    <3> QED BY <3>1, <1>5, <1>6
  <2>2. n < i BY <2>1, <1>4
  <2>3. ~(forward[q] + 1 < forward[p] \/ (forward[q] + 1 = forward[p] /\ n < stage[p]))
    <3> SUFFICES ASSUME forward[q] + 1 < forward[p] \/ (forward[q] + 1 = forward[p] /\ n < stage[p])
                 PROVE FALSE OBVIOUS
    <3>1. forward[q] + 1 \in Nat BY <1>6
    <3>2. forward[q] + 1 < forward[q]
          \/ (forward[q] + 1 = forward[q] /\ (n < stage[q] \/ (n = stage[q] /\ waiting[q])))
      BY <3>1, <1>4, <1>8, Ahead DEF Barriers
    <3> QED BY <3>2, <1>6
  <2>4. forward[p] = forward[q] + 1 /\ stage[p] <= n BY <2>3, <1>5, <1>6, <1>11
  <2>5. ~Begun(p, k)
    <3> SUFFICES ASSUME NEW j \in Pos(k), j <= stage[p] PROVE FALSE BY DEF Begun
    <3> QED BY <2>2, <2>4, <1>5, <1>6
  <2> QED BY <2>4, <2>5, <1>2 DEF Round
<1> QED BY <1>6, <1>9, <1>10, <1>11, <1>2

\* Two ranks whose puts are in flight are in the same forward.
LEMMA SameForward ==
    ASSUME Sound(Exchange), InOrder(Exchange), StreamsInOrder, BarriersHold,
           NEW k \in Kernels, NEW q \in World, NEW p \in World,
           Open(q, k), Begun(p, k)
    PROVE  forward[p] <= forward[q] /\ (Open(p, k) => forward[p] = forward[q])
<1> SUFFICES ASSUME NEW a \in World, NEW c \in World, Open(a, k), forward[a] < forward[c]
             PROVE  FALSE
  <2>1. forward[p] \in Nat /\ forward[q] \in Nat BY StreamFacts
  <2> QED BY <2>1
<1>1. PICK i \in Pos(k) : i <= stage[a] BY DEF Open, Begun
<1>2. PICK m \in Pos("team") : i < m BY KernelFacts
<1>3. c \in World /\ a \in Members(c, "team") BY DEF Members
<1>4. forward[a] \in Nat /\ forward[c] \in Nat BY StreamFacts
<1>5. forward[a] < forward[a]
      \/ (forward[a] = forward[a] /\ (m < stage[a] \/ (m = stage[a] /\ waiting[a])))
  BY <1>3, <1>4, Ahead DEF Barriers
<1>6. Flushed(a, k) BY <1>1, <1>2, <1>4, <1>5 DEF Flushed
<1> QED BY <1>6 DEF Open

\* Nothing but going on changes how far a rank is; an arrival finds its puts complete.
LEMMA ProgressStays ==
    ASSUME Sound(Exchange), StreamsInOrder, exchange' = exchange,
           NEW r \in World, Arrives(r) \/ Works(r) \/ Delivers(r), NEW p \in World, NEW name
    PROVE  /\ forward' = forward /\ stage' = stage
           /\ Begun(p, name)' = Begun(p, name) /\ Past(p, name)' = Past(p, name)
           /\ Round(p, name)' = Round(p, name)
           /\ Flushed(p, name) => Flushed(p, name)'
           /\ Flushed(p, name)' => Flushed(p, name) \/ wire'[p] = {}
<1>1. forward' = forward /\ stage' = stage BY DEF Arrives, Arrive, Works, Delivers, MayArrive
<1>2. Pos(name)' = Pos(name) /\ Pos("team")' = Pos("team") BY Fixed
<1>3. Begun(p, name)' = Begun(p, name) /\ Past(p, name)' = Past(p, name)
  BY <1>1, <1>2 DEF Begun, Past
<1>4. Round(p, name)' = Round(p, name) BY <1>1, <1>3 DEF Round
<1>5. CASE Works(r) \/ Delivers(r)
  <2>1. waiting' = waiting BY <1>5 DEF Works, Delivers
  <2>2. Flushed(p, name)' = Flushed(p, name) BY <1>1, <1>2, <2>1 DEF Flushed
  <2> QED BY <1>1, <1>3, <1>4, <2>2
<1>6. CASE Arrives(r)
  <2>1. PICK b \in Barriers : Arrive(r, b) BY <1>6 DEF Arrives
  <2>2. waiting' = [waiting EXCEPT ![r] = TRUE] /\ wire' = wire /\ Stages[stage[r]] = b
        /\ (b = "team" => wire[r] = {})
    BY <2>1 DEF Arrive, In, Quiet, Stages, MayArrive
  <2>3. \A q \in World : (waiting[q] => waiting'[q]) /\ (q # r => waiting'[q] = waiting[q])
    BY <2>2 DEF StreamsInOrder
  <2>4. Flushed(p, name) => Flushed(p, name)' BY <1>1, <1>2, <2>3 DEF Flushed
  <2>5. ASSUME Flushed(p, name)', ~Flushed(p, name) PROVE wire'[p] = {}
    <3>1. PICK m \in Pos("team") : m = stage[p] /\ waiting'[p] /\ ~waiting[p]
      BY <1>1, <1>2, <2>5 DEF Flushed
    <3>2. p = r BY <3>1, <2>3
    <3>3. Stages[stage[r]] = "team" BY <3>1, <3>2 DEF Pos, StagesOf
    <3> QED BY <2>2, <3>2, <3>3
  <2> QED BY <1>1, <1>3, <1>4, <2>4, <2>5
<1> QED BY <1>5, <1>6

-----------------------------------------------------------------------------
(* What going on to the next stage leaves as it is. *)

\* The operation of a put is a task of its kernel.
LEMMA TaskKnown ==
    ASSUME Sound(Exchange), NEW x \in Puts, In(x.from, Kernel(x))
    PROVE  TaskOf(x) \in Tasks(x.from)
<1>0. Numbers BY SoundFacts
<1>1. CASE x.kind = "exchange"
  <2>1. Kernel(x) = "exchange" BY <1>1 DEF Kernel, KernelOf
  <2>2. TaskOf(x) = <<"put", x.to>> BY <1>1, TaskFacts
  <2> QED BY <2>1, <2>2, TasksOf, PutFacts
<1>2. CASE x.kind = "indices"
  <2>1. Kernel(x) = "indices" BY <1>2 DEF Kernel, KernelOf
  <2>2. TaskOf(x) = <<"put", x.to>> BY <1>2, TaskFacts
  <2>3. x.to \in World \ {x.from} BY <1>2, PutFacts
  <2> QED BY <2>1, <2>2, <2>3, TasksOf
<1>3. CASE x.kind = "send"
  <2>1. Kernel(x) = "dispatch" BY <1>3 DEF Kernel, KernelOf
  <2>2. \E w \in Senders, i \in Steps("send") : TaskOf(x) = <<"send", w, i>>
    BY <1>3, TaskFacts
  <2> QED BY <2>1, <2>2, TasksOf
<1>4. CASE x.kind = "rows"
  <2>1. Kernel(x) = "dispatch" BY <1>4 DEF Kernel, KernelOf
  <2>2. \E w \in Dispatchers, i \in Steps("dispatch") : TaskOf(x) = <<"dispatch", w, i>>
    BY <1>4, TaskFacts
  <2> QED BY <2>1, <2>2, TasksOf
<1>5. CASE x.kind = "sums"
  <2>1. Kernel(x) = "combine" BY <1>5 DEF Kernel, KernelOf
  <2>2. TaskOf(x) = <<"sums", NodeOf(x.to), BlockOf(x.item)>> BY <1>5, TaskFacts
  <2>3. /\ x.from \in World /\ x.to \in World /\ x.from = RailOf(x.to, NodeOf(x.from))
        /\ NodeOf(x.to) # NodeOf(x.from) /\ x.item \in Wanted(x.to, NodeOf(x.from))
    BY <1>5, PutFacts
  <2>4. NodeOf(x.to) \in Nodes /\ NodeOf(x.from) \in Nodes BY <1>0, <2>3, RankFacts
  <2>5. Exchange.nodes > 1 BY <1>0, <2>3, <2>4 DEF Nodes, Numbers
  <2>6. RailOf(x.from, NodeOf(x.to)) = x.to
    <3>1. RailOf(RailOf(x.to, NodeOf(x.from)), NodeOf(x.to)) = RailOf(x.to, NodeOf(x.to))
          /\ RailOf(x.to, NodeOf(x.to)) = x.to
      BY <1>0, <2>3, <2>4, RailRail
    <3> QED BY <2>3, <3>1
  <2>7. BlockOf(x.item) \in BlocksTo(RailOf(x.from, NodeOf(x.to)), NodeOf(x.from))
    BY <2>3, <2>6 DEF BlocksTo
  <2> QED BY <2>1, <2>2, <2>4, <2>5, <2>7, TasksOf
<1> QED BY <1>1, <1>2, <1>3, <1>4, <1>5, PutFacts DEF Kinds

\* A stage that stands once in the list: where the rank comes to by going on.
LEMMA GoingOn ==
    ASSUME Sound(Exchange), InOrder(Exchange), StreamsInOrder, exchange' = exchange,
           NEW r \in World, Advances(r), NEW k, k \notin Barriers
    PROVE  /\ stage'[r] = stage[r] + 1 =>
                /\ forward'[r] = forward[r]
                /\ Past(r, k)' <=> Past(r, k) \/ Stages[stage[r]] = k
           /\ stage'[r] # stage[r] + 1 =>
                /\ forward'[r] = forward[r] + 1 /\ stage'[r] = 1 /\ stage[r] = Len(Stages)
                /\ ~Past(r, k)'
                /\ Pos(k) # {} => Past(r, k) \/ Stages[stage[r]] = k
           /\ Past(r, k) => Stages[stage[r]] # k
           /\ did'[r] = {} \/ did'[r] = did[r]
           /\ forward'[r] = forward[r] \/ forward'[r] = forward[r] + 1
<1>1. NextStage(r) /\ did' = [did EXCEPT ![r] = {}] BY DEF Advances
<1>2. /\ forward[r] \in Nat /\ stage[r] \in 1..Len(Stages)
      /\ \/ /\ stage[r] < Len(Stages)
            /\ forward'[r] = forward[r] /\ stage'[r] = stage[r] + 1
         \/ /\ stage[r] = Len(Stages)
            /\ forward'[r] = forward[r] + 1 /\ stage'[r] = 1
  BY <1>1, AdvanceTo
<1>3. Len(Stages) \in Nat \ {0} /\ DOMAIN Stages = 1..Len(Stages) BY StageFacts
<1>4. Pos(k) = {i \in 1..Len(Stages) : Stages[i] = k} BY <1>3 DEF Pos, StagesOf
<1>5. \A i, j \in Pos(k) : i = j
  BY <1>3, <1>4 DEF InOrder, Stages, Barriers
<1>6. Pos(k)' = Pos(k) BY Fixed
<1>7. Past(r, k) <=> \E i \in Pos(k) : i < stage[r] BY DEF Past
<1>8. Past(r, k)' <=> \E i \in Pos(k) : i < stage'[r] BY <1>6 DEF Past
<1>9. Past(r, k) => Stages[stage[r]] # k BY <1>2, <1>4, <1>5, <1>7
<1>10. did'[r] = {} \/ did'[r] = did[r] BY <1>1
<1>11. CASE stage[r] < Len(Stages) /\ forward'[r] = forward[r] /\ stage'[r] = stage[r] + 1
  <2>1. \A i \in Pos(k) : i < stage[r] + 1 <=> i < stage[r] \/ i = stage[r] BY <1>2, <1>4
  <2>2. stage[r] \in Pos(k) <=> Stages[stage[r]] = k BY <1>2, <1>4
  <2>3. Past(r, k)' <=> Past(r, k) \/ Stages[stage[r]] = k BY <2>1, <2>2, <1>7, <1>8, <1>11
  <2> QED BY <2>3, <1>9, <1>10, <1>11
<1>12. CASE stage[r] = Len(Stages) /\ forward'[r] = forward[r] + 1 /\ stage'[r] = 1
  <2>1. ~Past(r, k)' BY <1>4, <1>8, <1>12
  <2>2. \A i \in Pos(k) : i < stage[r] \/ i = stage[r] BY <1>3, <1>4, <1>12
  <2>3. Pos(k) # {} => Past(r, k) \/ Stages[stage[r]] = k BY <2>2, <1>4, <1>7
  <2>4. stage'[r] # stage[r] + 1 BY <1>2, <1>12
  <2> QED BY <2>1, <2>3, <2>4, <1>9, <1>10, <1>12
<1> QED BY <1>2, <1>11, <1>12

\* Kernels are done when the stream goes on.
LEMMA DidAdvance ==
    ASSUME Sound(Exchange), InOrder(Exchange), StreamsInOrder, Shapes, exchange' = exchange,
           NEW r \in World, Advances(r), NEW k \in Kernels, NEW task,
           In(r, k) => task \in Tasks(r)
    PROVE  /\ DidTask(r, k, task)' => DidTask(r, k, task) /\ stage'[r] = stage[r] + 1
           /\ stage'[r] = stage[r] + 1 => (DidTask(r, k, task)' <=> DidTask(r, k, task))
           /\ Stages[stage[r]] = k => DidTask(r, k, task)
<1>1. k \notin Barriers BY DEF Barriers, Kernels
<1>2. did'[r] = {} BY DEF Advances, Shapes
<1>3. Stages' = Stages BY Fixed
<1>4. DidTask(r, k, task)' <=> Past(r, k)' BY <1>2, <1>3 DEF DidTask
<1>5. Stages[stage[r]] = k => task \in did[r]
  BY DEF Advances, In, Stages
<1>6. DidTask(r, k, task) <=> Past(r, k) \/ Stages[stage[r]] = k BY <1>5 DEF DidTask
<1> QED BY <1>1, <1>4, <1>6, GoingOn

\* Going on keeps the round of a kernel that is done.
LEMMA KernelAdvance ==
    ASSUME Sound(Exchange), InOrder(Exchange), StreamsInOrder, Shapes, exchange' = exchange,
           NEW r \in World, Advances(r), NEW k \in Kernels, NEW task,
           In(r, k) => task \in Tasks(r), Pos(k) # {},
           Begun(r, k)' => DidTask(r, k, task)'
    PROVE  /\ Round(r, k)' = Round(r, k)
           /\ Begun(r, k) => DidTask(r, k, task)
           /\ Begun(r, k) => Begun(r, k)' \/ Flushed(r, k)
<1>1. k \notin Barriers BY DEF Barriers, Kernels
<1>2. forward[r] \in Nat /\ stage[r] \in 1..Len(Stages) BY StreamFacts
<1>3. Pos(k) \subseteq 1..Len(Stages) /\ Pos("team") \subseteq 1..Len(Stages)
      /\ (\A i \in Pos(k) : Stages[i] = k /\ \E m \in Pos("team") : i < m)
      /\ Len(Stages) \in Nat /\ DOMAIN Stages = 1..Len(Stages)
  BY KernelFacts, StageFacts
<1>4. \A i \in Pos(k), j \in DOMAIN Stages : Stages[j] = k => i = j BY KernelFacts
<1>5. Pos(k)' = Pos(k) BY Fixed
<1>6. Begun(r, k) <=> Past(r, k) \/ Stages[stage[r]] = k
  <2>1. stage[r] \in Pos(k) <=> Stages[stage[r]] = k BY <1>2, <1>3 DEF Pos, StagesOf
  <2>2. \A i \in Pos(k) : i <= stage[r] <=> i < stage[r] \/ i = stage[r] BY <1>2, <1>3
  <2> QED BY <2>1, <2>2 DEF Begun, Past
<1>7. Begun(r, k) => DidTask(r, k, task)
  BY <1>6, DidAdvance DEF DidTask
<1>8. CASE stage'[r] = stage[r] + 1
  <2>1. forward'[r] = forward[r] BY <1>1, <1>8, GoingOn
  <2>2. Begun(r, k) => Begun(r, k)'
    <3>1. \A i \in Pos(k) : i <= stage[r] => i <= stage'[r] BY <1>2, <1>3, <1>8
    <3> QED BY <3>1, <1>5 DEF Begun
  <2>3. Begun(r, k)' => Begun(r, k)
    <3>1. Begun(r, k)' => DidTask(r, k, task) BY DidAdvance
    <3> QED BY <3>1, <1>6 DEF DidTask
  <2>4. Round(r, k)' = Round(r, k) BY <2>1, <2>2, <2>3 DEF Round
  <2> QED BY <2>2, <2>4, <1>7
<1>9. CASE stage'[r] # stage[r] + 1
  <2>1. forward'[r] = forward[r] + 1 /\ stage[r] = Len(Stages) BY <1>1, <1>9, GoingOn
  <2>2. ~Begun(r, k)' BY <1>9, DidAdvance
  <2>3. Begun(r, k) BY <1>1, <1>6, <1>9, GoingOn
  <2>4. Flushed(r, k)
    <3>1. PICK i \in Pos(k) : TRUE OBVIOUS
    <3>2. PICK m \in Pos("team") : i < m BY <1>3
    <3>3. m < stage[r] \/ m = stage[r] BY <1>3, <2>1
    <3>4. m = stage[r] => waiting[r] 
      <4>1. m = stage[r] => Stages[stage[r]] \in Barriers BY DEF Pos, StagesOf, Barriers
      <4> QED BY <4>1 DEF Advances
    <3> QED BY <3>1, <3>2, <3>3, <3>4 DEF Flushed
  <2>5. Round(r, k)' = Round(r, k) BY <2>1, <2>2, <2>3 DEF Round
  <2> QED BY <2>4, <2>5, <1>7
<1> QED BY <1>8, <1>9

\* The stream does not go on to a barrier's other side with puts in flight.
LEMMA OpenAdvance ==
    ASSUME Sound(Exchange), InOrder(Exchange), StreamsInOrder, Shapes, exchange' = exchange,
           NEW r \in World, Advances(r), NEW k \in Kernels, NEW task,
           In(r, k) => task \in Tasks(r), Open(r, k), DidTask(r, k, task)
    PROVE  /\ Open(r, k)' /\ DidTask(r, k, task)' /\ forward'[r] = forward[r]
           /\ stage'[r] = stage[r] + 1
<1>1. k \notin Barriers BY DEF Barriers, Kernels
<1>2. forward[r] \in Nat /\ stage[r] \in 1..Len(Stages) BY StreamFacts
<1>3. Pos(k) \subseteq 1..Len(Stages) /\ Pos("team") \subseteq 1..Len(Stages)
      /\ (\A i \in Pos(k) : Stages[i] = k /\ \E m \in Pos("team") : i < m)
      /\ Len(Stages) \in Nat /\ DOMAIN Stages = 1..Len(Stages)
  BY KernelFacts, StageFacts
<1>4. Pos(k)' = Pos(k) /\ Pos("team")' = Pos("team") BY Fixed
<1>5. PICK i \in Pos(k) : i <= stage[r] BY DEF Open, Begun
<1>6. \A m \in Pos("team") : m = stage[r] => waiting[r]
  <2>1. \A m \in Pos("team") : m = stage[r] => Stages[stage[r]] \in Barriers
    BY DEF Pos, StagesOf, Barriers
  <2> QED BY <2>1 DEF Advances
<1>7. \A m \in Pos("team"), j \in Pos(k) : j < m => ~(m <= stage[r])
  <2> SUFFICES ASSUME NEW m \in Pos("team"), NEW j \in Pos(k), j < m, m <= stage[r] PROVE FALSE
    OBVIOUS
  <2>1. m < stage[r] \/ (m = stage[r] /\ waiting[r]) BY <1>2, <1>3, <1>6
  <2> QED BY <2>1 DEF Open, Flushed
<1>8. stage'[r] = stage[r] + 1
  <2>1. PICK m \in Pos("team") : i < m BY <1>3
  <2>2. stage[r] # Len(Stages) BY <1>2, <1>3, <1>7, <2>1
  <2> QED BY <1>1, <2>2, GoingOn
<1>9. forward'[r] = forward[r] BY <1>1, <1>8, GoingOn
<1>10. Begun(r, k)' BY <1>2, <1>3, <1>4, <1>5, <1>8 DEF Begun
<1>11. ~Flushed(r, k)'
  <2> SUFFICES ASSUME NEW j \in Pos(k), NEW m \in Pos("team"), j < m,
                      m < stage'[r] \/ (m = stage'[r] /\ waiting'[r])
               PROVE  FALSE
    BY <1>4 DEF Flushed
  <2>1. waiting'[r] = FALSE BY DEF Advances, StreamsInOrder
  <2>2. m <= stage[r] BY <2>1, <1>2, <1>3, <1>8
  <2> QED BY <2>2, <1>7
<1>12. DidTask(r, k, task)' BY <1>8, DidAdvance
<1> QED BY <1>8, <1>9, <1>10, <1>11, <1>12 DEF Open

-----------------------------------------------------------------------------
(* The operations of a task. *)

RowsFor(kind, from, to, task) ==
    {<<Source(x), Target(x)>> :
        x \in {z \in Puts : z.kind = kind /\ z.from = from /\ z.to = to /\ TaskOf(z) = task}}

ArePuts(ops, kind, from, to, task) ==
    /\ \A x \in Puts : x.from = from =>
            (OpOf(x) \in ops <=> x.kind = kind /\ x.to = to /\ TaskOf(x) = task)
    /\ \A op \in ops : op.flag = <<>> /\ \E x \in Puts : x.from = from /\ op = OpOf(x)

\* A put operation of the model is the puts that go together.
LEMMA PutOpFacts ==
    ASSUME Sound(Exchange), NEW kind, NEW from \in World, NEW to, NEW task
    PROVE  ArePuts(PutOp(task, to, RowsFor(kind, from, to, task)), kind, from, to, task)
<1> DEFINE rows == RowsFor(kind, from, to, task)
           ops  == PutOp(task, to, rows)
<1>1. \A y \in Puts : y.kind = kind /\ y.from = from /\ y.to = to /\ TaskOf(y) = task
            => /\ RowsWith(y) = rows
               /\ OpOf(y) = [to |-> to, rows |-> rows, flag |-> <<>>, task |-> task]
  <2> SUFFICES ASSUME NEW y \in Puts, y.kind = kind, y.from = from, y.to = to, TaskOf(y) = task
               PROVE  /\ RowsWith(y) = rows
                      /\ OpOf(y) = [to |-> to, rows |-> rows, flag |-> <<>>, task |-> task]
    OBVIOUS
  <2>1. RowsWith(y) = rows BY DEF RowsWith, Together, RowsFor
  <2> QED BY <2>1 DEF OpOf
<1>2. CASE rows = {}
  <2>1. \A x \in Puts : ~(x.kind = kind /\ x.from = from /\ x.to = to /\ TaskOf(x) = task)
    BY <1>2 DEF RowsFor
  <2>2. ops = {} BY <1>2 DEF PutOp
  <2> QED BY <2>1, <2>2 DEF ArePuts
<1>3. CASE rows # {}
  <2>1. ops = {[to |-> to, rows |-> rows, flag |-> <<>>, task |-> task]} BY <1>3 DEF PutOp
  <2>2. PICK y \in Puts : y.kind = kind /\ y.from = from /\ y.to = to /\ TaskOf(y) = task
    BY <1>3 DEF RowsFor
  <2>3. ops = {OpOf(y)} BY <2>1, <2>2, <1>1
  <2>4. OpOf(y).flag = <<>> BY OpFacts
  <2>5. \A x \in Puts : x.from = from => (OpOf(x) = OpOf(y) <=> Together(x, y))
    BY <2>2, SameOp
  <2> QED BY <2>2, <2>3, <2>4, <2>5 DEF Together, ArePuts
<1> QED BY <1>2, <1>3

\* What a task of r adds to the wire: the puts and the signal that are of the task.
NewOps(r, task, ops) ==
    /\ \A x \in Puts : x.from = r =>
            (OpOf(x) \in ops <=> Kernel(x) = Stages[stage[r]] /\ TaskOf(x) = task)
    /\ \A w \in Senders, i \in Steps("send") :
            SignalOf(r, w, i) \in ops <=> Stages[stage[r]] = "dispatch" /\ task = <<"send", w, i>>
    /\ \A op \in ops : \/ \E x \in Puts : x.from = r /\ op = OpOf(x)
                       \/ \E w \in Senders, i \in Steps("send") : op = SignalOf(r, w, i)

\* The fields of a signal, which no put is.
LEMMA SignalFacts ==
    ASSUME NEW r, NEW w, NEW i
    PROVE  /\ SignalOf(r, w, i).flag # <<>> /\ SignalOf(r, w, i).rows = {}
           /\ SignalOf(r, w, i).task = <<"send", w, i>>
           /\ SignalOf(r, w, i).flag = <<Split(i), NodeOf(r)>>
           /\ SignalOf(r, w, i).to = PeerOf(r, i)
           /\ \A x \in Puts : OpOf(x) # SignalOf(r, w, i)
           /\ \A v, j : SignalOf(r, v, j) = SignalOf(r, w, i) => v = w /\ j = i
<1>1. /\ SignalOf(r, w, i).flag # <<>> /\ SignalOf(r, w, i).rows = {}
      /\ SignalOf(r, w, i).flag = <<Split(i), NodeOf(r)>>
      /\ SignalOf(r, w, i).to = PeerOf(r, i)
  BY DEF SignalOf, PeerOf
<1>2. \A v, j : SignalOf(r, v, j).task = <<"send", v, j>> BY DEF SignalOf
<1>3. \A x \in Puts : OpOf(x) # SignalOf(r, w, i) BY <1>1, OpFacts
<1>4. ASSUME NEW v, NEW j, SignalOf(r, v, j) = SignalOf(r, w, i) PROVE v = w /\ j = i
  <2>1. <<"send", v, j>> = <<"send", w, i>> BY <1>2, <1>4
  <2> QED BY <2>1
<1> QED BY <1>1, <1>2, <1>3, <1>4

\* The kernel of a put, and the name of its task.
LEMMA TaskTags ==
    ASSUME Sound(Exchange), NEW x \in Puts
    PROVE  /\ Kernel(x) = KernelOf(x.kind)
           /\ x.kind \in {"exchange", "indices"} => TaskOf(x)[1] = "put" /\ TaskOf(x)[2] = x.to
           /\ x.kind = "send" => TaskOf(x)[1] = "send"
           /\ x.kind = "rows" => TaskOf(x)[1] = "dispatch"
           /\ x.kind = "sums" => TaskOf(x)[1] = "sums" /\ TaskOf(x)[2] = NodeOf(x.to)
                                 /\ TaskOf(x)[3] = BlockOf(x.item)
           /\ Kernel(x) = "exchange" <=> x.kind = "exchange"
           /\ Kernel(x) = "indices" <=> x.kind = "indices"
           /\ Kernel(x) = "dispatch" <=> x.kind = "send" \/ x.kind = "rows"
           /\ Kernel(x) = "combine" <=> x.kind = "sums"
           /\ Kernel(x) \in Kernels
<1>1. x.kind \in Kinds BY PutFacts
<1>2. /\ Kernel(x) = "exchange" <=> x.kind = "exchange"
      /\ Kernel(x) = "indices" <=> x.kind = "indices"
      /\ Kernel(x) = "dispatch" <=> x.kind = "send" \/ x.kind = "rows"
      /\ Kernel(x) = "combine" <=> x.kind = "sums"
      /\ Kernel(x) \in Kernels
      /\ Kernel(x) = KernelOf(x.kind)
  BY <1>1 DEF Kernel, KernelOf, Kinds, Kernels
<1>3. x.kind \in {"exchange", "indices"} => TaskOf(x)[1] = "put" /\ TaskOf(x)[2] = x.to
  BY TaskFacts
<1>4. x.kind = "send" => TaskOf(x)[1] = "send"
  <2>1. x.kind = "send" => \E w, i : TaskOf(x) = <<"send", w, i>> BY TaskFacts
  <2> QED BY <2>1
<1>5. x.kind = "rows" => TaskOf(x)[1] = "dispatch"
  <2>1. x.kind = "rows" => \E w, i : TaskOf(x) = <<"dispatch", w, i>> BY TaskFacts
  <2> QED BY <2>1
<1>6. x.kind = "sums" => TaskOf(x)[1] = "sums" /\ TaskOf(x)[2] = NodeOf(x.to)
                                 /\ TaskOf(x)[3] = BlockOf(x.item)
  BY TaskFacts
<1> QED BY <1>2, <1>3, <1>4, <1>5, <1>6

\* Put operations have no signal among them.
LEMMA NoSignal ==
    ASSUME NEW ops, NEW kind, NEW from, NEW to, NEW task, ArePuts(ops, kind, from, to, task)
    PROVE  \A r, w, i : SignalOf(r, w, i) \notin ops
<1> TAKE r, w, i
<1>1. SignalOf(r, w, i).flag # <<>> BY SignalFacts
<1> QED BY <1>1 DEF ArePuts

\* What PutSegment adds to the wire.
LEMMA SegmentOps ==
    ASSUME Sound(Exchange), NEW r \in World, NEW q \in World, In(r, "exchange"),
           NEW ops, ops = PutOp(<<"put", q>>, q, {<<<<"segment", q>>, <<"got", r>>>>})
    PROVE  NewOps(r, <<"put", q>>, ops)
<1> DEFINE task == <<"put", q>>
           y == [kind |-> "exchange", from |-> r, to |-> q, of |-> r, item |-> q]
<1>0. q \in Nat BY SoundFacts, RankFacts
<1>1. y \in Puts BY <1>0 DEF Puts, Kinds
<1>2. Source(y) = <<"segment", q>> /\ Target(y) = <<"got", r>> /\ TaskOf(y) = task
  BY <1>1, SourceTarget, TaskFacts
<1>3. \A z \in Puts : z.kind = "exchange" /\ z.from = r /\ z.to = q => z = y
  <2> SUFFICES ASSUME NEW z \in Puts, z.kind = "exchange", z.from = r, z.to = q PROVE z = y
    OBVIOUS
  <2>1. z.of = r /\ z.item = q BY PutFacts
  <2> QED BY <1>1, <2>1, PutEqual
<1>4. RowsFor("exchange", r, q, task) = {<<Source(y), Target(y)>>}
  BY <1>1, <1>2, <1>3 DEF RowsFor
<1>5. ops = PutOp(task, q, RowsFor("exchange", r, q, task)) BY <1>2, <1>4
<1>6. Stages[stage[r]] = "exchange" BY DEF In, Stages
<1> HIDE DEF y, task
<1>7. ArePuts(ops, "exchange", r, q, task) BY <1>5, PutOpFacts
<1>8. \A x \in Puts : TaskOf(x) = task /\ Kernel(x) = "exchange"
        => x.kind = "exchange" /\ x.to = q
  BY TaskTags DEF task
<1>9. \A x \in Puts : x.kind = "exchange" => Kernel(x) = "exchange" BY TaskTags
<1>10. \A w, i : SignalOf(r, w, i) \notin ops BY <1>7, NoSignal
<1>11. NewOps(r, task, ops) BY <1>6, <1>7, <1>8, <1>9, <1>10 DEF NewOps, ArePuts
<1> QED BY <1>11 DEF task

\* What PutIndices adds to the wire.
LEMMA IndexOps ==
    ASSUME Sound(Exchange), NEW r \in World, NEW q \in World \ {r}, In(r, "indices"),
           NEW ops, ops = PutOp(<<"put", q>>, q,
                {<<<<"index", r, c>>, <<"index", r, c>>>> : c \in Copiers})
    PROVE  NewOps(r, <<"put", q>>, ops)
<1> DEFINE task == <<"put", q>>
           y(c) == [kind |-> "indices", from |-> r, to |-> q, of |-> r, item |-> c]
<1>0. Copiers \subseteq Nat BY SoundFacts DEF Copiers, Numbers
<1>1. \A c \in Copiers : y(c) \in Puts BY <1>0 DEF Puts, Kinds
<1>2. \A c \in Copiers : /\ Source(y(c)) = <<"index", r, c>>
                         /\ Target(y(c)) = <<"index", r, c>> /\ TaskOf(y(c)) = task
  <2> TAKE c \in Copiers
  <2>1. TaskOf(y(c)) = <<"put", y(c).to>> BY <1>1, TaskFacts
  <2> QED BY <2>1, SourceTarget
<1>3. \A z \in Puts : z.kind = "indices" /\ z.from = r /\ z.to = q
        => z.item \in Copiers /\ z = y(z.item)
  <2> SUFFICES ASSUME NEW z \in Puts, z.kind = "indices", z.from = r, z.to = q
               PROVE z.item \in Copiers /\ z = y(z.item)
    OBVIOUS
  <2>1. z.of = r /\ z.item \in Copiers BY PutFacts
  <2> QED BY <1>1, <2>1, PutEqual
<1>3a. \A c \in Copiers : y(c).kind = "indices" /\ y(c).from = r /\ y(c).to = q OBVIOUS
<1> HIDE DEF y, task
<1>4. RowsFor("indices", r, q, task) = {<<<<"index", r, c>>, <<"index", r, c>>>> : c \in Copiers}
  <2>1. ASSUME NEW row \in RowsFor("indices", r, q, task)
        PROVE row \in {<<<<"index", r, c>>, <<"index", r, c>>>> : c \in Copiers}
    <3>1. PICK z \in Puts : z.kind = "indices" /\ z.from = r /\ z.to = q
            /\ row = <<Source(z), Target(z)>>
      BY <2>1 DEF RowsFor
    <3> QED BY <3>1, <1>3, <1>2
  <2>2. ASSUME NEW c \in Copiers
        PROVE <<<<"index", r, c>>, <<"index", r, c>>>> \in RowsFor("indices", r, q, task)
    BY <1>1, <1>2, <1>3a DEF RowsFor
  <2> QED BY <2>1, <2>2
<1>5. ops = PutOp(task, q, RowsFor("indices", r, q, task)) BY <1>4 DEF task
<1>6. Stages[stage[r]] = "indices" BY DEF In, Stages
<1>7. ArePuts(ops, "indices", r, q, task) BY <1>5, PutOpFacts
<1>8. \A x \in Puts : TaskOf(x) = task /\ Kernel(x) = "indices"
        => x.kind = "indices" /\ x.to = q
  BY TaskTags DEF task
<1>9. \A x \in Puts : x.kind = "indices" => Kernel(x) = "indices" BY TaskTags
<1>10. \A w, i : SignalOf(r, w, i) \notin ops BY <1>7, NoSignal
<1>11. NewOps(r, task, ops) BY <1>6, <1>7, <1>8, <1>9, <1>10 DEF NewOps, ArePuts
<1> QED BY <1>11 DEF task

\* A task that puts nothing.
LEMMA NoOps ==
    ASSUME Sound(Exchange), NEW r \in World,
           NEW task, task[1] \notin {"put", "send", "dispatch"},
           task[1] = "sums" => task[2] = NodeOf(r)
    PROVE  NewOps(r, task, {})
<1>1. \A x \in Puts : x.from = r => TaskOf(x) # task
  <2> SUFFICES ASSUME NEW x \in Puts, x.from = r, TaskOf(x) = task PROVE FALSE OBVIOUS
  <2>1. x.kind = "sums" /\ NodeOf(x.to) = NodeOf(r) BY TaskTags, PutFacts DEF Kinds
  <2> QED BY <2>1, PutFacts
<1>2. \A w, i : task # <<"send", w, i>> OBVIOUS
<1> QED BY <1>1, <1>2 DEF NewOps

SendOpsOf(r, w, i) ==
    LET n      == (NodeOf(r) + NodeOffset(i)) % Exchange.nodes
        q      == RailOf(r, n)
        task   == <<"send", w, i>>
        blocks == {b \in BlocksTo(r, n) : SplitOf(r, b * Exchange.block) = Split(i)}
        own    == {b \in blocks : Offset(b, blocks) % Exchange.senders = w}
        rows   == {<<"in", NodeOf(r), t>> : t \in {u \in Wanted(r, n) : BlockOf(u) \in own}}
    IN  PutOp(task, q, {<<p, p>> : p \in rows}) \cup SignalOp(task, q, Split(i), NodeOf(r))

\* What SendSplit adds to the wire.
LEMMA SendOps ==
    ASSUME Sound(Exchange), NEW r \in World, NEW w \in Senders, NEW i \in Steps("send"),
           In(r, "dispatch")
    PROVE  NewOps(r, <<"send", w, i>>, SendOpsOf(r, w, i))
<1> DEFINE n      == (NodeOf(r) + NodeOffset(i)) % Exchange.nodes
           q      == RailOf(r, n)
           task   == <<"send", w, i>>
           blocks == {b \in BlocksTo(r, n) : SplitOf(r, b * Exchange.block) = Split(i)}
           own    == {b \in blocks : Offset(b, blocks) % Exchange.senders = w}
           rows   == {<<"in", NodeOf(r), t>> : t \in {u \in Wanted(r, n) : BlockOf(u) \in own}}
           y(t) == [kind |-> "send", from |-> r, to |-> q, of |-> r, item |-> t]
           puts == PutOp(task, q, {<<p, p>> : p \in rows})
<1>n. n = (NodeOf(r) + NodeOffset(i)) % Exchange.nodes OBVIOUS
<1>q. q = RailOf(r, n) OBVIOUS
<1>b. blocks = {b \in BlocksTo(r, n) : SplitOf(r, b * Exchange.block) = Split(i)} OBVIOUS
<1>o. own = {b \in blocks : Offset(b, blocks) % Exchange.senders = w} OBVIOUS
<1>r. rows = {<<"in", NodeOf(r), t>> : t \in {u \in Wanted(r, n) : BlockOf(u) \in own}} OBVIOUS
<1> HIDE DEF n, q, blocks, own, rows
<1> USE <1>n, <1>q, <1>b, <1>o, <1>r
<1>0. Numbers BY SoundFacts
<1>1. NodeOf(r) \in Nodes /\ n \in Nodes /\ n # NodeOf(r) /\ Split(i) \in Splits
      /\ StepOf(NodeOf(r), n, Split(i)) = i
  <2>1. i \in Steps("dispatch") BY <1>0 DEF Steps, Numbers
  <2> QED BY <1>0, <2>1, RankFacts, StepDecodes
<1>2. q \in World /\ NodeOf(q) = n BY <1>0, <1>1, RailFacts
<1>3. blocks = SendBlocks(r, n, Split(i)) BY DEF SendBlocks
<1>4. \A t \in Wanted(r, n) : t \in Nat /\ SplitOf(r, BlockOf(t) * Exchange.block) = SplitOf(r, t)
                              /\ BlockOf(t) \in BlocksTo(r, n) /\ SplitOf(r, t) \in Splits
  <2> TAKE t \in Wanted(r, n)
  <2>1. t \in Tokens(r) BY DEF Wanted
  <2> QED BY <2>1, TokenFacts, SplitFacts DEF BlocksTo
<1>5. ASSUME NEW t \in Wanted(r, n), BlockOf(t) \in own
      PROVE  /\ y(t) \in Puts /\ TaskOf(y(t)) = task
             /\ Source(y(t)) = <<"in", NodeOf(r), t>> /\ Target(y(t)) = <<"in", NodeOf(r), t>>
  <2>1. y(t) \in Puts BY <1>1, <1>2, <1>4 DEF Puts, Kinds
  <2>2. BlockOf(t) \in blocks /\ Offset(BlockOf(t), blocks) % Exchange.senders = w BY <1>5
  <2>3. SplitOf(r, t) = Split(i) BY <2>2, <1>4
  <2>4. TaskOf(y(t)) = <<"send", Offset(BlockOf(t), SendBlocks(r, n, SplitOf(r, t))) % Exchange.senders,
                         StepOf(NodeOf(r), n, SplitOf(r, t))>>
    BY <1>2 DEF TaskOf
  <2>5. TaskOf(y(t)) = task BY <2>2, <2>3, <2>4, <1>1, <1>3
  <2> QED BY <2>1, <2>5, SourceTarget
<1>6. ASSUME NEW z \in Puts, z.kind = "send", z.from = r, z.to = q, TaskOf(z) = task
      PROVE  /\ z.item \in Wanted(r, n) /\ BlockOf(z.item) \in own
             /\ Source(z) = <<"in", NodeOf(r), z.item>> /\ Target(z) = <<"in", NodeOf(r), z.item>>
  <2> DEFINE t == z.item
             s == SplitOf(r, t)
  <2>1. t \in Wanted(r, n) BY <1>2, <1>6, PutFacts
  <2>2. TaskOf(z) = <<"send", Offset(BlockOf(t), SendBlocks(r, n, s)) % Exchange.senders,
                         StepOf(NodeOf(r), n, s)>>
    BY <1>2, <1>6 DEF TaskOf
  <2>3. Offset(BlockOf(t), SendBlocks(r, n, s)) % Exchange.senders = w /\ StepOf(NodeOf(r), n, s) = i
    BY <2>2, <1>6
  <2>4. s \in Splits BY <2>1, <1>4
  <2>5. Split(StepOf(NodeOf(r), n, s)) = s BY <1>0, <1>1, <2>4, StepFacts
  <2>6. s = Split(i) BY <2>3, <2>5
  <2>7. BlockOf(t) \in blocks BY <2>1, <2>6, <1>4
  <2> QED BY <2>1, <2>3, <2>6, <2>7, <1>3, <1>6, SourceTarget
<1>6a. \A t : y(t).kind = "send" /\ y(t).from = r /\ y(t).to = q OBVIOUS
<1> HIDE DEF y, task
<1>7. RowsFor("send", r, q, task) = {<<p, p>> : p \in rows}
  <2>1. ASSUME NEW row \in RowsFor("send", r, q, task) PROVE row \in {<<p, p>> : p \in rows}
    <3>1. PICK z \in Puts : z.kind = "send" /\ z.from = r /\ z.to = q /\ TaskOf(z) = task
            /\ row = <<Source(z), Target(z)>>
      BY <2>1 DEF RowsFor
    <3> QED BY <3>1, <1>6
  <2>2. ASSUME NEW p \in rows PROVE <<p, p>> \in RowsFor("send", r, q, task)
    <3>1. PICK t \in Wanted(r, n) : BlockOf(t) \in own /\ p = <<"in", NodeOf(r), t>> BY <2>2
    <3> QED BY <3>1, <1>5, <1>6a DEF RowsFor
  <2> QED BY <2>1, <2>2
<1>8. ArePuts(puts, "send", r, q, task) BY <1>7, PutOpFacts
<1>9. SignalOp(task, q, Split(i), NodeOf(r)) = {SignalOf(r, w, i)}
  BY DEF SignalOp, SignalOf, task
<1>10. Stages[stage[r]] = "dispatch" BY DEF In, Stages
<1>11. \A x \in Puts : x.from = r => (OpOf(x) \in puts \cup {SignalOf(r, w, i)}
                                        <=> Kernel(x) = "dispatch" /\ TaskOf(x) = task)
  <2> SUFFICES ASSUME NEW x \in Puts, x.from = r
               PROVE  OpOf(x) \in puts <=> Kernel(x) = "dispatch" /\ TaskOf(x) = task
    <3>1. \A x \in Puts : OpOf(x) # SignalOf(r, w, i) BY SignalFacts
    <3> HIDE DEF puts
    <3> QED BY <3>1
  <2>1. OpOf(x) \in puts => Kernel(x) = "dispatch" /\ TaskOf(x) = task
    BY <1>8, TaskTags DEF ArePuts
  <2>2. ASSUME Kernel(x) = "dispatch", TaskOf(x) = task PROVE OpOf(x) \in puts
    <3>1. x.kind = "send" BY <2>2, TaskTags DEF task
    <3>2. x.to = q
      <4>1. \E v \in Senders, j \in Steps("send") :
                TaskOf(x) = <<"send", v, j>> /\ SignalOf(x.from, v, j).to = x.to
        BY <3>1, TaskFacts
      <4>2. SignalOf(r, w, i).to = x.to BY <4>1, <2>2 DEF task
      <4> QED BY <4>2 DEF SignalOf
    <3> QED BY <3>1, <3>2, <2>2, <1>8 DEF ArePuts
  <2> QED BY <2>1, <2>2
<1>12. \A v, j : SignalOf(r, v, j) \in puts \cup {SignalOf(r, w, i)} <=> task = <<"send", v, j>>
  <2> TAKE v, j
  <2>1. SignalOf(r, v, j) \notin puts BY <1>8, NoSignal
  <2>2. SignalOf(r, v, j) = SignalOf(r, w, i) <=> v = w /\ j = i BY SignalFacts
  <2> QED BY <2>1, <2>2 DEF task
<1>13. \A op \in puts \cup {SignalOf(r, w, i)} :
            \/ \E x \in Puts : x.from = r /\ op = OpOf(x)
            \/ \E v \in Senders, j \in Steps("send") : op = SignalOf(r, v, j)
  BY <1>8 DEF ArePuts
<1> HIDE DEF puts
<1>14. NewOps(r, task, puts \cup {SignalOf(r, w, i)}) BY <1>10, <1>11, <1>12, <1>13 DEF NewOps
<1>15. NewOps(r, task, puts \cup SignalOp(task, q, Split(i), NodeOf(r))) BY <1>9, <1>14
<1> QED BY <1>15 DEF task, puts, n, q, blocks, own, rows, SendOpsOf

DispatchOpsOf(r, w, i) ==
    LET n      == (NodeOf(r) + Exchange.nodes - NodeOffset(i)) % Exchange.nodes
        q      == RailOf(r, n)
        task   == <<"dispatch", w, i>>
        tokens == {t \in Wanted(q, NodeOf(r)) : SplitOf(q, t) = Split(i)}
        own    == {t \in tokens : Offset(t, tokens) % Exchange.dispatchers = w}
    IN  UNION {PutOp(task, p,
                     {<<<<"in", n, t>>, <<"out", q, t>>>> : t \in {u \in own : p \in Experts(q, u)}})
               : p \in NodeRanks(NodeOf(r))}

\* What DispatchSplit adds to the wire.
LEMMA DispatchOps ==
    ASSUME Sound(Exchange), NEW r \in World, NEW w \in Dispatchers, NEW i \in Steps("dispatch"),
           In(r, "dispatch")
    PROVE  NewOps(r, <<"dispatch", w, i>>, DispatchOpsOf(r, w, i))
<1> DEFINE n      == (NodeOf(r) + Exchange.nodes - NodeOffset(i)) % Exchange.nodes
           q      == RailOf(r, n)
           task   == <<"dispatch", w, i>>
           tokens == {t \in Wanted(q, NodeOf(r)) : SplitOf(q, t) = Split(i)}
           own    == {t \in tokens : Offset(t, tokens) % Exchange.dispatchers = w}
           y(p, t) == [kind |-> "rows", from |-> r, to |-> p, of |-> q, item |-> t]
           To(p) == {<<<<"in", n, t>>, <<"out", q, t>>>> : t \in {u \in own : p \in Experts(q, u)}}
           ops == UNION {PutOp(task, p, To(p)) : p \in NodeRanks(NodeOf(r))}
<1>n. n = (NodeOf(r) + Exchange.nodes - NodeOffset(i)) % Exchange.nodes OBVIOUS
<1>q. q = RailOf(r, n) OBVIOUS
<1>s. tokens = {t \in Wanted(q, NodeOf(r)) : SplitOf(q, t) = Split(i)} OBVIOUS
<1>o. own = {t \in tokens : Offset(t, tokens) % Exchange.dispatchers = w} OBVIOUS
<1> HIDE DEF n, q, tokens, own
<1> USE <1>n, <1>q, <1>s, <1>o
<1>0. Numbers BY SoundFacts
<1>1. NodeOf(r) \in Nodes /\ n \in Nodes /\ Split(i) \in Splits
      /\ StepOf(n, NodeOf(r), Split(i)) = i
  BY <1>0, RankFacts, StepDecodes
<1>2. q \in World /\ NodeOf(q) = n /\ r = RailOf(q, NodeOf(r))
  <2>1. q \in World /\ NodeOf(q) = n BY <1>0, <1>1, RailFacts
  <2>2. RailOf(RailOf(r, n), NodeOf(r)) = RailOf(r, NodeOf(r)) /\ RailOf(r, NodeOf(r)) = r
    BY <1>0, <1>1, RailRail
  <2> QED BY <2>1, <2>2
<1>3. tokens = SplitTokens(q, NodeOf(r), Split(i)) BY DEF SplitTokens
<1>4. \A t \in Wanted(q, NodeOf(r)) : t \in Tokens(q) /\ t \in Nat /\ SplitOf(q, t) \in Splits
  <2> TAKE t \in Wanted(q, NodeOf(r))
  <2>1. t \in Tokens(q) BY DEF Wanted
  <2> QED BY <2>1, <1>2, TokenFacts, SplitFacts
<1>5. ASSUME NEW p \in NodeRanks(NodeOf(r)), NEW t \in own, p \in Experts(q, t)
      PROVE  /\ y(p, t) \in Puts /\ TaskOf(y(p, t)) = task
             /\ Source(y(p, t)) = <<"in", n, t>> /\ Target(y(p, t)) = <<"out", q, t>>
  <2>1. p \in World /\ NodeOf(p) = NodeOf(r) BY DEF NodeRanks
  <2>2. t \in tokens /\ Offset(t, tokens) % Exchange.dispatchers = w BY <1>5
  <2>3. t \in Wanted(q, NodeOf(r)) /\ SplitOf(q, t) = Split(i) BY <2>2
  <2>4. p \in Hits(q, t, NodeOf(r)) BY <1>5 DEF Hits
  <2>5. y(p, t) \in Puts BY <1>2, <1>4, <2>1, <2>3, <2>4 DEF Puts, Kinds
  <2>6. TaskOf(y(p, t)) = <<"dispatch",
              Offset(t, SplitTokens(q, NodeOf(r), SplitOf(q, t))) % Exchange.dispatchers,
              StepOf(NodeOf(q), NodeOf(r), SplitOf(q, t))>>
    BY DEF TaskOf
  <2>7. TaskOf(y(p, t)) = task BY <2>2, <2>3, <2>6, <1>1, <1>2, <1>3
  <2>8. Source(y(p, t)) = <<"in", n, t>> /\ Target(y(p, t)) = <<"out", q, t>>
    BY <1>2, SourceTarget
  <2> QED BY <2>5, <2>7, <2>8
<1>6. ASSUME NEW z \in Puts, z.kind = "rows", z.from = r, TaskOf(z) = task
      PROVE  /\ z.of = q /\ z.item \in own /\ z.to \in Experts(q, z.item)
             /\ z.to \in NodeRanks(NodeOf(r))
             /\ Source(z) = <<"in", n, z.item>> /\ Target(z) = <<"out", q, z.item>>
  <2> DEFINE t == z.item
             s == SplitOf(z.of, t)
  <2>1. /\ z.of \in World /\ r = RailOf(z.of, NodeOf(r)) /\ t \in Tokens(z.of)
        /\ z.to \in Hits(z.of, t, NodeOf(r))
    BY <1>6, PutFacts
  <2>2. s \in Splits /\ NodeOf(z.of) \in Nodes BY <2>1, <1>0, SplitFacts, RankFacts
  <2>3. TaskOf(z) = <<"dispatch",
              Offset(t, SplitTokens(z.of, NodeOf(r), s)) % Exchange.dispatchers,
              StepOf(NodeOf(z.of), NodeOf(r), s)>>
    BY <1>6 DEF TaskOf
  <2>4. Offset(t, SplitTokens(z.of, NodeOf(r), s)) % Exchange.dispatchers = w
        /\ StepOf(NodeOf(z.of), NodeOf(r), s) = i
    BY <2>3, <1>6
  <2>5. Split(i) = s /\ (NodeOf(r) + Exchange.nodes - NodeOffset(i)) % Exchange.nodes = NodeOf(z.of)
    <3> DEFINE j == StepOf(NodeOf(z.of), NodeOf(r), s)
    <3>1. Split(j) = s /\ (NodeOf(r) + Exchange.nodes - NodeOffset(j)) % Exchange.nodes = NodeOf(z.of)
      BY <1>0, <1>1, <2>2, StepFacts
    <3> QED BY <3>1, <2>4
  <2>6. z.of = q
    <3>1. RailOf(RailOf(z.of, NodeOf(r)), NodeOf(z.of)) = RailOf(z.of, NodeOf(z.of))
          /\ RailOf(z.of, NodeOf(z.of)) = z.of
      BY <1>0, <1>1, <2>1, <2>2, RailRail
    <3>2. n = NodeOf(z.of) BY <2>5
    <3> QED BY <3>1, <3>2, <2>1
  <2>7. t \in Wanted(q, NodeOf(r)) /\ z.to \in Experts(q, t) /\ z.to \in NodeRanks(NodeOf(r))
    BY <2>1, <2>6 DEF Wanted, Hits
  <2>8. t \in tokens BY <2>5, <2>6, <2>7
  <2>9. t \in own BY <2>4, <2>5, <2>6, <2>8, <1>3
  <2> QED BY <2>6, <2>7, <2>9, <1>2, <1>6, SourceTarget
<1>6a. \A p, t : y(p, t).kind = "rows" /\ y(p, t).from = r /\ y(p, t).to = p OBVIOUS
<1> HIDE DEF y, task
<1>7. ASSUME NEW p \in NodeRanks(NodeOf(r)) PROVE RowsFor("rows", r, p, task) = To(p)
  <2>1. ASSUME NEW row \in RowsFor("rows", r, p, task) PROVE row \in To(p)
    <3>1. PICK z \in Puts : z.kind = "rows" /\ z.from = r /\ z.to = p /\ TaskOf(z) = task
            /\ row = <<Source(z), Target(z)>>
      BY <2>1 DEF RowsFor
    <3> QED BY <3>1, <1>6
  <2>2. ASSUME NEW row \in To(p) PROVE row \in RowsFor("rows", r, p, task)
    <3>1. PICK t \in own : p \in Experts(q, t) /\ row = <<<<"in", n, t>>, <<"out", q, t>>>>
      BY <2>2
    <3> QED BY <3>1, <1>5, <1>6a DEF RowsFor
  <2> HIDE DEF To
  <2> QED BY <2>1, <2>2
<1> HIDE DEF To
<1>8. \A p \in NodeRanks(NodeOf(r)) : ArePuts(PutOp(task, p, To(p)), "rows", r, p, task)
  BY <1>7, PutOpFacts
<1>9. \A op : op \in ops <=> \E p \in NodeRanks(NodeOf(r)) : op \in PutOp(task, p, To(p)) OBVIOUS
<1> HIDE DEF ops
<1>10. Stages[stage[r]] = "dispatch" BY DEF In, Stages
<1>11. \A x \in Puts : x.from = r => (OpOf(x) \in ops <=> Kernel(x) = "dispatch" /\ TaskOf(x) = task)
  <2> SUFFICES ASSUME NEW x \in Puts, x.from = r
               PROVE  OpOf(x) \in ops <=> Kernel(x) = "dispatch" /\ TaskOf(x) = task
    OBVIOUS
  <2>1. OpOf(x) \in ops => Kernel(x) = "dispatch" /\ TaskOf(x) = task
    BY <1>8, <1>9, TaskTags DEF ArePuts
  <2>2. ASSUME Kernel(x) = "dispatch", TaskOf(x) = task PROVE OpOf(x) \in ops
    <3>1. x.kind = "rows" BY <2>2, TaskTags DEF task
    <3>2. x.to \in NodeRanks(NodeOf(r)) BY <3>1, <2>2, <1>6
    <3>3. OpOf(x) \in PutOp(task, x.to, To(x.to)) BY <3>1, <3>2, <2>2, <1>8 DEF ArePuts
    <3> QED BY <3>2, <3>3, <1>9
  <2> QED BY <2>1, <2>2
<1>12. \A v, j : SignalOf(r, v, j) \notin ops BY <1>8, <1>9, NoSignal
<1>13. \A v, j : task # <<"send", v, j>> BY DEF task
<1>14. \A op \in ops : \E x \in Puts : x.from = r /\ op = OpOf(x) BY <1>8, <1>9 DEF ArePuts
<1>15. NewOps(r, task, ops) BY <1>10, <1>11, <1>12, <1>13, <1>14 DEF NewOps
<1> QED BY <1>15 DEF task, ops, To, n, q, tokens, own, DispatchOpsOf

SumOpsOf(r, n, b) ==
    LET q      == RailOf(r, n)
        places == {<<"red", n, SumRow(q, NodeOf(r), t)>> :
                        t \in {u \in Wanted(q, NodeOf(r)) : BlockOf(u) = b}}
    IN  PutOp(<<"sums", n, b>>, q, {<<p, <<"sum", NodeOf(r), p[3]>>>> : p \in places})

\* What CombineBlock adds to the wire for another node.
LEMMA SumOps ==
    ASSUME Sound(Exchange), NEW r \in World, NEW n \in Nodes, n # NodeOf(r), In(r, "combine"),
           NEW b
    PROVE  NewOps(r, <<"sums", n, b>>, SumOpsOf(r, n, b))
<1> DEFINE q == RailOf(r, n)
           places == {<<"red", n, SumRow(q, NodeOf(r), t)>> :
                        t \in {u \in Wanted(q, NodeOf(r)) : BlockOf(u) = b}}
           task == <<"sums", n, b>>
           y(t) == [kind |-> "sums", from |-> r, to |-> q, of |-> q, item |-> t]
           rows == {<<p, <<"sum", NodeOf(r), p[3]>>>> : p \in places}
           ops == PutOp(task, q, rows)
<1>q. q = RailOf(r, n) OBVIOUS
<1>p. places = {<<"red", n, SumRow(q, NodeOf(r), t)>> :
                        t \in {u \in Wanted(q, NodeOf(r)) : BlockOf(u) = b}} OBVIOUS
<1> HIDE DEF q, places
<1> USE <1>q, <1>p
<1>0. Numbers BY SoundFacts
<1>1. NodeOf(r) \in Nodes BY <1>0, RankFacts
<1>2. q \in World /\ NodeOf(q) = n /\ r = RailOf(q, NodeOf(r))
  <2>1. q \in World /\ NodeOf(q) = n BY <1>0, <1>1, RailFacts
  <2>2. RailOf(RailOf(r, n), NodeOf(r)) = RailOf(r, NodeOf(r)) /\ RailOf(r, NodeOf(r)) = r
    BY <1>0, <1>1, RailRail
  <2> QED BY <2>1, <2>2
<1>4. \A t \in Wanted(q, NodeOf(r)) : t \in Nat
  <2> TAKE t \in Wanted(q, NodeOf(r))
  <2>1. t \in Tokens(q) BY DEF Wanted
  <2> QED BY <2>1, <1>2, TokenFacts
<1>5. ASSUME NEW t \in Wanted(q, NodeOf(r)), BlockOf(t) = b
      PROVE  /\ y(t) \in Puts /\ TaskOf(y(t)) = task
             /\ Source(y(t)) = <<"red", n, SumRow(q, NodeOf(r), t)>>
             /\ Target(y(t)) = <<"sum", NodeOf(r), SumRow(q, NodeOf(r), t)>>
  <2>1. y(t) \in Puts BY <1>2, <1>4 DEF Puts, Kinds
  <2>2. TaskOf(y(t)) = <<"sums", NodeOf(y(t).to), BlockOf(y(t).item)>> BY <2>1, TaskFacts
  <2>3. TaskOf(y(t)) = task BY <2>2, <1>2, <1>5
  <2>4. /\ Source(y(t)) = <<"red", n, SumRow(q, NodeOf(r), t)>>
        /\ Target(y(t)) = <<"sum", NodeOf(r), SumRow(q, NodeOf(r), t)>>
    BY <1>2, SourceTarget
  <2> QED BY <2>1, <2>3, <2>4
<1>6. ASSUME NEW z \in Puts, z.kind = "sums", z.from = r, TaskOf(z) = task
      PROVE  /\ z.to = q /\ z.item \in Wanted(q, NodeOf(r)) /\ BlockOf(z.item) = b
             /\ Source(z) = <<"red", n, SumRow(q, NodeOf(r), z.item)>>
             /\ Target(z) = <<"sum", NodeOf(r), SumRow(q, NodeOf(r), z.item)>>
  <2>1. z.to \in World /\ r = RailOf(z.to, NodeOf(r)) /\ z.item \in Wanted(z.to, NodeOf(r))
    BY <1>6, PutFacts
  <2>2. NodeOf(z.to) = n /\ BlockOf(z.item) = b BY <1>6, TaskTags
  <2>3. z.to = q
    <3>1. RailOf(RailOf(z.to, NodeOf(r)), n) = RailOf(z.to, n) /\ RailOf(z.to, NodeOf(z.to)) = z.to
      BY <1>0, <1>1, <2>1, RailRail
    <3> QED BY <3>1, <2>1, <2>2
  <2> QED BY <2>1, <2>2, <2>3, <1>6, SourceTarget
<1>6a. \A t : y(t).kind = "sums" /\ y(t).from = r /\ y(t).to = q OBVIOUS
<1> HIDE DEF y, task
<1>7. RowsFor("sums", r, q, task) = rows
  <2>1. ASSUME NEW row \in RowsFor("sums", r, q, task) PROVE row \in rows
    <3>1. PICK z \in Puts : z.kind = "sums" /\ z.from = r /\ z.to = q /\ TaskOf(z) = task
            /\ row = <<Source(z), Target(z)>>
      BY <2>1 DEF RowsFor
    <3>2. Source(z) \in places /\ Source(z)[3] = SumRow(q, NodeOf(r), z.item) BY <3>1, <1>6
    <3> QED BY <3>1, <3>2, <1>6
  <2>2. ASSUME NEW row \in rows PROVE row \in RowsFor("sums", r, q, task)
    <3>1. PICK p \in places : row = <<p, <<"sum", NodeOf(r), p[3]>>>> BY <2>2
    <3>2. PICK t \in Wanted(q, NodeOf(r)) : BlockOf(t) = b /\ p = <<"red", n, SumRow(q, NodeOf(r), t)>>
      OBVIOUS
    <3>3. row = <<Source(y(t)), Target(y(t))>> BY <3>1, <3>2, <1>5
    <3> QED BY <3>2, <3>3, <1>5, <1>6a DEF RowsFor
  <2> HIDE DEF rows
  <2> QED BY <2>1, <2>2
<1>8. ArePuts(ops, "sums", r, q, task) BY <1>7, PutOpFacts
<1> HIDE DEF ops
<1>10. Stages[stage[r]] = "combine" BY DEF In, Stages
<1>11. \A x \in Puts : x.from = r => (OpOf(x) \in ops <=> Kernel(x) = "combine" /\ TaskOf(x) = task)
  <2> SUFFICES ASSUME NEW x \in Puts, x.from = r
               PROVE  OpOf(x) \in ops <=> Kernel(x) = "combine" /\ TaskOf(x) = task
    OBVIOUS
  <2>1. OpOf(x) \in ops => Kernel(x) = "combine" /\ TaskOf(x) = task
    BY <1>8, TaskTags DEF ArePuts
  <2>2. ASSUME Kernel(x) = "combine", TaskOf(x) = task PROVE OpOf(x) \in ops
    <3>1. x.kind = "sums" BY <2>2, TaskTags
    <3> QED BY <3>1, <2>2, <1>6, <1>8 DEF ArePuts
  <2> QED BY <2>1, <2>2
<1>12. \A v, j : SignalOf(r, v, j) \notin ops BY <1>8, NoSignal
<1>13. \A v, j : task # <<"send", v, j>> BY DEF task
<1>14. \A op \in ops : \E x \in Puts : x.from = r /\ op = OpOf(x) BY <1>8 DEF ArePuts
<1>15. NewOps(r, task, ops) BY <1>10, <1>11, <1>12, <1>13, <1>14 DEF NewOps
<1> QED BY <1>15 DEF task, ops, q, places, rows, SumOpsOf

-----------------------------------------------------------------------------
(* What a step writes. *)

\* The places in the domain of f are written at q.
Updated(q, f) ==
    /\ mem' = [p \in World |-> mem'[p]]
    /\ \A p \in World : \A x : Held(p, x)' = IF p = q /\ x \in DOMAIN f THEN f[x] ELSE Held(p, x)

Stored(q, f) ==
    mem' = [mem EXCEPT ![q] = [x \in DOMAIN f \cup DOMAIN mem[q] |->
                                   IF x \in DOMAIN f THEN f[x] ELSE mem[q][x]]]

\* A write changes the places it names, of one rank.
LEMMA HeldWrite ==
    ASSUME Shapes, NEW q \in World, NEW f, Stored(q, f)
    PROVE  Updated(q, f)
<1>1. mem = [p \in World |-> mem[p]] BY DEF Shapes
<1> DEFINE g == [x \in DOMAIN f \cup DOMAIN mem[q] |->
                                   IF x \in DOMAIN f THEN f[x] ELSE mem[q][x]]
<1>2. mem' = [p \in World |-> IF p = q THEN g ELSE mem[p]]
  BY <1>1 DEF Stored
<1>3. mem'[q] = g /\ \A p \in World : p # q => mem'[p] = mem[p]
  <2> HIDE DEF g
  <2> QED BY <1>2
<1>4. \A p \in World : \A x : Held(p, x)' = IF p = q /\ x \in DOMAIN f THEN f[x] ELSE Held(p, x)
  <2> TAKE p \in World
  <2> TAKE x
  <2>1. CASE p # q
    <3>1. mem'[p] = mem[p] BY <2>1, <1>3
    <3> QED BY <3>1, <2>1 DEF Held
  <2>2. CASE p = q
    <3>1. /\ DOMAIN mem'[p] = DOMAIN f \cup DOMAIN mem[q]
          /\ \A y \in DOMAIN f \cup DOMAIN mem[q] :
                mem'[p][y] = IF y \in DOMAIN f THEN f[y] ELSE mem[q][y]
      BY <2>2, <1>3
    <3>2. CASE x \in DOMAIN f
      <4>1. x \in DOMAIN mem'[p] /\ mem'[p][x] = f[x] BY <3>1, <3>2
      <4> QED BY <4>1, <3>2, <2>2 DEF Held
    <3>3. CASE x \notin DOMAIN f
      <4>1. x \in DOMAIN mem'[p] <=> x \in DOMAIN mem[q] BY <3>1, <3>3
      <4>2. x \in DOMAIN mem[q] => mem'[p][x] = mem[q][x] BY <3>1, <3>3
      <4> QED BY <4>1, <4>2, <3>3, <2>2 DEF Held
    <3> QED BY <3>2, <3>3
  <2> QED BY <2>1, <2>2
<1>5. mem' = [p \in World |-> mem'[p]] BY <1>2
<1> QED BY <1>4, <1>5 DEF Updated

\* r does a task of its kernel.
Does(r, task) ==
    /\ forward[r] < Exchange.forwards /\ Stages[stage[r]] \in Kernels
    /\ task \in Tasks(r) /\ task \notin did[r]
    /\ did' = [did EXCEPT ![r] = @ \cup {task}]
    /\ \E ops : wire' = [wire EXCEPT ![r] = @ \cup ops] /\ NewOps(r, task, ops)
    /\ UNCHANGED <<exchange, forward, stage, waiting, met, seen, bad>>

Sends(r) ==
    \E w \in Senders, i \in Steps("send") :
        In(r, "dispatch") /\ Does(r, <<"send", w, i>>) /\ mem' = mem

Dispatches(r) ==
    \E w \in Dispatchers, i \in Steps("dispatch") :
        /\ In(r, "dispatch") /\ Does(r, <<"dispatch", w, i>>) /\ mem' = mem
        /\ LET n == (NodeOf(r) + Exchange.nodes - NodeOffset(i)) % Exchange.nodes
           IN  n = NodeOf(r) \/ AllSignalled(r, Split(i), n)

PutsSegment(r) ==
    \E q \in World : In(r, "exchange") /\ Does(r, <<"put", q>>) /\ mem' = mem

PutsIndices(r) ==
    \E q \in World \ {r} :
        /\ In(r, "indices") /\ Does(r, <<"put", q>>) /\ mem' = mem
        /\ \A c \in Copiers : <<"copy", c>> \in did[r]

CopiesIndex(r) ==
    \E c \in Copiers :
        /\ In(r, "indices") /\ Does(r, <<"copy", c>>)
        /\ Updated(r, [p \in {<<"index", r, c>>} |-> <<forward[r] + 1, r, c>>])

SumTokens(r, n, b) == {t \in Wanted(RailOf(r, n), NodeOf(r)) : BlockOf(t) = b}
SumPlace(r, n, t) ==
    <<IF n = NodeOf(r) THEN "sum" ELSE "red", n, SumRow(RailOf(r, n), NodeOf(r), t)>>

WritesSums(r, n, b, f) ==
    /\ Updated(r, f)
    /\ DOMAIN f = {SumPlace(r, n, t) : t \in SumTokens(r, n, b)}
    /\ \A t \in SumTokens(r, n, b) : f[SumPlace(r, n, t)] = Sum(RailOf(r, n), t, NodeOf(r))

SumsBlock(r) ==
    \E n \in Nodes : \E b \in BlocksTo(RailOf(r, n), NodeOf(r)) :
        /\ In(r, "combine") /\ Exchange.nodes > 1 /\ Does(r, <<"sums", n, b>>)
        /\ \E f : WritesSums(r, n, b, f)

SumsToken(r) ==
    \E q \in World : \E t \in Tokens(q) :
        /\ In(r, "combine") /\ Exchange.nodes = 1 /\ r \in Experts(q, t)
        /\ Does(r, <<"sum", q, t>>)
        /\ Updated(q, [p \in {<<"sum", r, t>>} |-> Held(r, <<"act", q, t>>)])

\* A task with its operations, in the terms of the proof.
LEMMA DoesTask ==
    ASSUME NEW r \in World, NEW task, NEW ops, NewOps(r, task, ops), Task(r, task, ops),
           forward[r] < Exchange.forwards, Stages[stage[r]] \in Kernels,
           task \in Tasks(r), task \notin did[r]
    PROVE  Does(r, task)
  BY DEF Does, Task

\* SendSplit in the terms of the proof.
LEMMA SendEffect ==
    ASSUME Sound(Exchange), NEW r \in World, NEW w \in Senders, SendSplit(r, w)
    PROVE  Sends(r)
<1>1. PICK i \in Steps("send") : SendSplit(r, w)!(i) BY DEF SendSplit, MaySend
<1> DEFINE n      == (NodeOf(r) + NodeOffset(i)) % Exchange.nodes
           q      == RailOf(r, n)
           task   == <<"send", w, i>>
           blocks == {b \in BlocksTo(r, n) : SplitOf(r, b * Exchange.block) = Split(i)}
           own    == {b \in blocks : Offset(b, blocks) % Exchange.senders = w}
           rows   == {<<"in", NodeOf(r), t>> : t \in {u \in Wanted(r, n) : BlockOf(u) \in own}}
           ops    == PutOp(task, q, {<<p, p>> : p \in rows}) \cup SignalOp(task, q, Split(i), NodeOf(r))
<1>2. In(r, "dispatch") /\ Follows(r, "send", w, i) /\ Task(r, task, ops) /\ mem' = mem
  BY <1>1 DEF MaySend
<1>3. NewOps(r, task, ops)
  <2>1. ops = SendOpsOf(r, w, i) BY DEF SendOpsOf
  <2> HIDE DEF ops
  <2> QED BY <2>1, <1>2, SendOps
<1>4. task \in Tasks(r) BY <1>2, TasksOf
<1>5. task \notin did[r] BY <1>2 DEF Follows
<1>6. forward[r] < Exchange.forwards /\ Stages[stage[r]] \in Kernels
  BY <1>2 DEF In, Stages, Kernels
<1> HIDE DEF ops
<1>7. Does(r, task) BY <1>2, <1>3, <1>4, <1>5, <1>6, DoesTask
<1> QED BY <1>2, <1>7 DEF Sends

\* DispatchSplit in the terms of the proof.
LEMMA DispatchEffect ==
    ASSUME Sound(Exchange), NEW r \in World, NEW w \in Dispatchers, DispatchSplit(r, w)
    PROVE  Dispatches(r)
<1>1. PICK i \in Steps("dispatch") : DispatchSplit(r, w)!(i) BY DEF DispatchSplit, MayDispatch, NodeFrom
<1> DEFINE n      == (NodeOf(r) + Exchange.nodes - NodeOffset(i)) % Exchange.nodes
           q      == RailOf(r, n)
           task   == <<"dispatch", w, i>>
           tokens == {t \in Wanted(q, NodeOf(r)) : SplitOf(q, t) = Split(i)}
           own    == {t \in tokens : Offset(t, tokens) % Exchange.dispatchers = w}
           ops    == UNION {PutOp(task, p,
                            {<<<<"in", n, t>>, <<"out", q, t>>>> : t \in {u \in own : p \in Experts(q, u)}})
                         : p \in NodeRanks(NodeOf(r))}
<1>2. /\ In(r, "dispatch") /\ Follows(r, "dispatch", w, i) /\ Task(r, task, ops) /\ mem' = mem
      /\ n = NodeOf(r) \/ AllSignalled(r, Split(i), n)
  BY <1>1 DEF MayDispatch, NodeFrom
<1>3. NewOps(r, task, ops)
  <2>1. ops = DispatchOpsOf(r, w, i) BY DEF DispatchOpsOf
  <2> HIDE DEF ops
  <2> QED BY <2>1, <1>2, DispatchOps
<1>4. task \in Tasks(r) BY <1>2, TasksOf
<1>5. task \notin did[r] BY <1>2 DEF Follows
<1>6. forward[r] < Exchange.forwards /\ Stages[stage[r]] \in Kernels
  BY <1>2 DEF In, Stages, Kernels
<1> HIDE DEF ops
<1>7. Does(r, task) BY <1>2, <1>3, <1>4, <1>5, <1>6, DoesTask
<1> QED BY <1>2, <1>7 DEF Dispatches

\* PutSegment in the terms of the proof.
LEMMA SegmentEffect ==
    ASSUME Sound(Exchange), NEW r \in World, PutSegment(r)
    PROVE  PutsSegment(r)
<1>1. PICK q \in World : PutSegment(r)!(q) BY DEF PutSegment, Undone
<1> DEFINE task == <<"put", q>>
           ops  == PutOp(task, q, {<<<<"segment", q>>, <<"got", r>>>>})
<1>2. In(r, "exchange") /\ task \notin did[r] /\ Task(r, task, ops) /\ mem' = mem BY <1>1 DEF Undone
<1>3. NewOps(r, task, ops) BY <1>2, SegmentOps
<1>4. task \in Tasks(r) BY <1>2, TasksOf
<1>6. forward[r] < Exchange.forwards /\ Stages[stage[r]] \in Kernels
  BY <1>2 DEF In, Stages, Kernels
<1> HIDE DEF ops
<1>7. Does(r, task) BY <1>2, <1>3, <1>4, <1>6, DoesTask
<1> QED BY <1>2, <1>7 DEF PutsSegment

\* PutIndices in the terms of the proof.
LEMMA IndexEffect ==
    ASSUME Sound(Exchange), NEW r \in World, PutIndices(r)
    PROVE  PutsIndices(r)
<1>1. PICK q \in World \ {r} : PutIndices(r)!(q) BY DEF PutIndices, MayPutIndices, Undone
<1> DEFINE task == <<"put", q>>
           ops  == PutOp(task, q, {<<<<"index", r, c>>, <<"index", r, c>>>> : c \in Copiers})
<1>2. /\ In(r, "indices") /\ task \notin did[r] /\ Task(r, task, ops) /\ mem' = mem
      /\ \A c \in Copiers : <<"copy", c>> \in did[r]
  BY <1>1 DEF MayPutIndices, Undone
<1>3. NewOps(r, task, ops) BY <1>2, IndexOps
<1>4. task \in Tasks(r) BY <1>2, TasksOf
<1>6. forward[r] < Exchange.forwards /\ Stages[stage[r]] \in Kernels
  BY <1>2 DEF In, Stages, Kernels
<1> HIDE DEF ops
<1>7. Does(r, task) BY <1>2, <1>3, <1>4, <1>6, DoesTask
<1> QED BY <1>2, <1>7 DEF PutsIndices

\* CopyIndices in the terms of the proof.
LEMMA CopyEffect ==
    ASSUME Sound(Exchange), Shapes, NEW r \in World, CopyIndices(r)
    PROVE  CopiesIndex(r)
<1>1. PICK c \in Copiers : CopyIndices(r)!(c) BY DEF CopyIndices, Undone
<1> DEFINE task == <<"copy", c>>
           f == [p \in {<<"index", r, c>>} |-> <<forward[r] + 1, r, c>>]
<1>2. In(r, "indices") /\ task \notin did[r] /\ Task(r, task, {}) BY <1>1 DEF Undone
<1>3. Stored(r, f) BY <1>1 DEF Write, Stored, Current
<1> HIDE DEF f
<1>4. NewOps(r, task, {}) BY NoOps
<1>5. task \in Tasks(r) BY <1>2, TasksOf
<1>6. forward[r] < Exchange.forwards /\ Stages[stage[r]] \in Kernels
  BY <1>2 DEF In, Stages, Kernels
<1>7. Does(r, task) BY <1>2, <1>4, <1>5, <1>6, DoesTask
<1>8. Updated(r, f) BY <1>3, HeldWrite
<1> QED BY <1>2, <1>7, <1>8 DEF CopiesIndex, f

\* CombineToken in the terms of the proof.
LEMMA SumTokenEffect ==
    ASSUME Sound(Exchange), Shapes, NEW r \in World, CombineToken(r)
    PROVE  SumsToken(r)
<1>1. PICK q \in World : \E t \in Tokens(q) : CombineToken(r)!(q)!(t) BY DEF CombineToken, Undone
<1>2. PICK t \in Tokens(q) : CombineToken(r)!(q)!(t) BY <1>1
<1> DEFINE task == <<"sum", q, t>>
           f == [p \in {<<"sum", r, t>>} |-> Held(r, <<"act", q, t>>)]
<1>3. In(r, "combine") /\ Exchange.nodes = 1 /\ r \in Experts(q, t)
      /\ task \notin did[r] /\ Task(r, task, {})
  BY <1>2 DEF Undone
<1>4. Stored(q, f) BY <1>2 DEF Write, Stored
<1> HIDE DEF f
<1>5. NewOps(r, task, {}) BY NoOps
<1>6. task \in Tasks(r)
  <2>1. <<q, t>> \in AllTokens BY DEF AllTokens
  <2> QED BY <2>1, <1>3, TasksOf
<1>7. forward[r] < Exchange.forwards /\ Stages[stage[r]] \in Kernels
  BY <1>3 DEF In, Stages, Kernels
<1>8. Does(r, task) BY <1>3, <1>5, <1>6, <1>7, DoesTask
<1>9. Updated(q, f) BY <1>4, HeldWrite
<1> QED BY <1>3, <1>8, <1>9 DEF SumsToken, f

\* The token of a row is the one it was made for.
LEMMA TokenOfRow ==
    ASSUME Sound(Exchange), NEW q \in World, NEW m \in Nodes, NEW t \in Wanted(q, m)
    PROVE  (CHOOSE u \in Wanted(q, m) : SumRow(q, m, u) = SumRow(q, m, t)) = t
<1> DEFINE u == CHOOSE u \in Wanted(q, m) : SumRow(q, m, u) = SumRow(q, m, t)
<1>1. u \in Wanted(q, m) /\ SumRow(q, m, u) = SumRow(q, m, t) OBVIOUS
<1> HIDE DEF u
<1>2. u = t BY <1>1, SumRowInjective
<1> QED BY <1>2 DEF u

\* CombineBlock in the terms of the proof.
LEMMA SumBlockEffect ==
    ASSUME Sound(Exchange), Shapes, NEW r \in World, CombineBlock(r)
    PROVE  SumsBlock(r)
<1>0. Numbers BY SoundFacts
<1>1. PICK n \in Nodes : \E b \in BlocksTo(RailOf(r, n), NodeOf(r)) : CombineBlock(r)!(n)!1!(b)
  BY DEF CombineBlock, Undone
<1>2. PICK b \in BlocksTo(RailOf(r, n), NodeOf(r)) : CombineBlock(r)!(n)!1!(b) BY <1>1
<1> DEFINE q == RailOf(r, n)
           local == NodeOf(r)
           task == <<"sums", n, b>>
           name == IF n = local THEN "sum" ELSE "red"
           TokenAt(row) == CHOOSE t \in Wanted(q, local) : SumRow(q, local, t) = row
           places == {<<name, n, SumRow(q, local, t)>> : t \in {u \in Wanted(q, local) : BlockOf(u) = b}}
           f == [p \in places |-> Sum(q, TokenAt(p[3]), local)]
<1>3. In(r, "combine") /\ Exchange.nodes > 1 /\ task \notin did[r] BY <1>2 DEF Undone
<1>4. local \in Nodes /\ q \in World BY <1>0, RankFacts, RailFacts
<1>5. Stored(r, f) /\ \E ops : Task(r, task, ops) /\ NewOps(r, task, ops)
  <2>1. CASE n = local
    <3>1. Stored(r, f) /\ Task(r, task, {}) BY <1>2, <2>1 DEF Write, Stored
    <3>2. NewOps(r, task, {}) BY <2>1, NoOps
    <3> QED BY <3>1, <3>2
  <2>2. CASE n # local
    <3>1. Stored(r, f) /\ Task(r, task, SumOpsOf(r, n, b))
      BY <1>2, <2>2 DEF Write, Stored, SumOpsOf
    <3>2. NewOps(r, task, SumOpsOf(r, n, b)) BY <1>3, <2>2, SumOps
    <3> QED BY <3>1, <3>2
  <2> QED BY <2>1, <2>2
<1>6. task \in Tasks(r) BY <1>2, <1>3, TasksOf
<1>7. forward[r] < Exchange.forwards /\ Stages[stage[r]] \in Kernels
  BY <1>3 DEF In, Stages, Kernels
<1>8. Does(r, task)
  <2>1. PICK ops : Task(r, task, ops) /\ NewOps(r, task, ops) BY <1>5
  <2> HIDE DEF task
  <2> QED BY <2>1, <1>3, <1>6, <1>7, DoesTask
<1>9. Updated(r, f)
  <2> HIDE DEF f
  <2> QED BY <1>5, HeldWrite
<1>10. DOMAIN f = {SumPlace(r, n, t) : t \in SumTokens(r, n, b)} BY DEF SumPlace, SumTokens
<1>11. ASSUME NEW t \in SumTokens(r, n, b)
       PROVE  f[SumPlace(r, n, t)] = Sum(q, t, local)
  <2>1. t \in Wanted(q, local) /\ SumPlace(r, n, t) \in places BY DEF SumPlace, SumTokens
  <2>2. SumPlace(r, n, t)[3] = SumRow(q, local, t) BY DEF SumPlace
  <2>3. TokenAt(SumRow(q, local, t)) = t BY <1>4, <2>1, TokenOfRow
  <2>4. f[SumPlace(r, n, t)] = Sum(q, TokenAt(SumPlace(r, n, t)[3]), local) BY <2>1
  <2> HIDE DEF f, TokenAt
  <2> QED BY <2>2, <2>3, <2>4
<1> HIDE DEF f
<1>12. WritesSums(r, n, b, f) BY <1>9, <1>10, <1>11 DEF WritesSums
<1> QED BY <1>2, <1>3, <1>8, <1>12 DEF SumsBlock

\* The stream of r goes on; three stages write, and one takes back the signals.
Copies(r) ==
    \E f : /\ Updated(r, f)
           /\ \/ /\ Stages[stage[r]] = "copy"
                 /\ DOMAIN f = {<<"in", NodeOf(r), t>> : t \in Tokens(r)}
                 /\ \A t \in Tokens(r) : f[<<"in", NodeOf(r), t>>] = <<forward[r] + 1, r, t>>
              \/ /\ Stages[stage[r]] = "segments"
                 /\ DOMAIN f = {<<"segment", q>> : q \in World}
                 /\ \A q \in World : f[<<"segment", q>>] = <<forward[r] + 1, r, q>>
              \/ /\ Stages[stage[r]] = "experts"
                 /\ DOMAIN f = {<<"act", x[1], x[2]>> : x \in {y \in AllTokens : r \in Experts(y[1], y[2])}}
                 /\ \A x \in AllTokens : r \in Experts(x[1], x[2]) =>
                        f[<<"act", x[1], x[2]>>] = <<forward[r] + 1, x[1], x[2]>>

GoesOn(r) ==
    /\ Advances(r)
    /\ \/ Stages[stage[r]] # "zero" /\ seen' = seen
       \/ /\ Stages[stage[r]] = "zero"
          /\ seen' = [seen EXCEPT ![r] = [s \in Splits |-> [n \in Nodes |-> 0]]]
    /\ \/ Stages[stage[r]] \notin {"copy", "segments", "experts"} /\ mem' = mem
       \/ Copies(r)

Stops(r) == Arrives(r) /\ UNCHANGED <<did, wire, seen, mem>>

DeliversPut(r) ==
    \E y \in Puts :
        /\ y.from = r /\ OpOf(y) \in wire[r]
        /\ wire' = [wire EXCEPT ![r] = @ \ {OpOf(y)}]
        /\ UNCHANGED <<forward, stage, waiting, did, met, seen>>
        /\ \E f : /\ Updated(y.to, f)
                  /\ DOMAIN f = {Target(x) : x \in {z \in Puts : Together(z, y)}}
                  /\ \A x \in Puts : Together(x, y) => f[Target(x)] = Held(r, Source(x))

DeliversSignal(r) ==
    \E w \in Senders, i \in Steps("send") :
        /\ SignalOf(r, w, i) \in wire[r] /\ Fenced(r, SignalOf(r, w, i))
        /\ wire' = [wire EXCEPT ![r] = @ \ {SignalOf(r, w, i)}]
        /\ seen' = [seen EXCEPT ![PeerOf(r, i)][Split(i)][NodeOf(r)] = @ + 1]
        /\ UNCHANGED <<forward, stage, waiting, did, met, mem>>

\* Deliver in the terms of the proof.
LEMMA DeliverEffect ==
    ASSUME Sound(Exchange), Shapes, WireKnown, NEW r \in World, Deliver(r)
    PROVE  DeliversPut(r) \/ DeliversSignal(r)
<1>1. PICK op \in wire[r] : Deliver(r)!(op) BY DEF Deliver, MayDeliver
<1>2. CASE \E x \in Puts : x.from = r /\ op = OpOf(x)
  <2>1. PICK y \in Puts : y.from = r /\ op = OpOf(y) BY <1>2
  <2>2. op.rows = RowsWith(y) /\ op.rows # {} /\ op.to = y.to BY <2>1, OpFacts
  <2> DEFINE places == {row[2] : row \in op.rows}
             f == [p \in places |-> LET row == CHOOSE x \in op.rows : x[2] = p IN Held(r, row[1])]
  <2>3. Stored(op.to, f) /\ UNCHANGED seen
    <3>1. op.rows # {} => /\ Write(op.to, places, LAMBDA p : LET row == CHOOSE x \in op.rows : x[2] = p
                                                           IN  Held(r, row[1]))
                          /\ UNCHANGED seen
      BY <1>1 DEF MayDeliver
    <3>2. Write(op.to, places, LAMBDA p : LET row == CHOOSE x \in op.rows : x[2] = p
                                          IN  Held(r, row[1]))
            => Stored(op.to, f)
      BY DEF Write, Stored
    <3> QED BY <2>2, <3>1, <3>2
  <2>4. DOMAIN f = {Target(x) : x \in {z \in Puts : Together(z, y)}}
    <3>1. ASSUME NEW row \in op.rows PROVE \E x \in Puts : Together(x, y) /\ row[2] = Target(x)
      BY <2>2, <3>1 DEF RowsWith
    <3>2. ASSUME NEW x \in Puts, Together(x, y) PROVE Target(x) \in places
      <4>1. <<Source(x), Target(x)>> \in op.rows BY <2>2, <3>2 DEF RowsWith
      <4> QED BY <4>1
    <3>3. DOMAIN f = places OBVIOUS
    <3>4. \A p \in places : \E x \in Puts : Together(x, y) /\ p = Target(x) BY <3>1
    <3> HIDE DEF places, f
    <3> QED BY <3>2, <3>3, <3>4
  <2>5. ASSUME NEW x \in Puts, Together(x, y) PROVE f[Target(x)] = Held(r, Source(x))
    <3>1. Target(x) \in places BY <2>4, <2>5
    <3> DEFINE row == CHOOSE z \in op.rows : z[2] = Target(x)
    <3>2. f[Target(x)] = Held(r, row[1]) BY <3>1
    <3>3. row[1] = Source(x) BY <2>2, <2>5, RowsOf
    <3> QED BY <3>2, <3>3
  <2>6. y.to \in World BY PutFacts
  <2> HIDE DEF f
  <2>7. Updated(y.to, f) BY <2>2, <2>3, <2>6, HeldWrite
  <2>8. /\ wire' = [wire EXCEPT ![r] = @ \ {OpOf(y)}]
        /\ UNCHANGED <<forward, stage, waiting, did, met, seen>>
    BY <1>1, <2>1, <2>3
  <2> QED BY <2>1, <2>4, <2>5, <2>7, <2>8 DEF DeliversPut
<1>3. CASE \E w \in Senders, i \in Steps("send") : op = SignalOf(r, w, i)
  <2>1. PICK w \in Senders, i \in Steps("send") : op = SignalOf(r, w, i) BY <1>3
  <2>2. op.rows = {} /\ op.to = PeerOf(r, i) /\ op.flag = <<Split(i), NodeOf(r)>>
    BY <2>1, SignalFacts
  <2>3. op.flag[1] = Split(i) /\ op.flag[2] = NodeOf(r) BY <2>2
  <2>4. Fenced(r, op) /\ mem' = mem
        /\ seen' = [seen EXCEPT ![op.to][op.flag[1]][op.flag[2]] = @ + 1]
    BY <1>1, <2>2 DEF MayDeliver
  <2>5. /\ wire' = [wire EXCEPT ![r] = @ \ {op}]
        /\ UNCHANGED <<forward, stage, waiting, did, met>>
    BY <1>1
  <2> QED BY <2>1, <2>2, <2>3, <2>4, <2>5 DEF DeliversSignal
<1> QED BY <1>2, <1>3 DEF WireKnown

\* CopyInput in the terms of the proof.
LEMMA CopyInputEffect ==
    ASSUME Shapes, NEW r \in World, CopyInput(r)
    PROVE  Copies(r)
<1> DEFINE places == {<<"in", NodeOf(r), t>> : t \in Tokens(r)}
           f == [p \in places |-> <<forward[r] + 1, r, p[3]>>]
<1>1. Stored(r, f) /\ Stages[stage[r]] = "copy"
  BY DEF CopyInput, Copy, Write, Stored, Current, In, Stages
<1>2. DOMAIN f = {<<"in", NodeOf(r), t>> : t \in Tokens(r)} OBVIOUS
<1>3. \A t \in Tokens(r) : f[<<"in", NodeOf(r), t>>] = <<forward[r] + 1, r, t>>
  <2> TAKE t \in Tokens(r)
  <2>1. <<"in", NodeOf(r), t>> \in places /\ <<"in", NodeOf(r), t>>[3] = t OBVIOUS
  <2> QED BY <2>1
<1> HIDE DEF f
<1>4. Updated(r, f) BY <1>1, HeldWrite
<1> QED BY <1>1, <1>2, <1>3, <1>4 DEF Copies

\* CopySegments in the terms of the proof.
LEMMA CopySegmentsEffect ==
    ASSUME Shapes, NEW r \in World, CopySegments(r)
    PROVE  Copies(r)
<1> DEFINE places == {"segment"} \X World
           f == [p \in places |-> <<forward[r] + 1, r, p[2]>>]
<1>1. Stored(r, f) /\ Stages[stage[r]] = "segments"
  BY DEF CopySegments, Copy, Write, Stored, Current, In, Stages
<1>2. DOMAIN f = {<<"segment", q>> : q \in World} OBVIOUS
<1>3. \A q \in World : f[<<"segment", q>>] = <<forward[r] + 1, r, q>>
  <2> TAKE q \in World
  <2>1. <<"segment", q>> \in places /\ <<"segment", q>>[2] = q OBVIOUS
  <2> QED BY <2>1
<1> HIDE DEF f
<1>4. Updated(r, f) BY <1>1, HeldWrite
<1> QED BY <1>1, <1>2, <1>3, <1>4 DEF Copies

\* RunExperts in the terms of the proof.
LEMMA RunExpertsEffect ==
    ASSUME Shapes, NEW r \in World, RunExperts(r)
    PROVE  Copies(r)
<1> DEFINE mine == {y \in AllTokens : r \in Experts(y[1], y[2])}
           places == {<<"act", x[1], x[2]>> : x \in mine}
           f == [p \in places |-> <<forward[r] + 1, p[2], p[3]>>]
<1>1. Stored(r, f) /\ Stages[stage[r]] = "experts"
  BY DEF RunExperts, Copy, Write, Stored, Current, In, Stages
<1>2. DOMAIN f = places OBVIOUS
<1>3. \A x \in mine : f[<<"act", x[1], x[2]>>] = <<forward[r] + 1, x[1], x[2]>>
  <2> TAKE x \in mine
  <2>1. <<"act", x[1], x[2]>> \in places OBVIOUS
  <2>2. <<"act", x[1], x[2]>>[2] = x[1] /\ <<"act", x[1], x[2]>>[3] = x[2] OBVIOUS
  <2> HIDE DEF mine, places
  <2> QED BY <2>1, <2>2
<1> HIDE DEF f
<1>4. Updated(r, f) BY <1>1, HeldWrite
<1> QED BY <1>1, <1>2, <1>3, <1>4 DEF Copies

\* Every step of the model, in the terms of the proof.
LEMMA StepEffects ==
    ASSUME Sound(Exchange), StreamsInOrder, Shapes, TasksInOrder, WireKnown,
           NEW r \in World, StreamStep(r) \/ KernelStep(r) \/ Deliver(r)
    PROVE  /\ exchange' = exchange
           /\ \/ GoesOn(r) \/ Stops(r) \/ Sends(r) \/ Dispatches(r) \/ PutsSegment(r)
              \/ PutsIndices(r) \/ CopiesIndex(r) \/ SumsBlock(r) \/ SumsToken(r)
              \/ DeliversPut(r) \/ DeliversSignal(r)
<1>1. exchange' = exchange /\ (Advances(r) \/ Arrives(r) \/ Works(r) \/ Delivers(r)) BY StepKinds
<1>2. ASSUME KernelStep(r)
      PROVE  \/ Sends(r) \/ Dispatches(r) \/ PutsSegment(r)
             \/ PutsIndices(r) \/ CopiesIndex(r) \/ SumsBlock(r) \/ SumsToken(r)
  BY <1>2, SendEffect, DispatchEffect, SegmentEffect, IndexEffect, CopyEffect, SumBlockEffect,
     SumTokenEffect DEF KernelStep
<1>3. CASE Deliver(r) BY <1>1, <1>3, DeliverEffect
<1>4. CASE StreamStep(r)
  <2>1. \A name : In(r, name) => Stages[stage[r]] = name BY DEF In, Stages
  <2>2. ASSUME NEW b \in Barriers, Arrive(r, b) PROVE Stops(r)
    BY <2>2 DEF Arrive, Stops, Arrives, MayArrive
  <2>3. ASSUME NEW name \in {"copy", "zero", "rows", "experts", "reduce", "segments", "got", "allIndices"},
               In(r, name), NextStage(r), UNCHANGED <<waiting, did, wire, met>>
        PROVE  Advances(r)
    <3>1. forward[r] < Exchange.forwards /\ Stages[stage[r]] = name BY <2>3 DEF In, Stages
    <3>2. name \notin Barriers /\ name \notin Kernels BY DEF Barriers, Kernels
    <3> QED BY <2>3, <3>1, <3>2, StageAdvances
  <2>4. CASE CopyInput(r)
    <3>1. Copies(r) BY <2>4, CopyInputEffect
    <3>2. Advances(r) BY <2>4, <2>3 DEF CopyInput, Copy
    <3>3. Stages[stage[r]] = "copy" /\ seen' = seen BY <2>1, <2>4 DEF CopyInput, Copy
    <3> QED BY <1>1, <3>1, <3>2, <3>3 DEF GoesOn
  <2>5. CASE CopySegments(r)
    <3>1. Copies(r) BY <2>5, CopySegmentsEffect
    <3>2. Advances(r) BY <2>5, <2>3 DEF CopySegments, Copy
    <3>3. Stages[stage[r]] = "segments" /\ seen' = seen BY <2>1, <2>5 DEF CopySegments, Copy
    <3> QED BY <1>1, <3>1, <3>2, <3>3 DEF GoesOn
  <2>6. CASE RunExperts(r)
    <3>1. Copies(r) BY <2>6, RunExpertsEffect
    <3>2. Advances(r) BY <2>6, <2>3 DEF RunExperts, Copy
    <3>3. Stages[stage[r]] = "experts" /\ seen' = seen BY <2>1, <2>6 DEF RunExperts, Copy
    <3> QED BY <1>1, <3>1, <3>2, <3>3 DEF GoesOn
  <2>7. CASE ZeroSignals(r)
    <3>1. Advances(r) BY <2>7, <2>3 DEF ZeroSignals
    <3>2. /\ Stages[stage[r]] = "zero" /\ mem' = mem
          /\ seen' = [seen EXCEPT ![r] = [s \in Splits |-> [n \in Nodes |-> 0]]]
      BY <2>1, <2>7 DEF ZeroSignals
    <3> QED BY <1>1, <3>1, <3>2 DEF GoesOn
  <2>8. ASSUME NEW name \in {"rows", "reduce", "got", "allIndices"}, NEW right,
               In(r, name), Result(r, right)
        PROVE  GoesOn(r)
    <3>1. Advances(r) BY <2>8, <2>3 DEF Result
    <3>2. Stages[stage[r]] = name /\ mem' = mem /\ seen' = seen BY <2>1, <2>8 DEF Result
    <3> QED BY <3>1, <3>2 DEF GoesOn
  <2>9. CASE TakeRows(r) BY <1>1, <2>8, <2>9 DEF TakeRows
  <2>10. CASE Reduce(r) BY <1>1, <2>8, <2>10 DEF Reduce
  <2>11. CASE TakeSegments(r) BY <1>1, <2>8, <2>11 DEF TakeSegments
  <2>12. CASE TakeIndices(r) BY <1>1, <2>8, <2>12 DEF TakeIndices
  <2>13. CASE KernelEnd(r)
    <3>1. Stages[stage[r]] \in Kernels /\ forward[r] < Exchange.forwards
      BY <2>13 DEF KernelEnd, In, Kernels, Stages, KernelOver
    <3>2. waiting[r] = FALSE BY <3>1 DEF StreamsInOrder, Kernels
    <3>3. waiting' = [waiting EXCEPT ![r] = FALSE] BY <2>13, <3>2 DEF KernelEnd, StreamsInOrder, KernelOver
    <3>4. Stages[stage[r]] \notin Barriers BY <3>1 DEF Barriers, Kernels
    <3>5. Advances(r) BY <2>13, <3>1, <3>3, <3>4 DEF KernelEnd, Advances, KernelOver
    <3>6. Stages[stage[r]] \notin {"copy", "segments", "experts", "zero"} BY <3>1 DEF Kernels
    <3> QED BY <1>1, <2>13, <3>5, <3>6 DEF KernelEnd, GoesOn, KernelOver
  <2>14. ASSUME NEW b \in Barriers, Pass(r, b) PROVE GoesOn(r)
    <3>1. Stages[stage[r]] = b /\ forward[r] < Exchange.forwards BY <2>14 DEF Pass, In, Stages, MayPass
    <3>2. b \notin Kernels BY DEF Barriers, Kernels
    <3>3. did[r] = {} BY <3>1, <3>2 DEF TasksInOrder, Kernels
    <3>4. did' = [did EXCEPT ![r] = {}] BY <2>14, <3>3 DEF Pass, Shapes, MayPass
    <3>5. Advances(r) BY <2>14, <3>1, <3>2, <3>4 DEF Pass, Advances, MayPass
    <3>6. Stages[stage[r]] \notin {"copy", "segments", "experts", "zero"} BY <3>1 DEF Barriers
    <3> QED BY <2>14, <3>5, <3>6 DEF Pass, GoesOn, MayPass
  <2> QED BY <1>1, <1>4, <2>2, <2>4, <2>5, <2>6, <2>7, <2>9, <2>10, <2>11, <2>12, <2>13, <2>14
     DEF StreamStep, Barriers
<1> QED BY <1>1, <1>2, <1>3, <1>4

-----------------------------------------------------------------------------
(* Streams and tasks keep their order. *)

\* The tasks of a kernel do not change while it runs.
LEMMA TasksStay ==
    ASSUME Sound(Exchange), exchange' = exchange, NEW p,
           forward'[p] = forward[p], stage'[p] = stage[p],
           forward[p] < Exchange.forwards, Stages[stage[p]] \in Kernels
    PROVE  Tasks(p)' = Tasks(p)
<1>1. Exchange' = Exchange BY DEF Exchange
<1>2. /\ World' = World /\ Nodes' = Nodes /\ Senders' = Senders /\ Dispatchers' = Dispatchers
      /\ Copiers' = Copiers /\ AllTokens' = AllTokens /\ \A name : Steps(name)' = Steps(name)
  BY Fixed
<1>3. (\A r : NodeOf(r)' = NodeOf(r)) /\ (\A r, n : RailOf(r, n)' = RailOf(r, n))
      /\ (\A q, t : Experts(q, t)' = Experts(q, t))
  BY <1>1 DEF NodeOf, RailOf, Experts
<1>4. \A q, n : BlocksTo(q, n)' = BlocksTo(q, n)
  <2>1. (\A n : NodeRanks(n)' = NodeRanks(n)) /\ (\A r : Tokens(r)' = Tokens(r))
        /\ (\A t : BlockOf(t)' = BlockOf(t))
    BY <1>1, <1>2, <1>3 DEF NodeRanks, Tokens, BlockOf
  <2>2. \A q, t, n : Hits(q, t, n)' = Hits(q, t, n) BY <1>3, <2>1 DEF Hits
  <2>3. \A q, n : Wanted(q, n)' = Wanted(q, n) BY <2>1, <2>2 DEF Wanted
  <2> QED BY <2>1, <2>3 DEF BlocksTo
<1>5. \A name : In(p, name)' <=> In(p, name) BY <1>1 DEF In
<1>6. /\ In(p, "dispatch") => ~In(p, "combine") /\ ~In(p, "exchange") /\ ~In(p, "indices")
      /\ In(p, "combine") => ~In(p, "dispatch") /\ ~In(p, "exchange") /\ ~In(p, "indices")
      /\ In(p, "exchange") => ~In(p, "dispatch") /\ ~In(p, "combine") /\ ~In(p, "indices")
      /\ In(p, "indices") => ~In(p, "dispatch") /\ ~In(p, "combine") /\ ~In(p, "exchange")
  BY DEF In
<1>7. Exchange.nodes > 1 \/ Exchange.nodes = 1 BY SoundFacts DEF Numbers
<1>8. CASE In(p, "dispatch") BY <1>1, <1>2, <1>5, <1>6, <1>8 DEF Tasks
<1>9. CASE In(p, "combine") /\ Exchange.nodes > 1
  <2> DEFINE B(n) == BlocksTo(RailOf(p, n), NodeOf(p))
  <2>1. \A n : B(n)' = B(n) BY <1>3, <1>4
  <2>2. ~In(p, "dispatch")' /\ In(p, "combine")' /\ ~In(p, "exchange")' /\ ~In(p, "indices")'
        /\ (Exchange.nodes > 1)' /\ ~(Exchange.nodes = 1)' /\ ~(Exchange.nodes = 1)
    BY <1>1, <1>5, <1>6, <1>9
  <2>3. Tasks(p) = UNION {{<<"sums", n, b>> : b \in B(n)} : n \in Nodes}
    BY <1>6, <1>9, <2>2 DEF Tasks
  <2>4. Tasks(p)' = UNION {{<<"sums", n, b>> : b \in B(n)'} : n \in Nodes'}
    BY <2>2 DEF Tasks
  <2> HIDE DEF B
  <2> QED BY <1>2, <2>1, <2>3, <2>4
<1>10. CASE In(p, "combine") /\ Exchange.nodes = 1
  <2>1. ~(Exchange.nodes > 1) BY <1>10
  <2> QED BY <1>1, <1>2, <1>3, <1>5, <1>6, <1>10, <2>1 DEF Tasks
<1>11. CASE In(p, "exchange") BY <1>1, <1>2, <1>5, <1>6, <1>11 DEF Tasks
<1>12. CASE In(p, "indices") BY <1>1, <1>2, <1>5, <1>6, <1>12 DEF Tasks
<1>13. In(p, "dispatch") \/ In(p, "combine") \/ In(p, "exchange") \/ In(p, "indices")
  BY DEF In, Kernels, Stages
<1> QED BY <1>7, <1>8, <1>9, <1>10, <1>11, <1>12, <1>13

\* A rank that has done something is in a kernel.
LEMMA DidFacts ==
    ASSUME Sound(Exchange), StreamsInOrder, TasksInOrder, NEW p \in World, did[p] # {}
    PROVE  forward[p] < Exchange.forwards /\ Stages[stage[p]] \in Kernels
<1>1. forward[p] # Exchange.forwards BY DEF StreamsInOrder
<1> QED BY <1>1, StreamFacts DEF TasksInOrder, Kernels

\* Every step keeps the streams and their tasks in order.
LEMMA StreamsStep ==
    ASSUME Sound(Exchange), StreamsInOrder, Shapes, TasksInOrder, exchange' = exchange,
           NEW r \in World, Advances(r) \/ Arrives(r) \/ Works(r) \/ Delivers(r)
    PROVE  StreamsInOrder' /\ TasksInOrder'
<1>1. /\ World' = World /\ Stages' = Stages /\ Exchange' = Exchange BY Fixed
<1>2. DOMAIN Stages = 1..Len(Stages) /\ Len(Stages) \in Nat \ {0} BY StageFacts
<1>3. Exchange.forwards \in Nat BY SoundFacts DEF Numbers
<1>4. exchange' \in DOMAIN Configs BY DEF StreamsInOrder
<1>5. did = [p \in World |-> did[p]] /\ wire = [p \in World |-> wire[p]] BY DEF Shapes
<1>6. CASE Advances(r)
  <2>1. NextStage(r) /\ waiting' = [waiting EXCEPT ![r] = FALSE] /\ did' = [did EXCEPT ![r] = {}]
        /\ wire' = wire /\ forward[r] < Exchange.forwards
    BY <1>6 DEF Advances
  <2>2. /\ forward[r] \in Nat /\ stage[r] \in 1..Len(Stages)
        /\ \/ /\ stage[r] < Len(Stages)
              /\ forward'[r] = forward[r] /\ stage'[r] = stage[r] + 1
           \/ /\ stage[r] = Len(Stages)
              /\ forward'[r] = forward[r] + 1 /\ stage'[r] = 1
        /\ \A p \in World \ {r} : forward'[p] = forward[p] /\ stage'[p] = stage[p]
        /\ forward' = [forward EXCEPT ![r] = forward'[r]]
        /\ stage' = [stage EXCEPT ![r] = stage'[r]]
    BY <2>1, AdvanceTo
  <2>3. forward'[r] \in 0..Exchange.forwards /\ stage'[r] \in 1..Len(Stages)
    BY <2>1, <2>2, <1>2, <1>3
  <2>4. forward' \in [World -> 0..Exchange.forwards] /\ stage' \in [World -> DOMAIN Stages]
        /\ waiting' \in [World -> BOOLEAN]
    <3>1. forward \in [World -> 0..Exchange.forwards] /\ stage \in [World -> DOMAIN Stages]
          /\ waiting \in [World -> BOOLEAN]
      BY DEF StreamsInOrder
    <3> QED BY <3>1, <2>1, <2>2, <2>3, <1>2
  <2>5. did'[r] = {} /\ waiting'[r] = FALSE
        /\ \A p \in World \ {r} : did'[p] = did[p] /\ waiting'[p] = waiting[p]
    BY <2>1, <1>5 DEF StreamsInOrder
  <2>6. ASSUME NEW p \in World
        PROVE  /\ forward'[p] = Exchange.forwards => stage'[p] = 1 /\ ~waiting'[p] /\ did'[p] = {}
               /\ waiting'[p] => Stages[stage'[p]] \in {"team", "node"}
               /\ waiting'[p] /\ Stages[stage'[p]] = "team" => wire'[p] = {}
    <3>1. CASE p # r
      <4>1. forward'[p] = forward[p] /\ stage'[p] = stage[p] /\ did'[p] = did[p]
            /\ waiting'[p] = waiting[p] /\ wire'[p] = wire[p]
        BY <3>1, <2>1, <2>2, <2>5
      <4> QED BY <4>1 DEF StreamsInOrder
    <3>2. CASE p = r
      <4>1. forward'[p] = Exchange.forwards => stage'[p] = 1 BY <3>2, <2>1, <2>2
      <4> QED BY <4>1, <3>2, <2>5
    <3> QED BY <3>1, <3>2
  <2>7. StreamsInOrder' BY <1>1, <1>4, <2>4, <2>6 DEF StreamsInOrder
  <2>8. TasksInOrder'
    <3> SUFFICES ASSUME NEW p \in World, did'[p] # {}
                 PROVE  /\ Stages[stage'[p]] \in {"dispatch", "combine", "exchange", "indices"}
                        /\ did'[p] \subseteq Tasks(p)'
      BY <1>1 DEF TasksInOrder
    <3>1. p # r /\ forward'[p] = forward[p] /\ stage'[p] = stage[p] /\ did'[p] = did[p]
      BY <2>2, <2>5
    <3>2. Tasks(p)' = Tasks(p) BY <3>1, DidFacts, TasksStay
    <3> QED BY <3>1, <3>2 DEF TasksInOrder
  <2> QED BY <2>7, <2>8
<1>7. CASE Arrives(r)
  <2>1. PICK b \in Barriers : Arrive(r, b) BY <1>7 DEF Arrives
  <2>2. /\ forward[r] < Exchange.forwards /\ Stages[stage[r]] = b /\ (b = "team" => wire[r] = {})
        /\ waiting' = [waiting EXCEPT ![r] = TRUE] /\ UNCHANGED <<forward, stage, did, wire>>
    BY <2>1 DEF Arrive, In, Quiet, Stages, MayArrive
  <2>3. waiting' \in [World -> BOOLEAN] /\ waiting'[r] = TRUE
        /\ \A p \in World \ {r} : waiting'[p] = waiting[p]
    BY <2>2 DEF StreamsInOrder
  <2>4. ASSUME NEW p \in World
        PROVE  /\ forward'[p] = Exchange.forwards => stage'[p] = 1 /\ ~waiting'[p] /\ did'[p] = {}
               /\ waiting'[p] => Stages[stage'[p]] \in {"team", "node"}
               /\ waiting'[p] /\ Stages[stage'[p]] = "team" => wire'[p] = {}
    <3>1. CASE p # r BY <3>1, <2>2, <2>3 DEF StreamsInOrder
    <3>2. CASE p = r
      <4>1. forward[r] # Exchange.forwards BY <2>2, StreamFacts
      <4> QED BY <4>1, <3>2, <2>2 DEF Barriers
    <3> QED BY <3>1, <3>2
  <2>5. StreamsInOrder' BY <1>1, <1>4, <2>2, <2>3, <2>4 DEF StreamsInOrder
  <2>6. \A p \in World : did[p] # {} => Tasks(p)' = Tasks(p) BY <2>2, DidFacts, TasksStay
  <2>7. TasksInOrder' BY <1>1, <2>2, <2>6 DEF TasksInOrder
  <2> QED BY <2>5, <2>7
<1>8. CASE Works(r)
  <2>0. PICK task, ops :
        /\ forward[r] < Exchange.forwards /\ Stages[stage[r]] \in Kernels
        /\ task \in Tasks(r) /\ task \notin did[r]
        /\ did' = [did EXCEPT ![r] = @ \cup {task}]
        /\ wire' = [wire EXCEPT ![r] = @ \cup ops]
        /\ UNCHANGED <<forward, stage, waiting, met>>
    BY <1>8 DEF Works
  <2>1. /\ did'[r] = did[r] \cup {task} /\ \A p \in World \ {r} : did'[p] = did[p] /\ wire'[p] = wire[p]
    BY <2>0, <1>5
  <2>2. forward[r] # Exchange.forwards BY <2>0, StreamFacts
  <2>3. StreamsInOrder'
    <3>1. ASSUME NEW p \in World
          PROVE  /\ forward[p] = Exchange.forwards => stage[p] = 1 /\ ~waiting[p] /\ did'[p] = {}
                 /\ waiting[p] => Stages[stage[p]] \in {"team", "node"}
                 /\ waiting[p] /\ Stages[stage[p]] = "team" => wire'[p] = {}
      <4>1. CASE p # r BY <4>1, <2>1 DEF StreamsInOrder
      <4>2. CASE p = r BY <4>2, <2>0, <2>2 DEF Kernels, StreamsInOrder
      <4> QED BY <4>1, <4>2
    <3> QED BY <1>1, <1>4, <2>0, <3>1 DEF StreamsInOrder
  <2>4. /\ \A p \in World : did[p] # {} => Tasks(p)' = Tasks(p)
        /\ Tasks(r)' = Tasks(r)
    BY <2>0, DidFacts, TasksStay
  <2>5. TasksInOrder'
    <3> SUFFICES ASSUME NEW p \in World, did'[p] # {}
                 PROVE  /\ Stages[stage[p]] \in {"dispatch", "combine", "exchange", "indices"}
                        /\ did'[p] \subseteq Tasks(p)'
      BY <1>1, <2>0 DEF TasksInOrder
    <3>1. CASE p # r BY <3>1, <2>1, <2>4 DEF TasksInOrder
    <3>2. CASE p = r
      <4>1. did[r] \subseteq Tasks(r) BY DEF TasksInOrder
      <4> QED BY <4>1, <3>2, <2>0, <2>1, <2>4 DEF Kernels
    <3> QED BY <3>1, <3>2
  <2> QED BY <2>3, <2>5
<1>9. CASE Delivers(r)
  <2>1. PICK op \in wire[r] : wire' = [wire EXCEPT ![r] = @ \ {op}] BY <1>9 DEF Delivers
  <2>2. UNCHANGED <<forward, stage, waiting, did>> BY <1>9 DEF Delivers
  <2>3. \A p \in World : wire'[p] \subseteq wire[p] BY <2>1, <1>5
  <2>4. StreamsInOrder' BY <1>1, <1>4, <2>2, <2>3 DEF StreamsInOrder
  <2>5. \A p \in World : did[p] # {} => Tasks(p)' = Tasks(p) BY <2>2, DidFacts, TasksStay
  <2>6. TasksInOrder' BY <1>1, <2>2, <2>5 DEF TasksInOrder
  <2> QED BY <2>4, <2>6
<1> QED BY <1>6, <1>7, <1>8, <1>9

\* Only the stages that look at results can find a wrong one.
LEMMA BadStep ==
    ASSUME Shapes, NEW r \in World, StreamStep(r) \/ KernelStep(r) \/ Deliver(r)
    PROVE  /\ bad' \in [World -> BOOLEAN]
           /\ bad' = bad \/ TakeRows(r) \/ Reduce(r) \/ TakeSegments(r) \/ TakeIndices(r)
<1>1. bad \in [World -> BOOLEAN] BY DEF Shapes
<1>2. ASSUME NEW right, Result(r, right) PROVE bad' \in [World -> BOOLEAN]
  <2>1. bad' = [bad EXCEPT ![r] = bad[r] \/ ~right] BY <1>2 DEF Result
  <2> QED BY <2>1, <1>1
<1>3. TakeRows(r) \/ Reduce(r) \/ TakeSegments(r) \/ TakeIndices(r) => bad' \in [World -> BOOLEAN]
  BY <1>2 DEF TakeRows, Reduce, TakeSegments, TakeIndices
<1>4. CopyInput(r) \/ ZeroSignals(r) \/ RunExperts(r) \/ CopySegments(r) \/ KernelEnd(r) \/ Deliver(r)
        => bad' = bad
  BY DEF CopyInput, ZeroSignals, RunExperts, CopySegments, KernelEnd, Copy, Deliver, KernelOver, MayDeliver
<1>5. \A b : Arrive(r, b) \/ Pass(r, b) => bad' = bad BY DEF Arrive, Pass, MayArrive, MayPass
<1>6. (\A w : SendSplit(r, w) => bad' = bad) /\ (\A w : DispatchSplit(r, w) => bad' = bad)
  BY DEF SendSplit, DispatchSplit, Task, MaySend, MayDispatch, NodeFrom
<1>7. CombineBlock(r) \/ CombineToken(r) \/ PutSegment(r) \/ CopyIndices(r) \/ PutIndices(r)
        => bad' = bad
  BY DEF CombineBlock, CombineToken, PutSegment, CopyIndices, PutIndices, Task, Undone, MayPutIndices
<1> QED BY <1>1, <1>3, <1>4, <1>5, <1>6, <1>7 DEF StreamStep, KernelStep

\* What a step of r does to the tasks and the wires.
LEMMA DoesWorks ==
    ASSUME NEW r, NEW task, Does(r, task) PROVE Works(r)
  BY DEF Does, Works

\* Every step keeps the shapes of the state.
LEMMA ShapesStep ==
    ASSUME Sound(Exchange), Shapes, exchange' = exchange, NEW r \in World,
           bad' \in [World -> BOOLEAN],
           \/ GoesOn(r) \/ Stops(r) \/ Sends(r) \/ Dispatches(r) \/ PutsSegment(r)
           \/ PutsIndices(r) \/ CopiesIndex(r) \/ SumsBlock(r) \/ SumsToken(r)
           \/ DeliversPut(r) \/ DeliversSignal(r)
    PROVE  Shapes'
<1>1. World' = World /\ Splits' = Splits /\ Nodes' = Nodes BY Fixed
<1>2. /\ did = [p \in World |-> did[p]] /\ wire = [p \in World |-> wire[p]]
      /\ mem = [p \in World |-> mem[p]]
      /\ seen = [p \in World |-> [s \in Splits |-> [n \in Nodes |-> seen[p][s][n]]]]
      /\ met = [b \in {"team", "node"} |-> [p \in World |-> met[b][p]]]
  BY DEF Shapes
<1> DEFINE Small == /\ did' = [p \in World |-> did'[p]] /\ wire' = [p \in World |-> wire'[p]]
                    /\ met' = [b \in {"team", "node"} |-> [p \in World |-> met'[b][p]]]
           Mem   == mem' = [p \in World |-> mem'[p]]
           Seen  == seen' = [p \in World |-> [s \in Splits |-> [n \in Nodes |-> seen'[p][s][n]]]]
<1>3. (mem' = mem => Mem) /\ (\A q, f : Updated(q, f) => Mem) /\ (seen' = seen => Seen)
  BY <1>2 DEF Updated
<1>4. ASSUME NEW task, Does(r, task) PROVE Small /\ Seen
  <2>1. PICK ops : wire' = [wire EXCEPT ![r] = @ \cup ops] BY <1>4 DEF Does
  <2>2. did' = [did EXCEPT ![r] = @ \cup {task}] /\ met' = met /\ seen' = seen BY <1>4 DEF Does
  <2>3. did' = [p \in World |-> did'[p]] BY <2>2, <1>2
  <2>4. wire' = [p \in World |-> wire'[p]] BY <2>1, <1>2
  <2>5. met' = [b \in {"team", "node"} |-> [p \in World |-> met'[b][p]]] BY <2>2, <1>2
  <2> QED BY <2>2, <2>3, <2>4, <2>5, <1>3
<1>5. CASE GoesOn(r)
  <2>1. did' = [did EXCEPT ![r] = {}] /\ wire' = wire /\ met' = met BY <1>5 DEF GoesOn, Advances
  <2>2. did' = [p \in World |-> did'[p]] BY <2>1, <1>2
  <2>3. Small BY <2>1, <2>2, <1>2
  <2>4. Mem BY <1>5, <1>3 DEF GoesOn, Copies
  <2>5. Seen
    <3>1. CASE seen' = seen BY <3>1, <1>3
    <3>2. CASE seen' = [seen EXCEPT ![r] = [s \in Splits |-> [n \in Nodes |-> 0]]]
      <4>1. seen' = [p \in World |-> IF p = r THEN [s \in Splits |-> [n \in Nodes |-> 0]] ELSE seen[p]]
        BY <3>2, <1>2
      <4>2. ASSUME NEW p \in World
            PROVE seen'[p] = [s \in Splits |-> [n \in Nodes |-> seen'[p][s][n]]]
        <5>1. CASE p = r
          <6>1. seen'[p] = [s \in Splits |-> [n \in Nodes |-> 0]] BY <4>1, <5>1
          <6> QED BY <6>1
        <5>2. CASE p # r
          <6>1. seen'[p] = seen[p] /\ seen[p] = [s \in Splits |-> [n \in Nodes |-> seen[p][s][n]]]
            BY <4>1, <5>2, <1>2
          <6> QED BY <6>1
        <5> QED BY <5>1, <5>2
      <4> QED BY <4>1, <4>2
    <3> QED BY <3>1, <3>2, <1>5 DEF GoesOn
  <2> QED BY <2>3, <2>4, <2>5, <1>1 DEF Shapes
<1>6. CASE Stops(r)
  <2>1. PICK b \in Barriers : met' = [met EXCEPT ![b][r] = @ + 1]
    BY <1>6 DEF Stops, Arrives, Arrive, MayArrive
  <2>2. met' = [c \in {"team", "node"} |-> [p \in World |-> met'[c][p]]]
    <3>1. met' = [c \in {"team", "node"} |-> IF c = b THEN [met[b] EXCEPT ![r] = @ + 1] ELSE met[c]]
      BY <2>1, <1>2 DEF Barriers
    <3>2. [met[b] EXCEPT ![r] = @ + 1] = [p \in World |-> IF p = r THEN met[b][r] + 1 ELSE met[b][p]]
      BY <1>2 DEF Barriers
    <3>3. ASSUME NEW c \in {"team", "node"} PROVE met'[c] = [p \in World |-> met'[c][p]]
      <4>1. CASE c = b BY <3>1, <3>2, <4>1
      <4>2. CASE c # b BY <3>1, <4>2, <1>2
      <4> QED BY <4>1, <4>2
    <3> QED BY <3>1, <3>3
  <2>3. UNCHANGED <<did, wire, seen, mem>> BY <1>6 DEF Stops
  <2>4. Small BY <2>2, <2>3, <1>2
  <2> QED BY <2>3, <2>4, <1>1, <1>3 DEF Shapes
<1>7. CASE Sends(r) \/ Dispatches(r) \/ PutsSegment(r) \/ PutsIndices(r)
  <2>1. (\E task : Does(r, task)) /\ mem' = mem
    BY <1>7 DEF Sends, Dispatches, PutsSegment, PutsIndices
  <2> QED BY <2>1, <1>1, <1>3, <1>4 DEF Shapes
<1>8. CASE CopiesIndex(r) \/ SumsBlock(r) \/ SumsToken(r)
  <2>1. (\E task : Does(r, task)) /\ Mem
    BY <1>8, <1>3 DEF CopiesIndex, SumsBlock, WritesSums, SumsToken
  <2> QED BY <2>1, <1>1, <1>4 DEF Shapes
<1>9. CASE DeliversPut(r)
  <2>1. PICK y \in Puts : DeliversPut(r)!(y) BY <1>9 DEF DeliversPut
  <2>2. wire' = [p \in World |-> wire'[p]] BY <2>1, <1>2
  <2>3. Small /\ Mem /\ Seen BY <2>1, <2>2, <1>2, <1>3
  <2> QED BY <2>3, <1>1 DEF Shapes
<1>10. CASE DeliversSignal(r)
  <2>1. PICK w \in Senders, i \in Steps("send") : DeliversSignal(r)!(w, i) BY <1>10 DEF DeliversSignal
  <2>2. wire' = [p \in World |-> wire'[p]] BY <2>1, <1>2
  <2>3. Small /\ Mem
    <3>1. UNCHANGED <<did, met, mem>> BY <2>1
    <3> QED BY <3>1, <2>2, <1>2, <1>3
  <2>4. Seen
    <3> DEFINE q == PeerOf(r, i)
               s == Split(i)
               m == NodeOf(r)
    <3> HIDE DEF q, s, m
    <3>1. seen' = [seen EXCEPT ![q][s][m] = @ + 1] BY <2>1 DEF q, s, m
    <3>2. ASSUME NEW p \in World
          PROVE  seen'[p] = [t \in Splits |-> [n \in Nodes |-> seen'[p][t][n]]]
      <4>1. seen[p] = [t \in Splits |-> [n \in Nodes |-> seen[p][t][n]]] BY <1>2
      <4>2. CASE p # q BY <4>1, <4>2, <3>1, <1>2
      <4>3. CASE p = q
        <5>1. seen'[p] = [seen[p] EXCEPT ![s][m] = @ + 1] BY <4>3, <3>1, <1>2
        <5>2. ASSUME NEW t \in Splits PROVE seen'[p][t] = [n \in Nodes |-> seen'[p][t][n]]
          <6>1. seen[p][t] = [n \in Nodes |-> seen[p][t][n]] BY <4>1
          <6>2. CASE t # s
            <7>1. seen'[p][t] = seen[p][t] BY <5>1, <4>1, <6>2
            <7> QED BY <6>1, <7>1
          <6>3. CASE t = s
            <7>1. seen'[p][t] = [seen[p][t] EXCEPT ![m] = @ + 1] BY <5>1, <4>1, <6>3
            <7>2. seen'[p][t] = [n \in Nodes |-> IF n = m THEN seen[p][t][m] + 1 ELSE seen[p][t][n]]
              BY <6>1, <7>1
            <7> QED BY <7>2
          <6> QED BY <6>2, <6>3
        <5>3. DOMAIN seen'[p] = Splits /\ seen'[p] = [t \in Splits |-> seen'[p][t]] BY <5>1, <4>1
        <5> QED BY <5>2, <5>3
      <4> QED BY <4>2, <4>3
    <3>3. seen' = [p \in World |-> seen'[p]] BY <3>1, <1>2
    <3> QED BY <3>2, <3>3
  <2> QED BY <2>3, <2>4, <1>1 DEF Shapes
<1> QED BY <1>5, <1>6, <1>7, <1>8, <1>9, <1>10

-----------------------------------------------------------------------------
(* What the steps do to what has been done and to what is in flight. *)

\* What a step adds to what has been done.
LEMMA DidStep ==
    ASSUME Sound(Exchange), StreamsInOrder, Shapes, exchange' = exchange,
           NEW r \in World, NEW p \in World, NEW k, NEW task
    PROVE  /\ \A t : Does(r, t) =>
                (DidTask(p, k, task)' <=>
                    DidTask(p, k, task) \/ (p = r /\ Stages[stage[r]] = k /\ task = t))
           /\ Stops(r) \/ DeliversPut(r) \/ DeliversSignal(r) =>
                (DidTask(p, k, task)' <=> DidTask(p, k, task))
           /\ Advances(r) /\ p # r => (DidTask(p, k, task)' <=> DidTask(p, k, task))
<1>1. Stages' = Stages BY Fixed
<1>2. \A n : Pos(n)' = Pos(n) BY Fixed
<1>3. forward'[p] = forward[p] /\ stage'[p] = stage[p] => Past(p, k)' = Past(p, k)
  BY <1>2 DEF Past
<1>4. ASSUME NEW t, Does(r, t)
      PROVE  DidTask(p, k, task)' <=>
                    DidTask(p, k, task) \/ (p = r /\ Stages[stage[r]] = k /\ task = t)
  <2>1. forward' = forward /\ stage' = stage /\ did' = [did EXCEPT ![r] = @ \cup {t}]
    BY <1>4 DEF Does
  <2>2. did'[p] = IF p = r THEN did[r] \cup {t} ELSE did[p] BY <2>1 DEF Shapes
  <2>3. Past(p, k)' = Past(p, k) BY <1>3, <2>1
  <2> QED BY <2>1, <2>2, <2>3, <1>1 DEF DidTask
<1>5. ASSUME Stops(r) \/ DeliversPut(r) \/ DeliversSignal(r)
      PROVE  DidTask(p, k, task)' <=> DidTask(p, k, task)
  <2>1. forward' = forward /\ stage' = stage /\ did' = did
    BY <1>5 DEF Stops, DeliversPut, DeliversSignal, Arrives, Arrive, MayArrive
  <2>2. Past(p, k)' = Past(p, k) BY <1>3, <2>1
  <2> QED BY <2>1, <2>2, <1>1 DEF DidTask
<1>6. ASSUME Advances(r), p # r PROVE DidTask(p, k, task)' <=> DidTask(p, k, task)
  <2>1. forward'[p] = forward[p] /\ stage'[p] = stage[p] /\ did'[p] = did[p]
    BY <1>6, AdvanceTo DEF Advances, Shapes
  <2>2. Past(p, k)' = Past(p, k) BY <1>3, <2>1
  <2> QED BY <2>1, <2>2, <1>1 DEF DidTask
<1> QED BY <1>4, <1>5, <1>6

\* Going on does not move the other ranks.
LEMMA OthersStay ==
    ASSUME Sound(Exchange), StreamsInOrder, exchange' = exchange,
           NEW r \in World, Advances(r), NEW p \in World, p # r, NEW k
    PROVE  /\ forward'[p] = forward[p] /\ stage'[p] = stage[p]
           /\ Begun(p, k)' = Begun(p, k) /\ Past(p, k)' = Past(p, k)
           /\ Round(p, k)' = Round(p, k) /\ Open(p, k)' = Open(p, k)
<1>1. forward'[p] = forward[p] /\ stage'[p] = stage[p] BY AdvanceTo DEF Advances
<1>2. waiting'[p] = waiting[p] BY DEF Advances, StreamsInOrder
<1>3. \A n : Pos(n)' = Pos(n) BY Fixed
<1>4. Begun(p, k)' = Begun(p, k) /\ Past(p, k)' = Past(p, k) /\ Flushed(p, k)' = Flushed(p, k)
  BY <1>1, <1>2, <1>3 DEF Begun, Past, Flushed
<1> QED BY <1>1, <1>4 DEF Round, Open

\* While the stream of a rank stands, so does what is open, as far as it is in flight.
LEMMA OpenStays ==
    ASSUME Sound(Exchange), StreamsInOrder, exchange' = exchange,
           NEW r \in World, Arrives(r) \/ Works(r) \/ Delivers(r), NEW p \in World, NEW k,
           Open(p, k), wire'[p] # {}
    PROVE  Open(p, k)'
<1>1. Begun(p, k)' = Begun(p, k) /\ (Flushed(p, k)' => Flushed(p, k) \/ wire'[p] = {})
  BY ProgressStays
<1> QED BY <1>1 DEF Open

\* The operations that are in flight after a step: those of a task are added, one that is
\* delivered goes.
LEMMA WireStep ==
    ASSUME Sound(Exchange), Shapes, WireKnown, exchange' = exchange, NEW r \in World, NEW p \in World
    PROVE  /\ GoesOn(r) \/ Stops(r) => wire'[p] = wire[p]
           /\ \A y \in Puts : y.from = r /\ wire' = [wire EXCEPT ![r] = @ \ {OpOf(y)}]
                => wire'[p] = wire[p] \ (IF p = r THEN {OpOf(y)} ELSE {})
           /\ \A w, i : wire' = [wire EXCEPT ![r] = @ \ {SignalOf(r, w, i)}]
                => wire'[p] = wire[p] \ (IF p = r THEN {SignalOf(r, w, i)} ELSE {})
<1>1. wire = [q \in World |-> wire[q]] BY DEF Shapes
<1>2. GoesOn(r) \/ Stops(r) => wire'[p] = wire[p] BY DEF GoesOn, Stops, Advances
<1>3. \A y : wire' = [wire EXCEPT ![r] = @ \ {y}] => wire'[p] = wire[p] \ (IF p = r THEN {y} ELSE {})
  BY <1>1
<1> QED BY <1>2, <1>3

\* A put or signal that is new is of the task.
LEMMA NewInWire ==
    ASSUME Sound(Exchange), Shapes, exchange' = exchange, NEW r \in World, NEW task, Does(r, task),
           NEW p \in World
    PROVE  /\ wire[p] \subseteq wire'[p] /\ (p # r => wire'[p] = wire[p])
           /\ \A x \in Puts : x.from = p =>
                (OpOf(x) \in wire'[p] <=>
                    \/ OpOf(x) \in wire[p]
                    \/ (p = r /\ Kernel(x) = Stages[stage[r]] /\ TaskOf(x) = task))
           /\ \A w \in Senders, i \in Steps("send") :
                SignalOf(p, w, i) \in wire'[p] <=>
                    \/ SignalOf(p, w, i) \in wire[p]
                    \/ (p = r /\ Stages[stage[r]] = "dispatch" /\ task = <<"send", w, i>>)
           /\ \A op \in wire'[r] \ wire[r] :
                \/ \E x \in Puts : x.from = r /\ op = OpOf(x)
                \/ \E w \in Senders, i \in Steps("send") : op = SignalOf(r, w, i)
<1>1. PICK ops : wire' = [wire EXCEPT ![r] = @ \cup ops] /\ NewOps(r, task, ops) BY DEF Does
<1>2. wire'[r] = wire[r] \cup ops /\ \A q \in World \ {r} : wire'[q] = wire[q]
  BY <1>1 DEF Shapes
<1>3. CASE p = r BY <1>1, <1>2, <1>3 DEF NewOps
<1>4. CASE p # r
  <2>1. \A op \in wire'[r] \ wire[r] : op \in ops BY <1>2
  <2> QED BY <1>1, <1>2, <1>4, <2>1 DEF NewOps
<1> QED BY <1>3, <1>4

Moves(r) ==
    \/ GoesOn(r) \/ Stops(r) \/ Sends(r) \/ Dispatches(r) \/ PutsSegment(r)
    \/ PutsIndices(r) \/ CopiesIndex(r) \/ SumsBlock(r) \/ SumsToken(r)
    \/ DeliversPut(r) \/ DeliversSignal(r)

\* The steps by what they do to the streams.
LEMMA MovesKinds ==
    ASSUME NEW r, Moves(r)
    PROVE  /\ GoesOn(r) \/ Stops(r) \/ (\E task : Does(r, task)) \/ DeliversPut(r) \/ DeliversSignal(r)
           /\ GoesOn(r) => Advances(r)
           /\ Stops(r) => Arrives(r)
           /\ \A task : Does(r, task) => Works(r)
           /\ DeliversPut(r) \/ DeliversSignal(r) => Delivers(r)
<1>1. Sends(r) \/ Dispatches(r) \/ PutsSegment(r) \/ PutsIndices(r) \/ CopiesIndex(r)
        \/ SumsBlock(r) \/ SumsToken(r) => \E task : Does(r, task)
  BY DEF Sends, Dispatches, PutsSegment, PutsIndices, CopiesIndex, SumsBlock, SumsToken
<1>2. GoesOn(r) => Advances(r) BY DEF GoesOn
<1>3. Stops(r) => Arrives(r) BY DEF Stops
<1>4. \A task : Does(r, task) => Works(r) BY DoesWorks
<1>5. DeliversPut(r) => Delivers(r) BY DEF DeliversPut, Delivers
<1>6. DeliversSignal(r) => Delivers(r) BY DEF DeliversSignal, Delivers
<1> QED BY <1>1, <1>2, <1>3, <1>4, <1>5, <1>6 DEF Moves

\* What a put is of does not change.
LEMMA PutPrimes ==
    ASSUME exchange' = exchange, NEW x
    PROVE  /\ IsDone(x)' <=> \E k, t : k = Kernel(x) /\ t = TaskOf(x) /\ DidTask(x.from, k, t)'
           /\ Open(x.from, Kernel(x))' <=> \E k : k = Kernel(x) /\ Open(x.from, k)'
           /\ Begun(x.from, Kernel(x))' <=> \E k : k = Kernel(x) /\ Begun(x.from, k)'
           /\ \A k : k = Kernel(x) => Round(x.from, Kernel(x))' = Round(x.from, k)'
<1>1. Kernel(x)' = Kernel(x) /\ TaskOf(x)' = TaskOf(x) /\ Stages' = Stages BY Fixed
<1>2. IsDone(x)' <=> \E k, t : k = Kernel(x) /\ t = TaskOf(x) /\ DidTask(x.from, k, t)'
  BY <1>1 DEF IsDone, DidTask, Past, Pos
<1>3. Begun(x.from, Kernel(x))' <=> \E k : k = Kernel(x) /\ Begun(x.from, k)'
  BY <1>1 DEF Begun, Pos
<1>4. Open(x.from, Kernel(x))' <=> \E k : k = Kernel(x) /\ Open(x.from, k)'
  BY <1>1 DEF Open, Begun, Flushed, Pos
<1>5. \A k : k = Kernel(x) => Round(x.from, Kernel(x))' = Round(x.from, k)'
  BY <1>1 DEF Round, Begun, Pos
<1> QED BY <1>2, <1>3, <1>4, <1>5

\* The puts of a kernel that runs are open.
LEMMA InKernelOpen ==
    ASSUME Sound(Exchange), InOrder(Exchange), StreamsInOrder, NEW r \in World,
           NEW k \in Kernels, Stages[stage[r]] = k
    PROVE  Begun(r, k) /\ Open(r, k) /\ ~Flushed(r, k)
<1>1. forward[r] \in Nat /\ stage[r] \in 1..Len(Stages) /\ DOMAIN Stages = 1..Len(Stages)
  BY StreamFacts
<1>2. stage[r] \in Pos(k) /\ \A i \in Pos(k) : i = stage[r]
  <2>1. stage[r] \in Pos(k) BY <1>1 DEF Pos, StagesOf
  <2> QED BY <1>1, <2>1, KernelFacts
<1>3. Pos("team") \subseteq 1..Len(Stages) BY KernelFacts
<1>4. Begun(r, k) BY <1>1, <1>2 DEF Begun
<1>5. ~Flushed(r, k) BY <1>1, <1>2, <1>3 DEF Flushed
<1> QED BY <1>4, <1>5 DEF Open

\* What is open and done stays so while some of it is in flight.
LEMMA ItemOpen ==
    ASSUME Sound(Exchange), InOrder(Exchange), StreamsInOrder, Shapes, exchange' = exchange,
           NEW r \in World, Moves(r), NEW p \in World, NEW k \in Kernels, NEW t,
           In(p, k) => t \in Tasks(p), wire'[p] # {}, Open(p, k), DidTask(p, k, t)
    PROVE  Open(p, k)' /\ DidTask(p, k, t)' /\ forward'[p] = forward[p]
<1>1. CASE GoesOn(r)
  <2>1. Advances(r) BY <1>1, MovesKinds
  <2>2. CASE p = r BY <2>1, <2>2, OpenAdvance
  <2>3. CASE p # r BY <2>1, <2>3, OthersStay, DidStep
  <2> QED BY <2>2, <2>3
<1>2. CASE Stops(r) \/ (\E task : Does(r, task)) \/ DeliversPut(r) \/ DeliversSignal(r)
  <2>1. Arrives(r) \/ Works(r) \/ Delivers(r) BY <1>2, MovesKinds
  <2>2. Open(p, k)' BY <2>1, OpenStays
  <2>3. DidTask(p, k, t)' BY <1>2, DidStep
  <2>4. forward' = forward BY <2>1, ProgressStays
  <2> QED BY <2>2, <2>3, <2>4
<1> QED BY <1>1, <1>2, MovesKinds

\* Every step keeps what is in flight known.
LEMMA WireStaysKnown ==
    ASSUME Sound(Exchange), Shapes, WireKnown, exchange' = exchange, NEW r \in World, Moves(r)
    PROVE  WireKnown'
<1>1. /\ World' = World /\ Puts' = Puts /\ Senders' = Senders /\ Steps("send")' = Steps("send")
      /\ \A x : OpOf(x)' = OpOf(x)
      /\ \A q, w, i : SignalOf(q, w, i)' = SignalOf(q, w, i)
  BY Fixed
<1>2. SUFFICES ASSUME NEW p \in World, NEW op \in wire'[p]
               PROVE  \/ \E x \in Puts : x.from = p /\ op = OpOf(x)
                      \/ \E w \in Senders, i \in Steps("send") : op = SignalOf(p, w, i)
  BY <1>1 DEF WireKnown
<1>3. CASE op \in wire[p] BY <1>3 DEF WireKnown
<1>4. CASE op \notin wire[p]
  <2>1. PICK task : Does(r, task)
    <3>1. ~GoesOn(r) /\ ~Stops(r) BY <1>4, WireStep
    <3>2. ~DeliversPut(r)
      <4> SUFFICES ASSUME NEW y \in Puts, y.from = r, wire' = [wire EXCEPT ![r] = @ \ {OpOf(y)}]
                   PROVE  FALSE
        BY DEF DeliversPut
      <4>1. wire'[p] \subseteq wire[p] BY WireStep
      <4> QED BY <4>1, <1>4
    <3>3. ~DeliversSignal(r)
      <4> SUFFICES ASSUME NEW w, NEW i, wire' = [wire EXCEPT ![r] = @ \ {SignalOf(r, w, i)}]
                   PROVE  FALSE
        BY DEF DeliversSignal
      <4>1. wire'[p] \subseteq wire[p] BY WireStep
      <4> QED BY <4>1, <1>4
    <3> QED BY <3>1, <3>2, <3>3, MovesKinds
  <2>2. p = r /\ op \in wire'[r] \ wire[r] BY <2>1, <1>4, NewInWire
  <2> QED BY <2>1, <2>2, NewInWire
<1> QED BY <1>3, <1>4

\* What a step adds to the wire is of its task.
LEMMA WireGrows ==
    ASSUME Sound(Exchange), Shapes, WireKnown, exchange' = exchange, NEW r \in World, Moves(r),
           NEW p \in World
    PROVE  /\ \A x \in Puts : x.from = p /\ OpOf(x) \in wire'[p] /\ OpOf(x) \notin wire[p] =>
                p = r /\ Does(r, TaskOf(x)) /\ Stages[stage[r]] = Kernel(x)
           /\ \A w \in Senders, i \in Steps("send") :
                SignalOf(p, w, i) \in wire'[p] /\ SignalOf(p, w, i) \notin wire[p] =>
                    p = r /\ Does(r, <<"send", w, i>>) /\ Stages[stage[r]] = "dispatch"
<1>1. CASE \E task : Does(r, task)
  <2>1. PICK task : Does(r, task) BY <1>1
  <2>2. \A x \in Puts : x.from = p /\ OpOf(x) \in wire'[p] /\ OpOf(x) \notin wire[p] =>
                p = r /\ TaskOf(x) = task /\ Stages[stage[r]] = Kernel(x)
    BY <2>1, NewInWire
  <2>3. \A w \in Senders, i \in Steps("send") :
                SignalOf(p, w, i) \in wire'[p] /\ SignalOf(p, w, i) \notin wire[p] =>
                    p = r /\ task = <<"send", w, i>> /\ Stages[stage[r]] = "dispatch"
    BY <2>1, NewInWire
  <2> QED BY <2>1, <2>2, <2>3
<1>2. CASE ~\E task : Does(r, task)
  <2>1. wire'[p] \subseteq wire[p]
    <3>1. CASE GoesOn(r) \/ Stops(r) BY <3>1, WireStep
    <3>2. CASE DeliversPut(r)
      <4>1. PICK y \in Puts : y.from = r /\ wire' = [wire EXCEPT ![r] = @ \ {OpOf(y)}]
        BY <3>2 DEF DeliversPut
      <4> QED BY <4>1, WireStep
    <3>3. CASE DeliversSignal(r)
      <4>1. PICK w \in Senders, i \in Steps("send") :
                wire' = [wire EXCEPT ![r] = @ \ {SignalOf(r, w, i)}]
        BY <3>3 DEF DeliversSignal
      <4> QED BY <4>1, WireStep
    <3> QED BY <3>1, <3>2, <3>3, <1>2, MovesKinds
  <2> QED BY <2>1
<1> QED BY <1>1, <1>2

\* Every step keeps what is in flight in front of its barrier.
LEMMA WireStaysOpen ==
    ASSUME Sound(Exchange), InOrder(Exchange), StreamsInOrder, Shapes, WireKnown, WireOpen,
           exchange' = exchange, NEW r \in World, Moves(r)
    PROVE  WireOpen'
<1>1. /\ World' = World /\ Puts' = Puts /\ Senders' = Senders /\ Steps("send")' = Steps("send")
      /\ \A x : OpOf(x)' = OpOf(x)
      /\ \A q, w, i : SignalOf(q, w, i)' = SignalOf(q, w, i)
  BY Fixed
<1>2. ASSUME NEW x \in Puts, OpOf(x) \in wire'[x.from]
      PROVE  Open(x.from, Kernel(x))' /\ IsDone(x)'
  <2>1. PICK p, k, t : p = x.from /\ k = Kernel(x) /\ t = TaskOf(x) OBVIOUS
  <2>2. p \in World /\ k \in Kernels /\ (In(p, k) => t \in Tasks(p))
    BY <2>1, PutFacts, TaskTags, TaskKnown
  <2>3. wire'[p] # {} BY <1>2, <2>1
  <2>4. Open(p, k)' /\ DidTask(p, k, t)'
    <3>1. CASE OpOf(x) \in wire[p]
      <4>1. Open(p, k) /\ DidTask(p, k, t) BY <3>1, <2>1 DEF WireOpen, IsDone
      <4> QED BY <4>1, <2>2, <2>3, ItemOpen
    <3>2. CASE OpOf(x) \notin wire[p]
      <4>1. p = r /\ Does(r, t) /\ Stages[stage[r]] = k BY <3>2, <1>2, <2>1, <2>2, WireGrows
      <4>2. Works(r) BY <4>1, MovesKinds
      <4>3. Open(r, k) BY <4>1, <2>2, InKernelOpen
      <4>4. Open(p, k)' BY <4>1, <4>2, <4>3, <2>3, OpenStays
      <4>5. DidTask(p, k, t)' BY <4>1, DidStep
      <4> QED BY <4>4, <4>5
    <3> QED BY <3>1, <3>2
  <2> QED BY <2>1, <2>4, PutPrimes
<1>3. ASSUME NEW q \in World, NEW w \in Senders, NEW i \in Steps("send"), SignalOf(q, w, i) \in wire'[q]
      PROVE  Open(q, "dispatch")' /\ DidTask(q, "dispatch", <<"send", w, i>>)'
  <2>1. PICK t : t = <<"send", w, i>> OBVIOUS
  <2>2. "dispatch" \in Kernels /\ (In(q, "dispatch") => t \in Tasks(q))
    BY <2>1, TasksOf DEF Kernels
  <2>3. wire'[q] # {} BY <1>3
  <2>4. Open(q, "dispatch")' /\ DidTask(q, "dispatch", t)'
    <3>1. CASE SignalOf(q, w, i) \in wire[q]
      <4>1. Open(q, "dispatch") /\ DidTask(q, "dispatch", t) BY <3>1, <2>1 DEF WireOpen
      <4> QED BY <4>1, <2>2, <2>3, ItemOpen
    <3>2. CASE SignalOf(q, w, i) \notin wire[q]
      <4>1. q = r /\ Does(r, t) /\ Stages[stage[r]] = "dispatch" BY <3>2, <1>3, <2>1, WireGrows
      <4>2. Works(r) BY <4>1, MovesKinds
      <4>3. Open(r, "dispatch") BY <4>1, <2>2, InKernelOpen
      <4>4. Open(q, "dispatch")' BY <4>1, <4>2, <4>3, <2>3, OpenStays
      <4>5. DidTask(q, "dispatch", t)' BY <4>1, DidStep
      <4> QED BY <4>4, <4>5
    <3> QED BY <3>1, <3>2
  <2> QED BY <2>1, <2>4
<1> QED BY <1>1, <1>2, <1>3 DEF WireOpen

\* Only a delivery takes something off the wire.
LEMMA WireShrinks ==
    ASSUME Sound(Exchange), Shapes, WireKnown, exchange' = exchange, NEW r \in World, Moves(r),
           NEW p \in World, NEW op \in wire[p], op \notin wire'[p]
    PROVE  /\ p = r /\ wire'[r] = wire[r] \ {op}
           /\ \/ DeliversPut(r) /\ \E y \in Puts : y.from = r /\ op = OpOf(y)
              \/ /\ DeliversSignal(r) /\ Fenced(r, op)
                 /\ \E w \in Senders, i \in Steps("send") : op = SignalOf(r, w, i)
<1>1. ~GoesOn(r) /\ ~Stops(r) BY WireStep
<1>2. ~\E task : Does(r, task) BY NewInWire
<1>3. CASE DeliversPut(r)
  <2>1. PICK y \in Puts : y.from = r /\ wire' = [wire EXCEPT ![r] = @ \ {OpOf(y)}]
    BY <1>3 DEF DeliversPut
  <2>2. wire'[p] = wire[p] \ (IF p = r THEN {OpOf(y)} ELSE {}) BY <2>1, WireStep
  <2>3. p = r /\ op = OpOf(y) BY <2>2
  <2> QED BY <1>3, <2>1, <2>2, <2>3
<1>4. CASE DeliversSignal(r)
  <2>1. PICK w \in Senders, i \in Steps("send") :
            Fenced(r, SignalOf(r, w, i)) /\ wire' = [wire EXCEPT ![r] = @ \ {SignalOf(r, w, i)}]
    BY <1>4 DEF DeliversSignal
  <2>2. wire'[p] = wire[p] \ (IF p = r THEN {SignalOf(r, w, i)} ELSE {}) BY <2>1, WireStep
  <2>3. p = r /\ op = SignalOf(r, w, i) BY <2>2
  <2> QED BY <1>4, <2>1, <2>2, <2>3
<1> QED BY <1>1, <1>2, <1>3, <1>4, MovesKinds

\* Every step keeps the rows in front of their signals.
LEMMA RowsStayBeforeSignals ==
    ASSUME Sound(Exchange), InOrder(Exchange), StreamsInOrder, Shapes, WireKnown, WireOpen,
           RowsBeforeSignals, exchange' = exchange, NEW r \in World, Moves(r)
    PROVE  RowsBeforeSignals'
<1>1. /\ Puts' = Puts
      /\ \A x : OpOf(x)' = OpOf(x) /\ TaskOf(x)' = TaskOf(x)
      /\ \A q, w, i : SignalOf(q, w, i)' = SignalOf(q, w, i)
  BY Fixed
<1>2. SUFFICES ASSUME NEW x \in Puts, x.kind = "send",
                      SignalOf(x.from, TaskOf(x)[2], TaskOf(x)[3]) \notin wire'[x.from],
                      OpOf(x) \in wire'[x.from]
               PROVE  FALSE
  BY <1>1 DEF RowsBeforeSignals
<1>3. PICK p, w, i : /\ p = x.from /\ p \in World /\ w \in Senders /\ i \in Steps("send")
                     /\ TaskOf(x) = <<"send", w, i>> /\ SignalOf(p, w, i).to = x.to
  BY <1>2, TaskFacts, PutFacts
<1>4. SignalOf(p, w, i) \notin wire'[p] BY <1>2, <1>3
<1>5. CASE OpOf(x) \in wire[p]
  <2>1. IsDone(x) BY <1>3, <1>5 DEF WireOpen
  <2>2. SignalOf(p, w, i) \in wire[p] BY <2>1, <1>2, <1>3, <1>5 DEF RowsBeforeSignals
  <2>3. p = r /\ (\/ \E y \in Puts : y.from = r /\ SignalOf(p, w, i) = OpOf(y)
                  \/ Fenced(r, SignalOf(p, w, i)))
    BY <2>2, <1>3, <1>4, WireShrinks
  <2>4. Fenced(r, SignalOf(p, w, i)) BY <2>3, SignalFacts
  <2>5. SignalOf(p, w, i).task = <<"send", w, i>> BY SignalFacts
  <2>6. OpOf(x).rows # {} /\ OpOf(x).to = x.to /\ OpOf(x).task = <<"send", w, i>>
    BY <1>3, OpFacts
  <2>7. i \in Int
    <3>1. Exchange.splits \in Int /\ Exchange.nodes \in Int BY SoundFacts DEF Numbers
    <3>2. Exchange.nodes * Exchange.splits \in Int BY <3>1
    <3> QED BY <1>3, <3>1, <3>2 DEF Steps
  <2>8. i <= i BY <2>7
  <2> QED BY <2>3, <2>4, <2>5, <2>6, <2>8, <1>3, <1>5 DEF Fenced
<1>6. CASE OpOf(x) \notin wire[p]
  <2>1. p = r /\ Does(r, TaskOf(x)) /\ Stages[stage[r]] = Kernel(x)
    BY <1>2, <1>3, <1>6, WireGrows
  <2>2. Stages[stage[r]] = "dispatch" BY <2>1, <1>2, TaskTags
  <2>3. Does(r, <<"send", w, i>>) BY <2>1, <1>3
  <2> QED BY <2>1, <2>2, <2>3, <1>3, <1>4, NewInWire
<1> QED BY <1>5, <1>6

\* Every step keeps the copies of indices in front of their puts.
LEMMA IndicesStayCopied ==
    ASSUME Sound(Exchange), StreamsInOrder, Shapes, IndicesCopied, exchange' = exchange,
           NEW r \in World, Moves(r)
    PROVE  IndicesCopied'
<1>1. World' = World /\ Copiers' = Copiers /\ Stages' = Stages BY Fixed
<1>2. SUFFICES ASSUME NEW p \in World, NEW q \in World, NEW c \in Copiers,
                      Stages[stage'[p]] = "indices", <<"put", q>> \in did'[p]
               PROVE  <<"copy", c>> \in did'[p]
  BY <1>1 DEF IndicesCopied
<1>3. CASE GoesOn(r)
  <2>1. Advances(r) BY <1>3, MovesKinds
  <2>2. p # r /\ did'[p] = did[p] BY <2>1, <1>2 DEF Advances, Shapes
  <2>3. stage'[p] = stage[p] BY <2>1, <2>2, OthersStay
  <2> QED BY <1>2, <2>2, <2>3 DEF IndicesCopied
<1>4. CASE Stops(r) \/ DeliversPut(r) \/ DeliversSignal(r)
  <2>1. did' = did /\ stage' = stage BY <1>4 DEF Stops, Arrives, Arrive, DeliversPut, DeliversSignal, MayArrive
  <2> QED BY <2>1, <1>2 DEF IndicesCopied
<1>5. ASSUME NEW task, Does(r, task)
      PROVE  stage' = stage /\ did'[p] = IF p = r THEN did[r] \cup {task} ELSE did[p]
  BY <1>5 DEF Does, Shapes
<1>6. ASSUME NEW task, Does(r, task),
             task[1] = "put" /\ Stages[stage[r]] = "indices" => \A d \in Copiers : <<"copy", d>> \in did[r]
      PROVE  <<"copy", c>> \in did'[p]
  <2>1. CASE <<"put", q>> \in did[p] BY <2>1, <1>5, <1>6, <1>2 DEF IndicesCopied
  <2>2. CASE <<"put", q>> \notin did[p]
    <3>3. did'[p] = IF p = r THEN did[r] \cup {task} ELSE did[p] BY <1>5, <1>6
    <3>4. p # r => did'[p] = did[p] BY <3>3
    <3>5. p = r => did'[p] = did[p] \cup {task} BY <3>3
    <3>6. p = r BY <3>4, <2>2, <1>2
    <3>7. task = <<"put", q>> BY <3>5, <3>6, <2>2, <1>2
    <3>1. p = r /\ task = <<"put", q>> BY <3>6, <3>7
    <3>2. task[1] = "put" BY <3>1
    <3> QED BY <3>1, <3>2, <1>2, <1>5, <1>6
  <2> QED BY <2>1, <2>2
<1>7. CASE PutsIndices(r)
  <2>1. PICK d \in World \ {r} : /\ Does(r, <<"put", d>>)
                                 /\ \A e \in Copiers : <<"copy", e>> \in did[r]
    BY <1>7 DEF PutsIndices
  <2>2. PICK task : task = <<"put", d>> OBVIOUS
  <2> QED BY <2>1, <2>2, <1>6
<1>8. CASE PutsSegment(r)
  <2>1. PICK d \in World : In(r, "exchange") /\ Does(r, <<"put", d>>) BY <1>8 DEF PutsSegment
  <2>2. PICK task : task = <<"put", d>> OBVIOUS
  <2>3. Stages[stage[r]] # "indices" BY <2>1 DEF In, Stages
  <2> QED BY <2>1, <2>2, <2>3, <1>6
<1>9. CASE Sends(r)
  <2>1. PICK w \in Senders, i \in Steps("send") : Does(r, <<"send", w, i>>) BY <1>9 DEF Sends
  <2>2. PICK task : task = <<"send", w, i>> OBVIOUS
  <2> QED BY <2>1, <2>2, <1>6
<1>10. CASE Dispatches(r)
  <2>1. PICK w \in Dispatchers, i \in Steps("dispatch") : Does(r, <<"dispatch", w, i>>)
    BY <1>10 DEF Dispatches
  <2>2. PICK task : task = <<"dispatch", w, i>> OBVIOUS
  <2> QED BY <2>1, <2>2, <1>6
<1>11. CASE CopiesIndex(r)
  <2>1. PICK d \in Copiers : Does(r, <<"copy", d>>) BY <1>11 DEF CopiesIndex
  <2>2. PICK task : task = <<"copy", d>> OBVIOUS
  <2> QED BY <2>1, <2>2, <1>6
<1>12. CASE SumsBlock(r)
  <2>1. PICK n, b : Does(r, <<"sums", n, b>>) BY <1>12 DEF SumsBlock
  <2>2. PICK task : task = <<"sums", n, b>> OBVIOUS
  <2> QED BY <2>1, <2>2, <1>6
<1>13. CASE SumsToken(r)
  <2>1. PICK d, t : Does(r, <<"sum", d, t>>) BY <1>13 DEF SumsToken
  <2>2. PICK task : task = <<"sum", d, t>> OBVIOUS
  <2> QED BY <2>1, <2>2, <1>6
<1> QED BY <1>3, <1>4, <1>7, <1>8, <1>9, <1>10, <1>11, <1>12, <1>13 DEF Moves

-----------------------------------------------------------------------------
(* What a task finds in the buffers. *)

\* While a rank is in a stage, it is not past it.
LEMMA Once ==
    ASSUME Sound(Exchange), InOrder(Exchange), StreamsInOrder, NEW r \in World,
           NEW k, k \notin Barriers, Stages[stage[r]] = k
    PROVE  ~Past(r, k) /\ Pos(k) = {stage[r]}
<1>1. stage[r] \in 1..Len(Stages) /\ DOMAIN Stages = 1..Len(Stages) BY StreamFacts
<1>2. \A i \in Pos(k) : i = stage[r]
  BY <1>1 DEF InOrder, Pos, StagesOf, Stages, Barriers
<1>3. stage[r] \in Pos(k) BY <1>1 DEF Pos, StagesOf
<1> QED BY <1>1, <1>2, <1>3 DEF Past

\* What is copied or computed first is behind the rank when its kernel begins.
LEMMA BehindFacts ==
    ASSUME Sound(Exchange), InOrder(Exchange), StreamsInOrder, NEW r \in World,
           NEW a, NEW k, <<a, k>> \in {<<"copy", "dispatch">>, <<"segments", "exchange">>,
                                       <<"experts", "combine">>},
           Begun(r, k)
    PROVE  Past(r, a) /\ Stages[stage[r]] # a
<1>1. stage[r] \in 1..Len(Stages) /\ DOMAIN Stages = 1..Len(Stages) BY StreamFacts
<1>2. a \notin Barriers BY DEF Barriers
<1>3. Behind(Stages, a, k) BY DEF InOrder, Stages
<1>4. PICK j \in Pos(k) : j <= stage[r] BY DEF Begun
<1>5. PICK i \in Pos(a) : i < j BY <1>3, <1>4 DEF Behind, Pos
<1>6. i \in 1..Len(Stages) /\ j \in 1..Len(Stages) BY <1>1, <1>4, <1>5 DEF Pos, StagesOf
<1>7. Past(r, a) BY <1>1, <1>4, <1>5, <1>6 DEF Past
<1> QED BY <1>2, <1>7, Once

\* A rank in its dispatch has not zeroed the signals of this forward.
LEMMA NotZeroedYet ==
    ASSUME Sound(Exchange), InOrder(Exchange), StreamsInOrder,
           NEW q \in World, Stages[stage[q]] = "dispatch"
    PROVE  ~Past(q, "zero")
<1>1. Pos("dispatch") = {stage[q]} BY Once DEF Barriers
<1>2. stage[q] \in 1..Len(Stages) /\ DOMAIN Stages = 1..Len(Stages) BY StreamFacts
<1>3. PICK z \in Pos("zero") : stage[q] < z
  BY <1>1 DEF InOrder, Pos, Stages
<1>4. \A y \in Pos("zero") : y = z
  BY <1>3 DEF InOrder, Pos, StagesOf, Stages
<1>5. z \in 1..Len(Stages) BY <1>2, <1>3 DEF Pos, StagesOf
<1> QED BY <1>2, <1>3, <1>4, <1>5 DEF Past

\* With all signals there, the rows of the peer are those of this forward.
LEMMA AllHeard ==
    ASSUME Sound(Exchange), InOrder(Exchange), StreamsInOrder, SignalsCounted,
           NEW p \in World, NEW i \in Steps("send"), NEW q \in World, q = PeerOf(p, i),
           Stages[stage[q]] = "dispatch", AllSignalled(q, Split(i), NodeOf(p))
    PROVE  forward[p] = forward[q] /\ GotOf(p, i) = Senders
<1>1. Exchange.senders \in Nat \ {0} BY SoundFacts DEF Numbers
<1>2. forward[p] = Zeroed(q) /\ Cardinality(GotOf(p, i)) = Exchange.senders
  BY <1>1 DEF SignalsCounted, AllSignalled
<1>3. IsFiniteSet(Senders) /\ Cardinality(Senders) = Exchange.senders
  BY <1>1, UpTo DEF Senders
<1>4. GotOf(p, i) \subseteq Senders BY DEF GotOf
<1>5. GotOf(p, i) = Senders BY <1>2, <1>3, <1>4, FS_Subset
<1>6. ~Past(q, "zero") BY NotZeroedYet
<1> QED BY <1>2, <1>5, <1>6 DEF Zeroed

\* What has been done has been begun.
LEMMA DidBegun ==
    ASSUME Sound(Exchange), StreamsInOrder, NEW r \in World, NEW k, NEW t, DidTask(r, k, t)
    PROVE  Begun(r, k) /\ Pos(k) # {}
<1>1. stage[r] \in 1..Len(Stages) /\ DOMAIN Stages = 1..Len(Stages) BY StreamFacts
<1>2. \A i \in Pos(k) : i \in Nat BY <1>1 DEF Pos, StagesOf
<1>3. CASE Past(r, k)
  <2>1. PICK i \in Pos(k) : i < stage[r] BY <1>3 DEF Past
  <2>2. i <= stage[r] BY <1>1, <1>2, <2>1
  <2> QED BY <2>1, <2>2 DEF Begun
<1>4. CASE Stages[stage[r]] = k
  <2>1. stage[r] \in Pos(k) /\ stage[r] <= stage[r] BY <1>1, <1>4 DEF Pos, StagesOf
  <2> QED BY <2>1 DEF Begun
<1> QED BY <1>3, <1>4 DEF DidTask

\* The tokens that a warp dispatches are there.
LEMMA RowsCame ==
    ASSUME Sound(Exchange), InOrder(Exchange), StreamsInOrder, SignalsCounted, RowsBeforeSignals,
           TargetsStand, NEW r \in World, In(r, "dispatch"),
           NEW x \in Puts, x.kind = "rows", x.from = r, NEW i, i = TaskOf(x)[3],
           NEW n, n = NodeOf(x.of), n # NodeOf(r), AllSignalled(r, Split(i), n)
    PROVE  Held(r, Source(x)) = Content(forward[r] + 1, x)
<1> DEFINE p == x.of
           s == SplitOf(p, x.item)
<1>1. Numbers BY SoundFacts
<1>2. /\ p \in World /\ x.item \in Nat /\ r = RailOf(p, NodeOf(r))
      /\ i = StepOf(n, NodeOf(r), s) /\ s \in Splits /\ x.item \in Wanted(p, NodeOf(r))
  BY PutFacts, TaskFacts
<1>3. n \in Nodes /\ NodeOf(r) \in Nodes BY <1>1, <1>2, RankFacts
<1>4. i \in Steps("send") /\ Split(i) = s /\ (n + NodeOffset(i)) % Exchange.nodes = NodeOf(r)
  BY <1>1, <1>2, <1>3, StepFacts
<1>5. PeerOf(p, i) = r BY <1>2, <1>4 DEF PeerOf
<1>6. forward[p] = forward[r] /\ GotOf(p, i) = Senders
  BY <1>2, <1>4, <1>5, AllHeard DEF In, Stages
<1> DEFINE y == [kind |-> "send", from |-> p, to |-> r, of |-> p, item |-> x.item]
<1>7. y \in Puts
  <2>1. y \in [kind : Kinds, from : World, to : World, of : World, item : Nat]
    BY <1>2 DEF Kinds
  <2>2. y.kind = "send" /\ y.from = p /\ y.to = r /\ y.of = p /\ y.item = x.item OBVIOUS
  <2> HIDE DEF y
  <2> QED BY <2>1, <2>2, <1>2 DEF Puts
<1>8. y.kind = "send" /\ y.from = p /\ y.to = r /\ y.of = p /\ y.item = x.item OBVIOUS
<1> HIDE DEF y
<1>9. PICK w \in Senders : TaskOf(y) = <<"send", w, i>>
  BY <1>2, <1>7, <1>8, TaskFacts
<1>10. w \in GotOf(p, i) BY <1>6, <1>9
<1>11. DidTask(p, "dispatch", <<"send", w, i>>) /\ SignalOf(p, w, i) \notin wire[p]
  BY <1>10 DEF GotOf
<1>12. Kernel(y) = "dispatch" BY <1>7, <1>8, TaskTags
<1>13. IsDone(y) BY <1>8, <1>9, <1>11, <1>12 DEF IsDone
<1>14. OpOf(y) \notin wire[p] BY <1>7, <1>8, <1>9, <1>11, <1>13 DEF RowsBeforeSignals
<1>15. Begun(p, "dispatch") /\ Pos("dispatch") # {} BY <1>2, <1>11, DidBegun
<1>16. Round(p, "dispatch") = forward[p] + 1 /\ forward[p] \in Nat
  BY <1>2, <1>15, StreamFacts DEF Round
<1>17. Landed(y) BY <1>8, <1>12, <1>13, <1>14, <1>15, <1>16 DEF Landed
<1>18. Held(r, Target(y)) = Content(forward[p] + 1, y)
  BY <1>7, <1>8, <1>12, <1>16, <1>17 DEF TargetsStand
<1>19. Target(y) = Source(x) BY <1>8, SourceTarget
<1> QED BY <1>6, <1>8, <1>18, <1>19 DEF Content

\* The results that a rank of several nodes sums up are those of its own forward.
LEMMA SumRight ==
    ASSUME Sound(Exchange), InOrder(Exchange), StreamsInOrder, BarriersHold, ResultsOfExperts,
           NEW r \in World, In(r, "combine"), Exchange.nodes > 1,
           NEW q \in World, NEW t \in Wanted(q, NodeOf(r))
    PROVE  Sum(q, t, NodeOf(r)) = <<forward[r] + 1, q, t>>
<1> DEFINE v == <<forward[r] + 1, q, t>>
<1>1. /\ forward[r] \in Nat /\ stage[r] \in 1..Len(Stages) /\ DOMAIN Stages = 1..Len(Stages)
      /\ Stages[stage[r]] = "combine"
  BY StreamFacts DEF In, Stages
<1>2. stage[r] \in Pos("combine") BY <1>1 DEF Pos, StagesOf
<1>3. PICK e \in Pos("experts") : e < stage[r]
  BY <1>2 DEF InOrder, Behind, Pos, Stages
<1>4. PICK m \in Pos("node") : e < m /\ m < stage[r]
  BY <1>2, <1>3 DEF InOrder, Pos, Stages
<1>5. PICK b \in Pos("team") : stage[r] < b
  BY <1>2, KernelFacts DEF Kernels
<1>6. e \in Nat /\ m \in Nat /\ b \in Nat BY <1>1, <1>3, <1>4, <1>5 DEF Pos, StagesOf
<1>7. ASSUME NEW p \in Hits(q, t, NodeOf(r))
      PROVE  Held(p, <<"act", q, t>>) = v
  <2>1. p \in World /\ p \in Experts(q, t) /\ p \in Members(r, "node")
    BY MembersFacts DEF Hits, NodeRanks
  <2>2. forward[p] \in Nat /\ stage[p] \in 1..Len(Stages) BY <2>1, StreamFacts
  <2>3. forward[r] < forward[p] \/ (forward[r] = forward[p] /\ (m < stage[p] \/ m = stage[p]))
    BY <1>1, <1>4, <2>1, Ahead DEF Barriers
  <2>4. ~(forward[r] < forward[p])
    <3> SUFFICES ASSUME forward[r] < forward[p] PROVE FALSE OBVIOUS
    <3>1. r \in Members(p, "team") BY <2>1, MembersFacts
    <3>2. \/ forward[r] < forward[r]
          \/ forward[r] = forward[r] /\ (b < stage[r] \/ b = stage[r])
      BY <1>1, <1>5, <2>1, <3>1, Ahead DEF Barriers
    <3> QED BY <3>2, <1>1, <1>5, <1>6
  <2>5. forward[p] = forward[r] /\ e < stage[p] BY <2>2, <2>3, <2>4, <1>1, <1>4, <1>6
  <2>6. Past(p, "experts") BY <2>5, <1>3 DEF Past
  <2>7. <<q, t>> \in AllTokens
    BY WantedFacts DEF AllTokens, Wanted
  <2>8. p \in Experts(<<q, t>>[1], <<q, t>>[2]) BY <2>1
  <2>9. Held(p, <<"act", <<q, t>>[1], <<q, t>>[2]>>) = <<forward[p] + 1, <<q, t>>[1], <<q, t>>[2]>>
    BY <2>1, <2>6, <2>7, <2>8, <1>3 DEF ResultsOfExperts
  <2> QED BY <2>5, <2>9
<1>8. {Held(p, <<"act", q, t>>) : p \in Hits(q, t, NodeOf(r))} = {v}
  <2>1. Hits(q, t, NodeOf(r)) # {} BY DEF Wanted
  <2> QED BY <2>1, <1>7
<1>9. Cardinality({v}) = 1 BY FS_Singleton
<1>10. (CHOOSE x \in {v} : TRUE) = v OBVIOUS
<1> QED BY <1>8, <1>9, <1>10 DEF Sum

\* What is in flight keeps its source.
LEMMA SourceKept ==
    ASSUME Sound(Exchange), InOrder(Exchange), StreamsInOrder, BarriersHold, Shapes,
           IndicesCopied, WireOpen, SourcesStand, exchange' = exchange,
           NEW r \in World, Moves(r), NEW x \in Puts, OpOf(x) \in wire[x.from],
           NEW p, p = x.from, NEW src, src = Source(x)
    PROVE  Held(p, src)' = Content(forward[p] + 1, x)
<1>1. Held(p, src) = Content(forward[p] + 1, x) BY DEF SourcesStand
<1>2. mem' = mem => Held(p, src)' = Held(p, src) BY DEF Held
<1>3. /\ p \in World /\ Open(p, Kernel(x)) /\ IsDone(x) /\ Begun(p, Kernel(x))
      /\ Kernel(x) = KernelOf(x.kind) /\ x.kind \in Kinds /\ x.to \in World /\ x.of \in World
      /\ Kernel(x) \in Kernels
  BY PutFacts, TaskTags DEF WireOpen, Open
<1>4. ASSUME NEW q \in World, NEW f, Updated(q, f), p = q => src \notin DOMAIN f
      PROVE  Held(p, src)' = Held(p, src)
  BY <1>3, <1>4 DEF Updated
<1>5. Numbers BY SoundFacts
<1>6. CASE Copies(r)
  <2>1. PICK f : /\ Updated(r, f)
                 /\ \/ /\ Stages[stage[r]] = "copy"
                       /\ DOMAIN f = {<<"in", NodeOf(r), t>> : t \in Tokens(r)}
                    \/ /\ Stages[stage[r]] = "segments"
                       /\ DOMAIN f = {<<"segment", q>> : q \in World}
                    \/ /\ Stages[stage[r]] = "experts"
                       /\ DOMAIN f = {<<"act", y[1], y[2]>> : y \in {z \in AllTokens : r \in Experts(z[1], z[2])}}
    BY <1>6 DEF Copies
  <2>2. SUFFICES ASSUME p = r, src \in DOMAIN f PROVE FALSE BY <2>1, <1>1, <1>4
  <2>3. Stages[stage[r]] = "copy" => ~Begun(r, "dispatch") BY BehindFacts
  <2>4. Stages[stage[r]] = "segments" => ~Begun(r, "exchange") BY BehindFacts
  <2>5. CASE x.kind = "send" \/ x.kind = "rows"
    <3>1. Kernel(x) = "dispatch" BY <2>5, TaskTags
    <3>2. src[1] = "in" BY <2>5, SourceTarget
    <3>3. Stages[stage[r]] = "copy" BY <2>1, <2>2, <3>2
    <3> QED BY <3>1, <3>3, <2>2, <2>3, <1>3
  <2>6. CASE x.kind = "exchange"
    <3>1. Kernel(x) = "exchange" BY <2>6, TaskTags
    <3>2. src[1] = "segment" BY <2>6, SourceTarget
    <3>3. Stages[stage[r]] = "segments" BY <2>1, <2>2, <3>2
    <3> QED BY <3>1, <3>3, <2>2, <2>4, <1>3
  <2>7. CASE x.kind = "indices" \/ x.kind = "sums"
    <3>1. src[1] = "index" \/ src[1] = "red" BY <2>7, SourceTarget
    <3> QED BY <2>1, <2>2, <3>1
  <2> QED BY <2>5, <2>6, <2>7, <1>3 DEF Kinds
<1>7. CASE CopiesIndex(r)
  <2>1. PICK c \in Copiers : /\ In(r, "indices") /\ Does(r, <<"copy", c>>)
                             /\ Updated(r, [y \in {<<"index", r, c>>} |-> <<forward[r] + 1, r, c>>])
    BY <1>7 DEF CopiesIndex
  <2>2. ASSUME p = r, src = <<"index", r, c>> PROVE FALSE
    <3>1. src[1] = "index" BY <2>2
    <3>2. x.kind = "indices" BY <3>1, <1>3, SourceTarget DEF Kinds
    <3>3. Kernel(x) = "indices" /\ TaskOf(x) = <<"put", x.to>> BY <3>2, TaskTags, TaskFacts
    <3>4. Stages[stage[r]] = "indices" BY <2>1 DEF In, Stages
    <3>5. ~Past(r, "indices") BY <3>4, Once DEF Barriers
    <3>6. <<"put", x.to>> \in did[r] BY <3>3, <3>5, <1>3, <2>2 DEF IsDone, DidTask
    <3>7. <<"copy", c>> \in did[r] BY <3>4, <3>6, <1>3 DEF IndicesCopied
    <3> QED BY <3>7, <2>1 DEF Does
  <2>3. DOMAIN [y \in {<<"index", r, c>>} |-> <<forward[r] + 1, r, c>>] = {<<"index", r, c>>}
    OBVIOUS
  <2> QED BY <2>1, <2>2, <2>3, <1>1, <1>4
<1>8. CASE SumsBlock(r)
  <2>1. PICK n, b, f :
            /\ n \in Nodes /\ In(r, "combine") /\ Does(r, <<"sums", n, b>>)
            /\ WritesSums(r, n, b, f)
    BY <1>8 DEF SumsBlock
  <2>2. ASSUME p = r, src \in DOMAIN f PROVE FALSE
    <3>1. PICK t \in SumTokens(r, n, b) : src = SumPlace(r, n, t) BY <2>1, <2>2 DEF WritesSums
    <3>2. src[1] \in {"sum", "red"} BY <3>1 DEF SumPlace
    <3>3. x.kind = "sums" BY <3>2, <1>3, SourceTarget DEF Kinds
    <3>4. src = <<"red", NodeOf(x.to), SumRow(x.to, NodeOf(r), x.item)>> BY <3>3, <2>2, SourceTarget
    <3>5. n = NodeOf(x.to) /\ SumRow(RailOf(r, n), NodeOf(r), t) = SumRow(x.to, NodeOf(r), x.item)
      BY <3>1, <3>4 DEF SumPlace
    <3>6. r = RailOf(x.to, NodeOf(r)) /\ x.item \in Wanted(x.to, NodeOf(r))
      BY <3>3, <2>2, PutFacts
    <3>7. NodeOf(r) \in Nodes /\ NodeOf(x.to) \in Nodes BY <1>3, <1>5, RankFacts
    <3>8. RailOf(r, n) = x.to
      <4>1. RailOf(RailOf(x.to, NodeOf(r)), NodeOf(x.to)) = RailOf(x.to, NodeOf(x.to))
        BY <1>3, <1>5, <3>7, RailRail
      <4>2. RailOf(x.to, NodeOf(x.to)) = x.to BY <1>3, <1>5, <3>7, RailRail
      <4> QED BY <4>1, <4>2, <3>5, <3>6
    <3>9. t \in Wanted(x.to, NodeOf(r)) /\ BlockOf(t) = b BY <3>8 DEF SumTokens
    <3>10. t = x.item BY <3>5, <3>6, <3>7, <3>8, <3>9, <1>3, SumRowInjective
    <3>11. TaskOf(x) = <<"sums", n, b>> BY <3>3, <3>5, <3>9, <3>10, TaskFacts
    <3>12. Kernel(x) = "combine" BY <3>3, TaskTags
    <3>13. ~Past(r, "combine") BY <2>1, Once DEF Barriers, In, Stages
    <3>14. <<"sums", n, b>> \in did[r] BY <3>11, <3>12, <3>13, <1>3, <2>2 DEF IsDone, DidTask
    <3> QED BY <3>14, <2>1 DEF Does
  <2>3. Updated(r, f) BY <2>1 DEF WritesSums
  <2> QED BY <2>2, <2>3, <1>1, <1>4
<1>9. CASE SumsToken(r)
  <2>1. PICK q, t : q \in World /\ Updated(q, [y \in {<<"sum", r, t>>} |-> Held(r, <<"act", q, t>>)])
    BY <1>9 DEF SumsToken
  <2>2. src # <<"sum", r, t>>
    <3>1. src[1] # "sum" BY <1>3, SourceTarget DEF Kinds
    <3> QED BY <3>1
  <2>3. src \notin DOMAIN [y \in {<<"sum", r, t>>} |-> Held(r, <<"act", q, t>>)] BY <2>2
  <2> QED BY <2>1, <2>3, <1>1, <1>4
<1>10. CASE DeliversPut(r)
  <2>1. PICK y, f :
            /\ y \in Puts /\ y.from = r /\ OpOf(y) \in wire[r] /\ Updated(y.to, f)
            /\ DOMAIN f = {Target(z) : z \in {z \in Puts : Together(z, y)}}
            /\ \A z \in Puts : Together(z, y) => f[Target(z)] = Held(r, Source(z))
    BY <1>10 DEF DeliversPut
  <2>2. y.to \in World BY <2>1, PutFacts
  <2>3. CASE p # y.to \/ src \notin DOMAIN f BY <2>1, <2>2, <2>3, <1>1, <1>4
  <2>4. CASE p = y.to /\ src \in DOMAIN f
    <3>1. PICK z \in Puts : Together(z, y) /\ src = Target(z) BY <2>1, <2>4
    <3>2. OpOf(z) = OpOf(y) BY <3>1, <2>1, SameOp DEF Together
    <3>3. /\ z.from = r /\ z.to = p /\ z.kind \in Kinds /\ OpOf(z) \in wire[r]
          /\ Kernel(z) \in Kernels /\ z.of \in World /\ z.item \in Nat
      BY <3>1, <3>2, <2>1, <2>4, PutFacts, TaskTags DEF Together
    <3>4. Held(p, src)' = f[src] BY <2>1, <2>4, <1>3 DEF Updated
    <3>5. f[src] = Held(r, Source(z)) BY <2>1, <3>1
    <3>6. Held(r, Source(z)) = Content(forward[r] + 1, z) BY <3>3 DEF SourcesStand
    <3>7. z.kind # "exchange" /\ z.kind # "rows" /\ z.kind # "sums"
      <4>1. src[1] \in {"segment", "index", "in", "red"} BY <1>3, SourceTarget DEF Kinds
      <4>2. z.kind = "exchange" => src[1] = "got" BY <3>1, SourceTarget
      <4>3. z.kind = "rows" => src[1] = "out" BY <3>1, SourceTarget
      <4>4. z.kind = "sums" => src[1] = "sum" BY <3>1, SourceTarget
      <4> QED BY <4>1, <4>2, <4>3, <4>4
    <3>8. z.kind # "indices"
      <4> SUFFICES ASSUME z.kind = "indices" PROVE FALSE OBVIOUS
      <4>1. src = <<"index", z.from, z.item>> BY <3>1, SourceTarget
      <4>5. src[1] = "index" BY <4>1
      <4>2. x.kind = "indices" BY <4>5, <1>3, SourceTarget DEF Kinds
      <4>3. src = <<"index", x.from, x.item>> BY <4>2, SourceTarget
      <4>4. z.from = p BY <4>1, <4>3
      <4> QED BY <4>4, <3>3, PutFacts
    <3>9. z.kind = "send" BY <3>3, <3>7, <3>8 DEF Kinds
    <3>10. /\ src = <<"in", NodeOf(r), z.item>> /\ z.of = r /\ NodeOf(p) # NodeOf(r)
           /\ p = RailOf(r, NodeOf(p))
      BY <3>1, <3>3, <3>9, SourceTarget, PutFacts
    <3>11. x.kind = "rows"
      <4>1. src[1] = "in" BY <3>10
      <4>2. x.kind = "send" \/ x.kind = "rows" BY <4>1, <1>3, SourceTarget DEF Kinds
      <4>3. x.kind = "send" => src = <<"in", NodeOf(p), x.item>> BY SourceTarget
      <4>4. x.kind = "send" => NodeOf(p) = NodeOf(r) BY <4>3, <3>10
      <4> QED BY <4>2, <4>4, <3>10
    <3>12. src = <<"in", NodeOf(x.of), x.item>> /\ p = RailOf(x.of, NodeOf(p))
      BY <3>11, SourceTarget, PutFacts
    <3>13. NodeOf(x.of) = NodeOf(r) /\ x.item = z.item BY <3>10, <3>12
    <3>14. x.of = r
      <4>1. NodeOf(p) \in Nodes /\ NodeOf(r) \in Nodes BY <1>3, <1>5, RankFacts
      <4>2. RailOf(RailOf(x.of, NodeOf(p)), NodeOf(r)) = RailOf(x.of, NodeOf(r))
        BY <4>1, <1>3, <1>5, RailRail
      <4>3. RailOf(RailOf(r, NodeOf(p)), NodeOf(r)) = RailOf(r, NodeOf(r))
        BY <4>1, <1>5, RailRail
      <4>4. RailOf(x.of, NodeOf(x.of)) = x.of /\ RailOf(r, NodeOf(r)) = r
        BY <4>1, <3>13, <1>3, <1>5, RailRail
      <4>5. RailOf(x.of, NodeOf(r)) = x.of BY <4>4, <3>13
      <4>6. RailOf(p, NodeOf(r)) = RailOf(RailOf(x.of, NodeOf(p)), NodeOf(r)) BY <3>12
      <4>7. RailOf(p, NodeOf(r)) = RailOf(RailOf(r, NodeOf(p)), NodeOf(r)) BY <3>10
      <4> QED BY <4>2, <4>3, <4>4, <4>5, <4>6, <4>7
    <3>15. forward[r] = forward[p]
      <4>1. Kernel(z) = "dispatch" /\ Kernel(x) = "dispatch" BY <3>9, <3>11, TaskTags
      <4>2. Open(r, "dispatch") BY <4>1, <3>3 DEF WireOpen
      <4>3. Open(p, "dispatch") BY <4>1, <1>3
      <4>4. Begun(r, "dispatch") /\ Begun(p, "dispatch") BY <4>2, <4>3 DEF Open
      <4> QED BY <4>2, <4>3, <4>4, <1>3, SameForward DEF Kernels
    <3> QED BY <3>4, <3>5, <3>6, <3>10, <3>13, <3>14, <3>15 DEF Content
  <2> QED BY <2>3, <2>4
<1>11. mem' = mem \/ Copies(r) \/ CopiesIndex(r) \/ SumsBlock(r) \/ SumsToken(r) \/ DeliversPut(r)
  BY DEF Moves, GoesOn, Stops, Sends, Dispatches, PutsSegment, PutsIndices, DeliversSignal
<1> QED BY <1>1, <1>2, <1>6, <1>7, <1>8, <1>9, <1>10, <1>11

\* What is put has its source.
LEMMA NewSource ==
    ASSUME Sound(Exchange), InOrder(Exchange), StreamsInOrder, BarriersHold, Shapes, WireKnown,
           CopiesStand, ResultsOfExperts, SignalsCounted, RowsBeforeSignals, TargetsStand,
           exchange' = exchange,
           NEW r \in World, Moves(r), NEW x \in Puts, x.from = r,
           OpOf(x) \in wire'[r], OpOf(x) \notin wire[r], NEW src, src = Source(x)
    PROVE  Held(r, src)' = Content(forward[r] + 1, x)
<1>1. Does(r, TaskOf(x)) /\ Stages[stage[r]] = Kernel(x) BY WireGrows
<1>2. mem' = mem => Held(r, src)' = Held(r, src) BY DEF Held
<1>3. /\ Kernel(x) = KernelOf(x.kind) /\ x.kind \in Kinds /\ x.to \in World /\ x.of \in World
      /\ Kernel(x) \in Kernels /\ Begun(r, Kernel(x)) /\ x.item \in Nat
  BY <1>1, PutFacts, TaskTags, InKernelOpen
<1>4. ~GoesOn(r) /\ ~Stops(r) BY WireStep
<1>5. ~DeliversPut(r) /\ ~DeliversSignal(r)
  <2>1. did'[r] # did[r] BY <1>1 DEF Does, Shapes
  <2> QED BY <2>1 DEF DeliversPut, DeliversSignal
<1>6. CASE Sends(r)
  <2>1. PICK w \in Senders, i \in Steps("send") :
            In(r, "dispatch") /\ Does(r, <<"send", w, i>>) /\ mem' = mem
    BY <1>6 DEF Sends
  <2>2. TaskOf(x) = <<"send", w, i>> /\ Kernel(x) = "dispatch"
    BY <2>1, NewInWire DEF In, Stages
  <2>3. TaskOf(x)[1] = "send" BY <2>2
  <2>4. x.kind = "send" BY <2>2, <2>3, TaskTags
  <2>5. src = <<"in", NodeOf(r), x.item>> /\ x.item \in Tokens(r) /\ x.of = r
    BY <2>4, SourceTarget, TaskFacts, PutFacts
  <2>6. Past(r, "copy") BY <2>2, <1>3, BehindFacts
  <2>7. Held(r, src) = <<forward[r] + 1, r, x.item>> BY <2>5, <2>6 DEF CopiesStand
  <2> QED BY <2>1, <2>5, <2>7, <1>2 DEF Content
<1>7. CASE Dispatches(r)
  <2>1. PICK w \in Dispatchers, i \in Steps("dispatch") :
            /\ In(r, "dispatch") /\ Does(r, <<"dispatch", w, i>>) /\ mem' = mem
            /\ LET n == (NodeOf(r) + Exchange.nodes - NodeOffset(i)) % Exchange.nodes
               IN  n = NodeOf(r) \/ AllSignalled(r, Split(i), n)
    BY <1>7 DEF Dispatches
  <2>2. TaskOf(x) = <<"dispatch", w, i>> /\ Kernel(x) = "dispatch"
    BY <2>1, NewInWire DEF In, Stages
  <2>3. TaskOf(x)[1] = "dispatch" BY <2>2
  <2>4. x.kind = "rows" BY <2>2, <2>3, TaskTags
  <2>5. Numbers BY SoundFacts
  <2>6. PICK n, s : /\ n = NodeOf(x.of) /\ s = SplitOf(x.of, x.item) /\ s \in Splits
                    /\ i = StepOf(n, NodeOf(r), s)
    BY <2>2, <2>4, TaskFacts
  <2>7. n \in Nodes /\ NodeOf(r) \in Nodes BY <2>5, <2>6, <1>3, RankFacts
  <2>8. (NodeOf(r) + Exchange.nodes - NodeOffset(i)) % Exchange.nodes = n
    BY <2>5, <2>6, <2>7, StepFacts
  <2>9. n = NodeOf(r) \/ AllSignalled(r, Split(i), n) BY <2>1, <2>8
  <2>10. CASE n = NodeOf(r)
    <3>1. r = RailOf(x.of, NodeOf(x.of)) BY <2>4, <2>6, <2>10, PutFacts
    <3>2. x.of = r BY <3>1, <2>5, <2>6, <2>7, <1>3, RailRail
    <3>3. src = <<"in", NodeOf(r), x.item>> /\ x.item \in Tokens(r)
      BY <3>2, <2>4, SourceTarget, PutFacts
    <3>4. Past(r, "copy") BY <2>2, <1>3, BehindFacts
    <3>5. Held(r, src) = <<forward[r] + 1, r, x.item>> BY <3>3, <3>4 DEF CopiesStand
    <3> QED BY <2>1, <3>2, <3>5, <1>2 DEF Content
  <2>11. CASE n # NodeOf(r)
    <3>1. i = TaskOf(x)[3] BY <2>2
    <3>2. Held(r, src) = Content(forward[r] + 1, x)
      BY <2>1, <2>4, <2>6, <2>9, <2>11, <3>1, RowsCame
    <3> QED BY <2>1, <3>2, <1>2
  <2> QED BY <2>10, <2>11
<1>8. CASE PutsSegment(r)
  <2>1. PICK q \in World : In(r, "exchange") /\ Does(r, <<"put", q>>) /\ mem' = mem
    BY <1>8 DEF PutsSegment
  <2>2. x.kind = "exchange" /\ Kernel(x) = "exchange" BY <2>1, <1>1, TaskTags DEF In, Stages
  <2>3. Past(r, "segments") BY <2>2, <1>3, BehindFacts
  <2>4. src = <<"segment", x.to>> /\ x.of = r /\ x.item = x.to BY <2>2, SourceTarget, PutFacts
  <2>5. Held(r, src) = <<forward[r] + 1, r, x.to>> BY <2>3, <2>4, <1>3 DEF CopiesStand
  <2> QED BY <2>1, <2>4, <2>5, <1>2 DEF Content
<1>9. CASE PutsIndices(r)
  <2>1. PICK q \in World \ {r} : /\ In(r, "indices") /\ Does(r, <<"put", q>>) /\ mem' = mem
                                 /\ \A c \in Copiers : <<"copy", c>> \in did[r]
    BY <1>9 DEF PutsIndices
  <2>2. x.kind = "indices" BY <2>1, <1>1, TaskTags DEF In, Stages
  <2>3. src = <<"index", r, x.item>> /\ x.of = r /\ x.item \in Copiers
    BY <2>2, SourceTarget, PutFacts
  <2>4. DidTask(r, "indices", <<"copy", x.item>>) BY <2>1, <2>3 DEF DidTask, In, Stages
  <2>5. Held(r, src) = <<forward[r] + 1, r, x.item>> BY <2>3, <2>4 DEF CopiesStand
  <2> QED BY <2>1, <2>3, <2>5, <1>2 DEF Content
<1>10. CASE CopiesIndex(r)
  <2>1. PICK c \in Copiers : In(r, "indices") /\ Does(r, <<"copy", c>>) BY <1>10 DEF CopiesIndex
  <2>2. PICK task : task = <<"copy", c>> OBVIOUS
  <2>3. TaskOf(x) = task /\ Kernel(x) = "indices" BY <2>1, <2>2, NewInWire DEF In, Stages
  <2>4. TaskOf(x)[1] = "put" BY <2>3, TaskTags
  <2> QED BY <2>2, <2>3, <2>4
<1>11. CASE SumsBlock(r)
  <2>1. PICK n, b, f :
            /\ n \in Nodes /\ In(r, "combine") /\ Exchange.nodes > 1 /\ Does(r, <<"sums", n, b>>)
            /\ WritesSums(r, n, b, f)
    BY <1>11 DEF SumsBlock
  <2>2. TaskOf(x) = <<"sums", n, b>> /\ Kernel(x) = "combine"
    BY <2>1, NewInWire DEF In, Stages
  <2>3. x.kind = "sums" BY <2>2, TaskTags
  <2>4. NodeOf(x.to) = n /\ BlockOf(x.item) = b
    <3>1. TaskOf(x) = <<"sums", NodeOf(x.to), BlockOf(x.item)>> BY <2>3, TaskFacts
    <3> QED BY <3>1, <2>2
  <2>5. /\ x.of = x.to /\ NodeOf(x.to) # NodeOf(r) /\ r = RailOf(x.to, NodeOf(r))
        /\ x.item \in Wanted(x.to, NodeOf(r))
    BY <2>3, PutFacts
  <2>6. Numbers BY SoundFacts
  <2>7. NodeOf(r) \in Nodes /\ NodeOf(x.to) \in Nodes BY <1>3, <2>6, RankFacts
  <2>8. RailOf(r, n) = x.to
    <3>1. RailOf(RailOf(x.to, NodeOf(r)), NodeOf(x.to)) = RailOf(x.to, NodeOf(x.to))
      BY <1>3, <2>6, <2>7, RailRail
    <3>2. RailOf(x.to, NodeOf(x.to)) = x.to BY <1>3, <2>6, <2>7, RailRail
    <3> QED BY <3>1, <3>2, <2>4, <2>5
  <2>9. x.item \in SumTokens(r, n, b) BY <2>4, <2>5, <2>8 DEF SumTokens
  <2>10. src = SumPlace(r, n, x.item)
    <3>1. src = <<"red", n, SumRow(x.to, NodeOf(r), x.item)>> BY <2>3, <2>4, SourceTarget
    <3>2. n # NodeOf(r) BY <2>4, <2>5
    <3>3. SumPlace(r, n, x.item) = <<"red", n, SumRow(x.to, NodeOf(r), x.item)>>
      BY <3>2, <2>8 DEF SumPlace
    <3> QED BY <3>1, <3>3
  <2>11. Held(r, src)' = f[src] BY <2>1, <2>9, <2>10 DEF Updated, WritesSums
  <2>12. f[src] = Sum(x.to, x.item, NodeOf(r)) BY <2>1, <2>8, <2>9, <2>10 DEF WritesSums
  <2>13. Sum(x.to, x.item, NodeOf(r)) = <<forward[r] + 1, x.to, x.item>>
    BY <2>1, <2>5, <1>3, SumRight
  <2> QED BY <2>11, <2>12, <2>13, <2>5 DEF Content
<1>12. CASE SumsToken(r)
  <2>1. PICK q, t : In(r, "combine") /\ Does(r, <<"sum", q, t>>) BY <1>12 DEF SumsToken
  <2>2. PICK task : task = <<"sum", q, t>> OBVIOUS
  <2>3. TaskOf(x) = task /\ Kernel(x) = "combine" BY <2>1, <2>2, NewInWire DEF In, Stages
  <2>4. TaskOf(x)[1] = "sums" BY <2>3, TaskTags
  <2> QED BY <2>2, <2>3, <2>4
<1> QED BY <1>4, <1>5, <1>6, <1>7, <1>8, <1>9, <1>10, <1>11, <1>12 DEF Moves

\* Every step keeps the sources of what is in flight.
LEMMA SourcesStay ==
    ASSUME Sound(Exchange), InOrder(Exchange), StreamsInOrder, BarriersHold, Shapes, WireKnown,
           WireOpen, SourcesStand, IndicesCopied,
           CopiesStand, ResultsOfExperts, SignalsCounted, RowsBeforeSignals, TargetsStand,
           exchange' = exchange, NEW r \in World, Moves(r)
    PROVE  SourcesStand'
<1>1. Puts' = Puts /\ (\A x : OpOf(x)' = OpOf(x) /\ Source(x)' = Source(x)) BY Fixed
<1>2. SUFFICES ASSUME NEW x \in Puts, OpOf(x) \in wire'[x.from], NEW p, p = x.from,
                      NEW src, src = Source(x)
               PROVE  Held(p, src)' = Content(forward'[p] + 1, x)
  <2>1. ASSUME NEW x \in Puts, (OpOf(x) \in wire[x.from])'
        PROVE  (Held(x.from, Source(x)) = Content(forward[x.from] + 1, x))'
    <3>1. PICK p, src : p = x.from /\ src = Source(x) OBVIOUS
    <3>2. Held(p, src)' = Content(forward'[p] + 1, x) BY <1>1, <1>2, <2>1, <3>1
    <3>3. Held(x.from, Source(x))' = Held(p, src)' BY <1>1, <3>1 DEF Held
    <3> QED BY <3>1, <3>2, <3>3 DEF Content
  <2> QED BY <1>1, <2>1 DEF SourcesStand
<1>3. CASE OpOf(x) \in wire[p]
  <2>1. Held(p, src)' = Content(forward[p] + 1, x) BY <1>2, <1>3, SourceKept
  <2>2. PICK k, t : k = Kernel(x) /\ t = TaskOf(x) OBVIOUS
  <2>3. Open(p, k) /\ DidTask(p, k, t) BY <1>2, <1>3, <2>2 DEF WireOpen, IsDone
  <2>4. k \in Kernels /\ p \in World /\ (In(p, k) => t \in Tasks(p)) /\ wire'[p] # {}
    BY <1>2, <2>2, PutFacts, TaskTags, TaskKnown
  <2>5. forward'[p] = forward[p] BY <2>3, <2>4, ItemOpen
  <2> QED BY <2>1, <2>5
<1>4. CASE OpOf(x) \notin wire[p]
  <2>1. p \in World BY <1>2, PutFacts
  <2>2. p = r /\ Does(r, TaskOf(x)) BY <1>2, <1>4, <2>1, WireGrows
  <2>3. Held(r, src)' = Content(forward[r] + 1, x) BY <1>2, <1>4, <2>2, NewSource
  <2>4. forward' = forward BY <2>2 DEF Does
  <2> QED BY <2>2, <2>3, <2>4
<1> QED BY <1>3, <1>4

-----------------------------------------------------------------------------
(* What has been put stands. *)

\* Nothing but its put writes the target of a put.
LEMMA TargetKept ==
    ASSUME Sound(Exchange), StreamsInOrder, Shapes, exchange' = exchange,
           NEW r \in World, Moves(r), NEW x \in Puts, NEW q, q = x.to, NEW tgt, tgt = Target(x)
    PROVE  \/ Held(q, tgt)' = Held(q, tgt)
           \/ /\ x.from = r /\ OpOf(x) \in wire[r] /\ OpOf(x) \notin wire'[r]
              /\ DeliversPut(r) /\ Held(q, tgt)' = Held(r, Source(x))
<1>1. /\ q \in World /\ x.kind \in Kinds /\ x.from \in World
      /\ x.kind = "send" => NodeOf(q) # NodeOf(x.from)
      /\ x.kind = "sums" => NodeOf(q) # NodeOf(x.from)
      /\ x.kind = "indices" => x.from # q
  BY PutFacts
<1>2. mem' = mem => Held(q, tgt)' = Held(q, tgt) BY DEF Held
<1>3. ASSUME NEW p \in World, NEW f, Updated(p, f), q = p => tgt \notin DOMAIN f
      PROVE  Held(q, tgt)' = Held(q, tgt)
  BY <1>1, <1>3 DEF Updated
<1>4. tgt[1] \in {"got", "index", "in", "out", "sum"} BY <1>1, SourceTarget DEF Kinds
<1>5. tgt[1] = "in" => tgt[2] # NodeOf(q)
  <2> SUFFICES ASSUME tgt[1] = "in" PROVE tgt[2] # NodeOf(q) OBVIOUS
  <2>1. x.kind = "send" BY <1>1, SourceTarget DEF Kinds
  <2>2. tgt[2] = NodeOf(x.from) BY <2>1, SourceTarget
  <2> QED BY <2>1, <2>2, <1>1
<1>6. tgt[1] = "sum" => tgt[2] # NodeOf(q) /\ x.kind = "sums"
  <2> SUFFICES ASSUME tgt[1] = "sum" PROVE tgt[2] # NodeOf(q) /\ x.kind = "sums" OBVIOUS
  <2>1. x.kind = "sums" BY <1>1, SourceTarget DEF Kinds
  <2>2. tgt[2] = NodeOf(x.from) BY <2>1, SourceTarget
  <2> QED BY <2>1, <2>2, <1>1
<1>7. tgt[1] = "index" => tgt[2] # q
  <2> SUFFICES ASSUME tgt[1] = "index" PROVE tgt[2] # q OBVIOUS
  <2>1. x.kind = "indices" BY <1>1, SourceTarget DEF Kinds
  <2>2. tgt[2] = x.from BY <2>1, SourceTarget
  <2> QED BY <2>1, <2>2, <1>1
<1>8. CASE Copies(r)
  <2>1. PICK f : /\ Updated(r, f)
                 /\ \/ DOMAIN f = {<<"in", NodeOf(r), t>> : t \in Tokens(r)}
                    \/ DOMAIN f = {<<"segment", p>> : p \in World}
                    \/ DOMAIN f = {<<"act", y[1], y[2]>> : y \in {z \in AllTokens : r \in Experts(z[1], z[2])}}
    BY <1>8 DEF Copies
  <2>2. ASSUME NEW z \in DOMAIN f PROVE z[1] \in {"in", "segment", "act"} /\ (z[1] = "in" => z[2] = NodeOf(r))
    BY <2>1, <2>2
  <2>3. q = r => tgt \notin DOMAIN f BY <2>2, <1>4, <1>5
  <2> QED BY <2>1, <2>3, <1>3
<1>9. CASE CopiesIndex(r)
  <2>1. PICK c \in Copiers : Updated(r, [y \in {<<"index", r, c>>} |-> <<forward[r] + 1, r, c>>])
    BY <1>9 DEF CopiesIndex
  <2>2. q = r => tgt # <<"index", r, c>>
    <3> SUFFICES ASSUME tgt = <<"index", r, c>>, q = r PROVE FALSE OBVIOUS
    <3>1. tgt[1] = "index" /\ tgt[2] = r OBVIOUS
    <3> QED BY <3>1, <1>7
  <2>3. q = r => tgt \notin DOMAIN [y \in {<<"index", r, c>>} |-> <<forward[r] + 1, r, c>>]
    BY <2>2
  <2> QED BY <2>1, <2>3, <1>3
<1>10. CASE SumsBlock(r)
  <2>1. PICK n, b, f : WritesSums(r, n, b, f) BY <1>10 DEF SumsBlock
  <2>2. q = r => tgt \notin DOMAIN f
    <3> SUFFICES ASSUME q = r, tgt \in DOMAIN f PROVE FALSE OBVIOUS
    <3>1. PICK t \in SumTokens(r, n, b) : tgt = SumPlace(r, n, t) BY <2>1 DEF WritesSums
    <3>2. tgt[1] = (IF n = NodeOf(r) THEN "sum" ELSE "red") /\ tgt[2] = n
      BY <3>1 DEF SumPlace
    <3> QED BY <3>2, <1>4, <1>6
  <2> QED BY <2>1, <2>2, <1>3 DEF WritesSums
<1>11. CASE SumsToken(r)
  <2>1. PICK p, t : /\ p \in World /\ Exchange.nodes = 1
                    /\ Updated(p, [y \in {<<"sum", r, t>>} |-> Held(r, <<"act", p, t>>)])
    BY <1>11 DEF SumsToken
  <2>2. x.kind # "sums"
    <3>1. NodeOf(q) \in Nodes /\ NodeOf(x.from) \in Nodes BY <1>1, SoundFacts, RankFacts
    <3>2. NodeOf(q) = 0 /\ NodeOf(x.from) = 0 BY <3>1, <2>1 DEF Nodes
    <3> QED BY <3>2, <1>1
  <2>3. tgt # <<"sum", r, t>>
    <3> SUFFICES ASSUME tgt = <<"sum", r, t>> PROVE FALSE OBVIOUS
    <3>1. tgt[1] = "sum" OBVIOUS
    <3> QED BY <3>1, <2>2, <1>6
  <2>4. tgt \notin DOMAIN [y \in {<<"sum", r, t>>} |-> Held(r, <<"act", p, t>>)] BY <2>3
  <2> QED BY <2>1, <2>4, <1>3
<1>12. CASE DeliversPut(r)
  <2>1. PICK y, f :
            /\ y \in Puts /\ y.from = r /\ OpOf(y) \in wire[r] /\ Updated(y.to, f)
            /\ wire' = [wire EXCEPT ![r] = @ \ {OpOf(y)}]
            /\ DOMAIN f = {Target(z) : z \in {z \in Puts : Together(z, y)}}
            /\ \A z \in Puts : Together(z, y) => f[Target(z)] = Held(r, Source(z))
    BY <1>12 DEF DeliversPut
  <2>2. y.to \in World BY <2>1, PutFacts
  <2>3. CASE q # y.to \/ tgt \notin DOMAIN f BY <2>1, <2>2, <2>3, <1>3
  <2>4. CASE q = y.to /\ tgt \in DOMAIN f
    <3>1. PICK z \in Puts : Together(z, y) /\ tgt = Target(z) BY <2>1, <2>4
    <3>2. z = x BY <3>1, <2>4, TargetsDiffer DEF Together
    <3>3. x.from = r /\ OpOf(x) = OpOf(y) BY <3>1, <3>2, <2>1, SameOp DEF Together
    <3>4. Held(q, tgt)' = f[tgt] BY <2>1, <2>4, <1>1 DEF Updated
    <3>5. f[tgt] = Held(r, Source(x)) BY <2>1, <3>1, <3>2
    <3>6. OpOf(x) \notin wire'[r] BY <2>1, <3>3 DEF Shapes
    <3> QED BY <1>12, <2>1, <3>3, <3>4, <3>5, <3>6
  <2> QED BY <2>3, <2>4
<1>13. mem' = mem \/ Copies(r) \/ CopiesIndex(r) \/ SumsBlock(r) \/ SumsToken(r) \/ DeliversPut(r)
  BY DEF Moves, GoesOn, Stops, Sends, Dispatches, PutsSegment, PutsIndices, DeliversSignal
<1> QED BY <1>2, <1>8, <1>9, <1>10, <1>11, <1>12, <1>13

\* What stands after a step, and was not delivered by it, stood before.
LEMMA LandedBefore ==
    ASSUME Sound(Exchange), InOrder(Exchange), StreamsInOrder, Shapes, WireKnown, WireOpen,
           exchange' = exchange, NEW r \in World, Moves(r), NEW x \in Puts, Landed(x)',
           OpOf(x) \in wire[x.from] => OpOf(x) \in wire'[x.from]
    PROVE  Landed(x) /\ Round(x.from, Kernel(x))' = Round(x.from, Kernel(x))
<1>1. PICK p, k, t, op : p = x.from /\ k = Kernel(x) /\ t = TaskOf(x) /\ op = OpOf(x) OBVIOUS
<1>2. p \in World /\ k \in Kernels /\ (In(p, k) => t \in Tasks(p))
  BY <1>1, PutFacts, TaskTags, TaskKnown
<1>3. /\ Pos(k) # {} /\ Round(p, k)' >= 1
      /\ Begun(p, k)' => DidTask(p, k, t)' /\ op \notin wire'[p]
  <2>1. Kernel(x)' = Kernel(x) /\ OpOf(x)' = OpOf(x) /\ Pos(k)' = Pos(k) BY Fixed
  <2>2. Begun(p, k)' => Begun(x.from, Kernel(x))' BY <1>1, PutPrimes
  <2>3. Round(p, k)' = Round(x.from, Kernel(x))' BY <1>1, PutPrimes
  <2>4. IsDone(x)' => DidTask(p, k, t)' BY <1>1, PutPrimes
  <2>5. Pos(Kernel(x))' = Pos(k) BY <1>1, <2>1 DEF Pos
  <2> QED BY <1>1, <2>1, <2>2, <2>3, <2>4, <2>5 DEF Landed
<1>4. op \in wire[p] => op \in wire'[p] BY <1>1
<1>5. op \in wire[p] => Open(p, k) /\ DidTask(p, k, t) BY <1>1 DEF WireOpen, IsDone
<1>6. SUFFICES /\ Round(p, k)' = Round(p, k)
               /\ Begun(p, k) => DidTask(p, k, t) /\ op \notin wire[p]
  <2>1. Round(x.from, Kernel(x))' = Round(p, k)' BY <1>1, PutPrimes
  <2> QED BY <1>1, <1>3, <1>6, <2>1 DEF Landed, IsDone
<1>7. CASE GoesOn(r)
  <2>1. Advances(r) /\ wire'[p] = wire[p] BY <1>2, <1>7, MovesKinds, WireStep
  <2>2. CASE p = r
    <3>1. /\ Round(p, k)' = Round(p, k)
          /\ Begun(p, k) => DidTask(p, k, t)
          /\ Begun(p, k) => Begun(p, k)' \/ Flushed(p, k)
      BY <1>2, <1>3, <2>1, <2>2, KernelAdvance
    <3> QED BY <3>1, <1>3, <1>5, <2>1 DEF Open
  <2>3. CASE p # r
    <3>1. Begun(p, k)' = Begun(p, k) /\ Round(p, k)' = Round(p, k)
      BY <1>2, <2>1, <2>3, OthersStay
    <3>2. DidTask(p, k, t)' <=> DidTask(p, k, t) BY <1>2, <2>1, <2>3, DidStep
    <3> QED BY <3>1, <3>2, <1>3, <2>1
  <2> QED BY <2>2, <2>3
<1>8. CASE ~GoesOn(r)
  <2>1. Arrives(r) \/ Works(r) \/ Delivers(r) BY <1>8, MovesKinds
  <2>2. Begun(p, k)' = Begun(p, k) /\ Round(p, k)' = Round(p, k) BY <1>2, <2>1, ProgressStays
  <2>3. SUFFICES ASSUME Begun(p, k) PROVE DidTask(p, k, t) BY <2>2, <1>3, <1>4
  <2>4. DidTask(p, k, t)' /\ op \notin wire'[p] BY <2>2, <2>3, <1>3
  <2>5. CASE Stops(r) \/ DeliversPut(r) \/ DeliversSignal(r) BY <2>4, <2>5, <1>2, DidStep
  <2>6. CASE \E task : Does(r, task)
    <3>1. PICK task : Does(r, task) BY <2>6
    <3>2. DidTask(p, k, t) \/ (p = r /\ Stages[stage[r]] = k /\ t = task)
      BY <2>4, <3>1, <1>2, DidStep
    <3>3. p = r /\ Stages[stage[r]] = k /\ t = task => op \in wire'[p]
      <4>1. p = r /\ Kernel(x) = Stages[stage[r]] /\ TaskOf(x) = task => OpOf(x) \in wire'[p]
        <5>1. \A z \in Puts : z.from = p =>
                 (OpOf(z) \in wire'[p] <=>
                    \/ OpOf(z) \in wire[p]
                    \/ (p = r /\ Kernel(z) = Stages[stage[r]] /\ TaskOf(z) = task))
          BY <3>1, <1>2, NewInWire
        <5> QED BY <5>1, <1>1
      <4> QED BY <4>1, <1>1
    <3> QED BY <3>2, <3>3, <2>4
  <2> QED BY <2>5, <2>6, <1>8, MovesKinds
<1> QED BY <1>7, <1>8

\* Every step keeps what has been put.
LEMMA TargetsStay ==
    ASSUME Sound(Exchange), InOrder(Exchange), StreamsInOrder, Shapes, WireKnown, WireOpen,
           SourcesStand, TargetsStand, exchange' = exchange, NEW r \in World, Moves(r)
    PROVE  TargetsStand'
<1>1. Puts' = Puts /\ (\A x : Target(x)' = Target(x)) BY Fixed
<1>2. SUFFICES ASSUME NEW x \in Puts, Landed(x)', NEW q, q = x.to, NEW tgt, tgt = Target(x),
                      NEW k, k = Kernel(x), NEW p, p = x.from
               PROVE  Held(q, tgt)' = Content(Round(p, k)', x)
  <2>1. ASSUME NEW x \in Puts, Landed(x)'
        PROVE  (Held(x.to, Target(x)) = Content(Round(x.from, Kernel(x)), x))'
    <3>1. PICK q, tgt, k, p : q = x.to /\ tgt = Target(x) /\ k = Kernel(x) /\ p = x.from OBVIOUS
    <3>2. Held(q, tgt)' = Content(Round(p, k)', x) BY <1>1, <1>2, <2>1, <3>1
    <3>3. Held(x.to, Target(x))' = Held(q, tgt)' BY <1>1, <3>1 DEF Held
    <3>4. Round(x.from, Kernel(x))' = Round(p, k)' BY <3>1, PutPrimes
    <3> QED BY <3>2, <3>3, <3>4 DEF Content
  <2> QED BY <1>1, <2>1 DEF TargetsStand
<1>3. Round(x.from, Kernel(x))' = Round(p, k)' BY <1>2, PutPrimes
<1>4. CASE OpOf(x) \in wire[p] /\ OpOf(x) \notin wire'[p]
  <2>1. p \in World BY <1>2, PutFacts
  <2>2. p = r /\ (DeliversPut(r) \/ \E w \in Senders, i \in Steps("send") : OpOf(x) = SignalOf(r, w, i))
    BY <1>4, <2>1, WireShrinks
  <2>3. DeliversPut(r) BY <2>2, SignalFacts
  <2>4. Held(q, tgt)' = Held(r, Source(x))
    <3>1. PICK y, f :
              /\ y \in Puts /\ y.from = r /\ Updated(y.to, f)
              /\ wire' = [wire EXCEPT ![r] = @ \ {OpOf(y)}]
              /\ DOMAIN f = {Target(z) : z \in {z \in Puts : Together(z, y)}}
              /\ \A z \in Puts : Together(z, y) => f[Target(z)] = Held(r, Source(z))
      BY <2>3 DEF DeliversPut
    <3>2. OpOf(x) = OpOf(y)
      <4>1. wire'[p] = wire[p] \ (IF p = r THEN {OpOf(y)} ELSE {})
        BY <3>1, <2>1, WireStep
      <4> QED BY <4>1, <1>4
    <3>3. Together(x, y) BY <3>1, <3>2, <2>2, <1>2, SameOp
    <3>4. q = y.to /\ tgt \in DOMAIN f BY <3>1, <3>3, <1>2 DEF Together
    <3>5. q \in World BY <1>2, PutFacts
    <3>6. Held(q, tgt)' = f[tgt] BY <3>1, <3>4, <3>5 DEF Updated
    <3> QED BY <3>1, <3>3, <3>6, <1>2
  <2>5. Held(r, Source(x)) = Content(forward[r] + 1, x) BY <1>2, <1>4, <2>2 DEF SourcesStand
  <2>6. Begun(p, k) BY <1>2, <1>4 DEF WireOpen, Open
  <2>7. Round(p, k)' = forward[r] + 1
    <3>1. Delivers(r) BY <2>3, MovesKinds
    <3>2. Round(p, k)' = Round(p, k) BY <3>1, <2>1, ProgressStays
    <3> QED BY <3>2, <2>2, <2>6 DEF Round
  <2> QED BY <2>4, <2>5, <2>7
<1>5. CASE OpOf(x) \in wire[p] => OpOf(x) \in wire'[p]
  <2>1. Landed(x) /\ Round(p, k)' = Round(p, k) BY <1>2, <1>3, <1>5, LandedBefore
  <2>2. Held(q, tgt)' = Held(q, tgt) BY <1>2, <1>5, TargetKept
  <2>3. Held(q, tgt) = Content(Round(p, k), x) BY <1>2, <2>1 DEF TargetsStand
  <2> QED BY <2>1, <2>2, <2>3
<1> QED BY <1>4, <1>5

-----------------------------------------------------------------------------
(* What a rank writes itself stands. *)

\* A step does one task.
LEMMA DoesOnce ==
    ASSUME Shapes, NEW r \in World, NEW s, NEW t, Does(r, s), Does(r, t)
    PROVE  s = t
<1>1. did'[r] = did[r] \cup {s} /\ did'[r] = did[r] \cup {t} /\ t \notin did[r]
  BY DEF Does, Shapes
<1> QED BY <1>1

\* The step that does a task is the one of its name.
LEMMA TaskNames ==
    ASSUME Shapes, NEW r \in World, Moves(r), NEW task, Does(r, task)
    PROVE  /\ ~GoesOn(r) /\ ~Stops(r) /\ ~DeliversPut(r) /\ ~DeliversSignal(r)
           /\ \/ Sends(r) /\ task[1] = "send"
              \/ Dispatches(r) /\ task[1] = "dispatch"
              \/ PutsSegment(r) /\ task[1] = "put"
              \/ PutsIndices(r) /\ task[1] = "put"
              \/ CopiesIndex(r) /\ task[1] = "copy"
              \/ SumsBlock(r) /\ task[1] = "sums"
              \/ SumsToken(r) /\ task[1] = "sum"
<1>1. did'[r] = did[r] \cup {task} /\ task \notin did[r] BY DEF Does, Shapes
<1>2. ~GoesOn(r)
  <2> SUFFICES ASSUME GoesOn(r) PROVE FALSE OBVIOUS
  <2>1. did' = [did EXCEPT ![r] = {}] BY DEF GoesOn, Advances
  <2>2. did'[r] = {} BY <2>1 DEF Shapes
  <2> QED BY <1>1, <2>2
<1>3. ~Stops(r) /\ ~DeliversPut(r) /\ ~DeliversSignal(r)
  BY <1>1 DEF Stops, DeliversPut, DeliversSignal
<1>4. ASSUME NEW s, Does(r, s) PROVE task = s BY <1>4, DoesOnce
<1>5. Sends(r) => task[1] = "send"
  <2> SUFFICES ASSUME Sends(r) PROVE task[1] = "send" OBVIOUS
  <2>1. PICK w \in Senders, i \in Steps("send") : Does(r, <<"send", w, i>>) BY DEF Sends
  <2>2. task = <<"send", w, i>> BY <2>1, <1>4
  <2> QED BY <2>2
<1>6. Dispatches(r) => task[1] = "dispatch"
  <2> SUFFICES ASSUME Dispatches(r) PROVE task[1] = "dispatch" OBVIOUS
  <2>1. PICK w \in Dispatchers, i \in Steps("dispatch") : Does(r, <<"dispatch", w, i>>)
    BY DEF Dispatches
  <2>2. task = <<"dispatch", w, i>> BY <2>1, <1>4
  <2> QED BY <2>2
<1>7. PutsSegment(r) => task[1] = "put"
  <2> SUFFICES ASSUME PutsSegment(r) PROVE task[1] = "put" OBVIOUS
  <2>1. PICK q \in World : Does(r, <<"put", q>>) BY DEF PutsSegment
  <2>2. task = <<"put", q>> BY <2>1, <1>4
  <2> QED BY <2>2
<1>8. PutsIndices(r) => task[1] = "put"
  <2> SUFFICES ASSUME PutsIndices(r) PROVE task[1] = "put" OBVIOUS
  <2>1. PICK q \in World \ {r} : Does(r, <<"put", q>>) BY DEF PutsIndices
  <2>2. task = <<"put", q>> BY <2>1, <1>4
  <2> QED BY <2>2
<1>9. CopiesIndex(r) => task[1] = "copy"
  <2> SUFFICES ASSUME CopiesIndex(r) PROVE task[1] = "copy" OBVIOUS
  <2>1. PICK c \in Copiers : Does(r, <<"copy", c>>) BY DEF CopiesIndex
  <2>2. task = <<"copy", c>> BY <2>1, <1>4
  <2> QED BY <2>2
<1>10. SumsBlock(r) => task[1] = "sums"
  <2> SUFFICES ASSUME SumsBlock(r) PROVE task[1] = "sums" OBVIOUS
  <2>1. PICK n, b : Does(r, <<"sums", n, b>>) BY DEF SumsBlock
  <2>2. task = <<"sums", n, b>> BY <2>1, <1>4
  <2> QED BY <2>2
<1>11. SumsToken(r) => task[1] = "sum"
  <2> SUFFICES ASSUME SumsToken(r) PROVE task[1] = "sum" OBVIOUS
  <2>1. PICK q, t : Does(r, <<"sum", q, t>>) BY DEF SumsToken
  <2>2. task = <<"sum", q, t>> BY <2>1, <1>4
  <2> QED BY <2>2
<1> QED BY <1>2, <1>3, <1>5, <1>6, <1>7, <1>8, <1>9, <1>10, <1>11 DEF Moves

\* The places of p that no peer puts to.
Own(p, place) ==
    \/ place[1] \in {"segment", "act"}
    \/ place[1] = "index" /\ place[2] = p
    \/ place[1] \in {"in", "sum"} /\ place[2] = NodeOf(p)
    \/ place[1] = "sum" /\ Exchange.nodes = 1

\* No peer writes the own places of a rank.
LEMMA PeersKeep ==
    ASSUME Sound(Exchange), NEW r \in World, DeliversPut(r), NEW p \in World, NEW place, Own(p, place)
    PROVE  Held(p, place)' = Held(p, place)
<1>1. PICK y, f :
          /\ y \in Puts /\ Updated(y.to, f)
          /\ DOMAIN f = {Target(z) : z \in {z \in Puts : Together(z, y)}}
  BY DEF DeliversPut
<1>2. ASSUME p = y.to, place \in DOMAIN f PROVE FALSE
  <2>1. PICK z \in Puts : Together(z, y) /\ place = Target(z) BY <1>1, <1>2
  <2>2. /\ z.to = p /\ z.kind \in Kinds /\ z.from \in World
        /\ z.kind = "indices" => z.from # p
        /\ z.kind \in {"send", "sums"} => NodeOf(p) # NodeOf(z.from)
    BY <2>1, <1>2, PutFacts DEF Together
  <2>3. Exchange.nodes = 1 => z.kind # "sums"
    <3> SUFFICES ASSUME Exchange.nodes = 1 PROVE z.kind # "sums" OBVIOUS
    <3>1. NodeOf(p) \in Nodes /\ NodeOf(z.from) \in Nodes BY <2>2, SoundFacts, RankFacts
    <3>2. NodeOf(p) = 0 /\ NodeOf(z.from) = 0 BY <3>1 DEF Nodes
    <3> QED BY <3>2, <2>2
  <2>4. CASE z.kind = "exchange" \/ z.kind = "rows"
    <3>1. place[1] \in {"got", "out"} BY <2>1, <2>4, SourceTarget
    <3> QED BY <3>1 DEF Own
  <2>5. CASE z.kind = "indices"
    <3>1. place[1] = "index" /\ place[2] = z.from BY <2>1, <2>5, SourceTarget
    <3> QED BY <3>1, <2>2, <2>5 DEF Own
  <2>6. CASE z.kind = "send"
    <3>1. place[1] = "in" /\ place[2] = NodeOf(z.from) BY <2>1, <2>6, SourceTarget
    <3> QED BY <3>1, <2>2, <2>6 DEF Own
  <2>7. CASE z.kind = "sums"
    <3>1. place[1] = "sum" /\ place[2] = NodeOf(z.from) BY <2>1, <2>7, SourceTarget
    <3> QED BY <3>1, <2>2, <2>3, <2>7 DEF Own
  <2> QED BY <2>2, <2>4, <2>5, <2>6, <2>7 DEF Kinds
<1>3. y.to \in World BY <1>1, PutFacts
<1> QED BY <1>1, <1>2, <1>3 DEF Updated

\* What the stream of p writes, or a task of it.
LEMMA OwnKept ==
    ASSUME Sound(Exchange), NEW r \in World, Moves(r), NEW p \in World, NEW place, Own(p, place)
    PROVE  /\ place[1] \in {"segment", "act", "in"} /\ ~(GoesOn(r) /\ p = r) =>
                Held(p, place)' = Held(p, place)
           /\ place[1] = "index" /\ ~(CopiesIndex(r) /\ p = r) => Held(p, place)' = Held(p, place)
           /\ place[1] = "sum" /\ ~(SumsBlock(r) /\ p = r) /\ ~SumsToken(r) =>
                Held(p, place)' = Held(p, place)
<1>1. mem' = mem => Held(p, place)' = Held(p, place) BY DEF Held
<1>2. ASSUME NEW q \in World, NEW f, Updated(q, f), p = q => place \notin DOMAIN f
      PROVE  Held(p, place)' = Held(p, place)
  BY <1>2 DEF Updated
<1>3. Copies(r) /\ (p # r \/ place[1] \in {"index", "sum"}) => Held(p, place)' = Held(p, place)
  <2> SUFFICES ASSUME Copies(r), p # r \/ place[1] \in {"index", "sum"}
               PROVE  Held(p, place)' = Held(p, place)
    OBVIOUS
  <2>1. PICK f : /\ Updated(r, f)
                 /\ \/ DOMAIN f = {<<"in", NodeOf(r), t>> : t \in Tokens(r)}
                    \/ DOMAIN f = {<<"segment", q>> : q \in World}
                    \/ DOMAIN f = {<<"act", y[1], y[2]>> : y \in {z \in AllTokens : r \in Experts(z[1], z[2])}}
    BY DEF Copies
  <2>2. ASSUME NEW z \in DOMAIN f PROVE z[1] \in {"in", "segment", "act"} BY <2>1, <2>2
  <2> QED BY <2>1, <2>2, <1>2
<1>4. CopiesIndex(r) /\ (p # r \/ place[1] # "index") => Held(p, place)' = Held(p, place)
  <2> SUFFICES ASSUME CopiesIndex(r), p # r \/ place[1] # "index"
               PROVE  Held(p, place)' = Held(p, place)
    OBVIOUS
  <2>1. PICK c \in Copiers : Updated(r, [y \in {<<"index", r, c>>} |-> <<forward[r] + 1, r, c>>])
    BY DEF CopiesIndex
  <2>2. p = r => place # <<"index", r, c>> OBVIOUS
  <2>3. p = r => place \notin DOMAIN [y \in {<<"index", r, c>>} |-> <<forward[r] + 1, r, c>>]
    BY <2>2
  <2> QED BY <2>1, <2>3, <1>2
<1>5. SumsBlock(r) /\ (p # r \/ place[1] # "sum") => Held(p, place)' = Held(p, place)
  <2> SUFFICES ASSUME SumsBlock(r), p # r \/ place[1] # "sum"
               PROVE  Held(p, place)' = Held(p, place)
    OBVIOUS
  <2>1. PICK n, b, f : WritesSums(r, n, b, f) BY DEF SumsBlock
  <2>2. place \notin DOMAIN f \/ p # r
    <3> SUFFICES ASSUME p = r, place \in DOMAIN f PROVE FALSE OBVIOUS
    <3>1. PICK t \in SumTokens(r, n, b) : place = SumPlace(r, n, t) BY <2>1 DEF WritesSums
    <3>2. place[1] \in {"sum", "red"} BY <3>1 DEF SumPlace
    <3> QED BY <3>2 DEF Own
  <2> QED BY <2>1, <2>2, <1>2 DEF WritesSums
<1>6. SumsToken(r) /\ place[1] # "sum" => Held(p, place)' = Held(p, place)
  <2> SUFFICES ASSUME SumsToken(r), place[1] # "sum" PROVE Held(p, place)' = Held(p, place)
    OBVIOUS
  <2>1. PICK q, t : q \in World /\ Updated(q, [y \in {<<"sum", r, t>>} |-> Held(r, <<"act", q, t>>)])
    BY DEF SumsToken
  <2>2. place \notin DOMAIN [y \in {<<"sum", r, t>>} |-> Held(r, <<"act", q, t>>)] OBVIOUS
  <2> QED BY <2>1, <2>2, <1>2
<1>7. DeliversPut(r) => Held(p, place)' = Held(p, place) BY PeersKeep
<1>8. GoesOn(r) /\ mem' # mem => Copies(r) BY DEF GoesOn
<1>9. \/ mem' = mem \/ GoesOn(r) \/ CopiesIndex(r) \/ SumsBlock(r) \/ SumsToken(r) \/ DeliversPut(r)
  BY DEF Moves, Stops, Sends, Dispatches, PutsSegment, PutsIndices, DeliversSignal
<1> QED BY <1>1, <1>3, <1>4, <1>5, <1>6, <1>7, <1>8, <1>9

\* What the stream of r writes when it goes on.
LEMMA StreamWrites ==
    ASSUME Sound(Exchange), exchange' = exchange, NEW r \in World, GoesOn(r)
    PROVE  /\ Stages[stage[r]] = "copy" =>
                \A t \in Tokens(r) : Held(r, <<"in", NodeOf(r), t>>)' = <<forward[r] + 1, r, t>>
           /\ Stages[stage[r]] # "copy" =>
                \A n, t : Held(r, <<"in", n, t>>)' = Held(r, <<"in", n, t>>)
           /\ Stages[stage[r]] = "segments" =>
                \A q \in World : Held(r, <<"segment", q>>)' = <<forward[r] + 1, r, q>>
           /\ Stages[stage[r]] # "segments" =>
                \A q : Held(r, <<"segment", q>>)' = Held(r, <<"segment", q>>)
           /\ Stages[stage[r]] = "experts" =>
                \A x \in AllTokens : r \in Experts(x[1], x[2]) =>
                    Held(r, <<"act", x[1], x[2]>>)' = <<forward[r] + 1, x[1], x[2]>>
           /\ Stages[stage[r]] # "experts" =>
                \A q, t : Held(r, <<"act", q, t>>)' = Held(r, <<"act", q, t>>)
<1>0. NodeOf(r)' = NodeOf(r) BY Fixed DEF NodeOf
<1>1. CASE ~Copies(r)
  <2>1. mem' = mem /\ Stages[stage[r]] \notin {"copy", "segments", "experts"} BY <1>1 DEF GoesOn
  <2>2. \A place : Held(r, place)' = Held(r, place) BY <2>1 DEF Held
  <2> QED BY <2>1, <2>2
<1>2. ASSUME NEW f, Updated(r, f)
      PROVE  \A place : Held(r, place)' = IF place \in DOMAIN f THEN f[place] ELSE Held(r, place)
  BY <1>2 DEF Updated
<1>3. ASSUME NEW f, Updated(r, f), Stages[stage[r]] = "copy",
             DOMAIN f = {<<"in", NodeOf(r), t>> : t \in Tokens(r)},
             \A t \in Tokens(r) : f[<<"in", NodeOf(r), t>>] = <<forward[r] + 1, r, t>>
      PROVE  /\ \A t \in Tokens(r) : Held(r, <<"in", NodeOf(r), t>>)' = <<forward[r] + 1, r, t>>
             /\ \A q : Held(r, <<"segment", q>>)' = Held(r, <<"segment", q>>)
             /\ \A q, t : Held(r, <<"act", q, t>>)' = Held(r, <<"act", q, t>>)
  <2>1. \A q : <<"segment", q>> \notin DOMAIN f BY <1>3
  <2>2. \A q, t : <<"act", q, t>> \notin DOMAIN f BY <1>3
  <2>3. \A t \in Tokens(r) : <<"in", NodeOf(r), t>> \in DOMAIN f BY <1>3
  <2>4. \A place : Held(r, place)' = IF place \in DOMAIN f THEN f[place] ELSE Held(r, place)
    BY <1>2, <1>3
  <2>5. \A t \in Tokens(r) : Held(r, <<"in", NodeOf(r), t>>)' = <<forward[r] + 1, r, t>>
    <3> SUFFICES ASSUME NEW t \in Tokens(r)
                 PROVE  Held(r, <<"in", NodeOf(r), t>>)' = <<forward[r] + 1, r, t>>
      OBVIOUS
    <3>1. PICK place : place = <<"in", NodeOf(r), t>> OBVIOUS
    <3>2. Held(r, place)' = f[place] BY <2>3, <2>4, <3>1
    <3>3. f[place] = <<forward[r] + 1, r, t>> BY <1>3, <3>1
    <3>4. Held(r, place)' = Held(r, <<"in", NodeOf(r), t>>)' BY <3>1, <1>0 DEF Held
    <3> QED BY <3>2, <3>3, <3>4
  <2> QED BY <2>1, <2>2, <2>4, <2>5
<1>4. ASSUME NEW f, Updated(r, f), Stages[stage[r]] = "segments",
             DOMAIN f = {<<"segment", q>> : q \in World},
             \A q \in World : f[<<"segment", q>>] = <<forward[r] + 1, r, q>>
      PROVE  /\ \A q \in World : Held(r, <<"segment", q>>)' = <<forward[r] + 1, r, q>>
             /\ \A n, t : Held(r, <<"in", n, t>>)' = Held(r, <<"in", n, t>>)
             /\ \A q, t : Held(r, <<"act", q, t>>)' = Held(r, <<"act", q, t>>)
  <2>1. \A n, t : <<"in", n, t>> \notin DOMAIN f BY <1>4
  <2>2. \A q, t : <<"act", q, t>> \notin DOMAIN f BY <1>4
  <2>3. \A q \in World : <<"segment", q>> \in DOMAIN f BY <1>4
  <2> QED BY <2>1, <2>2, <2>3, <1>2, <1>4
<1>5. ASSUME NEW f, Updated(r, f), Stages[stage[r]] = "experts",
             DOMAIN f = {<<"act", x[1], x[2]>> : x \in {y \in AllTokens : r \in Experts(y[1], y[2])}},
             \A x \in AllTokens : r \in Experts(x[1], x[2]) =>
                f[<<"act", x[1], x[2]>>] = <<forward[r] + 1, x[1], x[2]>>
      PROVE  /\ \A x \in AllTokens : r \in Experts(x[1], x[2]) =>
                    Held(r, <<"act", x[1], x[2]>>)' = <<forward[r] + 1, x[1], x[2]>>
             /\ \A n, t : Held(r, <<"in", n, t>>)' = Held(r, <<"in", n, t>>)
             /\ \A q : Held(r, <<"segment", q>>)' = Held(r, <<"segment", q>>)
  <2>1. \A n, t : <<"in", n, t>> \notin DOMAIN f BY <1>5
  <2>2. \A q : <<"segment", q>> \notin DOMAIN f BY <1>5
  <2>3. \A x \in AllTokens : r \in Experts(x[1], x[2]) => <<"act", x[1], x[2]>> \in DOMAIN f
    BY <1>5
  <2> QED BY <2>1, <2>2, <2>3, <1>2, <1>5
<1>6. CASE Copies(r)
  <2>1. PICK f : /\ Updated(r, f)
           /\ \/ /\ Stages[stage[r]] = "copy"
                 /\ DOMAIN f = {<<"in", NodeOf(r), t>> : t \in Tokens(r)}
                 /\ \A t \in Tokens(r) : f[<<"in", NodeOf(r), t>>] = <<forward[r] + 1, r, t>>
              \/ /\ Stages[stage[r]] = "segments"
                 /\ DOMAIN f = {<<"segment", q>> : q \in World}
                 /\ \A q \in World : f[<<"segment", q>>] = <<forward[r] + 1, r, q>>
              \/ /\ Stages[stage[r]] = "experts"
                 /\ DOMAIN f = {<<"act", x[1], x[2]>> : x \in {y \in AllTokens : r \in Experts(y[1], y[2])}}
                 /\ \A x \in AllTokens : r \in Experts(x[1], x[2]) =>
                        f[<<"act", x[1], x[2]>>] = <<forward[r] + 1, x[1], x[2]>>
    BY <1>6 DEF Copies
  <2>2. CASE Stages[stage[r]] = "copy" BY <2>1, <2>2, <1>3
  <2>3. CASE Stages[stage[r]] = "segments" BY <2>1, <2>3, <1>4
  <2>4. CASE Stages[stage[r]] = "experts" BY <2>1, <2>4, <1>5
  <2> QED BY <2>1, <2>2, <2>3, <2>4
<1> QED BY <1>1, <1>6

\* Where the stream of p does not go on, it stays.
LEMMA StreamStays ==
    ASSUME Sound(Exchange), StreamsInOrder, exchange' = exchange, NEW r \in World, Moves(r),
           NEW p \in World, ~(GoesOn(r) /\ p = r), NEW k
    PROVE  /\ forward'[p] = forward[p] /\ stage'[p] = stage[p]
           /\ Past(p, k)' = Past(p, k) /\ Begun(p, k)' = Begun(p, k) /\ Round(p, k)' = Round(p, k)
<1>1. CASE GoesOn(r)
  <2>1. Advances(r) /\ p # r BY <1>1, MovesKinds
  <2> QED BY <2>1, OthersStay
<1>2. CASE ~GoesOn(r)
  <2>1. Arrives(r) \/ Works(r) \/ Delivers(r) BY <1>2, MovesKinds
  <2> QED BY <2>1, ProgressStays
<1> QED BY <1>1, <1>2

\* Every step keeps what the ranks have copied.
LEMMA CopiesStay ==
    ASSUME Sound(Exchange), InOrder(Exchange), StreamsInOrder, Shapes, CopiesStand,
           exchange' = exchange, NEW r \in World, Moves(r)
    PROVE  CopiesStand'
<1>1. World' = World /\ Copiers' = Copiers /\ (\A q : NodeOf(q)' = NodeOf(q) /\ Tokens(q)' = Tokens(q))
  BY Fixed DEF NodeOf, Tokens
<1>2. SUFFICES ASSUME NEW p \in World
               PROVE  /\ Past(p, "segments")' =>
                            \A q \in World : Held(p, <<"segment", q>>)' = <<forward'[p] + 1, p, q>>
                      /\ \A c \in Copiers : DidTask(p, "indices", <<"copy", c>>)' =>
                            Held(p, <<"index", p, c>>)' = <<forward'[p] + 1, p, c>>
                      /\ Past(p, "copy")' =>
                            \A n : \A t \in Tokens(p) : n = NodeOf(p) =>
                                Held(p, <<"in", n, t>>)' = <<forward'[p] + 1, p, t>>
  <2>1. ASSUME NEW p \in World, NEW t, NEW n, n = NodeOf(p)
        PROVE  Held(p, <<"in", NodeOf(p), t>>)' = Held(p, <<"in", n, t>>)'
    BY <1>1, <2>1 DEF Held
  <2>2. ASSUME NEW p \in World, Past(p, "copy")', NEW t \in Tokens(p)
        PROVE  Held(p, <<"in", NodeOf(p), t>>)' = <<forward'[p] + 1, p, t>>
    <3>1. PICK n : n = NodeOf(p) OBVIOUS
    <3>2. Held(p, <<"in", n, t>>)' = <<forward'[p] + 1, p, t>> BY <1>2, <2>2, <3>1
    <3> QED BY <3>1, <3>2, <2>1
  <2> QED BY <1>1, <1>2, <2>2 DEF CopiesStand
<1>3. Past(p, "segments")' =>
          \A q \in World : Held(p, <<"segment", q>>)' = <<forward'[p] + 1, p, q>>
  <2> SUFFICES ASSUME Past(p, "segments")', NEW q \in World
               PROVE  Held(p, <<"segment", q>>)' = <<forward'[p] + 1, p, q>>
    OBVIOUS
  <2>1. CASE GoesOn(r) /\ p = r
    <3>1. Advances(r) BY <2>1, MovesKinds
    <3>2. forward'[r] = forward[r] /\ (Past(r, "segments") \/ Stages[stage[r]] = "segments")
          /\ (Past(r, "segments") => Stages[stage[r]] # "segments")
      BY <2>1, <3>1, GoingOn DEF Barriers
    <3> QED BY <2>1, <3>2, StreamWrites DEF CopiesStand
  <2>2. CASE ~(GoesOn(r) /\ p = r)
    <3>1. Past(p, "segments") /\ forward'[p] = forward[p] BY <2>2, StreamStays
    <3>2. PICK place : place = <<"segment", q>> OBVIOUS
    <3>3. place[1] = "segment" /\ Own(p, place) BY <3>2 DEF Own
    <3>4. Held(p, place)' = Held(p, place) BY <2>2, <3>3, OwnKept
    <3> QED BY <3>1, <3>2, <3>4 DEF CopiesStand
  <2> QED BY <2>1, <2>2
<1>4. Past(p, "copy")' =>
          \A n : \A t \in Tokens(p) : n = NodeOf(p) =>
              Held(p, <<"in", n, t>>)' = <<forward'[p] + 1, p, t>>
  <2> SUFFICES ASSUME Past(p, "copy")', NEW n, NEW t \in Tokens(p), n = NodeOf(p)
               PROVE  Held(p, <<"in", n, t>>)' = <<forward'[p] + 1, p, t>>
    OBVIOUS
  <2>0. n = NodeOf(p) OBVIOUS
  <2>1. CASE GoesOn(r) /\ p = r
    <3>1. Advances(r) BY <2>1, MovesKinds
    <3>2. forward'[r] = forward[r] /\ (Past(r, "copy") \/ Stages[stage[r]] = "copy")
          /\ (Past(r, "copy") => Stages[stage[r]] # "copy")
      BY <2>1, <3>1, GoingOn DEF Barriers
    <3>3. Held(r, <<"in", n, t>>)' = <<forward[r] + 1, r, t>>
      <4>1. CASE Stages[stage[r]] = "copy"
        <5>1. \A u \in Tokens(r) : Held(r, <<"in", NodeOf(r), u>>)' = <<forward[r] + 1, r, u>>
          BY <2>1, <4>1, StreamWrites
        <5>2. Held(r, <<"in", NodeOf(r), t>>)' = Held(r, <<"in", n, t>>)'
          BY <2>0, <2>1, <1>1 DEF Held
        <5> QED BY <5>1, <5>2, <2>1
      <4>2. CASE Stages[stage[r]] # "copy"
        <5>1. Held(r, <<"in", n, t>>)' = Held(r, <<"in", n, t>>) BY <2>1, <4>2, StreamWrites
        <5> QED BY <5>1, <4>2, <3>2, <2>0, <2>1 DEF CopiesStand
      <4> QED BY <4>1, <4>2
    <3> QED BY <2>1, <3>2, <3>3
  <2>2. CASE ~(GoesOn(r) /\ p = r)
    <3>1. Past(p, "copy") /\ forward'[p] = forward[p] BY <2>2, StreamStays
    <3>2. PICK place : place = <<"in", n, t>> OBVIOUS
    <3>3. place[1] = "in" /\ Own(p, place) BY <3>2, <2>0 DEF Own
    <3>4. Held(p, place)' = Held(p, place) BY <2>2, <3>3, OwnKept
    <3> QED BY <2>0, <3>1, <3>2, <3>4 DEF CopiesStand
  <2> QED BY <2>1, <2>2
<1>5. ASSUME NEW c \in Copiers, DidTask(p, "indices", <<"copy", c>>)'
      PROVE  Held(p, <<"index", p, c>>)' = <<forward'[p] + 1, p, c>>
  <2>1. PICK place, task : place = <<"index", p, c>> /\ task = <<"copy", c>> OBVIOUS
  <2>2. place[1] = "index" /\ Own(p, place) BY <2>1 DEF Own
  <2>3. In(p, "indices") => task \in Tasks(p) BY <2>1, TasksOf
  <2>4. DidTask(p, "indices", task)' BY <2>1, <1>5
  <2>5. CASE DidTask(p, "indices", task) /\ forward'[p] = forward[p]
    <3>1. Held(p, place) = <<forward[p] + 1, p, c>> BY <2>1, <2>5, <1>5 DEF CopiesStand
    <3>2. Held(p, place)' = Held(p, place)
      <4>1. CASE CopiesIndex(r) /\ p = r
        <5>1. PICK d \in Copiers :
                  /\ In(r, "indices") /\ Does(r, <<"copy", d>>)
                  /\ Updated(r, [y \in {<<"index", r, d>>} |-> <<forward[r] + 1, r, d>>])
          BY <4>1 DEF CopiesIndex
        <5>2. Stages[stage[r]] = "indices" BY <5>1 DEF In, Stages
        <5>3. task \in did[r] BY <5>2, <2>5, <4>1, Once DEF DidTask, Barriers
        <5>4. <<"copy", d>> # task BY <5>1, <5>3 DEF Does
        <5>5. d # c BY <5>4, <2>1
        <5>6. place # <<"index", r, d>> BY <5>5, <2>1
        <5> QED BY <5>1, <5>6, <4>1 DEF Updated
      <4>2. CASE ~(CopiesIndex(r) /\ p = r) BY <4>2, <2>2, OwnKept
      <4> QED BY <4>1, <4>2
    <3> QED BY <3>1, <3>2, <2>1, <2>5
  <2>6. CASE ~(DidTask(p, "indices", task) /\ forward'[p] = forward[p])
    <3>1. ~GoesOn(r)
      <4> SUFFICES ASSUME GoesOn(r) PROVE FALSE OBVIOUS
      <4>1. Advances(r) BY MovesKinds
      <4>2. CASE p = r
        <5>1. DidTask(r, "indices", task) /\ stage'[r] = stage[r] + 1
          BY <4>1, <4>2, <2>3, <2>4, DidAdvance DEF Kernels
        <5>2. stage'[r] = stage[r] + 1 => /\ forward'[r] = forward[r]
                                          /\ Past(r, "indices")' <=> Past(r, "indices") \/ Stages[stage[r]] = "indices"
          BY <4>1, GoingOn DEF Barriers
        <5> QED BY <5>1, <5>2, <4>2, <2>6
      <4>3. CASE p # r BY <4>1, <4>3, <2>4, <2>6, DidStep, OthersStay
      <4> QED BY <4>2, <4>3
    <3>2. forward'[p] = forward[p] BY <3>1, StreamStays
    <3>3. ~DidTask(p, "indices", task) BY <2>6, <3>2
    <3>4. ~(Stops(r) \/ DeliversPut(r) \/ DeliversSignal(r)) BY <2>4, <3>3, DidStep
    <3>5. PICK t : Does(r, t) BY <3>1, <3>4, MovesKinds
    <3>6. p = r /\ task = t BY <2>4, <3>3, <3>5, DidStep
    <3>7. CopiesIndex(r) BY <3>5, <3>6, <2>1, TaskNames
    <3>8. PICK d \in Copiers :
              /\ Does(r, <<"copy", d>>)
              /\ Updated(r, [y \in {<<"index", r, d>>} |-> <<forward[r] + 1, r, d>>])
      BY <3>7 DEF CopiesIndex
    <3>9. <<"copy", d>> = task BY <3>5, <3>6, <3>8, DoesOnce
    <3>10. d = c BY <3>9, <2>1
    <3>11. place = <<"index", r, d>> BY <3>6, <3>10, <2>1
    <3>12. Held(p, place)' = <<forward[r] + 1, r, d>> BY <3>6, <3>8, <3>11 DEF Updated
    <3> QED BY <3>2, <3>6, <3>10, <3>12, <2>1
  <2> QED BY <2>5, <2>6
<1> QED BY <1>3, <1>4, <1>5

\* Every step keeps the results of the experts.
LEMMA ResultsStay ==
    ASSUME Sound(Exchange), InOrder(Exchange), StreamsInOrder, Shapes, ResultsOfExperts,
           exchange' = exchange, NEW r \in World, Moves(r)
    PROVE  ResultsOfExperts'
<1>1. World' = World /\ AllTokens' = AllTokens /\ Pos("experts")' = Pos("experts")
      /\ (\A q, t : Experts(q, t)' = Experts(q, t))
  BY Fixed DEF Experts
<1>2. SUFFICES ASSUME NEW p \in World, NEW x \in AllTokens, p \in Experts(x[1], x[2]),
                      Pos("experts") # {}, Past(p, "experts")' \/ forward'[p] >= 1,
                      NEW place, place = <<"act", x[1], x[2]>>
               PROVE  Held(p, place)' =
                        <<IF Past(p, "experts")' THEN forward'[p] + 1 ELSE forward'[p], x[1], x[2]>>
  BY <1>1 DEF ResultsOfExperts
<1>3. forward[p] \in Nat BY StreamFacts
<1>4. Past(p, "experts") \/ forward[p] >= 1 =>
        Held(p, place) = <<IF Past(p, "experts") THEN forward[p] + 1 ELSE forward[p], x[1], x[2]>>
  BY <1>2 DEF ResultsOfExperts
<1>5. CASE GoesOn(r) /\ p = r
  <2>1. Advances(r) BY <1>5, MovesKinds
  <2>2. /\ stage'[r] = stage[r] + 1 =>
                /\ forward'[r] = forward[r]
                /\ Past(r, "experts")' <=> Past(r, "experts") \/ Stages[stage[r]] = "experts"
        /\ stage'[r] # stage[r] + 1 =>
                /\ forward'[r] = forward[r] + 1
                /\ ~Past(r, "experts")'
                /\ Past(r, "experts") \/ Stages[stage[r]] = "experts"
        /\ Past(r, "experts") => Stages[stage[r]] # "experts"
    BY <2>1, <1>2, GoingOn DEF Barriers
  <2>3. Stages[stage[r]] = "experts" => Held(r, place)' = <<forward[r] + 1, x[1], x[2]>>
    BY <1>2, <1>5, StreamWrites
  <2>4. Stages[stage[r]] # "experts" => Held(r, place)' = Held(r, place)
    BY <1>2, <1>5, StreamWrites
  <2> QED BY <2>2, <2>3, <2>4, <1>2, <1>3, <1>4, <1>5
<1>6. CASE ~(GoesOn(r) /\ p = r)
  <2>1. Past(p, "experts")' = Past(p, "experts") /\ forward'[p] = forward[p] BY <1>6, StreamStays
  <2>2. place[1] = "act" /\ Own(p, place) BY <1>2 DEF Own
  <2>3. Held(p, place)' = Held(p, place) BY <1>6, <2>2, OwnKept
  <2> QED BY <2>1, <2>3, <1>2, <1>4
<1> QED BY <1>5, <1>6

\* Every step keeps the sums over the own node.
LEMMA OwnSumsStay ==
    ASSUME Sound(Exchange), InOrder(Exchange), StreamsInOrder, BarriersHold, Shapes,
           ResultsOfExperts, SumsStand, exchange' = exchange, NEW r \in World, Moves(r),
           Exchange.nodes > 1, NEW p \in World, NEW n, n = NodeOf(p), NEW t \in Wanted(p, n),
           NEW task, task = <<"sums", n, BlockOf(t)>>, DidTask(p, "combine", task)',
           NEW place, place = <<"sum", n, SumRow(p, n, t)>>
    PROVE  Held(p, place)' = <<forward'[p] + 1, p, t>>
<1>1. Numbers /\ n \in Nodes BY SoundFacts, RankFacts
<1>2. RailOf(p, n) = p BY <1>1, RailRail
<1>3. In(p, "combine") => task \in Tasks(p)
  <2> SUFFICES ASSUME In(p, "combine") PROVE task \in Tasks(p) OBVIOUS
  <2>1. BlockOf(t) \in BlocksTo(RailOf(p, n), NodeOf(p)) BY <1>2 DEF BlocksTo
  <2> QED BY <2>1, <1>1, TasksOf
<1>4. DidTask(p, "combine", task) => Held(p, place) = <<forward[p] + 1, p, t>>
  BY DEF SumsStand
<1>5. ~SumsToken(r)
  <2>1. SumsToken(r) => Exchange.nodes = 1 BY DEF SumsToken
  <2>2. Exchange.nodes # 1 OBVIOUS
  <2> QED BY <2>1, <2>2
<1>6. place[1] = "sum" /\ Own(p, place) BY DEF Own
<1>7. CASE GoesOn(r)
  <2>1. Advances(r) /\ ~SumsBlock(r)
    <3>1. Advances(r) BY <1>7, MovesKinds
    <3>2. ~SumsBlock(r)
      <4> SUFFICES ASSUME SumsBlock(r) PROVE FALSE OBVIOUS
      <4>1. PICK m, b : Does(r, <<"sums", m, b>>) BY DEF SumsBlock
      <4>2. PICK s : s = <<"sums", m, b>> OBVIOUS
      <4> QED BY <4>1, <4>2, <1>7, TaskNames
    <3> QED BY <3>1, <3>2
  <2>2. Held(p, place)' = Held(p, place) BY <1>5, <1>6, <2>1, OwnKept
  <2>3. CASE p = r
    <3>1. DidTask(r, "combine", task) /\ stage'[r] = stage[r] + 1
      BY <2>1, <2>3, <1>3, DidAdvance DEF Kernels
    <3>2. stage'[r] = stage[r] + 1 => /\ forward'[r] = forward[r]
                                      /\ Past(r, "combine")' <=> Past(r, "combine") \/ Stages[stage[r]] = "combine"
      BY <2>1, GoingOn DEF Barriers
    <3> QED BY <3>1, <3>2, <2>2, <2>3, <1>4
  <2>4. CASE p # r
    <3>1. DidTask(p, "combine", task) BY <2>1, <2>4, DidStep
    <3>2. forward'[p] = forward[p] BY <2>1, <2>4, OthersStay
    <3> QED BY <3>1, <3>2, <2>2, <1>4
  <2> QED BY <2>3, <2>4
<1>8. CASE ~GoesOn(r)
  <2>1. forward'[p] = forward[p] BY <1>8, StreamStays
  <2>2. CASE ~(SumsBlock(r) /\ p = r)
    <3>1. Held(p, place)' = Held(p, place) BY <1>5, <1>6, <2>2, OwnKept
    <3>2. DidTask(p, "combine", task)
      <4>1. CASE Stops(r) \/ DeliversPut(r) \/ DeliversSignal(r) BY <4>1, DidStep
      <4>2. CASE \E s : Does(r, s)
        <5>1. PICK s : Does(r, s) BY <4>2
        <5>2. DidTask(p, "combine", task) \/ (p = r /\ task = s) BY <5>1, DidStep
        <5>3. ~(p = r /\ task = s)
          <6> SUFFICES ASSUME p = r, task = s PROVE FALSE OBVIOUS
          <6>1. s[1] = "sums" OBVIOUS
          <6> QED BY <5>1, <6>1, <2>2, TaskNames
        <5> QED BY <5>2, <5>3
      <4> QED BY <4>1, <4>2, <1>8, MovesKinds
    <3> QED BY <2>1, <3>1, <3>2, <1>4
  <2>3. CASE SumsBlock(r) /\ p = r
    <3>1. PICK m, b, f :
              /\ m \in Nodes /\ In(r, "combine") /\ Does(r, <<"sums", m, b>>)
              /\ WritesSums(r, m, b, f)
      BY <2>3 DEF SumsBlock
    <3>2. PICK s : s = <<"sums", m, b>> OBVIOUS
    <3>3. DidTask(p, "combine", task) \/ task = s BY <3>1, <3>2, DidStep
    <3>4. CASE task = s
      <4>1. m = n /\ b = BlockOf(t) BY <3>2, <3>4
      <4>2. t \in SumTokens(r, m, b) BY <4>1, <1>2, <2>3 DEF SumTokens
      <4>3. place = SumPlace(r, m, t) BY <4>1, <1>2, <2>3 DEF SumPlace
      <4>4. Held(p, place)' = f[place] BY <3>1, <4>2, <4>3, <2>3 DEF WritesSums, Updated
      <4>5. f[place] = Sum(p, t, n) BY <3>1, <4>1, <4>2, <4>3, <1>2, <2>3 DEF WritesSums
      <4>6. Sum(p, t, n) = <<forward[p] + 1, p, t>> BY <3>1, <2>3, SumRight
      <4> QED BY <4>4, <4>5, <4>6, <2>1
    <3>5. CASE task # s
      <4>1. place \notin DOMAIN f
        <5> SUFFICES ASSUME place \in DOMAIN f PROVE FALSE OBVIOUS
        <5>1. PICK u \in SumTokens(r, m, b) : place = SumPlace(r, m, u) BY <3>1 DEF WritesSums
        <5>2. m = n /\ SumRow(RailOf(r, m), NodeOf(r), u) = SumRow(p, n, t)
          BY <5>1 DEF SumPlace
        <5>3. u \in Wanted(p, n) /\ BlockOf(u) = b BY <5>2, <1>2, <2>3 DEF SumTokens
        <5>4. SumRow(p, n, u) = SumRow(p, n, t) BY <5>2, <1>2, <2>3
        <5>5. u = t BY <5>3, <5>4, <1>1, SumRowInjective
        <5> QED BY <5>2, <5>3, <5>5, <3>2, <3>5
      <4>2. Held(p, place)' = Held(p, place) BY <3>1, <4>1, <2>3 DEF WritesSums, Updated
      <4> QED BY <4>2, <3>3, <3>5, <2>1, <1>4
    <3> QED BY <3>4, <3>5
  <2> QED BY <2>2, <2>3
<1> QED BY <1>7, <1>8

\* With one node, every step keeps the sums.
LEMMA DirectSumsStay ==
    ASSUME Sound(Exchange), InOrder(Exchange), StreamsInOrder, Shapes,
           ResultsOfExperts, SumsStand, exchange' = exchange, NEW r \in World, Moves(r),
           Exchange.nodes = 1, NEW p \in World, NEW x \in AllTokens, p \in Experts(x[1], x[2]),
           NEW task, task = <<"sum", x[1], x[2]>>, Pos("combine") # {},
           Round(p, "combine")' >= 1, Begun(p, "combine")' => DidTask(p, "combine", task)',
           NEW q, q = x[1], NEW place, place = <<"sum", p, x[2]>>
    PROVE  Held(q, place)' = <<Round(p, "combine")', x[1], x[2]>>
<1>1. q \in World BY DEF AllTokens
<1>2. In(p, "combine") => task \in Tasks(p) BY TasksOf
<1>3. Round(p, "combine") >= 1 /\ (Begun(p, "combine") => DidTask(p, "combine", task)) =>
        Held(q, place) = <<Round(p, "combine"), x[1], x[2]>>
  BY DEF SumsStand
<1>4. ~SumsBlock(r) BY DEF SumsBlock
<1>5. place[1] = "sum" /\ Own(q, place) BY DEF Own
<1>6. CASE GoesOn(r)
  <2>1. Advances(r) /\ ~SumsToken(r)
    <3>1. Advances(r) BY <1>6, MovesKinds
    <3>2. ~SumsToken(r)
      <4> SUFFICES ASSUME SumsToken(r) PROVE FALSE OBVIOUS
      <4>1. PICK m, b : Does(r, <<"sum", m, b>>) BY DEF SumsToken
      <4>2. PICK s : s = <<"sum", m, b>> OBVIOUS
      <4> QED BY <4>1, <4>2, <1>6, TaskNames
    <3> QED BY <3>1, <3>2
  <2>2. Held(q, place)' = Held(q, place) BY <1>1, <1>4, <1>5, <2>1, OwnKept
  <2>3. CASE p = r
    <3>1. /\ Round(p, "combine")' = Round(p, "combine")
          /\ Begun(p, "combine") => DidTask(p, "combine", task)
      BY <2>1, <2>3, <1>2, KernelAdvance DEF Kernels
    <3> QED BY <3>1, <2>2, <1>3
  <2>4. CASE p # r
    <3>1. DidTask(p, "combine", task)' <=> DidTask(p, "combine", task) BY <2>1, <2>4, DidStep
    <3>2. Begun(p, "combine")' = Begun(p, "combine") /\ Round(p, "combine")' = Round(p, "combine")
      BY <2>1, <2>4, OthersStay
    <3> QED BY <3>1, <3>2, <2>2, <1>3
  <2> QED BY <2>3, <2>4
<1>7. CASE ~GoesOn(r)
  <2>1. Begun(p, "combine")' = Begun(p, "combine") /\ Round(p, "combine")' = Round(p, "combine")
    BY <1>7, StreamStays
  <2>2. CASE ~SumsToken(r)
    <3>1. Held(q, place)' = Held(q, place) BY <1>1, <1>4, <1>5, <2>2, OwnKept
    <3>2. DidTask(p, "combine", task)' => DidTask(p, "combine", task)
      <4>1. CASE Stops(r) \/ DeliversPut(r) \/ DeliversSignal(r) BY <4>1, DidStep
      <4>2. CASE \E s : Does(r, s)
        <5>1. PICK s : Does(r, s) BY <4>2
        <5>2. DidTask(p, "combine", task)' => DidTask(p, "combine", task) \/ (p = r /\ task = s)
          BY <5>1, DidStep
        <5>3. ~(p = r /\ task = s)
          <6> SUFFICES ASSUME p = r, task = s PROVE FALSE OBVIOUS
          <6>1. s[1] = "sum" OBVIOUS
          <6> QED BY <5>1, <6>1, <2>2, TaskNames
        <5> QED BY <5>2, <5>3
      <4> QED BY <4>1, <4>2, <1>7, MovesKinds
    <3> QED BY <2>1, <3>1, <3>2, <1>3
  <2>3. CASE SumsToken(r)
    <3>1. PICK z, u :
              /\ z \in World /\ u \in Tokens(z) /\ In(r, "combine") /\ r \in Experts(z, u)
              /\ Does(r, <<"sum", z, u>>)
              /\ Updated(z, [y \in {<<"sum", r, u>>} |-> Held(r, <<"act", z, u>>)])
      BY <2>3 DEF SumsToken
    <3>2. PICK s : s = <<"sum", z, u>> OBVIOUS
    <3>3. s \notin did[r] /\ Stages[stage[r]] = "combine" BY <3>1, <3>2 DEF Does, In, Stages
    <3>4. ~Past(r, "combine") /\ Begun(r, "combine") /\ forward[r] \in Nat
      BY <3>3, Once, InKernelOpen, StreamFacts DEF Barriers, Kernels
    <3>5. CASE p = r /\ task = s
      <4>1. z = x[1] /\ u = x[2] BY <3>2, <3>5
      <4>2. place = <<"sum", r, u>> BY <3>5, <4>1
      <4>3. Held(q, place)' = Held(r, <<"act", z, u>>) BY <3>1, <4>1, <4>2, <1>1 DEF Updated
      <4>4. Past(r, "experts") /\ Pos("experts") # {}
        <5>1. Past(r, "experts") BY <3>4, BehindFacts
        <5> QED BY <5>1 DEF Past
      <4>5. Held(r, <<"act", x[1], x[2]>>) = <<forward[r] + 1, x[1], x[2]>>
        BY <4>4, <3>5 DEF ResultsOfExperts
      <4>6. Round(p, "combine") = forward[r] + 1 BY <3>4, <3>5 DEF Round
      <4> QED BY <4>1, <4>3, <4>5, <4>6, <2>1
    <3>6. CASE ~(p = r /\ task = s)
      <4>1. ~(q = z /\ place = <<"sum", r, u>>)
        <5> SUFFICES ASSUME q = z, place = <<"sum", r, u>> PROVE FALSE OBVIOUS
        <5>1. p = r /\ x[2] = u OBVIOUS
        <5> QED BY <5>1, <3>2, <3>6
      <4>2. Held(q, place)' = Held(q, place) BY <3>1, <4>1, <1>1 DEF Updated
      <4>3. DidTask(p, "combine", task)' => DidTask(p, "combine", task)
        BY <3>1, <3>2, <3>6, DidStep
      <4> QED BY <4>2, <4>3, <2>1, <1>3
    <3> QED BY <3>5, <3>6
  <2> QED BY <2>2, <2>3
<1> QED BY <1>6, <1>7

\* Every step keeps the sums that no put brings.
LEMMA SumsStay ==
    ASSUME Sound(Exchange), InOrder(Exchange), StreamsInOrder, BarriersHold, Shapes,
           ResultsOfExperts, SumsStand, exchange' = exchange, NEW r \in World, Moves(r)
    PROVE  SumsStand'
<1>1. /\ World' = World /\ AllTokens' = AllTokens /\ Pos("combine")' = Pos("combine")
      /\ Exchange' = Exchange
      /\ \A q, t : Experts(q, t)' = Experts(q, t) /\ BlockOf(t)' = BlockOf(t) /\ NodeOf(q)' = NodeOf(q)
      /\ \A q, n : Wanted(q, n)' = Wanted(q, n)
      /\ \A q, n, t : SumRow(q, n, t)' = SumRow(q, n, t)
  <2>1. Exchange' = Exchange BY Fixed
  <2> QED BY <2>1, Fixed DEF Experts, BlockOf, NodeOf, Wanted, SumRow, Tokens, Hits, NodeRanks, World, Offset
<1>2. ASSUME NEW p \in World, NEW t \in Wanted(p, NodeOf(p)), Exchange.nodes > 1,
             DidTask(p, "combine", <<"sums", NodeOf(p), BlockOf(t)>>)'
      PROVE  Held(p, <<"sum", NodeOf(p), SumRow(p, NodeOf(p), t)>>)' = <<forward'[p] + 1, p, t>>
  <2>1. PICK n, task, place : /\ n = NodeOf(p) /\ task = <<"sums", n, BlockOf(t)>>
                              /\ place = <<"sum", n, SumRow(p, n, t)>>
    OBVIOUS
  <2>2. DidTask(p, "combine", task)' BY <2>1, <1>1, <1>2 DEF DidTask
  <2>3. Held(p, place)' = <<forward'[p] + 1, p, t>> BY <2>1, <2>2, <1>2, OwnSumsStay
  <2>4. Held(p, <<"sum", NodeOf(p), SumRow(p, NodeOf(p), t)>>)' = Held(p, place)'
    BY <2>1, <1>1 DEF Held
  <2> QED BY <2>3, <2>4
<1>3. ASSUME Exchange.nodes = 1, NEW p \in World, NEW x \in AllTokens, p \in Experts(x[1], x[2]),
             Pos("combine") # {}, Round(p, "combine")' >= 1,
             Begun(p, "combine")' => DidTask(p, "combine", <<"sum", x[1], x[2]>>)'
      PROVE  Held(x[1], <<"sum", p, x[2]>>)' = <<Round(p, "combine")', x[1], x[2]>>
  <2>1. PICK q, task, place : /\ q = x[1] /\ task = <<"sum", x[1], x[2]>>
                              /\ place = <<"sum", p, x[2]>>
    OBVIOUS
  <2> QED BY <2>1, <1>3, DirectSumsStay
<1> QED BY <1>1, <1>2, <1>3 DEF SumsStand

-----------------------------------------------------------------------------
(* Signals. *)

\* Who is signalled in a step, and by whom.
LEMMA PeerFacts ==
    ASSUME Sound(Exchange), NEW p \in World, NEW i \in Steps("send"), NEW q, q = PeerOf(p, i)
    PROVE  /\ q \in World /\ NodeOf(p) \in Nodes /\ NodeOf(q) \in Nodes /\ NodeOf(q) # NodeOf(p)
           /\ q # p /\ Split(i) \in Splits /\ i \in Steps("dispatch")
           /\ p = RailOf(q, NodeOf(p)) /\ i = StepOf(NodeOf(p), NodeOf(q), Split(i))
           /\ (NodeOf(q) + Exchange.nodes - NodeOffset(i)) % Exchange.nodes = NodeOf(p)
<1>1. Numbers BY SoundFacts
<1>2. NodeOf(p) \in Nodes BY <1>1, RankFacts
<1>3. i \in Steps("dispatch")
  <2>1. Exchange.splits \in Nat BY <1>1 DEF Numbers
  <2>2. Exchange.nodes \in Nat BY <1>1 DEF Numbers
  <2>3. Exchange.nodes * Exchange.splits - 1 \in Int BY <2>1, <2>2
  <2> QED BY <2>1, <2>3 DEF Steps
<1>4. PICK m : m = (NodeOf(p) + NodeOffset(i)) % Exchange.nodes OBVIOUS
<1>5. m \in Nodes /\ StepOf(NodeOf(p), m, Split(i)) = i /\ m # NodeOf(p) /\ Split(i) \in Splits
  BY <1>1, <1>2, <1>3, <1>4, StepDecodes
<1>6. q = RailOf(p, m) BY <1>4 DEF PeerOf
<1>7. q \in World /\ NodeOf(q) = m BY <1>1, <1>5, <1>6, RailFacts
<1>8. p = RailOf(q, NodeOf(p)) BY <1>1, <1>2, <1>5, <1>6, RailRail
<1>9. (m + Exchange.nodes - NodeOffset(i)) % Exchange.nodes = NodeOf(p)
  BY <1>1, <1>2, <1>5, StepFacts
<1> QED BY <1>2, <1>3, <1>5, <1>7, <1>8, <1>9

\* A zeroing and a barrier of the team follow the dispatch.
LEMMA SignalStages ==
    ASSUME Sound(Exchange), InOrder(Exchange), Pos("dispatch") # {}
    PROVE  \E d, z, m \in Nat : /\ Pos("dispatch") = {d} /\ Pos("zero") = {z} /\ m \in Pos("team")
                                /\ d < z /\ z < m /\ m <= Len(Stages)
<1>1. DOMAIN Stages = 1..Len(Stages) /\ Len(Stages) \in Nat BY StageFacts
<1>2. PICK d : d \in Pos("dispatch") OBVIOUS
<1>3. PICK z \in Pos("zero"), m \in Pos("team") : d < z /\ z < m
  BY <1>2 DEF InOrder, Pos, Stages
<1>4. d \in 1..Len(Stages) /\ z \in 1..Len(Stages) /\ m \in 1..Len(Stages)
  BY <1>1, <1>2, <1>3 DEF Pos, StagesOf
<1>5. \A e \in Pos("dispatch") : e = d BY <1>2 DEF InOrder, Pos, StagesOf, Stages
<1>6. \A e \in Pos("zero") : e = z BY <1>3 DEF InOrder, Pos, StagesOf, Stages
<1>7. Pos("dispatch") = {d} /\ Pos("zero") = {z} BY <1>2, <1>3, <1>5, <1>6
<1> QED BY <1>1, <1>3, <1>4, <1>7

\* Nobody is further than the last zeroing of a peer allows.
LEMMA ZeroedBound ==
    ASSUME Sound(Exchange), InOrder(Exchange), StreamsInOrder, BarriersHold,
           NEW p \in World, NEW q \in World, Pos("dispatch") # {}
    PROVE  forward[p] <= Zeroed(q)
<1>1. PICK d, z, m \in Nat : /\ Pos("zero") = {z} /\ m \in Pos("team") /\ z < m
  BY SignalStages
<1>2. /\ forward[p] \in Nat /\ forward[q] \in Nat
      /\ stage[p] \in 1..Len(Stages) /\ stage[q] \in 1..Len(Stages)
  BY StreamFacts
<1>3. CASE forward[p] <= forward[q] BY <1>2, <1>3 DEF Zeroed
<1>4. CASE forward[p] > forward[q]
  <2>1. q \in Members(p, "team") BY MembersFacts
  <2>2. PICK f \in Nat : f = forward[p] - 1 BY <1>2, <1>4
  <2>3. f < forward[p] BY <1>2, <2>2
  <2>4. \/ f < forward[q]
        \/ f = forward[q] /\ (m < stage[q] \/ (m = stage[q] /\ waiting[q]))
    BY <1>1, <2>1, <2>2, <2>3, Ahead DEF Barriers
  <2>5. f = forward[q] /\ m <= stage[q] BY <1>2, <1>4, <2>2, <2>4
  <2>6. Past(q, "zero") BY <1>1, <1>2, <2>5 DEF Past
  <2> QED BY <1>2, <2>2, <2>5, <2>6 DEF Zeroed
<1> QED BY <1>2, <1>3, <1>4

\* A rank that goes on to its next forward has all peers behind their zeroing.
LEMMA ZeroedAtEnd ==
    ASSUME Sound(Exchange), InOrder(Exchange), StreamsInOrder, ArrivalsCounted, BarriersHold,
           exchange' = exchange, NEW p \in World, Advances(p), stage'[p] # stage[p] + 1,
           NEW q \in World, Pos("dispatch") # {}
    PROVE  forward[p] # Zeroed(q)
<1>1. PICK d, z, m \in Nat : /\ Pos("zero") = {z} /\ m \in Pos("team") /\ z < m /\ m <= Len(Stages)
  BY SignalStages
<1>2. /\ forward[p] \in Nat /\ forward[q] \in Nat /\ waiting[p] \in BOOLEAN
      /\ stage[p] \in 1..Len(Stages) /\ stage[q] \in 1..Len(Stages)
  BY StreamFacts
<1>3. stage[p] = Len(Stages) BY GoingOn DEF Barriers
<1>4. q \in Members(p, "team") BY MembersFacts
<1>5. \/ forward[p] < forward[q]
      \/ forward[p] = forward[q] /\ m <= stage[q]
  <2>1. CASE m < stage[p]
    <3>1. \/ forward[p] < forward[q]
          \/ forward[p] = forward[q] /\ (m < stage[q] \/ (m = stage[q] /\ waiting[q]))
      BY <1>1, <1>2, <1>4, <2>1, Ahead DEF Barriers
    <3> QED BY <3>1, <1>1, <1>2
  <2>2. CASE m = stage[p]
    <3>1. Stages[stage[p]] = "team" BY <1>1, <2>2 DEF Pos, StagesOf
    <3>2. waiting[p] /\ met["team"][q] >= met["team"][p]
      BY <3>1, <1>4 DEF Advances, Barriers
    <3>3. At(p) \in Reached(q, "team") BY <3>1, <3>2, CountMeans DEF Barriers
    <3>4. Before(At(p), At(q)) \/ At(p) = At(q) BY <3>3 DEF Reached
    <3>5. /\ At(p)[1] = forward[p] /\ At(p)[2] = stage[p]
          /\ At(q)[1] = forward[q] /\ At(q)[2] = stage[q]
      BY DEF At
    <3> QED BY <3>4, <3>5, <1>1, <1>2, <2>2 DEF Before
  <2> QED BY <2>1, <2>2, <1>1, <1>2, <1>3
<1>6. forward[p] = forward[q] => Past(q, "zero")
  BY <1>1, <1>2, <1>5 DEF Past
<1> QED BY <1>2, <1>5, <1>6 DEF Zeroed

\* Whose signals have come changes only by a delivery, and when the forward ends.
LEMMA GotStays ==
    ASSUME Sound(Exchange), InOrder(Exchange), StreamsInOrder, Shapes, WireKnown,
           exchange' = exchange, NEW r \in World, Moves(r), NEW p \in World, NEW i \in Steps("send")
    PROVE  /\ GoesOn(r) /\ p = r /\ stage'[r] # stage[r] + 1 => GotOf(p, i)' = {}
           /\ ~(GoesOn(r) /\ p = r /\ stage'[r] # stage[r] + 1) /\ ~DeliversSignal(r) =>
                GotOf(p, i)' = GotOf(p, i)
<1> DEFINE Did(w) == DidTask(p, "dispatch", <<"send", w, i>>)
<1>1. Senders' = Senders /\ \A w : SignalOf(p, w, i)' = SignalOf(p, w, i) BY Fixed
<1>2. /\ \A w : w \in GotOf(p, i)' <=> w \in Senders /\ Did(w)' /\ SignalOf(p, w, i) \notin wire'[p]
      /\ \A w : w \in GotOf(p, i) <=> w \in Senders /\ Did(w) /\ SignalOf(p, w, i) \notin wire[p]
  BY <1>1 DEF GotOf
<1>3. ASSUME NEW w \in Senders
      PROVE  In(p, "dispatch") => <<"send", w, i>> \in Tasks(p)
  BY TasksOf
<1> HIDE DEF Did
<1>4. CASE GoesOn(r)
  <2>1. Advances(r) /\ wire'[p] = wire[p] BY <1>4, MovesKinds, WireStep
  <2>2. CASE p = r
    <3>1. ASSUME NEW w \in Senders
          PROVE  /\ Did(w)' => stage'[r] = stage[r] + 1
                 /\ stage'[r] = stage[r] + 1 => (Did(w)' <=> Did(w))
      <4>1. PICK t : t = <<"send", w, i>> OBVIOUS
      <4>2. In(r, "dispatch") => t \in Tasks(r) BY <4>1, <2>2, <1>3
      <4>3. /\ DidTask(r, "dispatch", t)' => DidTask(r, "dispatch", t) /\ stage'[r] = stage[r] + 1
            /\ stage'[r] = stage[r] + 1 => (DidTask(r, "dispatch", t)' <=> DidTask(r, "dispatch", t))
        BY <2>1, <4>2, DidAdvance DEF Kernels
      <4> QED BY <4>1, <4>3, <2>2 DEF Did
    <3>2. stage'[r] # stage[r] + 1 => \A w : w \notin GotOf(p, i)' BY <3>1, <1>2
    <3>3. stage'[r] = stage[r] + 1 => \A w : w \in GotOf(p, i)' <=> w \in GotOf(p, i)
      BY <3>1, <2>1, <1>2
    <3>4. stage'[r] # stage[r] + 1 => GotOf(p, i)' = {} BY <3>2
    <3>5. stage'[r] = stage[r] + 1 => GotOf(p, i)' = GotOf(p, i) BY <3>3
    <3> QED BY <3>4, <3>5, <2>2, <1>4
  <2>3. CASE p # r
    <3>1. ASSUME NEW w \in Senders PROVE Did(w)' <=> Did(w) BY <2>1, <2>3, DidStep DEF Did
    <3> QED BY <3>1, <2>1, <2>3, <1>2
  <2> QED BY <2>2, <2>3
<1>5. CASE Stops(r)
  <2>1. wire'[p] = wire[p] BY <1>5, WireStep
  <2>2. ASSUME NEW w PROVE Did(w)' <=> Did(w) BY <1>5, DidStep DEF Did
  <2>3. ~(GoesOn(r) /\ p = r /\ stage'[r] # stage[r] + 1)
    <3>1. Arrives(r) BY <1>5, MovesKinds
    <3>2. stage' = stage /\ waiting' = [waiting EXCEPT ![r] = TRUE] BY <3>1 DEF Arrives, Arrive, MayArrive
    <3>3. waiting'[r] = TRUE BY <3>2 DEF StreamsInOrder
    <3>4. GoesOn(r) => waiting' = [waiting EXCEPT ![r] = FALSE] BY DEF GoesOn, Advances
    <3>5. GoesOn(r) => waiting'[r] = FALSE BY <3>4 DEF StreamsInOrder
    <3> QED BY <3>3, <3>5
  <2> QED BY <2>1, <2>2, <2>3, <1>2
<1>6. CASE \E task : Does(r, task)
  <2>1. PICK task : Does(r, task) BY <1>6
  <2>2. ~GoesOn(r) BY <2>1, TaskNames
  <2>3. ASSUME NEW w \in Senders
        PROVE  Did(w)' /\ SignalOf(p, w, i) \notin wire'[p] <=> Did(w) /\ SignalOf(p, w, i) \notin wire[p]
    <3>1. Did(w)' <=> Did(w) \/ (p = r /\ Stages[stage[r]] = "dispatch" /\ <<"send", w, i>> = task)
      BY <2>1, DidStep DEF Did
    <3>2. SignalOf(p, w, i) \in wire'[p] <=>
                    \/ SignalOf(p, w, i) \in wire[p]
                    \/ (p = r /\ Stages[stage[r]] = "dispatch" /\ task = <<"send", w, i>>)
      BY <2>1, NewInWire
    <3>3. p = r /\ Stages[stage[r]] = "dispatch" /\ task = <<"send", w, i>> => ~Did(w)
      <4>1. task \notin did[r] BY <2>1 DEF Does
      <4>2. Stages[stage[r]] = "dispatch" => ~Past(r, "dispatch") BY Once DEF Barriers
      <4> QED BY <4>1, <4>2 DEF Did, DidTask
    <3> QED BY <3>1, <3>2, <3>3
  <2> QED BY <2>2, <2>3, <1>2
<1>7. CASE DeliversPut(r) /\ ~GoesOn(r)
  <2>1. PICK y \in Puts : y.from = r /\ wire' = [wire EXCEPT ![r] = @ \ {OpOf(y)}]
    BY <1>7 DEF DeliversPut
  <2>2. wire'[p] = wire[p] \ (IF p = r THEN {OpOf(y)} ELSE {}) BY <2>1, WireStep
  <2>3. \A w : OpOf(y) # SignalOf(p, w, i) BY SignalFacts
  <2>4. ASSUME NEW w PROVE Did(w)' <=> Did(w) BY <1>7, DidStep DEF Did
  <2> QED BY <1>7, <2>2, <2>3, <2>4, <1>2
<1>8. DeliversSignal(r) /\ GoesOn(r) => FALSE
  <2> SUFFICES ASSUME DeliversSignal(r), GoesOn(r) PROVE FALSE OBVIOUS
  <2>1. stage' = stage /\ forward' = forward BY DEF DeliversSignal
  <2>2. Advances(r) BY MovesKinds
  <2>3. NextStage(r) BY <2>2 DEF Advances
  <2>4. stage'[r] # stage[r] \/ forward'[r] # forward[r] BY <2>3, AdvanceTo
  <2> QED BY <2>1, <2>4
<1> QED BY <1>4, <1>5, <1>6, <1>7, <1>8, MovesKinds

\* Signals come by their delivery only.
LEMMA SeenKept ==
    ASSUME NEW r, Moves(r), ~GoesOn(r), ~DeliversSignal(r)
    PROVE  seen' = seen
BY DEF Moves, Stops, Sends, Dispatches, PutsSegment, PutsIndices, CopiesIndex, SumsBlock, SumsToken,
       DeliversPut, Does

\* The signals that a rank zeroes are its own.
LEMMA SeenGoesOn ==
    ASSUME Shapes, NEW r \in World, GoesOn(r), NEW q \in World, NEW s \in Splits, NEW n \in Nodes
    PROVE  seen'[q][s][n] = IF q = r /\ Stages[stage[r]] = "zero" THEN 0 ELSE seen[q][s][n]
<1>1. CASE Stages[stage[r]] = "zero"
  <2>1. seen' = [seen EXCEPT ![r] = [t \in Splits |-> [m \in Nodes |-> 0]]] BY <1>1 DEF GoesOn
  <2>2. seen'[q] = IF q = r THEN [t \in Splits |-> [m \in Nodes |-> 0]] ELSE seen[q]
    BY <2>1 DEF Shapes
  <2> QED BY <2>2, <1>1
<1>2. CASE Stages[stage[r]] # "zero"
  <2>1. seen' = seen BY <1>2 DEF GoesOn
  <2> QED BY <2>1, <1>2
<1> QED BY <1>1, <1>2

\* The forward of a peer, and of its last zeroing.
LEMMA ZeroedStays ==
    ASSUME Sound(Exchange), StreamsInOrder, exchange' = exchange, NEW r \in World, Moves(r),
           NEW q \in World, ~(GoesOn(r) /\ q = r)
    PROVE  forward'[q] = forward[q] /\ Zeroed(q)' = Zeroed(q)
<1>1. forward'[q] = forward[q] /\ Past(q, "zero")' = Past(q, "zero") BY StreamStays
<1> QED BY <1>1 DEF Zeroed

\* What going on does to the number of zeroings.
LEMMA ZeroedGoesOn ==
    ASSUME Sound(Exchange), InOrder(Exchange), StreamsInOrder, exchange' = exchange,
           NEW r \in World, GoesOn(r)
    PROVE  /\ Stages[stage[r]] = "zero" => Zeroed(r) = forward[r] /\ Zeroed(r)' = forward[r] + 1
           /\ Stages[stage[r]] # "zero" /\ Pos("zero") # {} => Zeroed(r)' = Zeroed(r)
<1>1. Advances(r) BY MovesKinds DEF Moves
<1>2. /\ stage'[r] = stage[r] + 1 =>
                /\ forward'[r] = forward[r]
                /\ Past(r, "zero")' <=> Past(r, "zero") \/ Stages[stage[r]] = "zero"
      /\ stage'[r] # stage[r] + 1 =>
                /\ forward'[r] = forward[r] + 1
                /\ ~Past(r, "zero")'
                /\ Pos("zero") # {} => Past(r, "zero") \/ Stages[stage[r]] = "zero"
      /\ Past(r, "zero") => Stages[stage[r]] # "zero"
  <2>1. "zero" \notin Barriers BY DEF Barriers
  <2>2. PICK k : k = "zero" OBVIOUS
  <2>3. /\ stage'[r] = stage[r] + 1 =>
                /\ forward'[r] = forward[r]
                /\ Past(r, k)' <=> Past(r, k) \/ Stages[stage[r]] = k
        /\ stage'[r] # stage[r] + 1 =>
                /\ forward'[r] = forward[r] + 1
                /\ ~Past(r, k)'
                /\ Pos(k) # {} => Past(r, k) \/ Stages[stage[r]] = k
        /\ Past(r, k) => Stages[stage[r]] # k
    BY <1>1, <2>1, <2>2, GoingOn
  <2> QED BY <2>2, <2>3
<1> QED BY <1>2 DEF Zeroed

\* Without a dispatch nothing is signalled.
LEMMA NoDispatch ==
    ASSUME Sound(Exchange), StreamsInOrder, Pos("dispatch") = {}, NEW p \in World, NEW i
    PROVE  GotOf(p, i) = {}
<1>1. \A w : ~DidTask(p, "dispatch", <<"send", w, i>>) BY DidBegun
<1> QED BY <1>1 DEF GotOf

\* A peer that a signal is on its way to has not zeroed for this forward yet.
LEMMA SignalInTime ==
    ASSUME Sound(Exchange), InOrder(Exchange), StreamsInOrder, BarriersHold, WireOpen, SignalsHeard,
           NEW p \in World, NEW i \in Steps("send"), NEW w \in Senders,
           SignalOf(p, w, i) \in wire[p], NEW q, q = PeerOf(p, i)
    PROVE  forward[p] = Zeroed(q)
<1>1. q \in World BY PeerFacts
<1>2. Open(p, "dispatch") BY DEF WireOpen
<1>3. Pos("dispatch") # {} BY <1>2 DEF Open, Begun
<1>4. PICK d, z, m \in Nat : /\ Pos("dispatch") = {d} /\ Pos("zero") = {z} /\ m \in Pos("team")
                             /\ d < z /\ z < m /\ m <= Len(Stages)
  BY <1>3, SignalStages
<1>5. /\ forward[p] \in Nat /\ forward[q] \in Nat
      /\ stage[p] \in 1..Len(Stages) /\ stage[q] \in 1..Len(Stages)
  BY <1>1, StreamFacts
<1>6. forward[p] <= Zeroed(q) BY <1>1, <1>3, ZeroedBound
<1>7. ~(forward[p] < forward[q])
  <2> SUFFICES ASSUME forward[p] < forward[q] PROVE FALSE OBVIOUS
  <2>1. p \in Members(q, "team") BY <1>1, MembersFacts
  <2>2. \/ forward[p] < forward[p]
        \/ forward[p] = forward[p] /\ (m < stage[p] \/ (m = stage[p] /\ waiting[p]))
    BY <1>1, <1>4, <1>5, <2>1, Ahead DEF Barriers
  <2>3. d < m BY <1>4
  <2>4. Flushed(p, "dispatch") BY <1>4, <1>5, <2>2, <2>3 DEF Flushed
  <2> QED BY <2>4, <1>2 DEF Open
<1>8. ~(forward[p] = forward[q] /\ Past(q, "zero"))
  <2> SUFFICES ASSUME forward[p] = forward[q], Past(q, "zero") PROVE FALSE OBVIOUS
  <2>1. Past(q, "dispatch") BY <1>4, <1>5 DEF Past
  <2>2. Heard(p, i) BY <2>1 DEF SignalsHeard
  <2>3. GotOf(p, i) = Senders BY <2>2, <1>5 DEF Heard
  <2>4. w \in GotOf(p, i) BY <2>3
  <2> QED BY <2>4 DEF GotOf
<1> QED BY <1>5, <1>6, <1>7, <1>8 DEF Zeroed

\* Two ranks of a rail signal different counters.
LEMMA SignalPlaces ==
    ASSUME Sound(Exchange), NEW p \in World, NEW i \in Steps("send"),
           NEW r \in World, NEW j \in Steps("send"),
           PeerOf(p, i) = PeerOf(r, j), Split(i) = Split(j), NodeOf(p) = NodeOf(r)
    PROVE  p = r /\ i = j
<1>1. PICK q : q = PeerOf(p, i) OBVIOUS
<1>2. p = RailOf(q, NodeOf(p)) /\ i = StepOf(NodeOf(p), NodeOf(q), Split(i)) BY <1>1, PeerFacts
<1>3. r = RailOf(q, NodeOf(r)) /\ j = StepOf(NodeOf(r), NodeOf(q), Split(j)) BY <1>1, PeerFacts
<1> QED BY <1>2, <1>3

\* A signal that comes.
Comes(r, w, j) ==
    /\ w \in Senders /\ j \in Steps("send") /\ SignalOf(r, w, j) \in wire[r]
    /\ wire' = [wire EXCEPT ![r] = @ \ {SignalOf(r, w, j)}]
    /\ DeliversSignal(r)

\* The signal that comes is one more of its step.
LEMMA GotSignal ==
    ASSUME Sound(Exchange), InOrder(Exchange), StreamsInOrder, Shapes, WireKnown, WireOpen,
           exchange' = exchange, NEW r \in World, NEW w, NEW j, Comes(r, w, j),
           NEW p \in World, NEW i \in Steps("send")
    PROVE  GotOf(p, i)' = GotOf(p, i) \cup (IF p = r /\ i = j THEN {w} ELSE {})
           /\ (p = r /\ i = j => w \notin GotOf(p, i))
<1> DEFINE Did(v) == DidTask(p, "dispatch", <<"send", v, i>>)
<1>1. Senders' = Senders /\ \A v : SignalOf(p, v, i)' = SignalOf(p, v, i) BY Fixed
<1>2. /\ \A v : v \in GotOf(p, i)' <=> v \in Senders /\ Did(v)' /\ SignalOf(p, v, i) \notin wire'[p]
      /\ \A v : v \in GotOf(p, i) <=> v \in Senders /\ Did(v) /\ SignalOf(p, v, i) \notin wire[p]
  BY <1>1 DEF GotOf
<1>0. /\ w \in Senders /\ j \in Steps("send") /\ SignalOf(r, w, j) \in wire[r]
      /\ wire' = [wire EXCEPT ![r] = @ \ {SignalOf(r, w, j)}]
      /\ DeliversSignal(r)
  BY DEF Comes
<1>3. p = r /\ i = j => Did(w) BY <1>0 DEF WireOpen
<1> HIDE DEF Did
<1>4. ASSUME NEW v PROVE Did(v)' <=> Did(v) BY <1>0, DidStep DEF Did
<1>5. wire'[p] = wire[p] \ (IF p = r THEN {SignalOf(r, w, j)} ELSE {}) BY <1>0, WireStep
<1>6. \A v : SignalOf(r, v, i) = SignalOf(r, w, j) => v = w /\ i = j BY SignalFacts
<1>7. CASE p = r /\ i = j
  <2>1. \A v : SignalOf(p, v, i) \in wire'[p] <=> SignalOf(p, v, i) \in wire[p] /\ v # w
    BY <1>5, <1>6, <1>7
  <2>2. \A v : v \in GotOf(p, i)' <=> v \in GotOf(p, i) \/ v = w
    BY <2>1, <1>0, <1>2, <1>3, <1>4, <1>7
  <2>3. w \notin GotOf(p, i) BY <1>0, <1>2, <1>7
  <2>4. GotOf(p, i)' = GotOf(p, i) \cup {w} BY <2>2
  <2> QED BY <2>3, <2>4, <1>7
<1>8. CASE ~(p = r /\ i = j)
  <2>1. \A v : SignalOf(p, v, i) \in wire'[p] <=> SignalOf(p, v, i) \in wire[p]
    BY <1>5, <1>6, <1>8
  <2>2. \A v : v \in GotOf(p, i)' <=> v \in GotOf(p, i) BY <2>1, <1>2, <1>4
  <2> QED BY <2>2, <1>8
<1> QED BY <1>7, <1>8

\* Every step keeps the signals counted.
LEMMA CountedStays ==
    ASSUME Sound(Exchange), InOrder(Exchange), StreamsInOrder, Shapes, ArrivalsCounted, BarriersHold,
           WireKnown, WireOpen, SignalsCounted, SignalsHeard,
           exchange' = exchange, NEW r \in World, Moves(r)
    PROVE  SignalsCounted'
<1>1. /\ World' = World /\ Steps("send")' = Steps("send") /\ Splits' = Splits
      /\ \A p, i : PeerOf(p, i)' = PeerOf(p, i) /\ Split(i)' = Split(i)
      /\ \A p : NodeOf(p)' = NodeOf(p)
  BY Fixed DEF NodeOf
<1>2. ASSUME NEW p \in World, NEW i \in Steps("send"),
             NEW q, q = PeerOf(p, i), NEW s, s = Split(i), NEW n, n = NodeOf(p)
      PROVE  seen'[q][s][n] = IF forward'[p] = Zeroed(q)' THEN Cardinality(GotOf(p, i)') ELSE 0
  <2>1. q \in World /\ n \in Nodes /\ s \in Splits /\ p # q BY <1>2, PeerFacts
  <2>2. seen[q][s][n] = IF forward[p] = Zeroed(q) THEN Cardinality(GotOf(p, i)) ELSE 0
    BY <1>2 DEF SignalsCounted
  <2>3. Cardinality({}) = 0 BY FS_EmptySet
  <2>4. Pos("dispatch") = {} => GotOf(p, i) = {} BY NoDispatch
  <2>5. CASE GoesOn(r)
    <3>1. Advances(r) /\ ~DeliversSignal(r)
      <4>1. DeliversSignal(r) => stage' = stage /\ forward' = forward BY DEF DeliversSignal
      <4>2. Advances(r) BY <2>5, MovesKinds
      <4>3. stage'[r] # stage[r] \/ forward'[r] # forward[r] BY <4>2, AdvanceTo DEF Advances
      <4> QED BY <4>1, <4>2, <4>3
    <3>2. seen'[q][s][n] = IF q = r /\ Stages[stage[r]] = "zero" THEN 0 ELSE seen[q][s][n]
      BY <2>1, <2>5, SeenGoesOn
    <3>3. CASE p = r
      <4>1. Zeroed(q)' = Zeroed(q) BY <2>1, <3>3, ZeroedStays
      <4>2. seen'[q][s][n] = seen[q][s][n] BY <2>1, <3>2, <3>3
      <4>3. CASE stage'[r] = stage[r] + 1
        <5>1. GotOf(p, i)' = GotOf(p, i) BY <3>1, <4>3, GotStays
        <5>2. forward'[p] = forward[p]
          <6>1. stage'[r] = stage[r] + 1 =>
                    /\ forward'[r] = forward[r]
                    /\ Past(r, "zero")' <=> Past(r, "zero") \/ Stages[stage[r]] = "zero"
            BY <3>1, GoingOn DEF Barriers
          <6> QED BY <6>1, <3>3, <4>3
        <5> QED BY <4>1, <4>2, <5>1, <5>2, <2>2
      <4>4. CASE stage'[r] # stage[r] + 1
        <5>1. GotOf(p, i)' = {} BY <2>5, <3>3, <4>4, GotStays
        <5>2. seen[q][s][n] = 0
          <6>1. CASE Pos("dispatch") = {} BY <6>1, <2>2, <2>3, <2>4
          <6>2. CASE Pos("dispatch") # {}
            <7>1. forward[p] # Zeroed(q) BY <6>2, <3>1, <3>3, <4>4, <2>1, ZeroedAtEnd
            <7> QED BY <7>1, <2>2
          <6> QED BY <6>1, <6>2
        <5> QED BY <4>2, <5>1, <5>2, <2>3
      <4> QED BY <4>3, <4>4
    <3>4. CASE q = r
      <4>1. forward'[p] = forward[p] /\ GotOf(p, i)' = GotOf(p, i)
        BY <2>1, <3>1, <3>4, ZeroedStays, GotStays
      <4>2. CASE Stages[stage[r]] = "zero"
        <5>1. Zeroed(q) = forward[q] /\ Zeroed(q)' = forward[q] + 1
          BY <2>5, <3>4, <4>2, ZeroedGoesOn
        <5>2. seen'[q][s][n] = 0 BY <3>2, <3>4, <4>2
        <5>3. Pos("dispatch") # {} => forward'[p] # Zeroed(q)'
          <6>1. Pos("dispatch") # {} => forward[p] <= Zeroed(q) BY <2>1, ZeroedBound
          <6>2. forward[p] \in Nat /\ forward[q] \in Nat BY <2>1, StreamFacts
          <6> QED BY <6>1, <6>2, <5>1, <4>1
        <5> QED BY <5>2, <5>3, <4>1, <2>3, <2>4
      <4>3. CASE Stages[stage[r]] # "zero"
        <5>1. seen'[q][s][n] = seen[q][s][n] BY <3>2, <4>3
        <5>2. CASE Pos("zero") = {}
          <6>1. Pos("dispatch") = {}
            <7>1. Pos("dispatch") # {} => Pos("zero") # {} BY SignalStages
            <7> QED BY <7>1, <5>2
          <6> QED BY <6>1, <5>1, <4>1, <2>2, <2>3, <2>4
        <5>3. CASE Pos("zero") # {}
          <6>1. Zeroed(q)' = Zeroed(q) BY <2>5, <3>4, <4>3, <5>3, ZeroedGoesOn
          <6> QED BY <6>1, <5>1, <4>1, <2>2
        <5> QED BY <5>2, <5>3
      <4> QED BY <4>2, <4>3
    <3>5. CASE p # r /\ q # r
      <4>1. /\ forward'[p] = forward[p] /\ Zeroed(q)' = Zeroed(q)
            /\ GotOf(p, i)' = GotOf(p, i)
        BY <2>1, <3>1, <3>5, ZeroedStays, GotStays
      <4> QED BY <4>1, <3>2, <3>5, <2>2
    <3> QED BY <3>3, <3>4, <3>5
  <2>6. CASE ~GoesOn(r)
    <3>1. forward'[p] = forward[p] /\ Zeroed(q)' = Zeroed(q) BY <2>1, <2>6, ZeroedStays
    <3>2. CASE ~DeliversSignal(r)
      <4>1. seen' = seen /\ GotOf(p, i)' = GotOf(p, i) BY <2>6, <3>2, SeenKept, GotStays
      <4> QED BY <3>1, <4>1, <2>2
    <3>3. CASE DeliversSignal(r)
      <4>1. PICK w \in Senders, j \in Steps("send") :
                /\ SignalOf(r, w, j) \in wire[r]
                /\ wire' = [wire EXCEPT ![r] = @ \ {SignalOf(r, w, j)}]
                /\ seen' = [seen EXCEPT ![PeerOf(r, j)][Split(j)][NodeOf(r)] = @ + 1]
        BY <3>3 DEF DeliversSignal
      <4>2. PICK t, u, v : t = PeerOf(r, j) /\ u = Split(j) /\ v = NodeOf(r) OBVIOUS
      <4>3. t \in World /\ u \in Splits /\ v \in Nodes BY <4>2, PeerFacts
      <4>4. seen' = [seen EXCEPT ![t][u][v] = @ + 1] BY <4>1, <4>2
      <4>5. seen'[q][s][n] = IF q = t /\ s = u /\ n = v THEN seen[q][s][n] + 1 ELSE seen[q][s][n]
        BY <4>3, <4>4, <2>1 DEF Shapes
      <4>6. /\ GotOf(p, i)' = GotOf(p, i) \cup (IF p = r /\ i = j THEN {w} ELSE {})
            /\ (p = r /\ i = j => w \notin GotOf(p, i))
        <5>1. Comes(r, w, j) BY <4>1, <3>3 DEF Comes
        <5> QED BY <5>1, GotSignal
      <4>7. q = t /\ s = u /\ n = v <=> p = r /\ i = j
        <5>1. p = r /\ i = j => q = t /\ s = u /\ n = v BY <4>2, <1>2
        <5>2. q = t /\ s = u /\ n = v => p = r /\ i = j BY <4>2, <1>2, SignalPlaces
        <5> QED BY <5>1, <5>2
      <4>8. CASE p = r /\ i = j
        <5>1. forward[p] = Zeroed(q) BY <4>1, <4>8, <1>2, SignalInTime
        <5>2. IsFiniteSet(GotOf(p, i))
          <6>1. IsFiniteSet(Senders)
            <7>1. Exchange.senders \in Nat BY SoundFacts DEF Numbers
            <7> QED BY <7>1, UpTo DEF Senders
          <6>2. GotOf(p, i) \subseteq Senders BY DEF GotOf
          <6> QED BY <6>1, <6>2, FS_Subset
        <5>3. Cardinality(GotOf(p, i) \cup {w}) = Cardinality(GotOf(p, i)) + 1
          BY <5>2, <4>6, <4>8, FS_AddElement
        <5>4. GotOf(p, i)' = GotOf(p, i) \cup {w} BY <4>6, <4>8
        <5>5. seen'[q][s][n] = seen[q][s][n] + 1 BY <4>5, <4>7, <4>8
        <5> QED BY <5>1, <5>3, <5>4, <5>5, <3>1, <2>2
      <4>9. CASE ~(p = r /\ i = j)
        <5>1. GotOf(p, i)' = GotOf(p, i) BY <4>6, <4>9
        <5>2. seen'[q][s][n] = seen[q][s][n] BY <4>5, <4>7, <4>9
        <5> QED BY <5>1, <5>2, <3>1, <2>2
      <4> QED BY <4>8, <4>9
    <3> QED BY <3>2, <3>3
  <2> QED BY <2>5, <2>6
<1>3. ASSUME NEW q \in World, NEW s \in Splits, NEW n, n = NodeOf(q)
      PROVE  seen'[q][s][n] = 0
  <2>1. n \in Nodes BY <1>3, SoundFacts, RankFacts
  <2>2. seen[q][s][n] = 0 BY <1>3 DEF SignalsCounted
  <2>3. CASE GoesOn(r) BY <2>1, <2>2, <2>3, SeenGoesOn
  <2>4. CASE ~GoesOn(r) /\ ~DeliversSignal(r) BY <2>2, <2>4, SeenKept
  <2>5. CASE DeliversSignal(r)
    <3>1. PICK j \in Steps("send") :
              seen' = [seen EXCEPT ![PeerOf(r, j)][Split(j)][NodeOf(r)] = @ + 1]
      BY <2>5 DEF DeliversSignal
    <3>2. PICK t, u, v : t = PeerOf(r, j) /\ u = Split(j) /\ v = NodeOf(r) OBVIOUS
    <3>3. t \in World /\ u \in Splits /\ v \in Nodes /\ NodeOf(t) # v BY <3>2, PeerFacts
    <3>4. seen' = [seen EXCEPT ![t][u][v] = @ + 1] BY <3>1, <3>2
    <3>5. seen'[q][s][n] = IF q = t /\ s = u /\ n = v THEN seen[q][s][n] + 1 ELSE seen[q][s][n]
      BY <3>3, <3>4, <2>1 DEF Shapes
    <3> QED BY <3>3, <3>5, <2>2, <1>3
  <2> QED BY <2>3, <2>4, <2>5
<1>4. ASSUME NEW p \in World, NEW i \in Steps("send")
      PROVE  seen'[PeerOf(p, i)][Split(i)][NodeOf(p)] =
                IF forward'[p] = Zeroed(PeerOf(p, i))' THEN Cardinality(GotOf(p, i)') ELSE 0
  <2>1. PICK q, s, n : q = PeerOf(p, i) /\ s = Split(i) /\ n = NodeOf(p) OBVIOUS
  <2>2. Zeroed(PeerOf(p, i))' = Zeroed(q)' BY <2>1, <1>1 DEF Zeroed, Past
  <2> QED BY <2>1, <2>2, <1>2
<1> QED BY <1>1, <1>3, <1>4 DEF SignalsCounted

\* Every step keeps what the dispatched ranks know of their peers.
LEMMA HeardStays ==
    ASSUME Sound(Exchange), InOrder(Exchange), StreamsInOrder, Shapes, TasksInOrder,
           WireKnown, WireOpen, SignalsCounted, SignalsHeard,
           exchange' = exchange, NEW r \in World, Moves(r)
    PROVE  SignalsHeard'
<1>1. /\ World' = World /\ Steps("send")' = Steps("send") /\ Senders' = Senders
      /\ Dispatchers' = Dispatchers /\ \A p, i : PeerOf(p, i)' = PeerOf(p, i)
  BY Fixed
<1>2. SUFFICES ASSUME NEW p \in World, NEW i \in Steps("send"), NEW q, q = PeerOf(p, i),
                      \/ Past(q, "dispatch")'
                      \/ \E w \in Dispatchers : DidTask(q, "dispatch", <<"dispatch", w, i>>)'
               PROVE  forward'[p] > forward'[q] \/ (forward'[p] = forward'[q] /\ GotOf(p, i)' = Senders)
  <2>1. SUFFICES ASSUME NEW p \in World, NEW i \in Steps("send"),
                        \/ Past(PeerOf(p, i), "dispatch")'
                        \/ \E w \in Dispatchers :
                              DidTask(PeerOf(p, i), "dispatch", <<"dispatch", w, i>>)'
                 PROVE  Heard(p, i)'
    BY <1>1 DEF SignalsHeard
  <2>2. PICK q : q = PeerOf(p, i) OBVIOUS
  <2>3. \/ Past(q, "dispatch")'
        \/ \E w \in Dispatchers : DidTask(q, "dispatch", <<"dispatch", w, i>>)'
    BY <1>1, <2>1, <2>2 DEF Past, DidTask
  <2>4. forward'[p] > forward'[q] \/ (forward'[p] = forward'[q] /\ GotOf(p, i)' = Senders)
    BY <1>2, <2>2, <2>3
  <2> QED BY <1>1, <2>2, <2>4 DEF Heard
<1>3. /\ q \in World /\ q # p /\ i \in Steps("dispatch")
      /\ (NodeOf(q) + Exchange.nodes - NodeOffset(i)) % Exchange.nodes = NodeOf(p)
      /\ NodeOf(p) # NodeOf(q)
  BY <1>2, PeerFacts
<1>4. forward[p] \in Nat /\ forward[q] \in Nat BY <1>3, StreamFacts
<1> DEFINE Began == Past(q, "dispatch") \/ \E w \in Dispatchers : DidTask(q, "dispatch", <<"dispatch", w, i>>)
<1>5. Began => forward[p] > forward[q] \/ (forward[p] = forward[q] /\ GotOf(p, i) = Senders)
  BY <1>2 DEF SignalsHeard, Heard
<1>6. ASSUME NEW w \in Dispatchers
      PROVE  In(q, "dispatch") => <<"dispatch", w, i>> \in Tasks(q)
  BY <1>3, TasksOf
<1>7. CASE GoesOn(r)
  <2>1. Advances(r) /\ ~DeliversSignal(r)
    <3>1. DeliversSignal(r) => stage' = stage /\ forward' = forward BY DEF DeliversSignal
    <3>2. Advances(r) BY <1>7, MovesKinds
    <3>3. stage'[r] # stage[r] \/ forward'[r] # forward[r] BY <3>2, AdvanceTo DEF Advances
    <3> QED BY <3>1, <3>2, <3>3
  <2>2. PICK k : k = "dispatch" OBVIOUS
  <2>3. k \in Kernels /\ k \notin Barriers BY <2>2 DEF Kernels, Barriers
  <2>4. CASE q = r
    <3>1. forward'[p] = forward[p] /\ GotOf(p, i)' = GotOf(p, i)
      BY <1>3, <2>1, <2>4, ZeroedStays, GotStays
    <3>2. ASSUME NEW w \in Dispatchers
          PROVE  /\ DidTask(r, "dispatch", <<"dispatch", w, i>>)' =>
                        DidTask(r, "dispatch", <<"dispatch", w, i>>) /\ stage'[r] = stage[r] + 1
                 /\ Stages[stage[r]] = "dispatch" => DidTask(r, "dispatch", <<"dispatch", w, i>>)
      <4>1. PICK t : t = <<"dispatch", w, i>> OBVIOUS
      <4>2. In(r, k) => t \in Tasks(r) BY <4>1, <1>6, <2>2, <2>4
      <4>3. /\ DidTask(r, k, t)' => DidTask(r, k, t) /\ stage'[r] = stage[r] + 1
            /\ Stages[stage[r]] = k => DidTask(r, k, t)
        BY <2>1, <2>3, <4>2, DidAdvance
      <4> QED BY <4>1, <4>3, <2>2
    <3>3. /\ stage'[r] = stage[r] + 1 =>
                /\ forward'[r] = forward[r]
                /\ Past(r, k)' <=> Past(r, k) \/ Stages[stage[r]] = k
          /\ stage'[r] # stage[r] + 1 => ~Past(r, k)'
      BY <2>1, <2>3, GoingOn
    <3>4. 0 \in Dispatchers
      <4>1. Exchange.dispatchers \in Nat \ {0} BY SoundFacts DEF Numbers
      <4> QED BY <4>1 DEF Dispatchers
    <3>5. stage'[r] = stage[r] + 1
      <4>1. Past(r, "dispatch")' => stage'[r] = stage[r] + 1 BY <3>3, <2>2
      <4> QED BY <4>1, <3>2, <1>2, <2>4
    <3>6. Began
      <4>1. CASE Past(r, "dispatch")'
        <5>1. Past(r, "dispatch") \/ Stages[stage[r]] = "dispatch" BY <4>1, <3>3, <3>5, <2>2
        <5> QED BY <5>1, <3>2, <3>4, <2>4
      <4>2. CASE \E w \in Dispatchers : DidTask(r, "dispatch", <<"dispatch", w, i>>)'
        BY <4>2, <3>2, <2>4
      <4> QED BY <4>1, <4>2, <1>2, <2>4
    <3> QED BY <3>1, <3>3, <3>5, <3>6, <1>5, <2>4
  <2>5. CASE q # r
    <3>1. forward'[q] = forward[q] /\ Past(q, "dispatch")' = Past(q, "dispatch")
      BY <1>3, <2>1, <2>5, OthersStay
    <3>2. \A w : DidTask(q, "dispatch", <<"dispatch", w, i>>)' <=> DidTask(q, "dispatch", <<"dispatch", w, i>>)
      BY <1>3, <2>1, <2>5, DidStep
    <3>3. forward[p] > forward[q] \/ (forward[p] = forward[q] /\ GotOf(p, i) = Senders)
      BY <3>1, <3>2, <1>2, <1>5
    <3>4. CASE p = r /\ stage'[r] # stage[r] + 1
      <4>1. stage'[r] # stage[r] + 1 => forward'[r] = forward[r] + 1 /\ ~Past(r, k)'
        BY <2>1, <2>3, GoingOn
      <4> QED BY <4>1, <3>1, <3>3, <3>4, <1>4
    <3>5. CASE ~(p = r /\ stage'[r] # stage[r] + 1)
      <4>1. GotOf(p, i)' = GotOf(p, i) BY <3>5, <2>1, GotStays
      <4>2. forward'[p] = forward[p]
        <5>1. CASE p = r
          <6>1. stage'[r] = stage[r] + 1 =>
                    forward'[r] = forward[r] /\ (Past(r, k)' <=> Past(r, k) \/ Stages[stage[r]] = k)
            BY <2>1, <2>3, GoingOn
          <6> QED BY <6>1, <5>1, <3>5
        <5>2. CASE p # r BY <5>2, <2>1, OthersStay
        <5> QED BY <5>1, <5>2
      <4> QED BY <4>1, <4>2, <3>1, <3>3
    <3> QED BY <3>4, <3>5
  <2> QED BY <2>4, <2>5
<1>8. CASE ~GoesOn(r)
  <2>1. forward'[p] = forward[p] /\ forward'[q] = forward[q]
    BY <1>3, <1>8, StreamStays
  <2>2. Past(q, "dispatch")' = Past(q, "dispatch") BY <1>3, <1>8, StreamStays
  <2>3. GotOf(p, i) = Senders => GotOf(p, i)' = Senders
    <3>1. CASE ~DeliversSignal(r) BY <1>8, <3>1, GotStays
    <3>2. CASE DeliversSignal(r)
      <4>1. PICK w, j : Comes(r, w, j) BY <3>2 DEF DeliversSignal, Comes
      <4>2. GotOf(p, i)' = GotOf(p, i) \cup (IF p = r /\ i = j THEN {w} ELSE {})
        BY <4>1, GotSignal
      <4>3. w \in Senders BY <4>1 DEF Comes
      <4> QED BY <4>2, <4>3
    <3> QED BY <3>1, <3>2
  <2>4. CASE Began BY <2>1, <2>3, <2>4, <1>5
  <2>5. CASE ~Began
    <3>1. PICK w \in Dispatchers : DidTask(q, "dispatch", <<"dispatch", w, i>>)'
      BY <2>2, <2>5, <1>2
    <3>2. PICK t : t = <<"dispatch", w, i>> OBVIOUS
    <3>3. ~DidTask(q, "dispatch", t) /\ DidTask(q, "dispatch", t)' BY <3>1, <3>2, <2>5
    <3>4. ~(Stops(r) \/ DeliversPut(r) \/ DeliversSignal(r)) BY <3>3, <1>3, DidStep
    <3>5. PICK u : Does(r, u) BY <3>4, <1>8, MovesKinds
    <3>6. q = r /\ Stages[stage[r]] = "dispatch" /\ t = u BY <3>3, <3>5, <1>3, DidStep
    <3>7. u[1] = "dispatch" BY <3>2, <3>6
    <3>8. Dispatches(r) BY <3>5, <3>7, TaskNames
    <3>9. PICK v \in Dispatchers, j \in Steps("dispatch") :
              /\ Does(r, <<"dispatch", v, j>>)
              /\ LET n == (NodeOf(r) + Exchange.nodes - NodeOffset(j)) % Exchange.nodes
                 IN  n = NodeOf(r) \/ AllSignalled(r, Split(j), n)
      BY <3>8 DEF Dispatches
    <3>10. <<"dispatch", v, j>> = u BY <3>5, <3>9, DoesOnce
    <3>11. j = i BY <3>10, <3>6, <3>2
    <3>12. AllSignalled(q, Split(i), NodeOf(p)) BY <3>9, <3>11, <3>6, <1>3
    <3>13. forward[p] = forward[q] /\ GotOf(p, i) = Senders
      BY <3>6, <3>12, <1>2, <1>3, AllHeard
    <3> QED BY <3>13, <2>1, <2>3
  <2> QED BY <2>4, <2>5
<1> QED BY <1>7, <1>8

-----------------------------------------------------------------------------
(* What a rank takes out of its buffers. *)

\* While q reads, every rank is through with the kernel and nothing of it is in flight.
LEMMA AllDone ==
    ASSUME Sound(Exchange), InOrder(Exchange), StreamsInOrder, BarriersHold,
           NEW k \in Kernels, NEW q \in World, NEW p \in World, In(q, ReaderOf(k))
    PROVE  /\ Pos(k) # {} /\ Round(p, k) = forward[q] + 1 /\ forward[q] \in Nat
           /\ ~Open(p, k) /\ (Begun(p, k) => \A t : DidTask(p, k, t))
<1>1. /\ Pos(k) # {} /\ Round(p, k) = forward[q] + 1 /\ (Begun(p, k) => Flushed(p, k))
  BY Reading
<1>2. forward[q] \in Nat /\ stage[p] \in 1..Len(Stages) /\ Len(Stages) \in Nat BY StreamFacts
<1>3. ASSUME Flushed(p, k) PROVE Past(p, k)
  <2>1. PICK i \in Pos(k), m \in Pos("team") : i < m /\ m <= stage[p]
    <3>1. \E i \in Pos(k), m \in Pos("team") : i < m /\ (m < stage[p] \/ m = stage[p])
      BY <1>3 DEF Flushed
    <3>2. \A m \in Pos("team") : m \in Nat BY KernelFacts
    <3> QED BY <3>1, <3>2, <1>2
  <2>2. i \in Nat /\ m \in Nat BY <2>1, KernelFacts
  <2> QED BY <1>2, <2>1, <2>2 DEF Past
<1> QED BY <1>1, <1>2, <1>3 DEF Open, DidTask

\* What was put for this forward is there.
LEMMA ReadPut ==
    ASSUME Sound(Exchange), InOrder(Exchange), StreamsInOrder, BarriersHold, WireOpen, TargetsStand,
           NEW x \in Puts, NEW q, q = x.to, NEW k, k = Kernel(x), In(q, ReaderOf(k))
    PROVE  Held(q, Target(x)) = <<forward[q] + 1, x.of, x.item>>
<1>1. x.from \in World /\ q \in World BY PutFacts
<1>2. k \in Kernels BY TaskTags
<1>3. /\ Pos(k) # {} /\ Round(x.from, k) = forward[q] + 1 /\ forward[q] \in Nat
      /\ ~Open(x.from, k) /\ (Begun(x.from, k) => \A t : DidTask(x.from, k, t))
  BY <1>1, <1>2, AllDone
<1>4. Landed(x) BY <1>3 DEF Landed, IsDone, WireOpen
<1> QED BY <1>3, <1>4 DEF TargetsStand, Content

\* The rows a rank takes are those of its forward.
LEMMA RowsRight ==
    ASSUME Sound(Exchange), InOrder(Exchange), StreamsInOrder, BarriersHold, WireOpen, TargetsStand,
           NEW r \in World, In(r, "rows"), NEW q \in World, NEW t \in Tokens(q), r \in Experts(q, t)
    PROVE  Held(r, <<"out", q, t>>) = <<forward[r] + 1, q, t>>
<1> DEFINE n == NodeOf(r)
           x == [kind |-> "rows", from |-> RailOf(q, n), to |-> r, of |-> q, item |-> t]
<1>0. Numbers BY SoundFacts
<1>1. n \in Nodes BY <1>0, RankFacts
<1>2. RailOf(q, n) \in World /\ NodeOf(RailOf(q, n)) = n BY <1>0, <1>1, RailFacts
<1>3. r \in Hits(q, t, n) BY DEF Hits, NodeRanks
<1>4. t \in Nat BY TokenFacts
<1>5. x \in Puts BY <1>2, <1>3, <1>4 DEF Puts, Kinds
<1>6. x.kind = "rows" /\ x.to = r /\ x.of = q /\ x.item = t OBVIOUS
<1> HIDE DEF x, n
<1>7. Kernel(x) = "dispatch" /\ ReaderOf("dispatch") = "rows"
  BY <1>5, <1>6, TaskTags DEF ReaderOf
<1>8. Target(x) = <<"out", q, t>> BY <1>6, SourceTarget
<1> QED BY <1>5, <1>6, <1>7, <1>8, ReadPut

\* So are the segments,
LEMMA SegmentsRight ==
    ASSUME Sound(Exchange), InOrder(Exchange), StreamsInOrder, BarriersHold, WireOpen, TargetsStand,
           NEW r \in World, In(r, "got"), NEW q \in World
    PROVE  Held(r, <<"got", q>>) = <<forward[r] + 1, q, r>>
<1> DEFINE x == [kind |-> "exchange", from |-> q, to |-> r, of |-> q, item |-> r]
<1>1. r \in Nat BY RankFacts, SoundFacts
<1>2. x \in Puts BY <1>1 DEF Puts, Kinds
<1>3. x.kind = "exchange" /\ x.to = r /\ x.of = q /\ x.item = r /\ x.from = q OBVIOUS
<1> HIDE DEF x
<1>4. Kernel(x) = "exchange" /\ ReaderOf("exchange") = "got"
  BY <1>2, <1>3, TaskTags DEF ReaderOf
<1>5. Target(x) = <<"got", q>> BY <1>3, SourceTarget
<1> QED BY <1>2, <1>3, <1>4, <1>5, ReadPut

\* the indices,
LEMMA IndicesRight ==
    ASSUME Sound(Exchange), InOrder(Exchange), StreamsInOrder, BarriersHold, WireOpen, TargetsStand,
           CopiesStand, NEW r \in World, In(r, "allIndices"), NEW q \in World, NEW c \in Copiers
    PROVE  Held(r, <<"index", q, c>>) = <<forward[r] + 1, q, c>>
<1>1. PICK k : k = "indices" OBVIOUS
<1>2. k \in Kernels /\ ReaderOf(k) = "allIndices" BY <1>1 DEF Kernels, ReaderOf
<1>3. CASE q = r
  <2>1. Pos(k) # {} /\ Round(r, k) = forward[r] + 1 /\ forward[r] \in Nat
        /\ (Begun(r, k) => \A t : DidTask(r, k, t))
    BY <1>2, AllDone
  <2>2. Begun(r, k) BY <2>1 DEF Round
  <2>3. DidTask(r, "indices", <<"copy", c>>) BY <1>1, <2>1, <2>2
  <2> QED BY <1>3, <2>3 DEF CopiesStand
<1>4. CASE q # r
  <2> DEFINE x == [kind |-> "indices", from |-> q, to |-> r, of |-> q, item |-> c]
  <2>1. c \in Nat
    <3>1. Exchange.copiers \in Nat BY SoundFacts DEF Numbers
    <3> QED BY <3>1 DEF Copiers
  <2>2. x \in Puts BY <2>1, <1>4 DEF Puts, Kinds
  <2>3. x.kind = "indices" /\ x.to = r /\ x.of = q /\ x.item = c /\ x.from = q OBVIOUS
  <2> HIDE DEF x
  <2>4. Kernel(x) = k BY <1>1, <2>2, <2>3, TaskTags
  <2>5. Target(x) = <<"index", q, c>> BY <2>3, SourceTarget
  <2> QED BY <1>2, <2>2, <2>3, <2>4, <2>5, ReadPut
<1> QED BY <1>3, <1>4

\* the sums of several nodes, looked for where their sender put them,
LEMMA SumsRight ==
    ASSUME Sound(Exchange), InOrder(Exchange), StreamsInOrder, BarriersHold, WireOpen, TargetsStand,
           SumsStand, NEW r \in World, In(r, "reduce"), Exchange.nodes > 1,
           NEW n \in Nodes, NEW t \in Wanted(r, n)
    PROVE  Held(r, <<"sum", n, ReduceRow(r, n, t)>>) = <<forward[r] + 1, r, t>>
<1>1. PICK k : k = "combine" OBVIOUS
<1>2. k \in Kernels /\ ReaderOf(k) = "reduce" BY <1>1 DEF Kernels, ReaderOf
<1>3. SumRow(r, n, t) = ReduceRow(r, n, t) BY RowsAgree
<1>4. CASE n = NodeOf(r)
  <2>1. Pos(k) # {} /\ Round(r, k) = forward[r] + 1 /\ forward[r] \in Nat
        /\ (Begun(r, k) => \A u : DidTask(r, k, u))
    BY <1>2, AllDone
  <2>2. Begun(r, k) BY <2>1 DEF Round
  <2>3. DidTask(r, "combine", <<"sums", NodeOf(r), BlockOf(t)>>) BY <1>1, <2>1, <2>2
  <2> QED BY <1>3, <1>4, <2>3 DEF SumsStand
<1>5. CASE n # NodeOf(r)
  <2> DEFINE x == [kind |-> "sums", from |-> RailOf(r, n), to |-> r, of |-> r, item |-> t]
  <2>1. RailOf(r, n) \in World /\ NodeOf(RailOf(r, n)) = n BY SoundFacts, RailFacts
  <2>2. t \in Nat BY TokenFacts DEF Wanted
  <2>3. x \in Puts BY <2>1, <2>2, <1>5 DEF Puts, Kinds
  <2>4. x.kind = "sums" /\ x.to = r /\ x.of = r /\ x.item = t /\ NodeOf(x.from) = n BY <2>1
  <2> HIDE DEF x
  <2>5. Kernel(x) = k BY <1>1, <2>3, <2>4, TaskTags
  <2>6. Target(x) = <<"sum", n, SumRow(r, n, t)>> BY <2>4, SourceTarget
  <2> QED BY <1>2, <1>3, <2>3, <2>4, <2>5, <2>6, ReadPut
<1> QED BY <1>4, <1>5

\* and those of one node.
LEMMA DirectSumsRight ==
    ASSUME Sound(Exchange), InOrder(Exchange), StreamsInOrder, BarriersHold, SumsStand,
           NEW r \in World, In(r, "reduce"), Exchange.nodes = 1,
           NEW t \in Tokens(r), NEW p \in Experts(r, t)
    PROVE  Held(r, <<"sum", p, t>>) = <<forward[r] + 1, r, t>>
<1>1. PICK k : k = "combine" OBVIOUS
<1>2. k \in Kernels /\ ReaderOf(k) = "reduce" BY <1>1 DEF Kernels, ReaderOf
<1>3. p \in World BY TokenFacts
<1>4. Pos(k) # {} /\ Round(p, k) = forward[r] + 1 /\ forward[r] \in Nat
      /\ (Begun(p, k) => \A u : DidTask(p, k, u))
  BY <1>2, <1>3, AllDone
<1>5. PICK x : x = <<r, t>> OBVIOUS
<1>6. x \in AllTokens /\ x[1] = r /\ x[2] = t BY <1>5 DEF AllTokens
<1>7. Begun(p, "combine") => DidTask(p, "combine", <<"sum", x[1], x[2]>>) BY <1>1, <1>4
<1>8. Held(x[1], <<"sum", p, x[2]>>) = <<Round(p, "combine"), x[1], x[2]>>
  BY <1>1, <1>3, <1>4, <1>6, <1>7 DEF SumsStand
<1> QED BY <1>1, <1>4, <1>6, <1>8

\* No step takes a wrong result.
LEMMA ResultsStayExact ==
    ASSUME Sound(Exchange), InOrder(Exchange), StreamsInOrder, BarriersHold, Shapes, WireOpen,
           TargetsStand, CopiesStand, SumsStand, ResultsExact, exchange' = exchange,
           NEW r \in World, StreamStep(r) \/ KernelStep(r) \/ Deliver(r)
    PROVE  ResultsExact'
<1>1. World' = World BY Fixed
<1>2. bad' = bad \/ TakeRows(r) \/ Reduce(r) \/ TakeSegments(r) \/ TakeIndices(r) BY BadStep
<1>3. ASSUME NEW right, right, bad' = [bad EXCEPT ![r] = @ \/ ~right] PROVE ResultsExact'
  BY <1>1, <1>3 DEF ResultsExact, Shapes
<1>4. CASE bad' = bad BY <1>1, <1>4 DEF ResultsExact
<1>5. CASE TakeRows(r)
  <2>1. In(r, "rows") BY <1>5 DEF TakeRows
  <2>2. \A q \in World : \A t \in Tokens(q) :
            r \in Experts(q, t) => Held(r, <<"out", q, t>>) = <<Current(r), q, t>>
    BY <2>1, RowsRight DEF Current
  <2>3. bad' = [bad EXCEPT ![r] = @ \/ ~(\A q \in World : \A t \in Tokens(q) :
            r \in Experts(q, t) => Held(r, <<"out", q, t>>) = <<Current(r), q, t>>)]
    BY <1>5 DEF TakeRows, Result
  <2> QED BY <1>3, <2>2, <2>3
<1>6. CASE TakeSegments(r)
  <2>1. In(r, "got") BY <1>6 DEF TakeSegments
  <2>2. \A q \in World : Held(r, <<"got", q>>) = <<Current(r), q, r>>
    BY <2>1, SegmentsRight DEF Current
  <2>3. bad' = [bad EXCEPT ![r] = @ \/ ~(\A q \in World : Held(r, <<"got", q>>) = <<Current(r), q, r>>)]
    BY <1>6 DEF TakeSegments, Result
  <2> QED BY <1>3, <2>2, <2>3
<1>7. CASE TakeIndices(r)
  <2>1. In(r, "allIndices") BY <1>7 DEF TakeIndices
  <2>2. \A q \in World, c \in Copiers : Held(r, <<"index", q, c>>) = <<Current(r), q, c>>
    BY <2>1, IndicesRight DEF Current
  <2>3. bad' = [bad EXCEPT ![r] = @ \/ ~(\A q \in World, c \in Copiers :
                                            Held(r, <<"index", q, c>>) = <<Current(r), q, c>>)]
    BY <1>7 DEF TakeIndices, Result
  <2> QED BY <1>3, <2>2, <2>3
<1>8. CASE Reduce(r)
  <2> DEFINE rows(t) == IF Exchange.nodes = 1 THEN {<<"sum", p, t>> : p \in Experts(r, t)}
                        ELSE {<<"sum", n, ReduceRow(r, n, t)>> :
                                n \in {m \in Nodes : t \in Wanted(r, m)}}
             right == \A t \in Tokens(r) : \A p \in rows(t) : Held(r, p) = <<Current(r), r, t>>
  <2>1. In(r, "reduce") BY <1>8 DEF Reduce
  <2>2. ASSUME NEW t \in Tokens(r), NEW p \in rows(t)
        PROVE  Held(r, p) = <<Current(r), r, t>>
    <3>1. CASE Exchange.nodes = 1
      <4>1. PICK e \in Experts(r, t) : p = <<"sum", e, t>> BY <2>2, <3>1
      <4>2. Held(r, <<"sum", e, t>>) = <<forward[r] + 1, r, t>>
        BY <2>1, <3>1, DirectSumsRight
      <4> QED BY <4>1, <4>2 DEF Current
    <3>2. CASE Exchange.nodes # 1
      <4>1. PICK n \in Nodes : t \in Wanted(r, n) /\ p = <<"sum", n, ReduceRow(r, n, t)>>
        BY <2>2, <3>2
      <4>2. Exchange.nodes > 1 BY <3>2, SoundFacts DEF Numbers
      <4>3. Held(r, <<"sum", n, ReduceRow(r, n, t)>>) = <<forward[r] + 1, r, t>>
        BY <2>1, <4>1, <4>2, SumsRight
      <4> QED BY <4>1, <4>3 DEF Current
    <3> QED BY <3>1, <3>2
  <2>3. right BY <2>2
  <2>4. bad' = [bad EXCEPT ![r] = @ \/ ~right] BY <1>8 DEF Reduce, Result
  <2> HIDE DEF right
  <2> QED BY <1>3, <2>3, <2>4
<1> QED BY <1>2, <1>4, <1>5, <1>6, <1>7, <1>8

-----------------------------------------------------------------------------
(* The invariant holds in every state. *)

\* The configuration of a behaviour is one of those assumed to be in order.
LEMMA ConfigFacts ==
    ASSUME ConfigsOK, exchange \in DOMAIN Configs
    PROVE  Sound(Exchange) /\ InOrder(Exchange)
  BY DEF ConfigsOK, Exchange

\* Every step keeps the invariant.
LEMMA InvStep ==
    ASSUME ConfigsOK, IInv, Next
    PROVE  IInv'
<1>1. /\ StreamsInOrder /\ Shapes /\ ArrivalsCounted /\ BarriersHold
      /\ TasksInOrder /\ WireKnown /\ WireOpen /\ SourcesStand /\ TargetsStand
      /\ CopiesStand /\ IndicesCopied /\ ResultsOfExperts /\ SumsStand
      /\ SignalsCounted /\ SignalsHeard /\ RowsBeforeSignals /\ ResultsExact
  BY DEF IInv
<1>2. Sound(Exchange) /\ InOrder(Exchange) BY <1>1, ConfigFacts DEF StreamsInOrder
<1>3. PICK r \in World : StreamStep(r) \/ KernelStep(r) \/ Deliver(r) BY DEF Next
<1>4. exchange' = exchange /\ (Advances(r) \/ Arrives(r) \/ Works(r) \/ Delivers(r))
  BY <1>1, <1>2, <1>3, StepKinds
<1>5. Moves(r) BY <1>1, <1>2, <1>3, StepEffects DEF Moves
<1>6. StreamsInOrder' /\ TasksInOrder' BY <1>1, <1>2, <1>4, StreamsStep
<1>7. Shapes'
  <2>1. bad' \in [World -> BOOLEAN] BY <1>1, <1>3, BadStep
  <2> QED BY <1>1, <1>2, <1>4, <1>5, <2>1, ShapesStep DEF Moves
<1>8. ArrivalsCounted' /\ BarriersHold' BY <1>1, <1>2, <1>4, BarrierStep
<1>9. WireKnown' BY <1>1, <1>2, <1>4, <1>5, WireStaysKnown
<1>10. WireOpen' BY <1>1, <1>2, <1>4, <1>5, WireStaysOpen
<1>11. SourcesStand' BY <1>1, <1>2, <1>4, <1>5, SourcesStay
<1>12. TargetsStand' BY <1>1, <1>2, <1>4, <1>5, TargetsStay
<1>13. CopiesStand' BY <1>1, <1>2, <1>4, <1>5, CopiesStay
<1>14. IndicesCopied' BY <1>1, <1>2, <1>4, <1>5, IndicesStayCopied
<1>15. ResultsOfExperts' BY <1>1, <1>2, <1>4, <1>5, ResultsStay
<1>16. SumsStand' BY <1>1, <1>2, <1>4, <1>5, SumsStay
<1>17. SignalsCounted' BY <1>1, <1>2, <1>4, <1>5, CountedStays
<1>18. SignalsHeard' BY <1>1, <1>2, <1>4, <1>5, HeardStays
<1>19. RowsBeforeSignals' BY <1>1, <1>2, <1>4, <1>5, RowsStayBeforeSignals
<1>20. ResultsExact' BY <1>1, <1>2, <1>3, <1>4, ResultsStayExact
<1> QED
  BY <1>6, <1>7, <1>8, <1>9, <1>10, <1>11, <1>12, <1>13, <1>14, <1>15, <1>16, <1>17, <1>18,
     <1>19, <1>20 DEF IInv

\* In the first state nothing is begun, done, in flight or met.
LEMMA Fresh ==
    ASSUME ConfigsOK, Init
    PROVE  /\ Sound(Exchange) /\ InOrder(Exchange) /\ StreamsInOrder /\ Shapes
           /\ 1 \in DOMAIN Stages /\ DOMAIN Stages = 1..Len(Stages) /\ Len(Stages) \in Nat
           /\ \A r \in World :
                /\ forward[r] = 0 /\ stage[r] = 1 /\ ~waiting[r] /\ did[r] = {} /\ wire[r] = {}
                /\ \A k : ~Past(r, k)
                /\ \A k, t : ~DidTask(r, k, t)
<1>1. Sound(Exchange) /\ InOrder(Exchange) BY ConfigFacts DEF Init
<1>2. Len(Stages) \in Nat \ {0} /\ DOMAIN Stages = 1..Len(Stages) BY <1>1, StageFacts
<1>3. Exchange.forwards \in Nat BY <1>1, SoundFacts DEF Numbers
<1>4. StreamsInOrder BY <1>2, <1>3 DEF Init, StreamsInOrder
<1>5. Shapes BY DEF Init, Shapes
<1>6. ASSUME NEW r \in World
      PROVE  /\ forward[r] = 0 /\ stage[r] = 1 /\ ~waiting[r] /\ did[r] = {} /\ wire[r] = {}
             /\ \A k : ~Past(r, k)
             /\ \A k, t : ~DidTask(r, k, t)
  <2>1. /\ forward[r] = 0 /\ stage[r] = 1 /\ ~waiting[r] /\ did[r] = {} /\ wire[r] = {}
    BY DEF Init
  <2>2. \A k : ~Past(r, k) BY <2>1, <1>2 DEF Past, Pos, StagesOf
  <2> QED BY <2>1, <2>2 DEF DidTask
<1> QED BY <1>1, <1>2, <1>4, <1>5, <1>6

\* The invariant holds at first.
LEMMA InvInit ==
    ASSUME ConfigsOK, Init
    PROVE  IInv
<1>1. /\ Sound(Exchange) /\ InOrder(Exchange) /\ StreamsInOrder /\ Shapes
      /\ 1 \in DOMAIN Stages /\ DOMAIN Stages = 1..Len(Stages) /\ Len(Stages) \in Nat
      /\ \A r \in World :
            /\ forward[r] = 0 /\ stage[r] = 1 /\ ~waiting[r] /\ did[r] = {} /\ wire[r] = {}
            /\ \A k : ~Past(r, k)
            /\ \A k, t : ~DidTask(r, k, t)
  BY Fresh
<1>2. \A r \in World : \A b : Passed(r, b) = {} /\ Reached(r, b) = {}
  BY <1>1 DEF Passed, Reached, Calls, Before, At
<1>3. ArrivalsCounted
  <2>1. \A b \in {"team", "node"}, r \in World : met[b][r] = 0 BY DEF Init
  <2> QED BY <1>2, <2>1, FS_EmptySet DEF ArrivalsCounted
<1>4. BarriersHold BY <1>2 DEF BarriersHold
<1>5. TasksInOrder BY <1>1 DEF TasksInOrder
<1>6. WireKnown BY <1>1 DEF WireKnown
<1>7. \A x \in Puts : OpOf(x) \notin wire[x.from] BY <1>1, PutFacts
<1>8. WireOpen BY <1>1, <1>7 DEF WireOpen
<1>9. SourcesStand BY <1>7 DEF SourcesStand
<1>10. \A r \in World : \A k : Round(r, k) >= 1 => Begun(r, k) BY <1>1 DEF Round
<1>11. TargetsStand
  <2>1. ASSUME NEW x \in Puts, Landed(x) PROVE FALSE
    <3>1. x.from \in World BY PutFacts
    <3> QED BY <1>1, <1>10, <2>1, <3>1 DEF Landed, IsDone
  <2> QED BY <2>1 DEF TargetsStand
<1>12. CopiesStand BY <1>1 DEF CopiesStand
<1>13. IndicesCopied BY <1>1 DEF IndicesCopied
<1>14. ResultsOfExperts BY <1>1 DEF ResultsOfExperts
<1>15. SumsStand
  <2>1. ASSUME NEW r \in World, NEW t,
               Round(r, "combine") >= 1, Begun(r, "combine") => DidTask(r, "combine", t)
        PROVE  FALSE
    BY <1>1, <1>10, <2>1
  <2>2. ASSUME NEW r \in World, NEW t PROVE ~DidTask(r, "combine", t)
    BY <1>1
  <2> QED BY <2>1, <2>2 DEF SumsStand
<1>16. SignalsCounted
  <2>1. \A r \in World, s \in Splits, n \in Nodes : seen[r][s][n] = 0 BY DEF Init
  <2>2. ASSUME NEW p \in World, NEW i \in Steps("send")
        PROVE  seen[PeerOf(p, i)][Split(i)][NodeOf(p)] =
                 IF forward[p] = Zeroed(PeerOf(p, i)) THEN Cardinality(GotOf(p, i)) ELSE 0
    <3>1. PICK q : q = PeerOf(p, i) OBVIOUS
    <3>2. q \in World /\ NodeOf(p) \in Nodes /\ Split(i) \in Splits BY <1>1, <3>1, PeerFacts
    <3>3. GotOf(p, i) = {} BY <1>1 DEF GotOf
    <3>4. Cardinality(GotOf(p, i)) = 0 BY <3>3, FS_EmptySet
    <3>5. seen[q][Split(i)][NodeOf(p)] = 0 BY <2>1, <3>2
    <3> QED BY <3>1, <3>4, <3>5
  <2>3. ASSUME NEW r \in World, NEW s \in Splits PROVE seen[r][s][NodeOf(r)] = 0
    <3>1. NodeOf(r) \in Nodes BY <1>1, SoundFacts, RankFacts
    <3> QED BY <2>1, <3>1
  <2> QED BY <2>2, <2>3 DEF SignalsCounted
<1>17. SignalsHeard
  <2>1. ASSUME NEW p \in World, NEW i \in Steps("send"), NEW q, q = PeerOf(p, i)
        PROVE  ~Past(q, "dispatch") /\ \A w : ~DidTask(q, "dispatch", <<"dispatch", w, i>>)
    <3>1. q \in World BY <1>1, <2>1, PeerFacts
    <3> QED BY <1>1, <3>1
  <2> QED BY <2>1 DEF SignalsHeard
<1>18. RowsBeforeSignals BY <1>7 DEF RowsBeforeSignals
<1>19. ResultsExact BY DEF Init, ResultsExact
<1> QED
  BY <1>1, <1>3, <1>4, <1>5, <1>6, <1>8, <1>9, <1>11, <1>12, <1>13, <1>14, <1>15, <1>16, <1>17,
     <1>18, <1>19 DEF IInv

\* A step that changes nothing keeps the invariant.
LEMMA StutterKeeps ==
    ASSUME Sound(Exchange), IInv, exchange' = exchange, forward' = forward, stage' = stage,
           waiting' = waiting, did' = did, wire' = wire, seen' = seen, mem' = mem, met' = met,
           bad' = bad
    PROVE  IInv'
<1>1. /\ Exchange' = Exchange /\ World' = World /\ Stages' = Stages /\ Nodes' = Nodes
      /\ Splits' = Splits /\ Senders' = Senders /\ Dispatchers' = Dispatchers
      /\ Copiers' = Copiers /\ Puts' = Puts /\ AllTokens' = AllTokens
      /\ \A name : Pos(name)' = Pos(name) /\ Calls(name)' = Calls(name)
                   /\ Steps(name)' = Steps(name)
      /\ \A x : Source(x)' = Source(x) /\ Target(x)' = Target(x) /\ TaskOf(x)' = TaskOf(x)
                /\ OpOf(x)' = OpOf(x) /\ Kernel(x)' = Kernel(x)
      /\ \A r, b : Members(r, b)' = Members(r, b)
      /\ \A r, w, i : SignalOf(r, w, i)' = SignalOf(r, w, i)
      /\ \A p, i : PeerOf(p, i)' = PeerOf(p, i) /\ Split(i)' = Split(i)
  BY Fixed
<1>2. /\ \A r, k : Begun(r, k)' = Begun(r, k) BY <1>1 DEF Begun
<1>3. \A r, k : Past(r, k)' = Past(r, k) BY <1>1 DEF Past
<1>4. \A r, k : Open(r, k)' = Open(r, k) BY <1>1, <1>2 DEF Open, Flushed
<1>5. \A r, k : Round(r, k)' = Round(r, k) BY <1>2 DEF Round
<1>6. \A r, k, t : DidTask(r, k, t)' = DidTask(r, k, t) BY <1>1, <1>3 DEF DidTask
<1>7. \A x : IsDone(x)' = IsDone(x) BY <1>1, <1>6 DEF IsDone
<1>8. \A r, place : Held(r, place)' = Held(r, place) BY DEF Held
<1>9. \A r : Zeroed(r)' = Zeroed(r) BY <1>3 DEF Zeroed
<1>10. \A p, i : GotOf(p, i)' = GotOf(p, i) BY <1>1, <1>6 DEF GotOf
<1>11. \A r, b : Passed(r, b)' = Passed(r, b) /\ Reached(r, b)' = Reached(r, b)
  BY <1>1 DEF Passed, Reached, At
<1>12. \A x : Landed(x)' = Landed(x) BY <1>1, <1>2, <1>5, <1>7 DEF Landed
<1>20. StreamsInOrder' BY <1>1 DEF IInv, StreamsInOrder
<1>21. Shapes' BY <1>1 DEF IInv, Shapes
<1>22. ArrivalsCounted' BY <1>1, <1>11 DEF IInv, ArrivalsCounted
<1>23. BarriersHold' BY <1>1, <1>11 DEF IInv, BarriersHold
<1>24. TasksInOrder'
  <2>1. ASSUME NEW p \in World, did[p] # {} PROVE did'[p] \subseteq Tasks(p)'
    <3>1. forward[p] < Exchange.forwards /\ Stages[stage[p]] \in Kernels
      BY <2>1, DidFacts DEF IInv
    <3>2. Tasks(p)' = Tasks(p) BY <3>1, TasksStay
    <3> QED BY <2>1, <3>2 DEF IInv, TasksInOrder
  <2> QED BY <1>1, <2>1 DEF IInv, TasksInOrder
<1>25. WireKnown' BY <1>1 DEF IInv, WireKnown
<1>26. WireOpen' BY <1>1, <1>4, <1>6, <1>7 DEF IInv, WireOpen
<1>27. SourcesStand' BY <1>1, <1>8 DEF IInv, SourcesStand, Content
<1>28. TargetsStand' BY <1>1, <1>5, <1>8, <1>12 DEF IInv, TargetsStand, Content
<1>29. CopiesStand' BY <1>1, <1>3, <1>6, <1>8 DEF IInv, CopiesStand, NodeOf, Tokens
<1>30. IndicesCopied' BY <1>1 DEF IInv, IndicesCopied
<1>31. ResultsOfExperts' BY <1>1, <1>3, <1>8 DEF IInv, ResultsOfExperts, Experts
<1>32. SumsStand'
  <2>1. \A r, t : SumRow(r, NodeOf(r), t)' = SumRow(r, NodeOf(r), t)
    BY <1>1 DEF SumRow, NodeOf, Wanted, BlockOf, Offset, Tokens, Hits, Experts, NodeRanks
  <2>2. \A r : NodeOf(r)' = NodeOf(r) /\ Wanted(r, NodeOf(r))' = Wanted(r, NodeOf(r))
               /\ BlockOf(r)' = BlockOf(r)
    BY <1>1 DEF NodeOf, Wanted, Tokens, Hits, Experts, NodeRanks, BlockOf
  <2>3. \A q, t : Experts(q, t)' = Experts(q, t) BY <1>1 DEF Experts
  <2> QED BY <1>1, <1>2, <1>5, <1>6, <1>8, <2>1, <2>2, <2>3 DEF IInv, SumsStand
<1>33. SignalsCounted' BY <1>1, <1>9, <1>10 DEF IInv, SignalsCounted, NodeOf
<1>34. SignalsHeard' BY <1>1, <1>3, <1>6, <1>10 DEF IInv, SignalsHeard, Heard
<1>35. RowsBeforeSignals' BY <1>1, <1>7 DEF IInv, RowsBeforeSignals
<1>36. ResultsExact' BY <1>1 DEF IInv, ResultsExact
<1> QED
  BY <1>20, <1>21, <1>22, <1>23, <1>24, <1>25, <1>26, <1>27, <1>28, <1>29, <1>30, <1>31, <1>32,
     <1>33, <1>34, <1>35, <1>36 DEF IInv

\* The invariant says what the types are.
LEMMA InvTypes ==
    ASSUME ConfigsOK, IInv
    PROVE  TypeOK
<1>1. /\ StreamsInOrder /\ TasksInOrder /\ WireKnown /\ SignalsCounted BY DEF IInv
<1>2. Sound(Exchange) /\ InOrder(Exchange) BY <1>1, ConfigFacts DEF StreamsInOrder
<1>3. Numbers BY <1>2, SoundFacts
<1>4. /\ exchange \in DOMAIN Configs
      /\ forward \in [World -> 0..Exchange.forwards]
      /\ stage \in [World -> 1..Len(Exchange.stages)]
      /\ waiting \in [World -> BOOLEAN]
  BY <1>1, <1>2, StageFacts DEF StreamsInOrder, Stages
<1>5. ASSUME NEW r \in World, did[r] # {} PROVE did[r] \subseteq Tasks(r)
  BY <1>1, <1>5 DEF TasksInOrder
<1>6. ASSUME NEW r \in World, NEW op \in wire[r] PROVE op.to \in World
  <2>1. CASE \E x \in Puts : x.from = r /\ op = OpOf(x)
    <3>1. PICK x \in Puts : op = OpOf(x) BY <2>1
    <3> QED BY <3>1, PutFacts, OpFacts
  <2>2. CASE \E w \in Senders, i \in Steps("send") : op = SignalOf(r, w, i)
    <3>1. PICK w \in Senders, i \in Steps("send") : op = SignalOf(r, w, i) BY <2>2
    <3>2. PeerOf(r, i) \in World BY <1>2, PeerFacts
    <3> QED BY <3>1, <3>2, SignalFacts
  <2> QED BY <1>1, <1>6, <2>1, <2>2 DEF WireKnown
<1>7. ASSUME NEW r \in World, NEW s \in Splits, NEW n \in Nodes
      PROVE  seen[r][s][n] \in 0..Exchange.senders
  <2>1. Exchange.senders \in Nat BY <1>3 DEF Numbers
  <2>2. NodeOf(r) \in Nodes BY <1>3, RankFacts
  <2>3. CASE n = NodeOf(r)
    <3>1. seen[r][s][n] = 0 BY <1>1, <2>3 DEF SignalsCounted
    <3> QED BY <2>1, <3>1
  <2>4. CASE n # NodeOf(r)
    <3>1. PICK p : p = RailOf(r, n) OBVIOUS
    <3>2. PICK i : i = StepOf(n, NodeOf(r), s) OBVIOUS
    <3>3. p \in World /\ NodeOf(p) = n BY <1>3, <3>1, RailFacts
    <3>4. /\ i \in Steps("send") /\ Split(i) = s
          /\ (n + NodeOffset(i)) % Exchange.nodes = NodeOf(r)
      BY <1>3, <2>2, <2>4, <3>2, StepFacts
    <3>5. RailOf(p, NodeOf(r)) = r BY <1>3, <2>2, <3>1, RailRail
    <3>6. PeerOf(p, i) = r BY <3>3, <3>4, <3>5 DEF PeerOf
    <3>7. seen[r][s][n] = IF forward[p] = Zeroed(r) THEN Cardinality(GotOf(p, i)) ELSE 0
      BY <1>1, <3>3, <3>4, <3>6 DEF SignalsCounted
    <3>8. Cardinality(GotOf(p, i)) \in 0..Exchange.senders
      <4>1. IsFiniteSet(Senders) /\ Cardinality(Senders) = Exchange.senders
        BY <2>1, UpTo DEF Senders
      <4>2. GotOf(p, i) \subseteq Senders BY DEF GotOf
      <4>3. /\ IsFiniteSet(GotOf(p, i))
            /\ Cardinality(GotOf(p, i)) <= Cardinality(Senders)
        BY <4>1, <4>2, FS_Subset
      <4>4. Cardinality(GotOf(p, i)) \in Nat BY <4>3, FS_CardinalityType
      <4> QED BY <2>1, <4>1, <4>3, <4>4
    <3> QED BY <2>1, <3>7, <3>8
  <2> QED BY <2>3, <2>4
<1> QED BY <1>4, <1>5, <1>6, <1>7 DEF TypeOK

\* The invariant of every behaviour whose configurations are in order: sizes are
\* positive, experts are on ranks, and the stages come in the order of the code.
THEOREM Invariance ==
    ASSUME ConfigsOK
    PROVE  Safe => []IInv
<1>1. Init => IInv BY InvInit
<1>2. IInv /\ [Next]_tvars => IInv'
  <2>1. ASSUME IInv, UNCHANGED tvars PROVE IInv'
    <3>1. /\ exchange' = exchange /\ forward' = forward /\ stage' = stage /\ waiting' = waiting
          /\ did' = did /\ wire' = wire /\ seen' = seen /\ mem' = mem /\ met' = met /\ bad' = bad
      BY <2>1 DEF tvars
    <3>2. Sound(Exchange) BY <2>1, ConfigFacts DEF IInv, StreamsInOrder
    <3> QED BY <2>1, <3>1, <3>2, StutterKeeps
  <2> QED BY <2>1, InvStep
<1> QED BY <1>1, <1>2, PTL DEF Safe

\* Counters and barriers keep within their bounds, and only a kernel has tasks.
THEOREM TypeCorrect ==
    ASSUME ConfigsOK
    PROVE  Safe => []TypeOK
<1>1. IInv => TypeOK BY InvTypes
<1> QED BY <1>1, Invariance, PTL

\* No result is ever taken from another forward than the one its rank is in, for any
\* number of ranks, experts, blocks, splits, warps and forwards.
THEOREM ResultsAreExact ==
    ASSUME ConfigsOK
    PROVE  Safe => []ResultsExact
<1>1. IInv => ResultsExact BY DEF IInv
<1> QED BY <1>1, Invariance, PTL

-----------------------------------------------------------------------------
(* Somebody moves. *)

\* A set of numbers that is not empty has a least one.
LEMMA Least == ASSUME NEW S, S \subseteq Nat, S # {} PROVE \E m \in S : \A k \in S : m <= k
<1>1. IsWellFoundedOn(OpToRel(<, Nat), Nat) BY NatLessThanWellFounded
<1>2. PICK R : R = OpToRel(<, Nat) OBVIOUS
<1>3. \A k, m \in Nat : k < m => <<k, m>> \in R BY <1>2 DEF OpToRel
<1>4. \E m \in S : \A k \in S : ~(<<k, m>> \in R)
  <2>1. IsWellFoundedOn(R, Nat) BY <1>1, <1>2
  <2> QED BY <2>1, WFMin
<1>5. PICK m \in S : \A k \in S : ~(<<k, m>> \in R) BY <1>4
<1>6. ASSUME NEW k \in S PROVE m <= k
  <2>1. k \in Nat /\ m \in Nat /\ ~(<<k, m>> \in R) BY <1>5
  <2>2. ~(k < m) BY <2>1, <1>3
  <2> QED BY <2>1, <2>2
<1> QED BY <1>6

\* What is in flight can be delivered: rows at any time, signals when no rows are left.
LEMMA NothingInFlight ==
    ASSUME NEW r \in World, ~CanMove(r)
    PROVE  wire[r] = {}
<1>1. \A op \in wire[r] : ~MayDeliver(r, op) BY DEF CanMove
<1>2. \A op \in wire[r] : op.rows = {} BY <1>1 DEF MayDeliver
<1>3. \A op \in wire[r] : Fenced(r, op) BY <1>2 DEF Fenced
<1> QED BY <1>1, <1>3 DEF MayDeliver

\* A kernel has something left to do that need not wait, or ends, except for a dispatch.
LEMMA OnlyDispatchWaits ==
    ASSUME Sound(Exchange), TasksInOrder, NEW r \in World, ~CanMove(r),
           forward[r] < Exchange.forwards, Stages[stage[r]] \in Kernels
    PROVE  In(r, "dispatch") /\ \E task \in Tasks(r) : task \notin did[r]
<1>1. PICK name \in Kernels : In(r, name) BY DEF In, Stages
<1>2. did[r] # Tasks(r) BY <1>1 DEF CanMove, KernelOver
<1>3. did[r] \subseteq Tasks(r) BY DEF TasksInOrder
<1>4. PICK task \in Tasks(r) : task \notin did[r] BY <1>2, <1>3
<1>5. CASE name = "combine"
  <2>1. Exchange.nodes > 1 \/ Exchange.nodes = 1 BY SoundFacts DEF Numbers
  <2>2. CASE Exchange.nodes > 1
    <3>1. \E n \in Nodes : \E b \in BlocksTo(RailOf(r, n), NodeOf(r)) : task = <<"sums", n, b>>
      BY <1>1, <1>4, <1>5, <2>2, TasksOf
    <3> QED BY <1>1, <1>4, <1>5, <2>2, <3>1 DEF CanMove, Undone
  <2>3. CASE Exchange.nodes = 1
    <3>1. PICK x \in AllTokens : r \in Experts(x[1], x[2]) /\ task = <<"sum", x[1], x[2]>>
      BY <1>1, <1>4, <1>5, <2>3, TasksOf
    <3>2. Undone(r, "combine", <<"sum", x[1], x[2]>>) BY <1>1, <1>4, <1>5, <3>1 DEF Undone
    <3> QED BY <2>3, <3>1, <3>2 DEF CanMove
  <2> QED BY <2>1, <2>2, <2>3
<1>6. CASE name = "exchange"
  <2>1. \E q \in World : task = <<"put", q>> BY <1>1, <1>4, <1>6, TasksOf
  <2> QED BY <1>1, <1>4, <1>6, <2>1 DEF CanMove, Undone
<1>7. CASE name = "indices"
  <2>1. \A c \in Copiers : <<"copy", c>> \in did[r] BY <1>1, <1>7 DEF CanMove, Undone
  <2>2. PICK q \in World \ {r} : task = <<"put", q>> BY <1>1, <1>4, <1>7, <2>1, TasksOf
  <2>3. MayPutIndices(r, q) BY <1>1, <1>4, <1>7, <2>1, <2>2 DEF MayPutIndices, Undone
  <2> QED BY <2>3 DEF CanMove
<1> QED BY <1>1, <1>4, <1>5, <1>6, <1>7 DEF Kernels

\* The steps of the warps are numbers.
LEMMA StepNumbers ==
    ASSUME Sound(Exchange), NEW kind
    PROVE  Steps(kind) \subseteq Nat
<1>1. Exchange.splits \in Nat /\ Exchange.nodes \in Nat BY SoundFacts DEF Numbers
<1>2. Exchange.nodes * Exchange.splits - 1 \in Int BY <1>1
<1> QED BY <1>1, <1>2 DEF Steps

\* A warp that is not through has a next step.
LEMMA NextStep ==
    ASSUME Sound(Exchange), NEW r, NEW kind, NEW w, NEW j \in Steps(kind),
           <<kind, w, j>> \notin did[r]
    PROVE  \E i \in Steps(kind) : Follows(r, kind, w, i)
<1> DEFINE S == {i \in Steps(kind) : <<kind, w, i>> \notin did[r]}
<1>1. S \subseteq Nat /\ S # {} BY StepNumbers
<1>2. PICK i \in S : \A k \in S : i <= k
  <2> HIDE DEF S
  <2> QED BY <1>1, Least
<1>3. ASSUME NEW k \in Steps(kind), k < i PROVE <<kind, w, k>> \in did[r]
  <2>1. k \in Nat /\ i \in Nat BY <1>1, StepNumbers
  <2>2. ~(i <= k) BY <2>1, <1>3
  <2> QED BY <1>2, <2>2
<1> QED BY <1>2, <1>3 DEF Follows

\* Send warps wait for nobody.
LEMMA SendsDone ==
    ASSUME Sound(Exchange), NEW r \in World, ~CanMove(r), In(r, "dispatch")
    PROVE  \A w \in Senders, i \in Steps("send") : <<"send", w, i>> \in did[r]
<1> SUFFICES ASSUME NEW w \in Senders, NEW j \in Steps("send"), <<"send", w, j>> \notin did[r]
             PROVE  FALSE
  OBVIOUS
<1>1. PICK i \in Steps("send") : Follows(r, "send", w, i) BY NextStep
<1> QED BY <1>1 DEF CanMove, MaySend

\* Dispatch warps wait for signals of another node.
LEMMA DispatchWaits ==
    ASSUME Sound(Exchange), TasksInOrder, NEW r \in World, ~CanMove(r), In(r, "dispatch")
    PROVE  \E i \in Steps("dispatch") :
              NodeFrom(r, i) # NodeOf(r) /\ ~AllSignalled(r, Split(i), NodeFrom(r, i))
<1>1. forward[r] < Exchange.forwards /\ Stages[stage[r]] \in Kernels BY DEF In, Stages, Kernels
<1>2. PICK task \in Tasks(r) : task \notin did[r] BY <1>1, OnlyDispatchWaits
<1>3. task \notin {"send"} \X Senders \X Steps("send")
  <2> SUFFICES ASSUME task \in {"send"} \X Senders \X Steps("send") PROVE FALSE OBVIOUS
  <2>1. PICK w \in Senders, i \in Steps("send") : task = <<"send", w, i>> OBVIOUS
  <2> QED BY <1>2, <2>1, SendsDone
<1>4. task \in {"dispatch"} \X Dispatchers \X Steps("dispatch") BY <1>2, <1>3, TasksOf
<1>5. PICK w \in Dispatchers, j \in Steps("dispatch") : task = <<"dispatch", w, j>> BY <1>4
<1>6. PICK i \in Steps("dispatch") : Follows(r, "dispatch", w, i) BY <1>2, <1>5, NextStep
<1>7. ~MayDispatch(r, w, i) BY DEF CanMove
<1> QED BY <1>6, <1>7 DEF MayDispatch

\* A rank that cannot move is in a barrier or in its dispatch.
LEMMA WhereStuck ==
    ASSUME Sound(Exchange), StreamsInOrder, TasksInOrder, NEW r \in World, ~CanMove(r),
           forward[r] < Exchange.forwards
    PROVE  In(r, "dispatch") \/ (Stages[stage[r]] \in Barriers /\ waiting[r])
<1>1. Stages \in Seq(StageNames) /\ stage[r] \in DOMAIN Stages BY SoundFacts DEF StreamsInOrder
<1>2. Stages[stage[r]] \in StageNames BY <1>1
<1>3. In(r, Stages[stage[r]]) BY DEF In, Stages
<1>4. Stages[stage[r]] \notin Instant BY <1>3 DEF CanMove
<1>5. CASE Stages[stage[r]] \in Kernels BY <1>5, OnlyDispatchWaits
<1>6. CASE Stages[stage[r]] \in Barriers
  <2>1. Quiet(r, Stages[stage[r]]) BY NothingInFlight DEF Quiet
  <2>2. ~MayArrive(r, Stages[stage[r]]) BY <1>6 DEF CanMove, Barriers
  <2> QED BY <1>3, <1>6, <2>1, <2>2 DEF MayArrive
<1> QED BY <1>2, <1>4, <1>5, <1>6 DEF StageNames, Barriers

\* r is as far behind as anybody.
IsLast(r) == \A p \in World : ~Before(At(p), At(r))

\* Somebody is, and as long as not all are through has not completed its forwards.
LEMMA SomebodyIsLast ==
    ASSUME Sound(Exchange), StreamsInOrder, ~Completed
    PROVE  \E r \in World : forward[r] < Exchange.forwards /\ IsLast(r)
<1>1. \A p \in World : /\ forward[p] \in Nat /\ stage[p] \in Nat
                       /\ forward[p] <= Exchange.forwards /\ Exchange.forwards \in Nat
  BY StreamFacts
<1>2. PICK q \in World : forward[q] < Exchange.forwards BY <1>1 DEF Completed
<1> DEFINE F == {forward[p] : p \in World}
<1>3. PICK f \in F : \A k \in F : f <= k
  <2>1. F \subseteq Nat /\ F # {} BY <1>1, <1>2
  <2> HIDE DEF F
  <2> QED BY <2>1, Least
<1> DEFINE G == {stage[p] : p \in {x \in World : forward[x] = f}}
<1>4. PICK g \in G : \A k \in G : g <= k
  <2>1. G \subseteq Nat /\ G # {} BY <1>1, <1>3
  <2> HIDE DEF G
  <2> QED BY <2>1, Least
<1>5. PICK r \in World : forward[r] = f /\ stage[r] = g BY <1>4
<1>6. forward[r] < Exchange.forwards
  <2>1. f <= forward[q] BY <1>3
  <2> QED BY <2>1, <1>1, <1>2, <1>5
<1>7. ASSUME NEW p \in World PROVE ~Before(At(p), At(r))
  <2>1. f <= forward[p] BY <1>3
  <2>2. forward[p] = f => g <= stage[p] BY <1>4
  <2> QED BY <1>1, <1>5, <2>1, <2>2 DEF Before, At
<1> QED BY <1>6, <1>7 DEF IsLast

\* If nobody can move, the last rank finds all its barriers complete.
LEMMA LastPasses ==
    ASSUME Sound(Exchange), StreamsInOrder, TasksInOrder, ArrivalsCounted, BarriersHold,
           \A p \in World : ~CanMove(p),
           NEW r \in World, IsLast(r), forward[r] < Exchange.forwards,
           NEW b \in Barriers, Stages[stage[r]] = b, waiting[r]
    PROVE  MayPass(r, b)
<1>1. /\ Len(Stages) \in Nat \ {0} /\ DOMAIN Stages = 1..Len(Stages)
      /\ forward[r] \in Nat /\ stage[r] \in DOMAIN Stages
  BY StageFacts DEF StreamsInOrder
<1>2. At(r) \in Calls(b) BY <1>1 DEF At, Calls
<1>3. ASSUME NEW p \in Members(r, b) PROVE met[b][p] >= met[b][r]
  <2>1. p \in World BY MembersFacts
  <2>2. forward[p] \in Nat /\ stage[p] \in DOMAIN Stages BY <1>1, <2>1 DEF StreamsInOrder
  <2>3. ~Before(At(p), At(r)) BY <2>1 DEF IsLast
  <2>4. Before(At(r), At(p)) \/ (forward[p] = forward[r] /\ stage[p] = stage[r])
    BY <1>1, <2>2, <2>3 DEF Before, At
  <2>5. ASSUME forward[p] = forward[r] /\ stage[p] = stage[r] PROVE At(r) \in Reached(p, b)
    <3>1. ~In(p, "dispatch")
      <4>1. b # "dispatch" BY DEF Barriers
      <4> QED BY <2>5, <4>1 DEF In, Stages
    <3>2. waiting[p] BY <2>1, <2>5, <3>1, WhereStuck
    <3> QED BY <1>2, <2>5, <3>2 DEF Reached, At
  <2>6. ASSUME Before(At(r), At(p)) PROVE At(r) \in Reached(p, b) BY <1>2, <2>6 DEF Reached
  <2>7. At(r) \in Reached(p, b) BY <2>4, <2>5, <2>6
  <2>8. Reached(r, b) \subseteq Reached(p, b)
    <3>1. Passed(r, b) \subseteq Reached(p, b) BY DEF BarriersHold, Barriers
    <3>2. Reached(r, b) \subseteq Passed(r, b) \cup {At(r)} BY DEF Reached, Passed
    <3> QED BY <2>7, <3>1, <3>2
  <2>9. /\ IsFiniteSet(Reached(p, b)) /\ met[b][p] = Cardinality(Reached(p, b)) /\ met[b][p] \in Nat
        /\ met[b][r] = Cardinality(Reached(r, b)) /\ met[b][r] \in Nat
    BY <2>1 DEF ArrivalsCounted, Barriers
  <2>10. Cardinality(Reached(r, b)) <= Cardinality(Reached(p, b)) BY <2>8, <2>9, FS_Subset
  <2> QED BY <2>9, <2>10
<1>4. In(r, b) BY DEF In, Stages
<1> QED BY <1>3, <1>4 DEF MayPass

\* If nobody can move, the last rank has the signals of all peers: they have sent theirs,
\* are not in a later forward, and wait for nobody to send.
LEMMA LastIsSignalled ==
    ASSUME Sound(Exchange), InOrder(Exchange), StreamsInOrder, BarriersHold, SignalsCounted,
           \A p \in World : ~CanMove(p),
           NEW r \in World, IsLast(r), In(r, "dispatch"),
           NEW i \in Steps("dispatch"), NodeFrom(r, i) # NodeOf(r)
    PROVE  AllSignalled(r, Split(i), NodeFrom(r, i))
<1> DEFINE n == NodeFrom(r, i)
           p == RailOf(r, n)
<1>1. Numbers /\ NodeOf(r) \in Nodes BY SoundFacts, RankFacts
<1>2. n \in Nodes /\ StepOf(n, NodeOf(r), Split(i)) = i /\ Split(i) \in Splits
  BY <1>1, StepDecodes DEF NodeFrom
<1>3. i \in Steps("send") /\ (n + NodeOffset(i)) % Exchange.nodes = NodeOf(r)
  <2> HIDE DEF n
  <2>1. n # NodeOf(r) BY DEF n
  <2> QED BY <1>1, <1>2, <2>1, StepFacts
<1>4. p \in World /\ NodeOf(p) = n /\ RailOf(p, NodeOf(r)) = r
  <2> HIDE DEF n
  <2> QED BY <1>1, <1>2, RailFacts, RailRail
<1>5. PeerOf(p, i) = r BY <1>3, <1>4 DEF PeerOf
<1>6. Stages[stage[r]] = "dispatch" /\ stage[r] \in Pos("dispatch")
  <2>1. stage[r] \in DOMAIN Stages BY DEF StreamsInOrder
  <2> QED BY <2>1 DEF In, Stages, Pos, StagesOf
<1>7. Zeroed(r) = forward[r] BY <1>6, NotZeroedYet DEF Zeroed
<1> HIDE DEF n, p
<1>8. /\ forward[r] \in Nat /\ stage[r] \in 1..Len(Stages) /\ Len(Stages) \in Nat
      /\ forward[p] \in Nat /\ stage[p] \in 1..Len(Stages)
  BY <1>4, StreamFacts
<1>9. forward[r] < forward[p] \/ (forward[r] = forward[p] /\ stage[r] <= stage[p])
  <2>1. ~Before(At(p), At(r)) BY <1>4 DEF IsLast
  <2> QED BY <1>8, <2>1 DEF Before, At
<1>10. ~(forward[r] < forward[p])
  <2> SUFFICES ASSUME forward[r] < forward[p] PROVE FALSE OBVIOUS
  <2>1. PICK m \in Pos("team") : stage[r] < m BY <1>6, KernelFacts DEF Kernels
  <2>2. m \in 1..Len(Stages) BY KernelFacts DEF Kernels
  <2>3. r \in Members(p, "team") BY <1>4, MembersFacts
  <2>4. \/ forward[r] < forward[r]
        \/ forward[r] = forward[r] /\ (m < stage[r] \/ (m = stage[r] /\ waiting[r]))
    BY <1>4, <1>8, <2>3, Ahead DEF Barriers
  <2> QED BY <1>8, <2>1, <2>2, <2>4
<1>11. forward[p] = forward[r] /\ stage[r] <= stage[p] BY <1>8, <1>9, <1>10
<1>12. ASSUME NEW w \in Senders PROVE DidTask(p, "dispatch", <<"send", w, i>>)
  <2>1. CASE stage[r] < stage[p] BY <1>6, <2>1 DEF DidTask, Past
  <2>2. CASE stage[r] = stage[p]
    <3>1. In(p, "dispatch") BY <1>11, <2>2 DEF In
    <3>2. <<"send", w, i>> \in did[p] BY <1>3, <1>4, <3>1, SendsDone
    <3> QED BY <1>6, <2>2, <3>2 DEF DidTask
  <2> QED BY <1>8, <1>11, <2>1, <2>2
<1>13. wire[p] = {} BY <1>4, NothingInFlight
<1>14. GotOf(p, i) = Senders BY <1>12, <1>13 DEF GotOf
<1>15. Cardinality(Senders) = Exchange.senders
  <2>1. Exchange.senders \in Nat BY <1>1 DEF Numbers
  <2> QED BY <2>1, UpTo DEF Senders
<1>16. seen[r][Split(i)][NodeOf(p)] = Exchange.senders
  BY <1>3, <1>4, <1>5, <1>7, <1>11, <1>14, <1>15 DEF SignalsCounted
<1> QED BY <1>4, <1>16 DEF AllSignalled, n

\* No exchange is stuck before its end, for any number of ranks, splits, warps, tokens
\* and forwards and every order of the stages that the code keeps.
THEOREM ExchangesNeverStuck ==
    ASSUME ConfigsOK
    PROVE  Safe => []NeverStuck
<1>1. ASSUME IInv PROVE NeverStuck
  <2>1. /\ StreamsInOrder /\ TasksInOrder /\ ArrivalsCounted /\ BarriersHold /\ SignalsCounted
    BY <1>1 DEF IInv
  <2>2. Sound(Exchange) /\ InOrder(Exchange) BY <2>1, ConfigFacts DEF StreamsInOrder
  <2> SUFFICES ASSUME ~Completed, \A p \in World : ~CanMove(p) PROVE FALSE BY DEF NeverStuck
  <2>3. PICK r \in World : forward[r] < Exchange.forwards /\ IsLast(r)
    BY <2>1, <2>2, SomebodyIsLast
  <2>4. CASE In(r, "dispatch")
    <3>1. PICK i \in Steps("dispatch") :
              NodeFrom(r, i) # NodeOf(r) /\ ~AllSignalled(r, Split(i), NodeFrom(r, i))
      BY <2>1, <2>2, <2>4, DispatchWaits
    <3> QED BY <2>1, <2>2, <2>3, <2>4, <3>1, LastIsSignalled
  <2>5. CASE Stages[stage[r]] \in Barriers /\ waiting[r]
    <3>1. MayPass(r, Stages[stage[r]]) BY <2>1, <2>2, <2>3, <2>5, LastPasses
    <3> QED BY <2>5, <3>1 DEF CanMove, Barriers
  <2> QED BY <2>1, <2>2, <2>3, <2>4, <2>5, WhereStuck
<1> QED BY <1>1, Invariance, PTL
=============================================================================
