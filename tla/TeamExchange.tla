----------------------------- MODULE TeamExchange -----------------------------
(***************************************************************************)
(* The exchanges of src/coll/ that put data through NVSHMEM and end in a   *)
(* barrier of the team: DisScatterForward, which sends each token to the   *)
(* ranks of its experts, by way of the rank of its rail in their node;     *)
(* DisScatterBackward, which sums up what the experts of a node made of a  *)
(* token and sends the sums back; All2AllSingle; and the exchange of       *)
(* routing indices, pre_comm_index.                                        *)
(*                                                                         *)
(* A rank's stream runs a list of stages in every forward.  The tokens are *)
(* those of <<rank, index>>; a place holds <<forward, rank, index>>, the   *)
(* token or sum it was last written with.  External, modelled by how the   *)
(* code uses it: a non-blocking put reads its source and writes its        *)
(* destination at some time before its rank's next barrier of the team     *)
(* completes; nvshmem_fence keeps the signal of a warp behind its puts.    *)
(* All warps of a kernel run: its CTAs, n_threadblocks, are resident.      *)
(***************************************************************************)
EXTENDS Integers, Sequences, FiniteSets

CONSTANT
    Configs         \* what the exchanges of a behaviour may be, by name

(***************************************************************************)
(* A configuration:                                                        *)
(*   nodes, local   n_nodes and local_world_size                           *)
(*   experts        experts[r]: for each token of rank r the ranks of its  *)
(*                  experts, one expert to a rank                          *)
(*   block, splits  tokens of a block, splits of the dispatch              *)
(*   senders, dispatchers, copiers                                         *)
(*                  send and dispatch warps of all CTAs, CTAs of the       *)
(*                  exchange of indices                                    *)
(*   stages         what the stream does in a forward                      *)
(*   forwards       bound on the forwards                                  *)
(***************************************************************************)
VARIABLES
    exchange,   \* the configuration of this behaviour
    forward,    \* forward[r]: forwards the stream has completed
    stage,      \* stage[r]: its place in the list of stages
    waiting,    \* waiting[r]: it is inside the barrier of this stage
    did,        \* did[r]: what the kernel of this stage has done
    wire,       \* wire[r]: puts and signals of r not yet delivered
    seen,       \* seen[r][split][node]: barrier_buffer
    mem,        \* mem[r]: its buffers, by place
    met,        \* met[b][r]: how often r has arrived at barrier b
    bad         \* bad[r]: a result of r was not that of its own forward

tvars == <<exchange, forward, stage, waiting, did, wire, seen, mem, met, bad>>

Exchange == Configs[exchange]
World    == 0..(Exchange.nodes * Exchange.local - 1)
Nodes    == 0..(Exchange.nodes - 1)
Splits   == 0..(Exchange.splits - 1)
Senders  == 0..(Exchange.senders - 1)
Dispatchers == 0..(Exchange.dispatchers - 1)
Copiers  == 0..(Exchange.copiers - 1)

NodeOf(r)     == r \div Exchange.local
RailOf(r, n)  == n * Exchange.local + (r % Exchange.local)
NodeRanks(n)  == {r \in World : NodeOf(r) = n}
Tokens(r)     == 0..(Len(Exchange.experts[r]) - 1)
Experts(q, t) == Exchange.experts[q][t + 1]
Hits(q, t, n) == Experts(q, t) \cap NodeRanks(n)
AllTokens     == UNION {{q} \X Tokens(q) : q \in World}

-----------------------------------------------------------------------------
(* The indices both sides build from the experts of all tokens. *)

BlockOf(t) == t \div Exchange.block

\* The first token of a block determines its split.
SplitOf(q, t) ==
    (BlockOf(t) * Exchange.block)
        \div ((Cardinality(Tokens(q)) + Exchange.splits - 1) \div Exchange.splits)

\* The tokens of q that some expert of node n wants.
Wanted(q, n) == {t \in Tokens(q) : Hits(q, t, n) # {}}
BlocksTo(q, n) == {BlockOf(t) : t \in Wanted(q, n)}

\* How many elements of a set of indices come before x: its offset in a list.  (The
\* kernels fill their lists in any order; warps are interchangeable.)
Offset(x, indices) == Cardinality({y \in indices : y < x})

\* Where the sums of node n for the tokens of q stand in the output_buffer of q, as
\* the sender lists them: the i-th wanted token of a block is its i-th row.
SumRow(q, n, t) ==
    LET wanted == {u \in Wanted(q, n) : BlockOf(u) = BlockOf(t)}
    IN  BlockOf(t) * Exchange.block + Offset(t, wanted)

\* Where the rank of the token looks for them: how many tokens before it in its block
\* have an expert in n.
ReduceRow(q, n, t) ==
    BlockOf(t) * Exchange.block
        + Cardinality({u \in (BlockOf(t) * Exchange.block)..(t - 1) :
                            \E e \in Experts(q, u) : NodeOf(e) = n})

-----------------------------------------------------------------------------
(* Where the stages of a list stand to each other. *)

StagesOf(s, name) == {i \in DOMAIN s : s[i] = name}

Behind(s, a, b) == \A j \in StagesOf(s, b) : \E i \in StagesOf(s, a) : i < j

\* A barrier of the team completes the puts of a kernel before their results are read,
\* and one is behind the reader or before the kernel that puts the next results.
Apart(s, kernel, reader) ==
    /\ StagesOf(s, kernel) = {} <=> StagesOf(s, reader) = {}
    /\ \A i \in StagesOf(s, kernel), j \in StagesOf(s, reader) :
        /\ \E m \in StagesOf(s, "team") : i < m /\ m < j
        /\ \E m \in StagesOf(s, "team") : m < i \/ j < m

\* The order that the code of each exchange keeps, and its callers between two.
InOrder(c) ==
    LET s == c.stages
    IN  /\ \A i, j \in DOMAIN s : s[i] = s[j] /\ s[i] \notin {"team", "node"} => i = j
        /\ Behind(s, "segments", "exchange") /\ Apart(s, "exchange", "got")
        /\ Apart(s, "indices", "allIndices")
        /\ Behind(s, "copy", "dispatch") /\ Apart(s, "dispatch", "rows")
        /\ \A i \in StagesOf(s, "dispatch") :
              \E z \in StagesOf(s, "zero"), m \in StagesOf(s, "team") : i < z /\ z < m
        /\ Behind(s, "experts", "combine") /\ Apart(s, "combine", "reduce")
        /\ c.nodes > 1 =>
              \A i \in StagesOf(s, "experts"), j \in StagesOf(s, "combine") :
                  \E m \in StagesOf(s, "node") : i < m /\ m < j

\* What a stream can do.
Instant    == {"copy", "zero", "rows", "experts", "reduce", "segments", "got", "allIndices"}
Kernels    == {"dispatch", "combine", "exchange", "indices"}
StageNames == Instant \cup Kernels \cup {"team", "node"}

\* What the ranks exchange with, by name.
Sound(c) ==
    LET ranks == 0..(c.nodes * c.local - 1)
        positive == Nat \ {0}
    IN  /\ c.nodes \in positive /\ c.local \in positive
        /\ c.block \in positive /\ c.splits \in positive
        /\ c.senders \in positive /\ c.dispatchers \in positive
        /\ c.copiers \in Nat /\ c.forwards \in Nat
        /\ c.experts \in [ranks -> Seq(SUBSET ranks)]
        /\ c.stages \in Seq(StageNames) /\ c.stages # <<>>

ConfigsOK == \A name \in DOMAIN Configs : Sound(Configs[name]) /\ InOrder(Configs[name])

-----------------------------------------------------------------------------
Nothing == <<0, 0, 0>>
Held(r, place) == IF place \in DOMAIN mem[r] THEN mem[r][place] ELSE Nothing

\* r writes some places of its own.
Write(r, places, content(_)) ==
    mem' = [mem EXCEPT ![r] = [p \in places \cup DOMAIN mem[r] |->
                                   IF p \in places THEN content(p) ELSE mem[r][p]]]

\* The forward r is in.
Current(r) == forward[r] + 1

Init ==
    /\ exchange \in DOMAIN Configs
    /\ forward = [r \in World |-> 0]
    /\ stage   = [r \in World |-> 1]
    /\ waiting = [r \in World |-> FALSE]
    /\ did     = [r \in World |-> {}]
    /\ wire    = [r \in World |-> {}]
    /\ seen    = [r \in World |-> [s \in Splits |-> [n \in Nodes |-> 0]]]
    /\ mem     = [r \in World |-> <<>>]
    /\ met     = [b \in {"team", "node"} |-> [r \in World |-> 0]]
    /\ bad     = [r \in World |-> FALSE]

In(r, name) == forward[r] < Exchange.forwards /\ Exchange.stages[stage[r]] = name

NextStage(r) ==
    IF stage[r] < Len(Exchange.stages)
    THEN stage' = [stage EXCEPT ![r] = @ + 1] /\ UNCHANGED forward
    ELSE stage' = [stage EXCEPT ![r] = 1] /\ forward' = [forward EXCEPT ![r] = @ + 1]

\* A stage that checks what r has got.
Result(r, right) ==
    /\ bad' = [bad EXCEPT ![r] = @ \/ ~right]
    /\ NextStage(r)
    /\ UNCHANGED <<exchange, waiting, did, wire, seen, mem, met>>

\* A stage that writes own memory.
Copy(r, places, content(_)) ==
    /\ Write(r, places, content)
    /\ NextStage(r)
    /\ UNCHANGED <<exchange, waiting, did, wire, seen, met, bad>>

\* The kernel of r has this task left.
Undone(r, name, task) == In(r, name) /\ task \notin did[r]

\* A step of a kernel that puts rows, pairs of a source and a destination.
Task(r, task, ops) ==
    /\ did' = [did EXCEPT ![r] = @ \cup {task}]
    /\ wire' = [wire EXCEPT ![r] = @ \cup ops]
    /\ UNCHANGED <<exchange, forward, stage, waiting, seen, met, bad>>

PutOp(task, q, rows) ==
    IF rows = {} THEN {} ELSE {[to |-> q, rows |-> rows, flag |-> <<>>, task |-> task]}
SignalOp(task, q, split, n) ==
    {[to |-> q, rows |-> {}, flag |-> <<split, n>>, task |-> task]}

-----------------------------------------------------------------------------
(* DisScatterForward *)

\* The caller's tokens are copied into the region of the own node.
CopyInput(r) ==
    /\ In(r, "copy")
    /\ Copy(r, {<<"in", NodeOf(r), t>> : t \in Tokens(r)},
            LAMBDA p : <<Current(r), r, p[3]>>)

\* The warps go from node to node and, within one, from split to split; they send to
\* the nodes after their own, and dispatch what is of their own first.
Steps(kind)   == (IF kind = "send" THEN Exchange.splits ELSE 0)
                    ..(Exchange.nodes * Exchange.splits - 1)
NodeOffset(i) == i \div Exchange.splits
Split(i)      == i % Exchange.splits
Follows(r, kind, w, i) ==
    /\ <<kind, w, i>> \notin did[r]
    /\ \A j \in Steps(kind) : j < i => <<kind, w, j>> \in did[r]

MaySend(r, w, i) == In(r, "dispatch") /\ Follows(r, "send", w, i)

\* Send warp w puts its blocks of a split and signals behind the fence.
SendSplit(r, w) == \E i \in Steps("send") :
    LET n      == (NodeOf(r) + NodeOffset(i)) % Exchange.nodes
        q      == RailOf(r, n)
        task   == <<"send", w, i>>
        blocks == {b \in BlocksTo(r, n) : SplitOf(r, b * Exchange.block) = Split(i)}
        own    == {b \in blocks : Offset(b, blocks) % Exchange.senders = w}
        rows   == {<<"in", NodeOf(r), t>> : t \in {u \in Wanted(r, n) : BlockOf(u) \in own}}
    IN  /\ MaySend(r, w, i)
        /\ Task(r, task, PutOp(task, q, {<<p, p>> : p \in rows})
                            \cup SignalOp(task, q, Split(i), NodeOf(r)))
        /\ UNCHANGED mem

\* Bug form of AllSignalled: one signal of the peer will do.
OneSignalled(r, s, n) == seen[r][s][n] = 1

\* Every send warp of the peer signals: the wait is for their number.
AllSignalled(r, s, n) == seen[r][s][n] = Exchange.senders

\* The node whose tokens step i of r's dispatch warps is about.
NodeFrom(r, i) == (NodeOf(r) + Exchange.nodes - NodeOffset(i)) % Exchange.nodes

MayDispatch(r, w, i) ==
    /\ In(r, "dispatch") /\ Follows(r, "dispatch", w, i)
    /\ NodeFrom(r, i) = NodeOf(r) \/ AllSignalled(r, Split(i), NodeFrom(r, i))

\* Dispatch warp w puts its share of the tokens of a split where their experts are.
DispatchSplit(r, w) == \E i \in Steps("dispatch") :
    LET n      == NodeFrom(r, i)
        q      == RailOf(r, n)
        task   == <<"dispatch", w, i>>
        tokens == {t \in Wanted(q, NodeOf(r)) : SplitOf(q, t) = Split(i)}
        own    == {t \in tokens : Offset(t, tokens) % Exchange.dispatchers = w}
        To(p)  == {<<<<"in", n, t>>, <<"out", q, t>>>> : t \in {u \in own : p \in Experts(q, u)}}
    IN  /\ MayDispatch(r, w, i)
        /\ Task(r, task, UNION {PutOp(task, p, To(p)) : p \in NodeRanks(NodeOf(r))})
        /\ UNCHANGED mem

\* barrier_buffer.zero_(), behind the kernel
ZeroSignals(r) ==
    /\ In(r, "zero")
    /\ seen' = [seen EXCEPT ![r] = [s \in Splits |-> [n \in Nodes |-> 0]]]
    /\ NextStage(r)
    /\ UNCHANGED <<exchange, waiting, did, wire, mem, met, bad>>

\* The rows are copied out of the output_buffer, or used there.
TakeRows(r) ==
    /\ In(r, "rows")
    /\ Result(r, \A q \in World : \A t \in Tokens(q) :
            r \in Experts(q, t) => Held(r, <<"out", q, t>>) = <<Current(r), q, t>>)

-----------------------------------------------------------------------------
(* DisScatterBackward *)

\* The results of r's experts come into the internal_buffer (with one node they stay
\* in the caller's tensor, which the same places stand for).
RunExperts(r) ==
    /\ In(r, "experts")
    /\ Copy(r, {<<"act", x[1], x[2]>> : x \in {y \in AllTokens : r \in Experts(y[1], y[2])}},
            LAMBDA p : <<Current(r), p[2], p[3]>>)

\* The sum of the results of a token; Nothing if they are not of one forward.
Sum(q, t, n) ==
    LET parts == {Held(p, <<"act", q, t>>) : p \in Hits(q, t, n)}
    IN  IF Cardinality(parts) = 1 THEN CHOOSE x \in parts : TRUE ELSE Nothing

\* Several nodes: the sums over the own node for a block of tokens of node n, which
\* for another node go by way of the reduction_buffer.
CombineBlock(r) == \E n \in Nodes :
    LET q      == RailOf(r, n)
        local  == NodeOf(r)
        RowsOf(b, name, m) == {<<name, m, SumRow(q, local, t)>> :
                                    t \in {u \in Wanted(q, local) : BlockOf(u) = b}}
        TokenAt(row) == CHOOSE t \in Wanted(q, local) : SumRow(q, local, t) = row
    IN  \E b \in BlocksTo(q, local) :
        LET task == <<"sums", n, b>>
        IN  /\ Undone(r, "combine", task) /\ Exchange.nodes > 1
            /\ IF n = local
               THEN /\ Write(r, RowsOf(b, "sum", local),
                             LAMBDA p : Sum(q, TokenAt(p[3]), local))
                    /\ Task(r, task, {})
               ELSE /\ Write(r, RowsOf(b, "red", n),
                             LAMBDA p : Sum(q, TokenAt(p[3]), local))
                    /\ Task(r, task, PutOp(task, q,
                            {<<p, <<"sum", local, p[3]>>>> : p \in RowsOf(b, "red", n)}))

\* One node: the sum goes straight into the output_buffer of the token's rank.
CombineToken(r) == \E q \in World : \E t \in Tokens(q) :
    LET task == <<"sum", q, t>>
    IN  /\ Undone(r, "combine", task) /\ Exchange.nodes = 1 /\ r \in Experts(q, t)
        /\ Write(q, {<<"sum", r, t>>}, LAMBDA p : Held(r, <<"act", q, t>>))
        /\ Task(r, task, {})

\* topk_reduce adds up the rows of a token.
Reduce(r) ==
    /\ In(r, "reduce")
    /\ Result(r, \A t \in Tokens(r) :
            LET rows == IF Exchange.nodes = 1 THEN {<<"sum", p, t>> : p \in Experts(r, t)}
                        ELSE {<<"sum", n, ReduceRow(r, n, t)>> :
                                n \in {m \in Nodes : t \in Wanted(r, m)}}
            IN  \A p \in rows : Held(r, p) = <<Current(r), r, t>>)

-----------------------------------------------------------------------------
(* All2AllSingle, and the exchange of indices *)

CopySegments(r) ==
    /\ In(r, "segments")
    /\ Copy(r, {"segment"} \X World, LAMBDA p : <<Current(r), r, p[2]>>)

PutSegment(r) == \E q \in World :
    LET task == <<"put", q>>
    IN  /\ Undone(r, "exchange", task)
        /\ Task(r, task, PutOp(task, q, {<<<<"segment", q>>, <<"got", r>>>>}))
        /\ UNCHANGED mem

TakeSegments(r) ==
    /\ In(r, "got")
    /\ Result(r, \A q \in World : Held(r, <<"got", q>>) = <<Current(r), q, r>>)

CopyIndices(r) == \E c \in Copiers :
    LET task == <<"copy", c>>
    IN  /\ Undone(r, "indices", task)
        /\ Write(r, {<<"index", r, c>>}, LAMBDA p : <<Current(r), r, c>>)
        /\ Task(r, task, {})

\* Behind the barrier of the CTAs on local_barrier, which counts the copies.
MayPutIndices(r, q) ==
    Undone(r, "indices", <<"put", q>>) /\ \A c \in Copiers : <<"copy", c>> \in did[r]

PutIndices(r) == \E q \in World \ {r} :
    LET task == <<"put", q>>
    IN  /\ MayPutIndices(r, q)
        /\ Task(r, task, PutOp(task, q,
                {<<<<"index", r, c>>, <<"index", r, c>>>> : c \in Copiers}))
        /\ UNCHANGED mem

TakeIndices(r) ==
    /\ In(r, "allIndices")
    /\ Result(r, \A q \in World, c \in Copiers :
            Held(r, <<"index", q, c>>) = <<Current(r), q, c>>)

-----------------------------------------------------------------------------
\* All that the kernel of this stage has to do.
Tasks(r) ==
    CASE In(r, "dispatch") -> ({"send"} \X Senders \X Steps("send"))
                                \cup ({"dispatch"} \X Dispatchers \X Steps("dispatch"))
      [] In(r, "combine") /\ Exchange.nodes > 1 ->
            UNION {{<<"sums", n, b>> : b \in BlocksTo(RailOf(r, n), NodeOf(r))} : n \in Nodes}
      [] In(r, "combine") /\ Exchange.nodes = 1 ->
            {<<"sum", x[1], x[2]>> : x \in {y \in AllTokens : r \in Experts(y[1], y[2])}}
      [] In(r, "exchange") -> {"put"} \X World
      [] In(r, "indices") -> ({"copy"} \X Copiers) \cup ({"put"} \X (World \ {r}))

KernelOver(r) == (\E name \in Kernels : In(r, name)) /\ did[r] = Tasks(r)

KernelEnd(r) ==
    /\ KernelOver(r)
    /\ did' = [did EXCEPT ![r] = {}]
    /\ NextStage(r)
    /\ UNCHANGED <<exchange, waiting, wire, seen, mem, met, bad>>

\* nvshmemx_barrier_on_stream completes the puts of its rank before it arrives; the
\* barrier of the ranks of a node (local_barrier) has nothing to do with puts.
Quiet(r, b) == b = "team" => wire[r] = {}

MayArrive(r, b) == In(r, b) /\ ~waiting[r] /\ Quiet(r, b)

Arrive(r, b) ==
    /\ MayArrive(r, b)
    /\ waiting' = [waiting EXCEPT ![r] = TRUE]
    /\ met' = [met EXCEPT ![b][r] = @ + 1]
    /\ UNCHANGED <<exchange, forward, stage, did, wire, seen, mem, bad>>

\* Bug form of Members: the barrier is one of the own node.
MembersOfNode(r, b) == NodeRanks(NodeOf(r))

Members(r, b) == IF b = "node" THEN NodeRanks(NodeOf(r)) ELSE World

MayPass(r, b) ==
    /\ In(r, b) /\ waiting[r]
    /\ \A p \in Members(r, b) : met[b][p] >= met[b][r]

Pass(r, b) ==
    /\ MayPass(r, b)
    /\ waiting' = [waiting EXCEPT ![r] = FALSE]
    /\ NextStage(r)
    /\ UNCHANGED <<exchange, did, wire, seen, mem, met, bad>>

\* The fence: the puts of the signalling warp come first.
Fenced(r, op) ==
    \A o \in wire[r] : ~(/\ o.rows # {} /\ o.to = op.to
                         /\ o.task[1] = "send" /\ o.task[2] = op.task[2]
                         /\ o.task[3] <= op.task[3])

MayDeliver(r, op) == op \in wire[r] /\ (op.rows # {} \/ Fenced(r, op))

Deliver(r) == \E op \in wire[r] :
    /\ MayDeliver(r, op)
    /\ wire' = [wire EXCEPT ![r] = @ \ {op}]
    /\ IF op.rows # {}
       THEN /\ Write(op.to, {row[2] : row \in op.rows},
                     LAMBDA p : LET row == CHOOSE x \in op.rows : x[2] = p
                                IN  Held(r, row[1]))
            /\ UNCHANGED seen
       ELSE /\ seen' = [seen EXCEPT ![op.to][op.flag[1]][op.flag[2]] = @ + 1]
            /\ UNCHANGED mem
    /\ UNCHANGED <<exchange, forward, stage, waiting, did, met, bad>>

-----------------------------------------------------------------------------
StreamStep(r) ==
    \/ CopyInput(r) \/ ZeroSignals(r) \/ TakeRows(r)
    \/ RunExperts(r) \/ Reduce(r)
    \/ CopySegments(r) \/ TakeSegments(r) \/ TakeIndices(r)
    \/ KernelEnd(r)
    \/ \E b \in {"team", "node"} : Arrive(r, b) \/ Pass(r, b)

KernelStep(r) ==
    \/ \E w \in Senders : SendSplit(r, w)
    \/ \E w \in Dispatchers : DispatchSplit(r, w)
    \/ CombineBlock(r) \/ CombineToken(r)
    \/ PutSegment(r) \/ CopyIndices(r) \/ PutIndices(r)

Next == \E r \in World : StreamStep(r) \/ KernelStep(r) \/ Deliver(r)

Safe == Init /\ [][Next]_tvars

-----------------------------------------------------------------------------
\* Counters and barriers keep within their bounds, and only a kernel has tasks.
TypeOK ==
    /\ exchange \in DOMAIN Configs
    /\ forward \in [World -> 0..Exchange.forwards]
    /\ stage \in [World -> 1..Len(Exchange.stages)]
    /\ waiting \in [World -> BOOLEAN]
    /\ \A r \in World :
        /\ did[r] # {} => did[r] \subseteq Tasks(r)
        /\ \A op \in wire[r] : op.to \in World
    /\ \A r \in World, s \in Splits, n \in Nodes : seen[r][s][n] \in 0..Exchange.senders

\* What a rank takes out of its buffers is of the forward it is in: every token has
\* come to each of its experts, and back come the sums of exactly this forward, at
\* whatever time puts read their sources and reach peers that are ahead or behind.
ResultsExact == \A r \in World : ~bad[r]

Completed == \A r \in World : forward[r] = Exchange.forwards

\* Some step of r can be done: its stream goes on, its kernel has a task that need not
\* wait, or something of it in flight can be delivered.
CanMove(r) ==
    \/ (\E name \in Instant : In(r, name)) \/ KernelOver(r)
    \/ \E b \in {"team", "node"} : MayArrive(r, b) \/ MayPass(r, b)
    \/ \E op \in wire[r] : MayDeliver(r, op)
    \/ \E w \in Senders, i \in Steps("send") : MaySend(r, w, i)
    \/ \E w \in Dispatchers, i \in Steps("dispatch") : MayDispatch(r, w, i)
    \/ /\ Exchange.nodes > 1
       /\ \E n \in Nodes : \E b \in BlocksTo(RailOf(r, n), NodeOf(r)) :
            Undone(r, "combine", <<"sums", n, b>>)
    \/ /\ Exchange.nodes = 1
       /\ \E x \in AllTokens :
            r \in Experts(x[1], x[2]) /\ Undone(r, "combine", <<"sum", x[1], x[2]>>)
    \/ \E q \in World : Undone(r, "exchange", <<"put", q>>)
    \/ \E c \in Copiers : Undone(r, "indices", <<"copy", c>>)
    \/ \E q \in World \ {r} : MayPutIndices(r, q)

\* No forward waits for ever: as long as one is not through, some rank can move.  (No
\* step undoes another and forwards are bounded, so that every forward ends.)
NeverStuck == Completed \/ \E r \in World : CanMove(r)
=============================================================================
