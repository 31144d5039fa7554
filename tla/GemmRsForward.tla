----------------------------- MODULE GemmRsForward -----------------------------
(***************************************************************************)
(* GEMM+ReduceScatter without SM90 (GemmRS, src/gemm_rs/ths_op/            *)
(* gemm_reduce_scatter.cc) on the ranks of one node: back-to-back forwards *)
(* on the same output_buffer, reduce_buffer and flags.                     *)
(*                                                                         *)
(* With NVLink the epilogue of the GEMM stores or adds its tiles in the    *)
(* buffers of their owners.  Without, it keeps them, and a ring kernel of  *)
(* src/gemm_rs/reduce_scatter_kernel.hpp passes them on from rank to rank: *)
(* each rank runs its list of operations (RingSchedules).                  *)
(*                                                                         *)
(* What a place holds is the set of the partial products it is the sum of, *)
(* each a forward and a rank, and Junk if it holds anything else.          *)
(***************************************************************************)
EXTENDS Integers, Sequences

CONSTANTS
    Configs,        \* what the forwards of a behaviour may be, by name
    MaxForwards     \* bound on the forwards

(***************************************************************************)
(* A configuration:                                                        *)
(*   world     world_size, ranks of one node                               *)
(*   tiles     tiles of a segment; 1 for the kernels by segment            *)
(*   groups    thread groups of a CTA; CTAs have tiles and flags of their  *)
(*             own                                                         *)
(*   epilogue  what the epilogue of the GEMM does with a tile: "store"     *)
(*             stores it in the segment of its rank in the output_buffer   *)
(*             of the owner; "add", with FuseReduction, adds it to the     *)
(*             first segment there; "keep", for a ring kernel, stores it in*)
(*             the output_buffer of its own rank and raises a flag         *)
(*   ops       ops[r]: the operations of the ring kernel of rank r         *)
(*   late      sets of <<rank, segment, tile>>: which tiles the GEMM may   *)
(*             finish at any time; it finishes the others at once          *)
(*   sync      the caller synchronizes its ranks before a forward          *)
(*   fresh     what a new reduce_buffer holds                              *)
(*   forwards  how many each rank makes, at most MaxForwards               *)
(***************************************************************************)
VARIABLES
    config,     \* the configuration of this behaviour
    fwd,        \* fwd[r]: forwards the stream has completed
    pc,         \* pc[r]: where the stream is in its next forward
    wrong,      \* wrong[r]: a result was not the sum of its own forward
    arrived,    \* arrived[r]: calls of group_barrier
    late,       \* the tiles the GEMM may finish at any time
    todo,       \* todo[r]: the <<segment, tile>> its GEMM has not finished
    place,      \* place[r]: rank r's ring kernel is at this operation, times wave
    done,       \* done[r]: the groups that are through with it
    flags,      \* flags[r]: the flags that are up in r's barrier_buffer
    out,        \* out[r][s][t]: tile t of segment s of output_buffer
    red         \* red[r][s][t]: the same of reduce_buffer

fvars == <<config, fwd, pc, wrong, arrived, late, todo, place, done, flags, out, red>>

Config   == Configs[config]
Ranks    == 0..(Config.world - 1)
Tiles    == 0..(Config.tiles - 1)
Groups   == 0..(Config.groups - 1)
Waves    == (Config.tiles + Config.groups - 1) \div Config.groups

Junk == <<0, 0>>

-----------------------------------------------------------------------------
Mine(r) == <<fwd[r] + 1, r>>                    \* a partial product of r's forward
SumOfForward(f) == {<<f, p>> : p \in Ranks}

\* The sum of the values of a function.
Total(values) ==
    (UNION {values[p] : p \in DOMAIN values})
        \cup {Junk : q \in {pq \in (DOMAIN values) \X (DOMAIN values) :
                pq[1] # pq[2] /\ values[pq[1]] \cap values[pq[2]] # {}}}

Grid(content) == [r \in Ranks |-> [s \in Ranks |-> [t \in Tiles |-> content]]]

Init ==
    /\ config \in DOMAIN Configs
    /\ fwd     = [r \in Ranks |-> 0]
    /\ pc      = [r \in Ranks |-> "idle"]
    /\ wrong   = [r \in Ranks |-> FALSE]
    /\ arrived = [r \in Ranks |-> 0]
    /\ late \in Config.late
    /\ todo    = [r \in Ranks |-> {}]
    /\ place   = [r \in Ranks |-> 0]
    /\ done    = [r \in Ranks |-> {}]
    /\ flags   = [r \in Ranks |-> {}]
    /\ out     = Grid({})
    /\ red     = Grid(Config.fresh)

\* group_barrier.barrier_all: r has arrived and may pass once all ranks have.
Arrive(r) == arrived' = [arrived EXCEPT ![r] = @ + 1]

\* A bug: the barrier lets a rank through at once.
PassesAlone(r) == TRUE

Passes(r) == \A p \in Ranks : arrived[p] >= arrived[r]

-----------------------------------------------------------------------------
(* The stream of a rank. *)

\* A caller that synchronizes its ranks does so before a forward.
MayPrepare(r) ==
    /\ pc[r] = "idle" /\ fwd[r] < Config.forwards
    /\ Config.sync => \A p \in Ranks : fwd[p] >= fwd[r]

\* zero_buffers, which only some paths call.
Prepare(r) ==
    /\ MayPrepare(r)
    /\ pc' = [pc EXCEPT ![r] = "zeroed"]
    /\ IF Config.epilogue = "store" THEN UNCHANGED <<arrived, flags, out>>
       ELSE /\ flags' = [flags EXCEPT ![r] = {}]
            /\ out' = IF Config.epilogue = "add" THEN [out EXCEPT ![r] = Grid({})[r]] ELSE out
            /\ Arrive(r)
    /\ UNCHANGED <<config, fwd, wrong, late, todo, place, done, red>>

\* What the epilogue of r does to out and flags when the GEMM finishes tiles.
Finish(r, tiles) ==
    /\ flags' = IF Config.epilogue = "keep" THEN [flags EXCEPT ![r] = @ \cup
                                {<<"epilogue", st[1], st[2]>> : st \in tiles}]
                ELSE flags
    /\ out' = CASE Config.epilogue = "store" ->
                    [o \in Ranks |-> [out[o] EXCEPT ![r] = [t \in Tiles |->
                        IF <<o, t>> \in tiles THEN {Mine(r)} ELSE @[t]]]]
                [] Config.epilogue = "add" ->
                    [o \in Ranks |-> [out[o] EXCEPT ![0] = [t \in Tiles |->
                        IF <<o, t>> \in tiles
                        THEN Total([v \in 1..2 |-> IF v = 1 THEN @[t] ELSE {Mine(r)}])
                        ELSE @[t]]]]
                [] OTHER ->
                    [out EXCEPT ![r] = [s \in Ranks |-> [t \in Tiles |->
                        IF <<s, t>> \in tiles THEN {Mine(r)} ELSE @[s][t]]]]

MayLaunch(r) == pc[r] = "zeroed" /\ Passes(r)

\* The GEMM and the ring kernel start.
Launch(r) ==
    LET later == {st \in Ranks \X Tiles : <<r, st[1], st[2]>> \in late}
    IN  /\ MayLaunch(r)
        /\ pc' = [pc EXCEPT ![r] = "run"]
        /\ todo' = [todo EXCEPT ![r] = later]
        /\ place' = [place EXCEPT ![r] = 0]
        /\ Finish(r, (Ranks \X Tiles) \ later)
        /\ UNCHANGED <<config, fwd, wrong, arrived, late, done, red>>

GemmRuns(r) == pc[r] = "run" /\ todo[r] # {}

FinishTile(r) ==
    /\ GemmRuns(r)
    /\ \E st \in todo[r] :
        /\ Finish(r, {st})
        /\ todo' = [todo EXCEPT ![r] = @ \ {st}]
    /\ UNCHANGED <<config, fwd, pc, wrong, arrived, late, place, done, red>>

LastPlace(r) == Len(Config.ops[r]) * Waves

KernelsOver(r) == pc[r] = "run" /\ todo[r] = {} /\ place[r] = LastPlace(r)

\* The stream is behind both kernels and calls the barrier of forward_barrier.
KernelsEnd(r) ==
    /\ KernelsOver(r)
    /\ pc' = [pc EXCEPT ![r] = "ended"]
    /\ Arrive(r)
    /\ UNCHANGED <<config, fwd, wrong, late, todo, place, done, flags, out, red>>

\* forward_reduce_scatter_impl, with local_reduction on the path without a sum.
Output(r, t) ==
    CASE Config.epilogue = "store" -> Total([s \in Ranks |-> out[r][s][t]])
      [] Config.epilogue = "add"   -> out[r][0][t]
      [] OTHER          -> out[r][r][t]

MayReturn(r) == pc[r] = "ended" /\ Passes(r)

ReturnSum(r) ==
    /\ MayReturn(r)
    /\ pc' = [pc EXCEPT ![r] = "idle"]
    /\ fwd' = [fwd EXCEPT ![r] = @ + 1]
    /\ wrong' = [wrong EXCEPT ![r] =
            @ \/ \E t \in Tiles : Output(r, t) # SumOfForward(fwd[r] + 1)]
    /\ UNCHANGED <<config, arrived, late, todo, place, done, flags, out, red>>

-----------------------------------------------------------------------------
(* The ring kernels. *)

Held(p, t) == IF p[1] = "out" THEN out[p[2]][p[3]][t] ELSE red[p[2]][p[3]][t]

Put(p, t, value) ==
    IF p[1] = "out"
    THEN out' = [out EXCEPT ![p[2]][p[3]][t] = value] /\ UNCHANGED red
    ELSE red' = [red EXCEPT ![p[2]][p[3]][t] = value] /\ UNCHANGED out

\* A bug: a group looks at the flags of the first tile of the wave only.
IsUpFirst(f, t, wave) ==
    <<f[1], f[3], IF f[1] = "epilogue" THEN wave * Config.groups ELSE wave>> \in flags[f[2]]

\* The epilogue has a flag for every tile; a CTA of a ring kernel has one for the
\* tiles its groups take side by side.
IsUp(f, t, wave) == <<f[1], f[3], IF f[1] = "epilogue" THEN t ELSE wave>> \in flags[f[2]]

Team(wave) == {g \in Groups : wave * Config.groups + g \in Tiles}

Raise(fs, wave) ==
    [p \in Ranks |-> flags[p] \cup {<<f[1], f[3], wave>> : f \in {x \in fs : x[2] = p}}]

Operation(r) == Config.ops[r][place[r] \div Waves + 1]
Wave(r) == place[r] % Waves
TileOf(r, g) == Wave(r) * Config.groups + g

\* Thread group g of r has a tile in this wave, and the flags it waits for are up.
Ready(r, g) ==
    /\ pc[r] = "run" /\ place[r] < LastPlace(r)
    /\ g \in Team(Wave(r)) \ done[r]
    /\ \A f \in Operation(r).waits : IsUp(f, TileOf(r, g), Wave(r))

\* The group does its tile of the operation; when all have, the waiter warp raises
\* the flag and the groups go on together.
GroupStep(r, g) ==
    LET o == Operation(r)
    IN  /\ Ready(r, g)
        /\ Put(o.to, TileOf(r, g), Total([p \in o.from |-> Held(p, TileOf(r, g))]))
        /\ IF done[r] \cup {g} = Team(Wave(r))
           THEN /\ done' = [done EXCEPT ![r] = {}]
                /\ place' = [place EXCEPT ![r] = @ + 1]
                /\ flags' = Raise(o.raises, Wave(r))
           ELSE /\ done' = [done EXCEPT ![r] = @ \cup {g}]
                /\ UNCHANGED <<place, flags>>
        /\ UNCHANGED <<config, fwd, pc, wrong, arrived, late, todo>>

-----------------------------------------------------------------------------
StreamStep(r) == Prepare(r) \/ Launch(r) \/ KernelsEnd(r) \/ ReturnSum(r)
DeviceStep(r) == FinishTile(r) \/ \E g \in Groups : GroupStep(r, g)

Next == \E r \in Ranks : StreamStep(r) \/ DeviceStep(r)

Spec == Init /\ [][Next]_fvars

-----------------------------------------------------------------------------
Partials == {Junk} \cup ((1..MaxForwards) \X Ranks)

TypeOK ==
    /\ config \in DOMAIN Configs /\ late \in Config.late
    /\ fwd \in [Ranks -> 0..MaxForwards]
    /\ pc \in [Ranks -> {"idle", "zeroed", "run", "ended"}]
    /\ wrong \in [Ranks -> BOOLEAN]
    /\ arrived \in [Ranks -> 0..(2 * MaxForwards)]
    /\ \A r \in Ranks :
        /\ todo[r] \subseteq Ranks \X Tiles
        /\ place[r] \in 0..LastPlace(r)
        /\ done[r] \subseteq Groups
        /\ \A s \in Ranks, t \in Tiles : out[r][s][t] \cup red[r][s][t] \subseteq Partials

\* What a forward returns is the sum of the partial products of that forward, each
\* once, whatever the order in which the GEMMs finish tiles and the ranks pass sums
\* on, and although places and flags still hold what the forward before left there.
SumsExact == \A r \in Ranks : ~wrong[r]

Completed == \A r \in Ranks : fwd[r] = Config.forwards

\* What r does next can be done: its stream, its GEMM or a group of its ring kernel moves.
CanMove(r) == \/ MayPrepare(r) \/ MayLaunch(r) \/ KernelsOver(r) \/ MayReturn(r)
              \/ GemmRuns(r) \/ \E g \in Groups : Ready(r, g)

\* Before every rank has completed its forwards, some rank or group can move: the
\* waits of the ring are not circular, and no flag that a peer still needs is zeroed.
\* As no step undoes another, every forward of every rank ends.
NeverStuck == Completed \/ \E r \in Ranks : CanMove(r)
=============================================================================
