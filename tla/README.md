# Verification of Flux's communication protocols

Flux fuses collective communication with GEMMs: a kernel computes tiles while
peers, copy engines and NICs fill or drain the buffers the tiles use. Nearly all
of its correctness outside the arithmetic is in hand-made synchronisation: flags
in peer-visible memory, CUDA events between streams, counters that are never
reset, barriers inside kernels. These TLA+ modules model that synchronisation.
TLC checks them on small instances, and the TLA+ proof system proves some of the
results for every number of ranks, blocks and calls.

Paths below are relative to the repository. `PROJECT.json` names, for every
definition that models code, the lines it stands for.

## 1. Inventory

| component | state it keeps | operations | interacts through |
|---|---|---|---|
| Intra-node barrier kernels, `src/cuda/cudaipc_barrier_all.cu` | one flag word per pair of ranks, never reset by a host | one kernel per call: atomic mode (compare-and-swap), ring mode (release/acquire) | IPC memory of the peers |
| Group barrier, shared buffers, `src/ths_op/flux_shm.cc` | flag buffers, IPC handles | constructor (allocate, exchange handles, zero), `barrier_all` | process group, barrier kernels |
| GIN AllGather+GEMM, `src/ag_gemm/ths_op/gin_all_gather_gemm_op.cc`, `src/ag_gemm/gin/` | gather window, ready flags, `producer_signal`, `resident_count`, signal shadows, three events | `forward`: two streams, the communication kernel, the GEMM | NCCL GIN puts and signals along a rail, LSA stores in a node, world barriers |
| AllGatherOp and AllGather+GEMM of one node, `src/coll/ths_op/all_gather_op.cc`, `src/coll/*.cu`, `src/ag_gemm/ths_op/all_gather_gemm_op.cc` | input buffers, ready flags, `ag_signal`, two events | preparation (plain or fused), transfer by kernel or copy engine in four modes, the GEMM | peer memory, barrier kernels, the barrier inside the fused kernel |
| All2AllInference, `src/coll/ths_op/all2all_op.cc`, `src/coll/all2all_impl.cu` | input, splits, double-buffered outputs and signals, the call count | `forward`: one kernel, one block per peer | NVSHMEM puts and signals, no barrier |
| AG tile schedulers, `src/ag_gemm/*tile_scheduler.hpp`, `all_gather_swizzle.hpp` | none (index functions) | tile number to coordinates | GEMM kernels |
| Internode AllGather+GEMM, `src/ag_gemm/ths_op/all_gather_gemm_op_internode.cc` | NVSHMEM buffers, per-node events | `forward` | copy streams, NVSHMEM |
| GEMM+ReduceScatter, `src/gemm_rs/` | tile flags, reduce buffers, barrier buffers grown on demand | `forward`, `forward_barrier`, `zero_buffers` | tile flags between the GEMM's epilogue and the reduction, group barrier |
| GIN GEMM+ReduceScatter, `src/gemm_rs/gin/` | control state and signals of a progress kernel | `prepare_gin_rs`, progress kernel | GIN puts, events, the fused GEMM |
| All2AllSingle2D, dispatch/combine scatter, send/receive, `src/coll/` | NVSHMEM buffers, signals | `forward`, `read_comm_buffer`, `write_comm_buffer`, `wait_signal` | NVSHMEM teams and streams |
| Sequence-parallel GEMM with all-to-all transpose | tile flags | `forward` | peer memory |
| MoE AllGather-scatter, gather-ReduceScatter | tile flags, routing | `forward` | AllGatherOp, ReduceScatter flags |
| Single-device GEMMs, quantization, casts | none | kernels | none |
| Operator registry and tuning | a map filled at start-up | `visit`, `get` | all operators |
| Generators, bindings, Python layer | none of their own | code generation, calls | the operators above |

How they interact. A caller constructs one operator per rank; each `forward` is
issued on the caller's compute stream. Operators that gather or scatter put
their communication on a stream of their own and order it with CUDA events; on
the device they order themselves with flags. Buffers and flags are reused in
every forward, so that **consecutive** forwards, on ranks that drift apart, are
the hard case everywhere: the flag of forward *k* must neither be taken for that
of *k*+1 nor be erased by the reset of a rank that is behind.

### What is hard, and which property answers it

* *Reuse without reset* (barrier flags, GIN signals, all-to-all signals, tile
  flags): `RingFlagCountsRaises`, `FlagsCountAfterSetup`, `NoLeftoverSignal`,
  `NoSignalOverrun`, `FlagsDrained`.
* *Reset against late and early peers* (ready flags): `ReadyMeansCurrent`,
  `NoFlagErased` (a part of `GathersAreSound`).
* *What a consumer finally reads*: `TilesReadCurrent`, `GathersAreSound`,
  `OutputsCurrent`, `TeamResultsExact`, `PutsStayInForward`, `WindowsAndSignalsKept`.
* *What is summed up, and how often*: `SumsCurrent`, `SumsExact`,
  `ImplementsNodeReduce`.
* *Two streams on one GPU, two forwards at once*: `ResidentBeforeGemm`,
  `GemmsDoNotOverlap`, `ForwardsAreBarrier`, `BarrierSafety`.
* *Everyone waits on everyone*: `EveryCallReturns`, `RingEveryCallReturns`, `AllForwardsComplete`,
  `GatherCompletes`, `GathersAreSound`, `ForwardsEnd`, `NeverStuck`, `NobodyStuck`,
  `ExchangesComplete`.

`PROJECT.json` lists the hazards one by one, each at its line, the ones no
property covers with the reason.

## 2. Modules

| module | models | role |
|---|---|---|
| `Barrier` | what every caller assumes of a barrier | abstract specification |
| `NodeReduce` | what the GIN path assumes of the fused reduction of a node | abstract specification |
| `CudaIpcBarrier` | `CudaIpcBarrierAllKernel` | implements `Barrier` |
| `CudaIpcBarrierRing` | `CudaIpcBarrierAllRingModeKernel` | implements `Barrier` |
| `FluxGroupBarrier` | constructor of the group barrier around `CudaIpcBarrier` | composition, implements `Barrier` |
| `GinAgGemm` | GIN AllGather+GEMM: both streams, communication CTAs, puts, tiles | implements `Barrier` on forwards |
| `AllGatherOp` | AllGatherOp and AllGather+GEMM on one node | implements `Barrier` on forwards |
| `All2AllInference` | the barrier-free exchange | implements `Barrier` on calls |
| `GemmRsTiles` | the SM90 GEMM fused with the reduction of one node | implements `NodeReduce` |
| `GinGemmRs` | GIN GEMM+ReduceScatter: streams, events, progress kernel | composed with `NodeReduce`, implements `Barrier` on forwards |
| `GemmRsForward` | GEMM+ReduceScatter of one node before SM90 | runs the lists of `RingSchedules` |
| `RingSchedules` | the ring kernels as lists of operations | operators |
| `RingOrder` | what the flags of such a list order, and when that makes the sums exact | operators |
| `TeamExchange` | the exchanges of `src/coll/` that end in a barrier of the team | - |
| `FluxGroupBarrier_proofs` (with those of `CudaIpcBarrier` and `CudaIpcBarrierRing`), `AllGatherOp_proofs`, `GinAgGemm_proofs`, `GemmRsTiles_proofs`, `GemmRsForward_proofs`, `GinGemmRs_proofs`, `All2AllInference_proofs`, `TeamExchange_proofs` | - | theorems |
| `MC*` | - | instances for TLC |

`Barrier` is the one abstraction most protocols share: `entered[r]` counts what
rank *r* has begun, `left[r]` what it has finished, and nobody finishes its
*k*-th before everybody has begun theirs. The barrier kernels implement it by
identity. For the gathers, "begun" is that the input of the forward is there
(the first event of `forward`) and "finished" that the GEMM is; for the
all-to-all, the launch and the end of the kernel.

### Barrier kernels

`sync[q][p]` is the word `sync_buffers[q][p]`. A spinning `atomicCAS_system` is
one action, enabled when the compare succeeds: the failing compares change
nothing. `Enter` and `Leave` are the start and the end of the kernel on the
rank's stream, so that calls of one rank do not overlap but calls of different
ranks drift apart by one. In ring mode a rank touches its own flag and that of
its next peer; `Arrive`, `Quit` and `Reset` are the three memory operations of
thread 0. Memory is sequentially consistent in that module; the loads that end a
wait are acquires and the stores to the next peer releases in the source.

The comment at `src/cuda/cudaipc_barrier_all.cu:68` calls ring mode dangerous for
consecutive barriers. Under the model's memory it is not: the clears run down
the ring and rank 0 returns last, so that no store of the next wave meets a flag
that is still up. `RingFlagCountsRaises` is exactly that, and it is proved.

### Group barrier

`FluxGroupBarrier` starts one step earlier: the flag buffer comes from
`cudaMalloc` with arbitrary words, the handles are gathered over the process
group, and then each rank zeroes its own buffer on its own stream. `CallerSyncs`
says whether the caller puts a collective between constructor and first call.

### GIN AllGather+GEMM

Ranks are `node * NLocal + local`. The compute stream (`ProduceInput`,
`GemmStart`, `GemmTile`) and the communication stream (`CommLaunch`, `CommDone`)
are sequences of commands; an event is the number of forwards that have recorded
it, which is what a wait on a re-recorded event amounts to when each forward
records once and waits once. Each CTA of the communication kernel goes through
`BlockStart` (counts itself resident), `ReleaseProducer` (block 0),
`StartPass` (world barrier), `RingPut`, `WorkerCopy` and `WorkerPublish` (ring
warp and worker warps), `EndArrive` and `CommDone` (final barrier). A put is
read by the NIC at any time after the call and before the end of the CTA
(`gin.flush`), and delivered later, signal behind data, in order per block and
peer (`GinDeliver`). Chunk and split arithmetic is kept as the code has it:
`NSplits`, `ChunkOf`, `TileWaits` translate the loop bounds and the clipped chunk
range of a tile; `TileReads` is the reference, the rows a tile really reads.

The invariants are those of `docs/gin_ag_gemm.md`, section "Correctness
invariants", as far as they speak of state:

| document | here |
|---|---|
| 2 (published after visible) | `ReadyMeansCurrent`, `TilesReadCurrent` |
| 3 (CTAs resident before the GEMM is released) | `ResidentBeforeGemm` |
| 4 (no stale barrier or producer value) | `ResidentBeforeGemm`, `TilesReadCurrent` |
| 5 (window reuse) | `ReadyMeansCurrent`, `ForwardsAreBarrier` |
| 6 (sender-side reuse, ordering of the signal) | `PutsStayInForward`, `NoLeftoverSignal` |
| 7 (identical chunk mapping) | `TilesReadCurrent` |

Number 1 (one peer and context for a put and its signal) is the shape of the
model: a put is delivered with its signal.

### AllGatherOp

One forward is a preparation (copy of the own segment, reset of the flags,
between two barriers) and a transfer. `cta` holds the CTAs of the preparation:
one (`"all"`) when two barrier launches enclose plain copies, two kinds
(`"copy"`, `"reset"`) when the fused kernel does its barriers itself. A segment
has two halves, the one of the warps that also do the barrier and the one of the
others, because no `__syncthreads` stands between the copy and the second
`sync_peers`. `Hop` gives for each mode what the *i*-th transfer moves, from and
to whom, and which flag it awaits. `opts` gives every forward its options, for
they are an argument of the call.

Abstracted: `use_cuda_core_local` (implied by the fused preparation), the copy
back to `gathered_input`, `input_buffer_copied`, scales (they travel with the
data), SPLIT > 1. The ring modes by kernel follow the schedule of the copy
engine.

### GEMM+ReduceScatter on SM90

`GemmRsTiles` is the fused kernel of one node. Each CTA of the persistent grid
has three roles that run on their own: the epilogue stores a tile and raises its
first flag, the fetch warp takes that flag of a peer and reads the tile, the
reduce warp adds it and counts in the second flag. The order in which a CTA meets
its tiles is that of `tile_mappings.hpp` (an XOR of ranks); with `FuseReduction`
the own partial is a tile of another CTA, and with more CTAs than SMs those that
have not been dispatched hold nobody's flag. A CTA keeps its SM until the last of
its roles has ended. Flags are never reset: the last
adder leaves each as it found it. `GrowBarrierBuffer` precedes the forwards of
`GrowAt`, which need a larger buffer. `Sync` says what keeps forwards of different
ranks apart: the group barrier (several nodes), a barrier before the launch (the
GIN kernel, or a caller), or `"none"`, which is all that the code has on one
node.

`NodeReduce` is what the rest may rely on: a segment is published when all peers
of the node are in the forward or later, and what is published is the sum of that
forward. `GinGemmRs` uses `NodeReduce` in the place of the GEMM and adds what
`prepare_gin_rs` does around it: two streams, events, the reset of the control
state, the residency handshake, puts of the chunks along the rail with signals
that are never reset, the sum over nodes, and the barriers. `GemmsDoNotOverlap`
there is what `Sync = "launch"` means here, so that the two compose.

### GEMM+ReduceScatter before SM90

`GemmRsForward` has the stream of a rank (`zero_buffers`, the two kernels, the
barriers of `forward_barrier`, the local reduction) and three epilogues: `store`
and `add` of NVLink, `keep` for the ring kernels. A place holds the *set* of
partial products it is the sum of, each a forward and a rank, with `Junk` for a
partial product added twice. `RingSchedules` gives each of the seven ring kernels
as a list of operations (wait for flags, add places, write, raise flags),
including the four-stage tables of ranks and segments of the two-dimensional
topology. A CTA's thread groups take the tiles of a wave side by side and share
one flag per wave, as the waiter warp does.

`RingOrder` looks at the lists alone. A certificate of a configuration says of
every operation which others are over when it starts and whose partial products
its sum holds; `Certified` checks it operation by operation, against the order of
a rank's own list and what all raisers of an awaited flag have in common. `Acyclic`
says of numbers of the operations that they grow along the lists and along the
flags. The proofs about `GemmRsForward` start from these; `MCOneNodePaths` has TLC
compute them for each of the seven kernels.

### The exchanges of a team

`TeamExchange` covers DisScatterForward (dispatch, and the exchange of the
routing indices), DisScatterBackward (combine) and All2AllSingle. A rank's stream
runs a list of stages; a kernel stage is a set of tasks (a warp of a split, a
block, a token), each a put with or without a signal. A put is read and delivered
in one step at any time before the team's barrier completes, its signal behind it
(`nvshmem_fence`). Tokens go by way of the rank of their rail in the receiving
node; splits, blocks that straddle two splits and the skipping of tokens without
an expert in a node are kept, for the sending and the reducing rank work them out
each on its own.

### All2AllInference

`wire[r][q]` holds the operations of *r* towards *q* that are under way: puts
whose source is not read yet, puts that are, and the signal. Within a call the
fence puts the signal last; nothing orders the operations of two calls. `SlotOf`
and `CallCount` keep the parity and the wrap-around of the call count.
`StoresByThreads` says whether the puts are stores of the kernel's own threads
(peers over NVLink), which have read their sources when the kernel ends, or are
read by a NIC. Signals start at 0, as the comment of the constructor says; the
allocation itself does not promise it. Scales are left out.

## 3. Runs

A run takes from seconds to about two and a half minutes on two cores
(`exchanges` with 407,903 states, `one_node_paths` with 592,982). `CHECK_DEADLOCK FALSE`
stands in every configuration because the system stops when the bound on calls
is reached; that it stops nowhere else is a property of the component. Where a
run has several instances, its MC module has a variable that names the instance
of the behaviour, and only the variables of that one move. The MC modules extend
the module they are about, so that the properties of a run are those the theorems
state; what further instances are to satisfy is the conjunction of the same
properties (`WindowsAndSignalsKept`, `GathersAreSound`, `TeamResultsExact`).

| run | instances | shows |
|---|---|---|
| `group_barrier` | 3 ranks, 2 calls, caller synchronises | types; exact accounting of flags from the constructor on; barrier safety; refinement of `Barrier`; every call returns |
| `group_barrier_no_sync` | 2 ranks, 1 call, no collective of the caller | **violation**: a call that never returns |
| `intra_node` | ring-mode barrier: 4 ranks, 3 calls; AllGatherOp: 2 ranks, five options, 2 forwards | flags count raises; refinement; every call returns; tiles and flags of the gather are current, its forwards are barriers and complete |
| `gin_ag_blocks` | 2 nodes x 1 GPU, 2 CTAs, 2 chunks of 2 rows, tiles of 5 rows, 2 SMs, 2 forwards | tiles that straddle chunks read current data; residency; flags, puts and signals stay in their forward; refinement; all forwards complete |
| `gin_ag_shapes` | 2 nodes x 2 GPUs; 3 nodes x 1 GPU; 2 forwards | the same of flags, puts and signals with LSA peers that store into each other and with chunks that are sent on; types |
| `one_node_paths` | AllGatherOp: 3 ranks, 2 forwards in two of three modes (see below); 2D ring of 2 NUMA nodes x 2 ranks, 1 forward. GemmRsForward: 3 ranks for both NVLink epilogues and the four 1D ring kernels, 8 ranks for the three 2D ones | types, tiles and flags across changes of mode; every forward returns every partial product once; no forward is stuck |
| `all_gather_fused_pull` | 2 ranks, fused preparation and all-to-all by kernel | **violation**: a tile reads half a segment of the forward before |
| `exchanges` | All2AllInference: 2 ranks, 5 calls, MOD_VALUE 4; TeamExchange in seven configurations, see below | types; results belong to their call or forward; no exchange is stuck; no signal overrun; refinement; all calls complete |
| `all2all_inference_nic` | 2 ranks, 2 calls, sources read by a NIC | **violation**: an output of another call |
| `gemm_rs` | 2 GPUs, 3 CTAs on 2 SMs, 2 forwards; a node of two with the group barrier; a grown flag buffer; no `FuseReduction`, on one SM | types; sums of their forward; flags drained; all forwards end; refinement of `NodeReduce` |
| `gin_gemm_rs` | 2 nodes x 2 GPUs, 2 forwards | types; outputs of their forward; GEMMs of a node do not overlap; no leftover signal; refinement of `Barrier`; all forwards end |
| `gemm_rs_one_node` | 2 GPUs, 2 forwards, nothing keeps them apart | **violation**: a sum with a tile of the next forward |

Why the bounds are enough. Two forwards (calls) are the shortest history in
which a buffer, flag or signal is used again, and the barrier between forwards
keeps any two ranks at most one apart, so that a third forward meets the states
of the second; where parity or a wrap-around is in play (ring mode, all-to-all)
there are three and five. Three nodes are the first ring in which a chunk is
received *and* sent on; two GPUs of a node the first with an LSA peer; tiles of
five rows over chunks of two straddle chunk and rank boundaries and are clipped
at the end; two SMs for two CTAs leave none to spare for a GEMM, and three CTAs
on two SMs leave one undispatched. The 2D ring of AllGatherOp needs two NUMA nodes
of two; at four ranks TLC's reach ends at one forward with the tiles run in order
(`TilesInOrder`, used there only) and as soon as their flags are up, which loses
nothing, since in one forward nothing is written to a segment behind its flag. Of
the nine pairs of modes of the three ranks two are left out: all-to-all twice, and
all-to-all behind the ring that pushes.

The 2D ring kernels of the ReduceScatter are written for eight ranks, whose
interleavings are too many. There the ranks move in the order of their numbers as
far as they can, except for one, the straggler, that moves at any time: two steps
of different ranks that no flag orders come in either order in the behaviour in
which one of them is the straggler. Every rank is one in turn for two of the
kernels (two forwards); for the kernel by segments, whose lists are long, ranks 0,
3 and 6 are, in one forward. What this leaves out are faults that need two late
ranks at the same time.

The run also evaluates the assumption `PathsAreOrdered`: every configuration is
`Sound`, and the lists of all seven ring kernels have a certificate and numbers
(`RingOrder`). The theorems `SumsAreExact` and `ForwardsNeverStuck` need no more,
so that the 2D kernels, too, return exact sums and are never stuck under every
interleaving of the eight ranks and for every number of tiles, groups and
forwards; what the run adds there are counterexamples when a definition is wrong.

TeamExchange: `layer` is a dispatch and the combine behind it, on two ranks of two
nodes, with a block that straddles two splits and two sending warps; `rail` the
same on two nodes of two, in one forward; `node` on three ranks of one node;
`dispatches` and `combines` have two of one kind follow each other, with the
barrier behind the copy out and the extra barrier; `single` is All2AllSingle,
`indices` the exchange of indices.

`GinGemmRs` needs as many GPUs in a node as there are nodes, so that four ranks are
the least; a second CTA or chunk is out of TLC's reach there. Several CTAs waiting
for SMs are in `gin_ag_blocks`, whose handshake is the same, and the safety of
`GinGemmRs` is proved for any number.

One thing the bounds miss: two CTA loops that agree for two nodes or one split per
CTA (an exchange of the two nested loops of the GIN kernel) differ only from three
nodes with two splits on.

Fairness. The barriers assume weak fairness of each thread (a resident block's
spinning thread runs again and again) and of a kernel's end, and of the
constructor's steps; callers are *not* assumed to call. The gathers, the
ReduceScatters and the all-to-all assume only `WF_vars(Next)`: in these protocols
no step disables a step of another actor for good, and the claim is that they do
not all stop before the end, so that it is enough that something that can move
does. That is weaker than what streams, SMs and NICs give one by one. In
`GemmRsForward`, `TeamExchange`, `AllGatherOp` and `All2AllInference` the same claim
is the invariant `NeverStuck`: before the end some rank can move (`CanMove`, the
guards of the actions); no step undoes another and forwards are bounded, so that
every behaviour that goes on ends. `NobodyStuck` and `GathersAreSound` check besides
that some rank can move exactly if a step is enabled. These models take all CTAs of a
kernel to be resident: those of the dispatch and of the exchange of indices wait for
other CTAs, and their number is the caller's (`n_threadblocks`); of the transfer
kernel of AllGatherOp see the hazard at `all_gather_impls.cu:69`.

Each property of a passing run has a mutant: a definition of the model replaced
by a form with a plausible bug (`...NoEvent`, `...Alone`, `...First`, ...), which
stands in the module above the definition, commented as its bug form. The run's
configuration then finds the property violated.

## 4. Findings

With a run:

* **Late zeroing** (`group_barrier_no_sync`). The constructor of
  `FluxGroupBarrier` hands out its flag buffer and zeroes it afterwards
  (`src/ths_op/flux_shm.cc:681`). A peer that is through may raise its flag in
  between; the zeroing wipes it and both ranks spin forever. The repository's own
  test puts a process-group barrier in between, other callers do not.
* **Second barrier of the fused copy** (`all_gather_fused_pull`). No
  `__syncthreads` separates the copy loop of `local_copy_and_reset_kernel` from
  its second `sync_peers` (`src/coll/local_copy_and_reset.cu:144`), so a peer may
  be released and read the segment while other warps still write it. It takes a
  transfer that reads the own segment of a peer right away, the all-to-all by
  kernel; the options of the passing runs do not combine the two.
* **Reuse of a put's source** (`all2all_inference_nic`). `all2all_v2` ends
  without a quiet, and the next call refills the sources of its non-blocking
  puts. With stores by threads nothing goes wrong; with a NIC that reads late,
  data of the next call arrives under the signal of this one.
* **No barrier on one SM90 node** (`gemm_rs_one_node`). `forward_barrier` returns
  at once on a single node (`src/gemm_rs/ths_op/gemm_reduce_scatter.cc:1143`). A
  rank whose kernel has ended has fetched its peers' tiles; its own need not have
  been fetched. Its next forward stores the tile before it waits for the flag.

Seen while modelling, without a run of their own (RS is
`src/gemm_rs/ths_op/gemm_reduce_scatter.cc`, RK
`src/gemm_rs/reduce_scatter_kernel.hpp`):

* The NVLink path without `FuseReduction` has no barrier behind `local_reduction`
  either (RS:941, RS:1146); the `store` configuration of `GemmRsForward` therefore
  has a caller that synchronises (`sync`).
* `ReduceScatterRing1dPushGemmk` adds, in its first round, a segment of
  `reduce_buffer` that nobody writes (RK:1637-1647); the configurations start with
  zeros there, which the code does not see to.
* Several nodes over PCIe add the sums of other nodes in the kernel
  (RK:2014-2032) and again on the host side (RS:1027-1032).
* With `use_barrier_queue` the epilogue appends at the bare count
  (`src/gemm_rs/epilogue_evt.hpp:347`), the kernel reads at
  `segment * tiles_per_rank + i` (RK:1293).
* Flags that other GPUs read are released at device scope (RK:514-535,
  RK:695-716).
* `lazy_init_barrier_buffer` may grow the flags inside a GIN forward (RS:939).
* The comment at `src/gemm_rs/tile_scheduler/tile_mappings.hpp:107` describes
  another order than the code's.
* `gin_contexts` may equal the number of SMs (RS:244); the GEMM then has none.
  `GinGemmRs` assumes it is smaller.
* `insert_extra_barrier` of DisScatterBackward is off by default; two combines in
  a row, as `test/python` loops them, need it in the model.
* The event by which the GIN ReduceScatter waits before it reuses its output is
  implied, for the safety of the output, by the barriers around it.
* `src/coll/ths_op/isendrecv.cc:114` leaves open whether a quiet is needed; and
  the test of `AsyncSendRecv` waits for the signal 0, which is its initial value.

## 5. Proofs

Checked by `tlapm`, for all values of the constants that satisfy the assumptions
of the modules. The assumptions are what the code checks or guarantees: a finite
set of fewer than 32 ranks (`CudaIpcBarrier`), at least one rank (`CudaIpcBarrierRing`), the
argument checks of the constructor (`GinAgGemm`, `GinGemmRs`), an even `ModValue` of at least
four (`All2AllInference`). The bound on the calls is any natural number, so it is
no restriction of a finite history.

* **`FluxGroupBarrier_proofs`, part one** (`CudaIpcBarrier`). Inductive invariant `IInv`: types, `FlagCountsRaises`
  (a flag is the difference of raises and takes) and `IdleThreads` (threads run
  only inside a call). `BarrierSafety` alone is not inductive, since it does not
  say what a raised flag means. The argument: a thread of *p* that is done has
  taken *q*'s flag, so *q* has raised it as often as *p* has begun, so *q* has
  begun as often. Theorems `TypeCorrect`, `FlagsCount`, `BarrierIsSafe` and
  `Refinement` (every step is a step or a stutter of `Barrier`).
* **`FluxGroupBarrier_proofs`, part two**. The same four with the constructor in the
  picture, whatever `cudaMalloc` leaves in the buffers, under the hypothesis
  `CallerSyncs` (without it they are false, see the first finding). `GIInv` says
  that no kernel runs before the last constructor has returned and that buffers
  zeroed until then stay zero (`QuietSetup`), and that `IInv` of the kernel holds
  afterwards. The last `Zero` leaves an initial state of `CudaIpcBarrier`; from
  then on every step is one of its steps and its lemmas apply.
* **`FluxGroupBarrier_proofs`, part three** (`CudaIpcBarrierRing`). The same four,
  for every number of ranks and calls: `RingTypeCorrect`, `RingFlagsCount`,
  `RingIsSafe` and `RingRefinement`, from an invariant that adds
  `WaveUp` and `WaveDown` (raises grow towards rank 0, clears towards the last
  rank) and `ControlState`. The heart is the lemma `ArriveFindsZero`: a store of 1
  always falls on a 0, which needs both waves.
* **`AllGatherOp_proofs`**. All its safety properties, for every number of ranks and
  forwards and every sequence of options: `TypeCorrect`, `Refinement`
  (`ForwardsAreBarrier`), `FlagsAreKept` (`NoFlagErased`), `TilesCurrent`
  (`TilesReadCurrent`), `ReadyDataCurrent` (`ReadyMeansCurrent`) and
  `GathersNeverStuck` (`NeverStuck`). `IInv` counts the arrivals at the barriers.
  Not every forward has the same CTAs, and two forwards in a row may share no
  barrier at all; so the count goes by the forwards that have the CTA (`Turns`), and
  the lemma `Met` concludes who has come how far. From it `BarriersHold`, and from
  that `AllPrepared`: while a rank is in its transfer, all ranks have reset their
  flags for its forward and for no later one. Order and flags (the first three
  theorems) need nothing else. The two theorems about data have the hypothesis
  `PullsUnfused`, that no forward with a fused preparation reads the own segment of
  a peer: the fused kernel passes its second barrier before all warps have copied,
  and without the hypothesis `TilesReadCurrent` is false (run
  `all_gather_fused_pull`). `HopReads` is the arithmetic of the four schedules: a
  hop reads an own segment, one whose flag it has waited for, or, in the last stages
  of the 2D ring, one its rank has sent before.
  `GathersNeverStuck` has no hypothesis, and its argument goes backwards from a state
  in which no rank can move. Of the ranks that have prepared the fewest forwards one
  is not in a preparation: the others would have arrived at the same barriers, and
  the ranks ahead too, as the count says (`OneIsThrough`). So all have prepared the
  same forwards, and reset their flags for no other one (`AllAlike`). A hop waits only
  for a segment that the hop before it brings, whatever the mode (`HopArrives`,
  `HopWaits`), so the earliest hop left on any rank could be done (`NoTransfer`).
  Then all flags are up and no GEMM waits (`GemmIsServed`), nor a compute stream
  (`WaitIsServed`), and an idle rank could go on. `ProgressInv` says what this needs
  of the past: a flag is up once its sender has sent and its receiver has reset for
  the forward (`FlagsArrive`; a reset is of a forward of which no flag has been sent,
  `ResetComesFirst`), and `ag_signal` is up from the launch to the next reset and no
  GEMM of the forward starts before, so that none holds the SMs the transfer kernel
  needs (`SignalKept`).
* **`GinAgGemm_proofs`, part one**. `TypeCorrect` and `GemmStartsResident`, for every number
  of nodes, GPUs, CTAs, chunks and forwards. `IInv` adds to the types
  `ControlState` (a CTA exists exactly while its kernel runs),
  `ArrivalsCountForwards` (each barrier of each forward passed once, which bounds
  the arrivals) and `ResidentCounts` (the counter is the number of CTAs started;
  `producer_signal` is up only when that is all). The index lemmas at the top
  show that `ChunkOf`, whose definition is two nested divisions, stays inside the
  window.
* **`GinAgGemm_proofs`, part two**. `Refinement` (`ForwardsAreBarrier`). `OrderInv` adds
  to `IInv` `BarriersHold` (whoever is past a world barrier has met everybody),
  `StreamsClose` (the two streams of a rank are at most one forward apart) and
  `FlagsFollowResets` (a flag is up only when all ranks have reset theirs for the
  forward). The argument: a tile waits for at least one flag (`TileFacts`), a flag
  shows all resets of the forward, and a reset the input of its rank. The lemma
  `Meeting` says where the CTA of another rank can be, given where one is; it
  carries all that follows.
* **`GinAgGemm_proofs`, part three**. `TilesCurrent` (`TilesReadCurrent`),
  `ReadyDataCurrent` (`ReadyMeansCurrent`), `PutsInForward` (`PutsStayInForward`)
  and `SignalsAllCounted` (`NoLeftoverSignal`). None is inductive, for a flag says
  nothing of the writes that are still to come. `SignalsCount` counts signals,
  puts under way, shadows and local signal values from `Base`, the number of
  signals of the completed forwards; with `Meeting` it says that a put that is
  under way finds its sender and its receiver in the same forward, and all ranks
  behind its reset (`WireFacts`). So every write into a window is of the forward
  its owner has reset for, and the four parts of `DataInv` survive it: the own
  segment (`Staged`), the chunks whose signals have come (`Received`), those copied
  and not yet published (`Copied`), those under way (`Wired`). `ChunkShift` is the
  arithmetic of the ring: what the *i*-th put brings, the receiver passes on
  `NSplits` iterations later, in both loops.
* **`GemmRsTiles_proofs`**. `TypeCorrect` (`TypeOK`), `FlagsAreDrained`
  (`FlagsDrained`), `SumsAreCurrent` (`SumsCurrent`) and `Refinement`
  (`ImplementsNodeReduce`), for every power of two of ranks, every grid of tiles,
  tile order, number of CTAs and growth of the flag buffer. All four have the
  hypothesis `ZeroedFlags`, that a new flag buffer holds zeros, and the last two
  `KeptApart`, that something keeps a forward from starting before its peers have
  ended the last: the barrier of the caller, or a buffer that grows, which
  synchronizes the ranks, in every forward. Without the second they are false (run
  `gemm_rs_one_node`). `FlagInv` says what the two flags of a tile count: the first
  is raises less takes, the second how many partials of the forward are in, modulo
  the number of ranks, so that it comes back to zero with no reset. The CTAs share
  out the tiles exactly once (`TileOfTurn`, `TurnOfTile`), and the swizzle that
  makes each rank start elsewhere is an involution (`SwizzleTwice`), from which it
  follows that tiles are neither skipped nor done twice. `DataInv` then says which
  partials a tile holds (`TilesHold`, `FetchesHold`, `SumsHold`).
* **`GemmRsForward_proofs`, part one**. `TypeCorrect` (`TypeOK`) and `SumsAreExact`
  (`SumsExact`). The hypothesis `ConfigsOK` says of each configuration that it is
  `Sound` (positive sizes; operations only for the ring kernels; the path that
  zeroes nothing has a caller that synchronizes), that it makes at most
  `MaxForwards` forwards, and that ring kernels' operations have a certificate
  (`Ordered`). Inductive invariant `Inv`: arrivals are two per forward
  (`BarriersHold`, with `CallersHold` on the path whose caller synchronizes), so
  that ranks whose kernels run are in the same forward; whatever an event comes
  after by the certificate is over once the event is (`OrderKept`); a flag
  that is up was raised in this forward (`FlagsMean`), although the ranks zero
  their flags each at its own time; and a place holds the sum, as the certificate
  has it, of the last event there (`PlacesHold`), or what the forward began with if
  nobody writes it (`PlacesFresh`). `AddedUp` and `Stored` are the same for the
  NVLink epilogues. The argument of the step: when a group is `Ready`, all that
  the certificate puts behind the operation is over, among it, for each place it
  reads, one writer after which nobody writes before this operation; so it finds
  what the certificate says, and adds nothing twice.
* **`GemmRsForward_proofs`, part two**. `ForwardsNeverStuck` (`NeverStuck`): before
  the end some stream, GEMM or thread group can move. Besides `ConfigsOK` it has the
  hypothesis `AllNumbered`: the operations have numbers that grow along the list of a
  rank and, for every flag of a peer or of the rank itself that is awaited, from
  one who raises it to the one who waits (`Acyclic`); that is to say, the waits
  of the ring are not circular. The invariant `Lively` adds two conjuncts to `Inv`.
  `FlagsUp` is the converse of `FlagsMean`: a flag that was raised in this forward
  is still up. It holds because nobody zeroes its flags while a peer is in its
  kernels or about to start them (`NobodyThrough`), which is what the two barriers
  are for. `TeamsShort`: the groups of a wave that are through are never all of them.
  The argument: if some rank's kernels run and no GEMM has tiles left, take the
  rank whose operation has the least number. All operations it waits for have
  smaller numbers, so their ranks are past them, their flags are up, and a group
  that has not done its tile is `Ready` (`LeastIsReady`). If no kernels run, the
  rank with the fewest arrivals passes its barrier (`StreamsMove`).
* **`GemmRsForward_proofs`, part three**. `PathsAreExact` and `PathsNeverStuck`: the same, with no
  certificate in the hypotheses, for the NVLink epilogues, the ring that pulls, the
  two that push and the one that copies (`Pull1d`, `Push1d` over zeros,
  `Segment1d`, `Memcpy1d`), on **any number of ranks**. The certificates are given in closed form: in
  the operation of round *i* a segment has come from *i* ranks up the ring, and
  behind it are the operations it has passed through; the number of an operation
  is its place in the list. The 2D kernels are written
  for eight ranks; their certificates and numbers are found by TLC
  (`PathsAreOrdered`).
* **`GinGemmRs_proofs`**. All safety properties of its run: `TypeCorrect`,
  `GemmsInOrder` (`GemmsDoNotOverlap`), `Refinement` (`ForwardsAreBarrier`),
  `SignalsAllCounted` (`NoLeftoverSignal`) and `OutputsAreCurrent`
  (`OutputsCurrent`). The layers are those of the AllGather: `IInv` (control and
  barrier arrivals), `OrderInv` (who is past a barrier has met everybody;
  `GemmsInStep` and `FlagsAreCurrent` follow), `CountInv` (a put is on the wire or
  signalled, `PutsCounted`; the workers count no more than that,
  `ShadowsCounted`) and `DataInv` (puts, signalled slots and reduced tiles are of
  the forward their rank is in). The progress kernel differs in two things. Its
  send warp serves the other nodes in turn, so that how many of *i* puts went to
  one of them is a division by the number of nodes less one; `SendFacts` and
  `SentAll` are its arithmetic. And its buffers are reused by a kernel that is not
  the one that fills them: `WireBusy` (nothing is under way unless both ends are in
  the same forward) and `SignalBound` (no signal of a later forward before the
  final barrier) keep a slot as it is until the workers are through with it.
* **`All2AllInference_proofs`**. `TypeCorrect`, `SignalsAreSeen`
  (`NoSignalOverrun`), `Refinement` (`CallsAreBarrier`), `CallsNeverStuck`
  (`NeverStuck`) and, where puts are stores of the kernel's threads,
  `OutputsAreCurrent` (`OutputsCurrent`; its hypothesis `StoresByThreads` is what
  the third finding is about). None of these is inductive: whether a wait may end
  depends on a slot, and what the slot holds on all that is still under way. `IInv`
  adds `WaitsHaveReason` (what *q* has waited for of *r* has been issued and has
  arrived), `SignalIsLast` (as long as anything of a call is under way, so is its
  signal) and `SlotsHoldLast` (the slots hold the counts of the last two calls, or
  of those before while a signal is under way). The argument: issuing and waiting
  keep each other within one call, so that at most two calls are under way, of
  different parity and so in different slots; the count a wait compares with differs
  from the one that is left in the slot, that of the call two before, because
  `ModValue` is even and at least four.
  `OInv` says the same of the data: sources are read before the kernel ends, and a
  slot holds the data of the last call of its parity.
  `CallsNeverStuck` follows from `IInv` as it is. If nobody can move, nothing is in
  flight (`NothingInFlight`), and the rank with the fewest completed calls is in a
  call whose signals its peers have all sent; that its wait, for equality, sees them
  is what `SlotsHoldLast` says, since no peer is two calls ahead (`LastIsServed`).
* **`TeamExchange_proofs`**. `TypeCorrect` (`TypeOK`), `ResultsAreExact`
  (`ResultsExact`) and `ExchangesNeverStuck` (`NeverStuck`), for every number of
  nodes, ranks, splits, warps and forwards, every assignment of tokens to experts,
  and every list of stages that keeps the order of the code. That order is the
  hypothesis `ConfigsOK`: sizes are positive, experts are ranks (`Sound`), and a
  barrier of the team stands between a kernel and whoever reads its results and
  between two rounds of a kernel, the zeroing of the signals between a dispatch and
  its barrier, the barrier of the node between experts and combine (`InOrder`). TLC
  finds it true of the lists of the run `exchanges` (`ConfigsSound`). The invariant
  has three layers. Streams: arrivals are counted as calls (`ArrivalsCounted`), so
  whoever is through a barrier has met its members there (`BarriersHold`); the lemma
  `Reading` concludes that while a rank reads, all peers are through the kernel of
  the same forward, nothing of it is in flight and the next is not begun. Puts:
  every operation is one of the set `Puts` (`WireKnown`); one in flight is in front
  of its barrier (`WireOpen`) and its source stands (`SourcesStand`); no two puts
  share a target (`TargetsDiffer`), which for sums is the injectivity of `SumRow`,
  and for reading them `RowsAgree`, that sender and reader, who count differently,
  find the same row; so what has landed stands until the same put is made again
  (`TargetsStand`). Signals: a token that is passed on within the node before any
  barrier relies on the counters. `RowsBeforeSignals` is the fence;
  `SignalsCounted` says what a counter is worth, 0 between the zeroing and the
  next forward; `SignalsHeard` that a rank past its dispatch has heard all, without
  which a signal could come behind the zeroing and be taken for one of the next
  forward. `ExchangesNeverStuck` needs nothing more. Suppose that no rank can move.
  Then nothing is in flight, as of the operations of a rank a put or the signal of
  the earliest step can be delivered (`NothingInFlight`), and every rank waits in a
  barrier or for signals in its dispatch (`WhereStuck`). Take a rank furthest
  behind (`SomebodyIsLast`). In a barrier its members have all arrived, or are
  beyond (`LastPasses`, from `ArrivalsCounted` and `BarriersHold`). In its dispatch
  a peer of its rail is no forward ahead, since the team's barrier behind the kernel
  keeps it, and has sent all it has to, since send warps wait for nobody; by
  `SignalsCounted` the counter is then the number the wait compares with
  (`LastIsSignalled`).

Only model-checked: liveness everywhere. Of the invariants of the runs,
`WindowsAndSignalsKept`, `GathersAreSound` and `TeamResultsExact` are conjunctions
of properties of instances, each of which a theorem states for every instance; so is
`NobodyStuck`. The comparisons with `ENABLED` in two of them are TLC's alone.
Out of the prover's reach are liveness under fairness and `ENABLED`, and what a
recursive definition computes for every input (induction over data, RECURSIVE
operators).

## 6. Plan

Done: the barriers and the group barrier with refinement and proofs; GIN
AllGather+GEMM and AllGatherOp with their safety proved; All2AllInference with
proofs; GEMM+ReduceScatter of one node (fused, NVLink, ring) and over GIN, with the
safety of all of them proved; the exchanges of a team, with their results proved;
and for the rings, the exchanges, All2AllInference and AllGatherOp that no forward
is stuck.

Left, in this order:

1. GEMM+ReduceScatter over several nodes without GIN (NVSHMEM puts, the second
   kernel of `run_per_node`), and internode AllGather.
2. `AsyncSendRecv`: signals against buffer reuse, once it is decided what NVSHMEM
   promises of puts on a stream.
3. `AgTileSwizzle`: the tile orders as functions, each a permutation of the tiles.
4. The all-to-all transpose and the MoE operators, as far as their protocols
   differ from the above.

## 7. Not modelled

The NVSHMEM and POSIX shared-memory parts of `flux_shm.cc`, error returns of CUDA
calls (they abort the process), tuning and the operator registry (a map filled at
start-up), single-device GEMMs, quantization and casts (arithmetic without shared
state), generators and bindings. By far most lines of the repository are of these
kinds: tile arithmetic, layouts, templates, argument checks and kernel
configurations, none of which keeps a state that two actors share. Of the parts
that do, the ones left out are listed in the plan. Of the modelled components the
following is left out: scales (they travel with the data), `input_buffer_copied`
and the copy back to `gathered_input`, the ring modes of AllGatherOp by kernel
(they follow the schedule of the copy engine), the ring kernel with a work queue
(the two sides of it do not fit, see findings), several comm buffers and growing
buffers of the exchanges, tokens with two experts on one rank.

NCCL, NVSHMEM, CUDA streams and events are external and modelled by how the code
uses them, which the header of each module says. Weak memory is modelled only as
far as a fence or its absence is at issue (the fused copy, the puts of the
all-to-all). Nothing is persisted and nothing restarts, so there is no recovery
to model; a lost message aborts the program.
