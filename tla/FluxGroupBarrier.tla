--------------------------- MODULE FluxGroupBarrier ---------------------------
(***************************************************************************)
(* The life of a FluxGroupBarrier (src/ths_op/flux_shm.cc) around the      *)
(* barrier kernel of CudaIpcBarrier: the constructor allocates the rank's  *)
(* flag buffer without clearing it (init_zero is false), exchanges the IPC *)
(* handles through all_gather_cpu, and only then zeroes the own buffer.    *)
(* Nothing in the constructor makes a rank wait for the zeroing of its     *)
(* peers.  CallerSyncs says whether the caller puts a collective of the    *)
(* process group between the constructor and the first barrier_all, as     *)
(* test/python/util/test_flux_ring_barrier.py does.  The properties are    *)
(* those of CudaIpcBarrier, from the constructor on: BarrierSafety,        *)
(* ImplementsBarrier, EveryCallReturns and FlagsCountAfterSetup.           *)
(***************************************************************************)
EXTENDS CudaIpcBarrier

CONSTANT CallerSyncs

ASSUME CallerSyncsAssumption == CallerSyncs \in BOOLEAN

VARIABLE
    setup       \* setup[r]: how far rank r is in constructing its barrier

gvars == <<setup, vars>>

Phases == {"malloc", "gather", "zero", "ready"}

\* The words of a cudaMalloc'd buffer: any value, told apart by "is it 0".
Garbage == [Ranks -> {0, 1}]

GInit == /\ setup = [r \in Ranks |-> "malloc"]
         /\ Init

-----------------------------------------------------------------------------
\* cudaMalloc, no memset: init_zero is false.
Malloc(r) == /\ setup[r] = "malloc"
             /\ \E g \in Garbage : sync' = [sync EXCEPT ![r] = g]
             /\ setup' = [setup EXCEPT ![r] = "gather"]
             /\ UNCHANGED <<pc, entered, left>>

\* all_gather_cpu of the handles returns once every rank has contributed its
\* own; then the peers' buffers are opened.
GatherHandles(r) == /\ setup[r] = "gather"
                    /\ \A q \in Ranks : setup[q] # "malloc"
                    /\ setup' = [setup EXCEPT ![r] = "zero"]
                    /\ UNCHANGED vars

\* Bug form of Zero: the buffer keeps what cudaMalloc left in it.
ZeroNothing(r) == /\ setup[r] = "zero"
                  /\ setup' = [setup EXCEPT ![r] = "ready"]
                  /\ UNCHANGED vars

\* sync_buffers_[rank].zero_() on the current stream: it precedes the kernels
\* of this rank, and nothing else.
Zero(r) == /\ setup[r] = "zero"
           /\ sync' = [sync EXCEPT ![r] = [p \in Ranks |-> 0]]
           /\ setup' = [setup EXCEPT ![r] = "ready"]
           /\ UNCHANGED <<pc, entered, left>>

\* Every constructor has returned.
AllReady == \A r \in Ranks : setup[r] = "ready"

\* Rank r has constructed its barrier and, if the caller synchronises, so has
\* every other rank.
MayCall(r) == /\ setup[r] = "ready"
              /\ CallerSyncs => AllReady

\* GroupBarrier::barrier_all launches the kernel of CudaIpcBarrier.
BarrierAll(r) == MayCall(r) /\ Enter(r) /\ UNCHANGED setup

Construct(r) == Malloc(r) \/ GatherHandles(r) \/ Zero(r)

KernelStep(r) == /\ UNCHANGED setup
                 /\ Leave(r) \/ \E t \in Ranks : Thread(r, t)

GNext == \E r \in Ranks : Construct(r) \/ BarrierAll(r) \/ KernelStep(r)

GSafe == GInit /\ [][GNext]_gvars

\* Constructors run to their end, and the device schedules running kernels.
GSpec == /\ GSafe
         /\ \A r \in Ranks : WF_gvars(Construct(r))
         /\ \A r \in Ranks : WF_gvars(Leave(r) /\ UNCHANGED setup)
         /\ \A r, t \in Ranks : WF_gvars(Thread(r, t) /\ UNCHANGED setup)

-----------------------------------------------------------------------------
\* The constructor's phase and the barrier's own types.
GTypeOK == setup \in [Ranks -> Phases] /\ TypeOK

\* The accounting FlagCountsRaises of the kernel starts to hold once every
\* rank has constructed its barrier, whatever cudaMalloc returned: no garbage
\* word passes for a raised flag, and no late zeroing erases one.
FlagsCountAfterSetup == AllReady => FlagCountsRaises

\* While a rank is still in its constructor, no kernel has run, and the ranks
\* that are through have a buffer of zeros.
QuietSetup ==
    ~AllReady => /\ entered = [r \in Ranks |-> 0] /\ left = [r \in Ranks |-> 0]
                 /\ pc = [r \in Ranks |-> [t \in Ranks |-> "done"]]
                 /\ \A r, p \in Ranks : setup[r] = "ready" => sync[r][p] = 0

\* The inductive invariant the proofs use, for a caller that synchronises.
GIInv == GTypeOK /\ QuietSetup /\ (AllReady => IInv)
=============================================================================
