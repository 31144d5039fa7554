---------------------------- MODULE CudaIpcBarrier ----------------------------
(***************************************************************************)
(* The intra-node barrier of src/cuda/cudaipc_barrier_all.cu, atomic mode  *)
(* (CudaIpcBarrierAllKernel).  Every rank owns a CUDA-IPC buffer of one    *)
(* flag per rank.  A call launches one block; thread t < world_size of     *)
(* rank r raises flag r in t's buffer, spinning until it was 0, then       *)
(* takes flag t of its own buffer, spinning until it was 1.  The flags are *)
(* never reset by the host: the take of one call is the reset the next     *)
(* call relies on, and the ranks may be one call apart.                    *)
(*                                                                         *)
(* Each spinning atomicCAS_system is one action, enabled when the compare  *)
(* succeeds.  Kernels of one rank run on one stream, one after the other.  *)
(***************************************************************************)
EXTENDS Integers, FiniteSets

CONSTANTS
    Ranks,      \* the ranks of the node; also the thread indices of a block
    MaxCalls    \* bound on the calls each rank makes

\* kMaxWorldSize of include/flux/flux.h, the width of the launched block.
kMaxWorldSize == 32

ASSUME WorldSizeAssumption ==
    /\ IsFiniteSet(Ranks)
    /\ Cardinality(Ranks) < kMaxWorldSize

ASSUME MaxCallsAssumption == MaxCalls \in Nat

VARIABLES
    sync,       \* sync[q][p]: sync_buffers[q][p], raised by p, taken by q
    pc,         \* pc[r][t]: where thread t of rank r's kernel is
    entered,    \* entered[r]: kernels of rank r that have started
    left        \* left[r]: kernels of rank r that have completed

vars == <<sync, pc, entered, left>>

Running(r) == left[r] < entered[r]

Init == /\ sync    = [q \in Ranks |-> [p \in Ranks |-> 0]]
        /\ pc      = [r \in Ranks |-> [t \in Ranks |-> "done"]]
        /\ entered = [r \in Ranks |-> 0]
        /\ left    = [r \in Ranks |-> 0]

-----------------------------------------------------------------------------
\* The stream of rank r starts the kernel of its next barrier_all call.
Enter(r) == /\ ~Running(r)
            /\ entered[r] < MaxCalls
            /\ entered' = [entered EXCEPT ![r] = @ + 1]
            /\ pc' = [pc EXCEPT ![r] = [t \in Ranks |-> "set"]]
            /\ UNCHANGED <<sync, left>>

\* Bug forms of SetFlag: the flag is counted up, or stored without looking.
SetFlagAdd(r, t) ==
    /\ pc[r][t] = "set"
    /\ sync' = [sync EXCEPT ![t][r] = @ + 1]
    /\ pc' = [pc EXCEPT ![r][t] = "wait"]
    /\ UNCHANGED <<entered, left>>
SetFlagStore(r, t) ==
    /\ pc[r][t] = "set"
    /\ sync' = [sync EXCEPT ![t][r] = 1]
    /\ pc' = [pc EXCEPT ![r][t] = "wait"]
    /\ UNCHANGED <<entered, left>>

\* while (atomicCAS_system(sync_buffers[t] + r, 0, 1) != 0);
SetFlag(r, t) ==
    /\ pc[r][t] = "set"
    /\ sync[t][r] = 0
    /\ sync' = [sync EXCEPT ![t][r] = 1]
    /\ pc' = [pc EXCEPT ![r][t] = "wait"]
    /\ UNCHANGED <<entered, left>>

\* Bug form of TakeFlag: the wait leaves the flag up.
TakeFlagNoReset(r, t) ==
    /\ pc[r][t] = "wait"
    /\ sync[r][t] = 1
    /\ pc' = [pc EXCEPT ![r][t] = "done"]
    /\ UNCHANGED <<sync, entered, left>>

\* while (atomicCAS_system(sync_buffers[r] + t, 1, 0) != 1);
TakeFlag(r, t) ==
    /\ pc[r][t] = "wait"
    /\ sync[r][t] = 1
    /\ sync' = [sync EXCEPT ![r][t] = 0]
    /\ pc' = [pc EXCEPT ![r][t] = "done"]
    /\ UNCHANGED <<entered, left>>

\* Bug form of Leave: the kernel ends when its own flag is through.
LeaveEarly(r) == /\ Running(r)
                 /\ pc[r][r] = "done"
                 /\ left' = [left EXCEPT ![r] = @ + 1]
                 /\ UNCHANGED <<sync, pc, entered>>

\* The kernel completes when every thread of its block has returned.
Leave(r) == /\ Running(r)
            /\ \A t \in Ranks : pc[r][t] = "done"
            /\ left' = [left EXCEPT ![r] = @ + 1]
            /\ UNCHANGED <<sync, pc, entered>>

Thread(r, t) == SetFlag(r, t) \/ TakeFlag(r, t)

Next == \E r \in Ranks : \/ Enter(r)
                         \/ \E t \in Ranks : Thread(r, t)
                         \/ Leave(r)

Safe == Init /\ [][Next]_vars

\* A spinning thread of a resident block is scheduled again and again, and
\* the device retires a finished block.  Callers need not call (no WF on Enter).
Spec == /\ Safe
        /\ \A r \in Ranks : WF_vars(Leave(r))
        /\ \A r, t \in Ranks : WF_vars(Thread(r, t))

-----------------------------------------------------------------------------
\* Every flag is 0 or 1, and a rank has at most one call outstanding.
TypeOK == /\ sync \in [Ranks -> [Ranks -> {0, 1}]]
          /\ pc \in [Ranks -> [Ranks -> {"set", "wait", "done"}]]
          /\ entered \in [Ranks -> 0..MaxCalls]
          /\ left \in [Ranks -> 0..MaxCalls]
          /\ \A r \in Ranks : entered[r] \in {left[r], left[r] + 1}

\* How often p has raised its flag at q, and how often q has taken it.
Raised(p, q) == IF pc[p][q] = "set" THEN entered[p] - 1 ELSE entered[p]
Taken(q, p)  == IF pc[q][p] = "done" THEN entered[q] ELSE entered[q] - 1

\* No raise is lost and none is taken twice: a flag is up exactly when one
\* more raise than takes has happened, however the two kernels interleave and
\* across any number of back-to-back calls.
FlagCountsRaises ==
    \A p, q \in Ranks : Raised(p, q) = Taken(q, p) + sync[q][p]

\* Threads run only inside a call of their rank.
IdleThreads == \A r \in Ranks : ~Running(r) => \A t \in Ranks : pc[r][t] = "done"

\* The inductive invariant the proofs use.
IInv == TypeOK /\ FlagCountsRaises /\ IdleThreads

\* No rank returns from its k-th call before every rank has begun its own
\* k-th call: what every caller of barrier_all relies on before it overwrites
\* a buffer its peers read.
BarrierSafety == \A p, q \in Ranks : left[p] <= entered[q]

\* Every step of the kernel is a step of the abstract barrier or a stutter;
\* EveryCallReturns below is the abstract barrier's liveness.
Abstract == INSTANCE Barrier
ImplementsBarrier == Abstract!Safe

\* A call every rank makes returns on every rank: no flag left over from an
\* earlier call makes a later one hang.
EveryCallReturns ==
    \A k \in 1..MaxCalls : \A r \in Ranks :
        (\A q \in Ranks : entered[q] >= k) ~> (left[r] >= k)
=============================================================================
