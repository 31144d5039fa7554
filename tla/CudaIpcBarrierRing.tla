-------------------------- MODULE CudaIpcBarrierRing --------------------------
(***************************************************************************)
(* The intra-node barrier of src/cuda/cudaipc_barrier_all.cu, ring mode    *)
(* (CudaIpcBarrierAllRingModeKernel), used where peers have no native      *)
(* atomics or are too many for CUDA IPC: a rank touches only its own flag  *)
(* and that of its next peer, with plain release stores and acquire loads. *)
(* Rank 0 starts a wave of stores that runs up the ring; the flags are     *)
(* then cleared from the last rank back to rank 0 ("quit in a reversed     *)
(* order"), so that rank 0 returns last and the next call finds every flag *)
(* at 0.  Only thread 0 of the block works.                                *)
(*                                                                         *)
(* Memory is sequentially consistent here: every load that ends a wait is  *)
(* an acquire, the stores to the next peer are releases, and the plain     *)
(* clear of the own flag is read by the previous peer's acquire loop only. *)
(***************************************************************************)
EXTENDS Integers

CONSTANTS
    RingSize,   \* the world size: ranks 0..RingSize-1
    RingCalls   \* bound on the calls each rank makes

ASSUME RingSizeAssumption == RingSize \in Nat \ {0}
ASSUME RingCallsAssumption == RingCalls \in Nat

RingRanks == 0..(RingSize - 1)
LastRank == RingSize - 1

\* next_peer = (cur_rank + 1) % world_size
NextPeer(r) == IF r = LastRank THEN 0 ELSE r + 1

VARIABLES
    flag,           \* flag[r]: the first word of sync_buffers[r]
    ringPc,         \* ringPc[r]: where thread 0 of rank r's kernel is
    ringEntered,    \* ringEntered[r]: kernels of rank r that have started
    ringLeft        \* ringLeft[r]: kernels of rank r that have completed

ringVars == <<flag, ringPc, ringEntered, ringLeft>>

RingRunning(r) == ringLeft[r] < ringEntered[r]

RingInit == /\ flag        = [r \in RingRanks |-> 0]
            /\ ringPc      = [r \in RingRanks |-> "done"]
            /\ ringEntered = [r \in RingRanks |-> 0]
            /\ ringLeft    = [r \in RingRanks |-> 0]

-----------------------------------------------------------------------------
\* The stream of rank r starts the kernel of its next barrier_all call.
RingEnter(r) == /\ ~RingRunning(r)
                /\ ringEntered[r] < RingCalls
                /\ ringEntered' = [ringEntered EXCEPT ![r] = @ + 1]
                /\ ringPc' = [ringPc EXCEPT ![r] = "arrive"]
                /\ UNCHANGED <<flag, ringLeft>>

\* Bug form of Arrive: no rank waits for its predecessor.
ArriveNoWait(r) ==
    /\ ringPc[r] = "arrive"
    /\ flag' = [flag EXCEPT ![NextPeer(r)] = 1]
    /\ ringPc' = [ringPc EXCEPT ![r] = IF r = LastRank THEN "reset" ELSE "quit"]
    /\ UNCHANGED <<ringEntered, ringLeft>>

\* Rank 0 stores to its next peer at once, any other when its own flag is up;
\* the last rank skips the wait of the way back.
Arrive(r) ==
    /\ ringPc[r] = "arrive"
    /\ r = 0 \/ flag[r] = 1
    /\ flag' = [flag EXCEPT ![NextPeer(r)] = 1]
    /\ ringPc' = [ringPc EXCEPT ![r] = IF r = LastRank THEN "reset" ELSE "quit"]
    /\ UNCHANGED <<ringEntered, ringLeft>>

\* Bug form of Quit: the kernel does not wait for the peer's clear.
QuitNoWait(r) ==
    /\ ringPc[r] = "quit"
    /\ ringPc' = [ringPc EXCEPT ![r] = "reset"]
    /\ UNCHANGED <<flag, ringEntered, ringLeft>>

\* while (ld_acquire_sys(ptr_next_peer) != 0);
Quit(r) ==
    /\ ringPc[r] = "quit"
    /\ flag[NextPeer(r)] = 0
    /\ ringPc' = [ringPc EXCEPT ![r] = "reset"]
    /\ UNCHANGED <<flag, ringEntered, ringLeft>>

\* Bug form of Reset: the flag is left up.
ResetNone(r) ==
    /\ ringPc[r] = "reset"
    /\ ringPc' = [ringPc EXCEPT ![r] = "done"]
    /\ UNCHANGED <<flag, ringEntered, ringLeft>>

\* ptr_cur_rank[0] = 0;
Reset(r) ==
    /\ ringPc[r] = "reset"
    /\ flag' = [flag EXCEPT ![r] = 0]
    /\ ringPc' = [ringPc EXCEPT ![r] = "done"]
    /\ UNCHANGED <<ringEntered, ringLeft>>

\* The kernel completes when thread 0 has returned.
RingLeave(r) == /\ RingRunning(r)
                /\ ringPc[r] = "done"
                /\ ringLeft' = [ringLeft EXCEPT ![r] = @ + 1]
                /\ UNCHANGED <<flag, ringPc, ringEntered>>

Kernel(r) == Arrive(r) \/ Quit(r) \/ Reset(r) \/ RingLeave(r)

RingNext == \E r \in RingRanks : RingEnter(r) \/ Kernel(r)

RingSafe == RingInit /\ [][RingNext]_ringVars

\* The device keeps scheduling a running kernel.
RingSpec == RingSafe /\ \A r \in RingRanks : WF_ringVars(Kernel(r))

-----------------------------------------------------------------------------
\* Every flag is 0 or 1, and a rank has at most one call outstanding.
RingTypeOK == /\ flag \in [RingRanks -> {0, 1}]
              /\ ringPc \in [RingRanks -> {"arrive", "quit", "reset", "done"}]
              /\ ringEntered \in [RingRanks -> 0..RingCalls]
              /\ ringLeft \in [RingRanks -> 0..RingCalls]
              /\ \A r \in RingRanks : ringEntered[r] \in {ringLeft[r], ringLeft[r] + 1}

\* How often r has stored 1 to its next peer, and how often it has cleared
\* its own flag.
RingRaised(r) == IF ringPc[r] = "arrive" THEN ringEntered[r] - 1 ELSE ringEntered[r]
Cleared(r)    == IF ringPc[r] = "done" THEN ringEntered[r] ELSE ringEntered[r] - 1

\* A store of 1 never falls on a flag that is still 1, and a clear never on
\* one that is 0: no call's signal is swallowed by another call's, although
\* the stores are not atomic compare-and-swaps.
RingFlagCountsRaises ==
    \A r \in RingRanks : RingRaised(r) = Cleared(NextPeer(r)) + flag[NextPeer(r)]

\* The wave goes up the ring, and the clears come back down.
WaveUp   == \A q, r \in RingRanks : q <= r => RingRaised(r) <= RingRaised(q)
WaveDown == \A q, r \in RingRanks : q <= r => Cleared(q) <= Cleared(r)

\* What the control state says of the kernel's progress.
ControlState ==
    \A r \in RingRanks :
        /\ ~RingRunning(r) => ringPc[r] = "done"
        /\ ringPc[r] = "quit" => r # LastRank
        /\ ringPc[r] = "reset" /\ r # LastRank => flag[r + 1] = 0 /\ RingRaised(r) = Cleared(r + 1)

\* The inductive invariant the proofs use.
RingIInv == RingTypeOK /\ RingFlagCountsRaises /\ WaveUp /\ WaveDown /\ ControlState

\* No rank returns from its k-th call before every rank has begun its own.
RingBarrierSafety == \A p, q \in RingRanks : ringLeft[p] <= ringEntered[q]

\* Every step of the kernel is a step of the abstract barrier or a stutter.
RingAbstract == INSTANCE Barrier WITH
    Ranks <- RingRanks, MaxCalls <- RingCalls, entered <- ringEntered, left <- ringLeft
RingImplementsBarrier == RingAbstract!Safe

\* Back-to-back calls that every rank makes return on every rank.
RingEveryCallReturns ==
    \A k \in 1..RingCalls : \A r \in RingRanks :
        (\A q \in RingRanks : ringEntered[q] >= k) ~> (ringLeft[r] >= k)
=============================================================================
