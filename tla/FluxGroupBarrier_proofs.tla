------------------------ MODULE FluxGroupBarrier_proofs ------------------------
(***************************************************************************)
(* Proofs about CudaIpcBarrier, FluxGroupBarrier and CudaIpcBarrierRing    *)
(* for every set of ranks and every number of calls.                       *)
(*                                                                         *)
(* Part one, CudaIpcBarrier: for each ordered pair (p, q) the flag         *)
(* sync[q][p] is the difference between the raises of p and the takes of q *)
(* (FlagCountsRaises); a flag is 0 or 1, so p cannot have had more raises  *)
(* taken than it has begun calls.                                          *)
(*                                                                         *)
(* Part two, FluxGroupBarrier with a caller that synchronises between the  *)
(* constructor and the first barrier_all, for every content cudaMalloc     *)
(* leaves in the buffers.  Until the last constructor returns, no kernel   *)
(* runs and the buffers zeroed stay zero (QuietSetup); the last Zero       *)
(* establishes the invariant of CudaIpcBarrier, and from then on every     *)
(* step is one of CudaIpcBarrier, whose lemmas do the rest.                *)
(*                                                                         *)
(* Part three, CudaIpcBarrierRing: besides the flag count the invariant    *)
(* needs the order of the two waves: counts of raises fall along the ring  *)
(* (WaveUp), counts of clears rise (WaveDown).  Barrier safety is then     *)
(*   ringLeft[p] <= Cleared(p) <= Cleared(LastRank)                        *)
(*     <= RingRaised(LastRank) <= RingRaised(q) <= ringEntered[q].         *)
(***************************************************************************)
EXTENDS FluxGroupBarrier, CudaIpcBarrierRing, TLAPS

-----------------------------------------------------------------------------
(* Part one: CudaIpcBarrier. *)

\* The initial state satisfies the inductive invariant.
LEMMA InitIInv == Init => IInv
  BY MaxCallsAssumption
  DEF Init, IInv, TypeOK, FlagCountsRaises, IdleThreads, Raised, Taken, Running

\* Every step of every rank and thread preserves the inductive invariant.
LEMMA NextIInv == IInv /\ [Next]_vars => IInv'
<1> SUFFICES ASSUME IInv, [Next]_vars PROVE IInv'
  OBVIOUS
<1> USE MaxCallsAssumption DEF IInv, TypeOK
<1>1. ASSUME NEW r \in Ranks, Enter(r) PROVE IInv'
  <2>1. TypeOK'
    BY <1>1 DEF Enter, Running
  <2>2. FlagCountsRaises'
    BY <1>1 DEF Enter, Running, FlagCountsRaises, IdleThreads, Raised, Taken
  <2>3. IdleThreads'
    BY <1>1 DEF Enter, Running, IdleThreads
  <2> QED BY <2>1, <2>2, <2>3
<1>2. ASSUME NEW r \in Ranks, NEW t \in Ranks, SetFlag(r, t) PROVE IInv'
  <2>1. TypeOK'
    BY <1>2 DEF SetFlag
  <2>2. FlagCountsRaises'
    BY <1>2 DEF SetFlag, FlagCountsRaises, Raised, Taken
  <2>3. IdleThreads'
    BY <1>2 DEF SetFlag, Running, IdleThreads
  <2> QED BY <2>1, <2>2, <2>3
<1>3. ASSUME NEW r \in Ranks, NEW t \in Ranks, TakeFlag(r, t) PROVE IInv'
  <2>1. TypeOK'
    BY <1>3 DEF TakeFlag
  <2>2. FlagCountsRaises'
    BY <1>3 DEF TakeFlag, FlagCountsRaises, Raised, Taken
  <2>3. IdleThreads'
    BY <1>3 DEF TakeFlag, Running, IdleThreads
  <2> QED BY <2>1, <2>2, <2>3
<1>4. ASSUME NEW r \in Ranks, Leave(r) PROVE IInv'
  <2>1. TypeOK'
    BY <1>4 DEF Leave, Running
  <2>2. FlagCountsRaises'
    BY <1>4 DEF Leave, FlagCountsRaises, Raised, Taken
  <2>3. IdleThreads'
    BY <1>4 DEF Leave, Running, IdleThreads
  <2> QED BY <2>1, <2>2, <2>3
<1>5. CASE UNCHANGED vars
  BY <1>5 DEF vars, FlagCountsRaises, IdleThreads, Raised, Taken, Running
<1> QED BY <1>1, <1>2, <1>3, <1>4, <1>5 DEF Next, Thread

\* A rank whose call has returned had each of its raises taken, and its peers
\* raise only inside a call: the invariant implies barrier safety.
LEMMA IInvSafe == IInv => BarrierSafety
<1> SUFFICES ASSUME IInv, NEW p \in Ranks, NEW q \in Ranks
             PROVE  left[p] <= entered[q]
  BY DEF BarrierSafety
<1> USE MaxCallsAssumption DEF IInv, TypeOK
<1>1. Taken(p, q) >= left[p]
  BY DEF Taken, IdleThreads, Running
<1>2. Raised(q, p) = Taken(p, q) + sync[p][q]
  BY DEF FlagCountsRaises
<1>3. Raised(q, p) <= entered[q]
  BY DEF Raised
<1>4. /\ sync[p][q] \in Nat
      /\ Taken(p, q) \in Int
      /\ Raised(q, p) \in Int
      /\ left[p] \in Nat
      /\ entered[q] \in Nat
  BY DEF Taken, Raised
<1> QED BY <1>1, <1>2, <1>3, <1>4

\* The types of the variables hold in every reachable state of the kernel.
THEOREM TypeCorrect == Safe => []TypeOK
<1>1. IInv => TypeOK
  BY DEF IInv
<1> QED BY InitIInv, NextIInv, <1>1, PTL DEF Safe

\* No raise of a flag is lost or taken twice (src/cuda/cudaipc_barrier_all.cu,
\* the two CAS loops), for every group and every number of calls.
THEOREM FlagsCount == Safe => []FlagCountsRaises
<1>1. IInv => FlagCountsRaises
  BY DEF IInv
<1> QED BY InitIInv, NextIInv, <1>1, PTL DEF Safe

\* No rank returns from a call of barrier_all before every rank has begun it.
THEOREM BarrierIsSafe == Safe => []BarrierSafety
  BY InitIInv, NextIInv, IInvSafe, PTL DEF Safe

\* Its Leave happens only when the abstract one may, and every other step is an
\* abstract Enter or a stutter.
LEMMA StepRefines == IInv /\ [Next]_vars => [Abstract!Next]_(Abstract!vars)
<1> SUFFICES ASSUME IInv, [Next]_vars
             PROVE  [Abstract!Next]_(Abstract!vars)
  OBVIOUS
<1> USE DEF Abstract!vars, Abstract!Next
<1>1. ASSUME NEW r \in Ranks, Enter(r) PROVE Abstract!Next
  <2>1. entered[r] = left[r]
    BY <1>1, MaxCallsAssumption DEF Enter, Running, IInv, TypeOK
  <2> QED BY <1>1, <2>1 DEF Enter, Abstract!Enter
<1>2. ASSUME NEW r \in Ranks, NEW t \in Ranks, Thread(r, t)
      PROVE  UNCHANGED Abstract!vars
  BY <1>2 DEF Thread, SetFlag, TakeFlag
<1>3. ASSUME NEW r \in Ranks, Leave(r) PROVE Abstract!Next
  <2>1. ASSUME NEW q \in Ranks PROVE left[r] < entered[q]
    <3>1. Taken(r, q) = entered[r] /\ left[r] < entered[r]
      BY <1>3 DEF Leave, Taken, Running
    <3>2. Raised(q, r) = Taken(r, q) + sync[r][q] /\ Raised(q, r) <= entered[q]
      BY MaxCallsAssumption DEF IInv, TypeOK, FlagCountsRaises, Raised
    <3>3. /\ sync[r][q] \in Nat
          /\ entered[r] \in Nat /\ left[r] \in Nat /\ entered[q] \in Nat
      BY MaxCallsAssumption DEF IInv, TypeOK
    <3> QED BY <3>1, <3>2, <3>3
  <2>2. left[r] < entered[r]
    BY <1>3 DEF Leave, Running
  <2> QED BY <1>3, <2>1, <2>2 DEF Leave, Abstract!Leave
<1>4. CASE UNCHANGED vars
  BY <1>4 DEF vars
<1> QED BY <1>1, <1>2, <1>3, <1>4 DEF Next

\* The kernel refines the abstract barrier.
THEOREM Refinement == Safe => ImplementsBarrier
<1>1. Init => Abstract!Init
  BY DEF Init, Abstract!Init
<1> QED BY InitIInv, NextIInv, StepRefines, <1>1, PTL
        DEF Safe, ImplementsBarrier, Abstract!Safe

-----------------------------------------------------------------------------
(* Part two: FluxGroupBarrier. *)

\* No constructor has returned; without ranks there is nothing to construct.
LEMMA InitGIInv == GInit => GIInv
<1> SUFFICES ASSUME GInit PROVE GIInv OBVIOUS
<1>1. IInv BY InitIInv DEF GInit
<1>2. GTypeOK BY <1>1 DEF GInit, GTypeOK, Phases, IInv
<1>3. QuietSetup BY DEF GInit, Init, QuietSetup
<1> QED BY <1>1, <1>2, <1>3 DEF GIInv

\* A constructor's step disturbs neither the ranks that are through nor the
\* kernels, which do not run yet; the last one establishes IInv.
LEMMA ConstructGIInv ==
    ASSUME GIInv, NEW r \in Ranks, Construct(r) PROVE GIInv'
<1>1. ~AllReady /\ setup[r] # "ready"
  BY DEF Construct, Malloc, GatherHandles, Zero, AllReady
<1>2. /\ entered = [q \in Ranks |-> 0] /\ left = [q \in Ranks |-> 0]
      /\ pc = [q \in Ranks |-> [t \in Ranks |-> "done"]]
      /\ \A q, p \in Ranks : setup[q] = "ready" => sync[q][p] = 0
  BY <1>1 DEF GIInv, QuietSetup
<1>3. UNCHANGED <<pc, entered, left>>
  BY DEF Construct, Malloc, GatherHandles, Zero, vars
<1>4. sync' \in [Ranks -> [Ranks -> {0, 1}]]
  BY DEF GIInv, GTypeOK, TypeOK, Construct, Malloc, GatherHandles, Zero, Garbage, vars
<1>5. setup' \in [Ranks -> Phases]
  BY DEF GIInv, GTypeOK, Construct, Malloc, GatherHandles, Zero, Phases
<1>6. GTypeOK'
  BY <1>3, <1>4, <1>5 DEF GIInv, GTypeOK, TypeOK
<1>7. \A q, p \in Ranks : setup'[q] = "ready" => sync'[q][p] = 0
  <2> SUFFICES ASSUME NEW q \in Ranks, NEW p \in Ranks, setup'[q] = "ready"
               PROVE  sync'[q][p] = 0
    OBVIOUS
  <2> USE <1>2 DEF GIInv, GTypeOK, TypeOK
  <2>1. CASE Malloc(r) BY <2>1, <1>1 DEF Malloc
  <2>2. CASE GatherHandles(r) BY <2>2 DEF GatherHandles, vars
  <2>3. CASE Zero(r) BY <2>3 DEF Zero
  <2> QED BY <2>1, <2>2, <2>3 DEF Construct
<1>8. QuietSetup'
  BY <1>2, <1>3, <1>7 DEF QuietSetup
<1>9. ASSUME AllReady' PROVE IInv'
  <2>1. \A q, p \in Ranks : sync'[q][p] = 0 BY <1>7, <1>9 DEF AllReady
  <2>2. sync' = [q \in Ranks |-> [p \in Ranks |-> 0]] BY <1>4, <2>1
  <2>3. Init' BY <1>2, <1>3, <2>2 DEF Init
  <2>4. Init' => IInv' BY InitIInv, PTL
  <2> QED BY <2>3, <2>4
<1> QED BY <1>6, <1>8, <1>9 DEF GIInv

\* Behind the constructors, the steps are those of the kernel.
LEMMA CallsAreKernelSteps ==
    ASSUME GIInv, CallerSyncs, NEW r \in Ranks, BarrierAll(r) \/ KernelStep(r)
    PROVE  AllReady /\ Next /\ UNCHANGED setup
<1>1. CASE BarrierAll(r)
  BY <1>1 DEF BarrierAll, MayCall, Next
<1>2. CASE KernelStep(r)
  <2>1. Running(r) \/ \E t \in Ranks : pc[r][t] # "done"
    BY <1>2 DEF KernelStep, Leave, Thread, SetFlag, TakeFlag
  <2>2. AllReady BY <2>1 DEF GIInv, QuietSetup, Running
  <2> QED BY <1>2, <2>2 DEF KernelStep, Next
<1> QED BY <1>1, <1>2

\* Every step of every rank preserves the invariant.
LEMMA NextGIInv == GIInv /\ CallerSyncs /\ [GNext]_gvars => GIInv'
<1> SUFFICES ASSUME GIInv, CallerSyncs, [GNext]_gvars PROVE GIInv' OBVIOUS
<1>1. ASSUME NEW r \in Ranks, Construct(r) PROVE GIInv'
  BY <1>1, ConstructGIInv
<1>2. ASSUME NEW r \in Ranks, BarrierAll(r) \/ KernelStep(r) PROVE GIInv'
  <2>1. AllReady /\ Next /\ UNCHANGED setup BY <1>2, CallsAreKernelSteps
  <2>2. AllReady' BY <2>1 DEF AllReady
  <2>3. IInv' BY <2>1, NextIInv DEF GIInv
  <2>4. GTypeOK' BY <2>1, <2>3 DEF GIInv, GTypeOK, IInv
  <2> QED BY <2>2, <2>3, <2>4 DEF GIInv, QuietSetup
<1>3. CASE UNCHANGED gvars
  <2>1. UNCHANGED <<setup, vars>> BY <1>3 DEF gvars
  <2>2. AllReady' = AllReady BY <2>1 DEF AllReady
  <2>3. IInv => IInv' BY <2>1, NextIInv
  <2>4. GTypeOK' BY <2>1 DEF GIInv, GTypeOK, TypeOK, vars
  <2>5. QuietSetup' BY <2>1, <2>2 DEF GIInv, QuietSetup, vars
  <2> QED BY <2>2, <2>3, <2>4, <2>5 DEF GIInv
<1> QED BY <1>1, <1>2, <1>3 DEF GNext

\* The constructor's phases and the flags keep their types.
THEOREM GroupTypeCorrect == CallerSyncs => (GSafe => []GTypeOK)
<1> SUFFICES ASSUME CallerSyncs PROVE GSafe => []GTypeOK OBVIOUS
<1>0. GIInv /\ [GNext]_gvars => GIInv' BY NextGIInv
<1>1. GIInv => GTypeOK BY DEF GIInv
<1> QED BY InitGIInv, <1>0, <1>1, PTL DEF GSafe

\* Whatever cudaMalloc returned (src/ths_op/flux_shm.cc), the flags count the
\* raises exactly from the moment the last constructor returns.
THEOREM GroupFlagsCount == CallerSyncs => (GSafe => []FlagsCountAfterSetup)
<1> SUFFICES ASSUME CallerSyncs PROVE GSafe => []FlagsCountAfterSetup OBVIOUS
<1>0. GIInv /\ [GNext]_gvars => GIInv' BY NextGIInv
<1>1. GIInv => FlagsCountAfterSetup BY DEF GIInv, IInv, FlagsCountAfterSetup
<1> QED BY InitGIInv, <1>0, <1>1, PTL DEF GSafe

\* No rank returns from barrier_all before every rank has called it, with the
\* constructor in the picture and a collective behind it.
THEOREM GroupBarrierIsSafe == CallerSyncs => (GSafe => []BarrierSafety)
<1> SUFFICES ASSUME CallerSyncs PROVE GSafe => []BarrierSafety OBVIOUS
<1>0. GIInv /\ [GNext]_gvars => GIInv' BY NextGIInv
<1>1. GIInv => BarrierSafety
  <2>1. CASE IInv BY <2>1, IInvSafe
  <2>2. ASSUME GIInv, ~AllReady PROVE BarrierSafety
    BY <2>2 DEF GIInv, QuietSetup, BarrierSafety
  <2> QED BY <2>1, <2>2 DEF GIInv
<1> QED BY InitGIInv, <1>0, <1>1, PTL DEF GSafe

\* The group barrier refines the abstract barrier from its construction on.
THEOREM GroupRefinement == CallerSyncs => (GSafe => ImplementsBarrier)
<1> SUFFICES ASSUME CallerSyncs PROVE GSafe => ImplementsBarrier OBVIOUS
<1>0. GIInv /\ [GNext]_gvars => GIInv' BY NextGIInv
<1>1. GInit => Abstract!Init
  BY DEF GInit, Init, Abstract!Init
<1>2. GIInv /\ [GNext]_gvars => [Abstract!Next]_(Abstract!vars)
  <2> SUFFICES ASSUME GIInv, [GNext]_gvars
               PROVE  [Abstract!Next]_(Abstract!vars)
    OBVIOUS
  <2>1. ASSUME NEW r \in Ranks, Construct(r) PROVE UNCHANGED Abstract!vars
    BY <2>1 DEF Construct, Malloc, GatherHandles, Zero, vars, Abstract!vars
  <2>2. ASSUME NEW r \in Ranks, BarrierAll(r) \/ KernelStep(r)
        PROVE  [Abstract!Next]_(Abstract!vars)
    <3>1. AllReady /\ Next BY <2>2, CallsAreKernelSteps
    <3> QED BY <3>1, StepRefines DEF GIInv
  <2>3. CASE UNCHANGED gvars
    BY <2>3 DEF gvars, vars, Abstract!vars
  <2> QED BY <2>1, <2>2, <2>3 DEF GNext
<1> QED BY InitGIInv, <1>0, <1>1, <1>2, PTL
        DEF GSafe, ImplementsBarrier, Abstract!Safe

-----------------------------------------------------------------------------
(* Part three: CudaIpcBarrierRing. *)

\* NextPeer stays in the ring and is injective.
LEMMA NextPeerFacts ==
    /\ 0 \in RingRanks /\ LastRank \in RingRanks
    /\ \A r \in RingRanks : NextPeer(r) \in RingRanks
    /\ \A q, r \in RingRanks : NextPeer(q) = NextPeer(r) => q = r
    /\ \A r \in RingRanks : r # LastRank => r + 1 \in RingRanks /\ NextPeer(r) = r + 1
    /\ NextPeer(LastRank) = 0
  BY RingSizeAssumption DEF RingRanks, LastRank, NextPeer

\* Types of the counters, and how they relate to the control state.
LEMMA CountFacts ==
    ASSUME RingTypeOK, ControlState, NEW r \in RingRanks
    PROVE  /\ RingRaised(r) \in Int /\ Cleared(r) \in Int
           /\ ringLeft[r] <= Cleared(r)
           /\ RingRaised(r) <= ringEntered[r]
           /\ Cleared(r) <= RingRaised(r)
           /\ ringPc[r] \in {"arrive", "done"} => RingRaised(r) = Cleared(r)
           /\ ringPc[r] \in {"quit", "reset"} => RingRaised(r) = Cleared(r) + 1
  BY RingCallsAssumption DEF RingTypeOK, ControlState, RingRaised, Cleared, RingRunning

\* When rank r is about to store, the flag of its next peer is 0.
LEMMA ArriveFindsZero ==
    ASSUME RingIInv, NEW r \in RingRanks, Arrive(r)
    PROVE  flag[NextPeer(r)] = 0
<1> USE DEF RingIInv
<1>1. ringPc[r] = "arrive" /\ RingRaised(r) = Cleared(r)
  BY CountFacts DEF Arrive
<1>2. RingRaised(r) = Cleared(NextPeer(r)) + flag[NextPeer(r)]
  BY DEF RingFlagCountsRaises
<1>3. flag[NextPeer(r)] \in {0, 1} /\ NextPeer(r) \in RingRanks
  BY NextPeerFacts DEF RingTypeOK
<1>4. Cleared(NextPeer(r)) \in Int /\ RingRaised(r) \in Int /\ Cleared(r) \in Int
  BY <1>3, CountFacts
<1>5. CASE r # LastRank
  <2>1. NextPeer(r) = r + 1 /\ r <= r + 1
    BY <1>5, NextPeerFacts DEF RingRanks
  <2>2. Cleared(r) <= Cleared(NextPeer(r))
    BY <2>1, <1>3 DEF WaveDown
  <2> QED BY <1>1, <1>2, <1>3, <1>4, <2>2
<1>6. CASE r = LastRank
  <2>1. NextPeer(r) = 0 /\ 0 \in RingRanks /\ 0 <= r
    BY <1>6, NextPeerFacts DEF RingRanks
  <2>2. CASE r = 0
    BY <2>1, <2>2, <1>1, <1>2, <1>3, <1>4
  <2>3. CASE r # 0
    <3>1. flag[r] = 1
      BY <2>3, <1>1 DEF Arrive
    <3>2. PICK q \in RingRanks : NextPeer(q) = r
      <4>1. r - 1 \in RingRanks /\ NextPeer(r - 1) = r
        BY <2>3, RingSizeAssumption DEF RingRanks, NextPeer, LastRank
      <4> QED BY <4>1
    <3>3. RingRaised(q) = Cleared(r) + 1
      BY <3>1, <3>2 DEF RingFlagCountsRaises
    <3>4. RingRaised(q) <= RingRaised(0)
      BY <2>1 DEF WaveUp, RingRanks
    <3>5. RingRaised(0) <= Cleared(0) + 1
      BY <2>1, CountFacts DEF RingTypeOK
    <3>6. RingRaised(q) \in Int /\ RingRaised(0) \in Int /\ Cleared(0) \in Int
      BY <2>1, CountFacts
    <3>7. RingRaised(r) <= Cleared(0)
      BY <1>1, <1>4, <3>3, <3>4, <3>5, <3>6
    <3> QED BY <2>1, <1>2, <1>3, <1>4, <3>6, <3>7
  <2> QED BY <2>2, <2>3
<1> QED BY <1>5, <1>6

\* The initial state satisfies the inductive invariant.
LEMMA RingInitIInv == RingInit => RingIInv
<1> SUFFICES ASSUME RingInit PROVE RingIInv
  OBVIOUS
<1>1. RingTypeOK
  BY RingCallsAssumption DEF RingInit, RingTypeOK
<1>2. \A r \in RingRanks : RingRaised(r) = 0 /\ Cleared(r) = 0
  BY DEF RingInit, RingRaised, Cleared
<1>3. RingFlagCountsRaises
  BY <1>2, NextPeerFacts DEF RingInit, RingFlagCountsRaises
<1>4. WaveUp /\ WaveDown
  BY <1>2 DEF WaveUp, WaveDown
<1>5. ControlState
  BY DEF RingInit, ControlState, RingRunning
<1> QED BY <1>1, <1>3, <1>4, <1>5 DEF RingIInv

\* A step that moves no counter, no flag and keeps the control facts.
LEMMA CountersUnchanged ==
    ASSUME RingIInv, flag' = flag,
           \A r \in RingRanks : RingRaised(r)' = RingRaised(r) /\ Cleared(r)' = Cleared(r)
    PROVE  RingFlagCountsRaises' /\ WaveUp' /\ WaveDown'
  BY NextPeerFacts DEF RingIInv, RingFlagCountsRaises, WaveUp, WaveDown

\* Beginning a call moves no counter.
LEMMA EnterIInv == ASSUME RingIInv, NEW r \in RingRanks, RingEnter(r) PROVE RingIInv'
<1> USE DEF RingIInv
<1>1. RingTypeOK'
  BY RingCallsAssumption DEF RingTypeOK, RingEnter, RingRunning
<1>2. \A q \in RingRanks : RingRaised(q)' = RingRaised(q) /\ Cleared(q)' = Cleared(q)
  BY RingCallsAssumption DEF RingTypeOK, ControlState, RingEnter, RingRunning, RingRaised, Cleared
<1>3. flag' = flag
  BY DEF RingEnter
<1>4. ControlState'
  BY <1>2, <1>3, NextPeerFacts, RingCallsAssumption
  DEF RingTypeOK, ControlState, RingEnter, RingRunning
<1> QED BY <1>1, <1>2, <1>3, <1>4, CountersUnchanged

\* The store to the next peer raises the counter of r only.
LEMMA ArriveIInv == ASSUME RingIInv, NEW r \in RingRanks, Arrive(r) PROVE RingIInv'
<1> USE DEF RingIInv
<1>1. RingTypeOK'
  BY NextPeerFacts DEF RingTypeOK, Arrive
<1>2. /\ RingRaised(r)' = RingRaised(r) + 1
      /\ \A q \in RingRanks : q # r => RingRaised(q)' = RingRaised(q)
      /\ \A q \in RingRanks : Cleared(q)' = Cleared(q)
  BY RingCallsAssumption DEF RingTypeOK, Arrive, RingRaised, Cleared
<1>3. flag[NextPeer(r)] = 0
  BY ArriveFindsZero
<1>4. /\ flag'[NextPeer(r)] = 1
      /\ \A q \in RingRanks : q # NextPeer(r) => flag'[q] = flag[q]
  BY NextPeerFacts DEF Arrive, RingTypeOK
<1>5. \A q \in RingRanks : RingRaised(q) \in Int /\ Cleared(q) \in Int
  BY CountFacts
<1>6. RingFlagCountsRaises'
  <2> SUFFICES ASSUME NEW q \in RingRanks
               PROVE  RingRaised(q)' = Cleared(NextPeer(q))' + flag'[NextPeer(q)]
    BY DEF RingFlagCountsRaises
  <2>1. RingRaised(q) = Cleared(NextPeer(q)) + flag[NextPeer(q)] /\ NextPeer(q) \in RingRanks
    BY NextPeerFacts DEF RingFlagCountsRaises
  <2>2. CASE q = r
    BY <2>1, <2>2, <1>2, <1>3, <1>4, <1>5
  <2>3. CASE q # r
    BY <2>1, <2>3, <1>2, <1>4, NextPeerFacts
  <2> QED BY <2>2, <2>3
<1>7. WaveUp'
  <2> SUFFICES ASSUME NEW q \in RingRanks, NEW s \in RingRanks, q <= s
               PROVE  RingRaised(s)' <= RingRaised(q)'
    BY DEF WaveUp
  <2>1. RingRaised(s) <= RingRaised(q)
    BY DEF WaveUp
  <2>2. CASE s # r \/ q = r
    BY <2>1, <2>2, <1>2, <1>5
  <2>3. CASE s = r /\ q # r
    <3>1. r # 0 /\ r - 1 \in RingRanks /\ NextPeer(r - 1) = r /\ q <= r - 1
      BY <2>3, RingSizeAssumption DEF RingRanks, NextPeer, LastRank
    <3>2. RingRaised(r - 1) = Cleared(r) + 1
      BY <3>1 DEF RingFlagCountsRaises, Arrive
    <3>3. RingRaised(r) = Cleared(r)
      BY CountFacts DEF Arrive
    <3>4. RingRaised(r - 1) <= RingRaised(q)
      BY <3>1 DEF WaveUp
    <3> QED BY <2>3, <3>2, <3>3, <3>4, <3>1, <1>2, <1>5
  <2> QED BY <2>2, <2>3
<1>8. WaveDown'
  BY <1>2 DEF WaveDown
<1>9. ControlState'
  <2> SUFFICES ASSUME NEW q \in RingRanks
               PROVE  /\ ~RingRunning(q)' => ringPc'[q] = "done"
                      /\ ringPc'[q] = "quit" => q # LastRank
                      /\ ringPc'[q] = "reset" /\ q # LastRank
                           => flag'[q + 1] = 0 /\ RingRaised(q)' = Cleared(q + 1)'
    BY DEF ControlState
  <2>1. /\ ~RingRunning(q)' => ringPc'[q] = "done"
        /\ ringPc'[q] = "quit" => q # LastRank
    BY DEF ControlState, Arrive, RingRunning, RingTypeOK
  <2>2. CASE q = r
    BY <2>1, <2>2 DEF Arrive, RingTypeOK
  <2>3. CASE q # r
    <3> SUFFICES ASSUME ringPc'[q] = "reset", q # LastRank
                 PROVE  flag'[q + 1] = 0 /\ RingRaised(q)' = Cleared(q + 1)'
      BY <2>1
    <3>1. q + 1 \in RingRanks /\ NextPeer(q) = q + 1
      BY NextPeerFacts
    <3>2. q + 1 # NextPeer(r)
      BY <2>3, <3>1, NextPeerFacts
    <3>3. ringPc[q] = "reset"
      BY <2>3 DEF Arrive, RingTypeOK
    <3>4. flag[q + 1] = 0 /\ RingRaised(q) = Cleared(q + 1)
      BY <3>3 DEF ControlState
    <3> QED BY <2>3, <3>1, <3>2, <3>4, <1>2, <1>4
  <2> QED BY <2>2, <2>3
<1> QED BY <1>1, <1>6, <1>7, <1>8, <1>9

\* Seeing the next peer's flag cleared moves no counter.
LEMMA QuitIInv == ASSUME RingIInv, NEW r \in RingRanks, Quit(r) PROVE RingIInv'
<1> USE DEF RingIInv
<1>1. RingTypeOK'
  BY DEF RingTypeOK, Quit
<1>2. \A q \in RingRanks : RingRaised(q)' = RingRaised(q) /\ Cleared(q)' = Cleared(q)
  BY DEF RingTypeOK, Quit, RingRaised, Cleared
<1>3. flag' = flag
  BY DEF Quit
<1>4. RingRaised(r) = Cleared(NextPeer(r)) /\ flag[NextPeer(r)] = 0
  <2>1. RingRaised(r) = Cleared(NextPeer(r)) + 0 /\ Cleared(NextPeer(r)) \in Int
    BY NextPeerFacts, CountFacts DEF Quit, RingFlagCountsRaises
  <2> QED BY <2>1 DEF Quit
<1>5. ControlState'
  BY <1>2, <1>3, <1>4, NextPeerFacts DEF RingTypeOK, ControlState, Quit, RingRunning
<1> QED BY <1>1, <1>2, <1>3, <1>5, CountersUnchanged

\* The clear of the own flag counts one more clear of r only.
LEMMA ResetIInv == ASSUME RingIInv, NEW r \in RingRanks, Reset(r) PROVE RingIInv'
<1> USE DEF RingIInv
<1>1. RingTypeOK'
  BY DEF RingTypeOK, Reset
<1>2. /\ Cleared(r)' = Cleared(r) + 1
      /\ \A q \in RingRanks : q # r => Cleared(q)' = Cleared(q)
      /\ \A q \in RingRanks : RingRaised(q)' = RingRaised(q)
  BY RingCallsAssumption DEF RingTypeOK, Reset, RingRaised, Cleared
<1>3. /\ flag'[r] = 0
      /\ \A q \in RingRanks : q # r => flag'[q] = flag[q]
  BY DEF Reset, RingTypeOK
<1>4. \A q \in RingRanks : RingRaised(q) \in Int /\ Cleared(q) \in Int
  BY CountFacts
<1>5. RingRaised(r) = Cleared(r) + 1
  BY CountFacts DEF Reset
<1>6. flag[r] = 1
  <2>1. PICK p \in RingRanks : NextPeer(p) = r
    <3>1. CASE r = 0
      BY <3>1, NextPeerFacts
    <3>2. CASE r # 0
      <4>1. r - 1 \in RingRanks /\ NextPeer(r - 1) = r
        BY <3>2, RingSizeAssumption DEF RingRanks, NextPeer, LastRank
      <4> QED BY <4>1
    <3> QED BY <3>1, <3>2
  <2>2. RingRaised(p) = Cleared(r) + flag[r]
    BY <2>1 DEF RingFlagCountsRaises
  <2>3. RingRaised(r) <= RingRaised(p)
    <3>1. CASE p <= r
      BY <3>1 DEF WaveUp
    <3>2. CASE ~(p <= r)
      <4>1. p = LastRank /\ r = 0 /\ p # 0
        BY <3>2, <2>1 DEF NextPeer, RingRanks
      <4>2. Cleared(0) <= Cleared(p) /\ Cleared(p) <= RingRaised(p)
        BY <4>1, CountFacts DEF WaveDown, RingRanks
      <4>3. Cleared(1) = RingRaised(0) /\ 1 \in RingRanks /\ 1 <= p
        BY <4>1, RingSizeAssumption DEF Reset, ControlState, RingRanks, LastRank
      <4>4. Cleared(1) <= Cleared(p)
        BY <4>3 DEF WaveDown
      <4> QED BY <4>1, <4>2, <4>3, <4>4, <1>4
    <3> QED BY <3>1, <3>2
  <2> QED BY <2>2, <2>3, <1>4, <1>5 DEF RingTypeOK
<1>7. RingFlagCountsRaises'
  <2> SUFFICES ASSUME NEW q \in RingRanks
               PROVE  RingRaised(q)' = Cleared(NextPeer(q))' + flag'[NextPeer(q)]
    BY DEF RingFlagCountsRaises
  <2>1. RingRaised(q) = Cleared(NextPeer(q)) + flag[NextPeer(q)] /\ NextPeer(q) \in RingRanks
    BY NextPeerFacts DEF RingFlagCountsRaises
  <2> QED BY <2>1, <1>2, <1>3, <1>4, <1>6
<1>8. WaveUp'
  BY <1>2 DEF WaveUp
<1>9. WaveDown'
  <2> SUFFICES ASSUME NEW q \in RingRanks, NEW s \in RingRanks, q <= s
               PROVE  Cleared(q)' <= Cleared(s)'
    BY DEF WaveDown
  <2>1. Cleared(q) <= Cleared(s)
    BY DEF WaveDown
  <2>2. CASE q # r \/ s = r
    BY <2>1, <2>2, <1>2, <1>4
  <2>3. CASE q = r /\ s # r
    <3>1. r # LastRank /\ r + 1 \in RingRanks /\ r + 1 <= s
      BY <2>3, RingSizeAssumption DEF RingRanks, LastRank
    <3>2. Cleared(r + 1) = RingRaised(r)
      BY <3>1 DEF Reset, ControlState
    <3>3. Cleared(r + 1) <= Cleared(s)
      BY <3>1 DEF WaveDown
    <3> QED BY <2>3, <3>1, <3>2, <3>3, <1>2, <1>4, <1>5
  <2> QED BY <2>2, <2>3
<1>10. ControlState'
  <2> SUFFICES ASSUME NEW q \in RingRanks
               PROVE  /\ ~RingRunning(q)' => ringPc'[q] = "done"
                      /\ ringPc'[q] = "quit" => q # LastRank
                      /\ ringPc'[q] = "reset" /\ q # LastRank
                           => flag'[q + 1] = 0 /\ RingRaised(q)' = Cleared(q + 1)'
    BY DEF ControlState
  <2>1. /\ ~RingRunning(q)' => ringPc'[q] = "done"
        /\ ringPc'[q] = "quit" => q # LastRank
    BY DEF ControlState, Reset, RingRunning, RingTypeOK
  <2> SUFFICES ASSUME ringPc'[q] = "reset", q # LastRank
               PROVE  flag'[q + 1] = 0 /\ RingRaised(q)' = Cleared(q + 1)'
    BY <2>1
  <2>2. ringPc[q] = "reset" /\ q # r
    BY DEF Reset, RingTypeOK
  <2>3. flag[q + 1] = 0 /\ RingRaised(q) = Cleared(q + 1)
    BY <2>2 DEF ControlState
  <2>4. q + 1 \in RingRanks /\ q + 1 # r
    BY <2>3, <1>6, NextPeerFacts
  <2> QED BY <2>3, <2>4, <1>2, <1>3
<1> QED BY <1>1, <1>7, <1>8, <1>9, <1>10

\* The completion of the kernel moves no counter.
LEMMA LeaveIInv == ASSUME RingIInv, NEW r \in RingRanks, RingLeave(r) PROVE RingIInv'
<1> USE DEF RingIInv
<1>1. RingTypeOK'
  BY RingCallsAssumption DEF RingTypeOK, RingLeave, RingRunning
<1>2. \A q \in RingRanks : RingRaised(q)' = RingRaised(q) /\ Cleared(q)' = Cleared(q)
  BY DEF RingLeave, RingRaised, Cleared
<1>3. flag' = flag
  BY DEF RingLeave
<1>4. ControlState'
  BY <1>2, <1>3, NextPeerFacts DEF RingTypeOK, ControlState, RingLeave, RingRunning
<1> QED BY <1>1, <1>2, <1>3, <1>4, CountersUnchanged

\* Every step preserves the inductive invariant.
LEMMA RingNextIInv == RingIInv /\ [RingNext]_ringVars => RingIInv'
<1> SUFFICES ASSUME RingIInv, [RingNext]_ringVars PROVE RingIInv'
  OBVIOUS
<1>1. CASE RingNext
  BY <1>1, EnterIInv, ArriveIInv, QuitIInv, ResetIInv, LeaveIInv DEF RingNext, Kernel
<1>2. CASE UNCHANGED ringVars
  BY <1>2 DEF ringVars, RingIInv, RingTypeOK, RingFlagCountsRaises, WaveUp, WaveDown,
              ControlState, RingRaised, Cleared, RingRunning
<1> QED BY <1>1, <1>2

\* The chain from a completed call of p to a begun call of q.
LEMMA ClearedBelowEntered ==
    ASSUME RingIInv, NEW p \in RingRanks, NEW q \in RingRanks
    PROVE  Cleared(p) <= ringEntered[q]
<1> USE DEF RingIInv
<1>1. LastRank \in RingRanks /\ p <= LastRank /\ q <= LastRank
  BY NextPeerFacts DEF RingRanks, LastRank
<1>2. Cleared(p) <= Cleared(LastRank)
  BY <1>1 DEF WaveDown
<1>3. Cleared(LastRank) <= RingRaised(LastRank)
  BY <1>1, CountFacts
<1>4. RingRaised(LastRank) <= RingRaised(q) /\ RingRaised(q) <= ringEntered[q]
  BY <1>1, CountFacts DEF WaveUp
<1>5. /\ Cleared(p) \in Int /\ Cleared(LastRank) \in Int
      /\ RingRaised(LastRank) \in Int /\ RingRaised(q) \in Int
      /\ ringEntered[q] \in Int
  BY <1>1, CountFacts, RingCallsAssumption DEF RingTypeOK
<1> QED BY <1>2, <1>3, <1>4, <1>5

\* The types of the variables hold in every reachable state.
THEOREM RingTypeCorrect == RingSafe => []RingTypeOK
<1>1. RingIInv => RingTypeOK
  BY DEF RingIInv
<1> QED BY RingInitIInv, RingNextIInv, <1>1, PTL DEF RingSafe

\* Plain stores suffice: no raise of CudaIpcBarrierAllRingModeKernel lands on
\* a flag of an earlier call that is still up, however many calls follow.
THEOREM RingFlagsCount == RingSafe => []RingFlagCountsRaises
<1>1. RingIInv => RingFlagCountsRaises
  BY DEF RingIInv
<1> QED BY RingInitIInv, RingNextIInv, <1>1, PTL DEF RingSafe

\* No rank returns from a ring-mode call before every rank has begun it.
THEOREM RingIsSafe == RingSafe => []RingBarrierSafety
<1>1. RingIInv => RingBarrierSafety
  <2> SUFFICES ASSUME RingIInv, NEW p \in RingRanks, NEW q \in RingRanks
               PROVE  ringLeft[p] <= ringEntered[q]
    BY DEF RingBarrierSafety
  <2>1. ringLeft[p] <= Cleared(p) /\ Cleared(p) <= ringEntered[q]
    BY CountFacts, ClearedBelowEntered DEF RingIInv
  <2>2. ringLeft[p] \in Int /\ Cleared(p) \in Int /\ ringEntered[q] \in Int
    BY CountFacts, RingCallsAssumption DEF RingIInv, RingTypeOK
  <2> QED BY <2>1, <2>2
<1> QED BY RingInitIInv, RingNextIInv, <1>1, PTL DEF RingSafe

\* The ring-mode kernel refines the abstract barrier.
THEOREM RingRefinement == RingSafe => RingImplementsBarrier
<1>1. RingInit => RingAbstract!Init
  BY DEF RingInit, RingAbstract!Init
<1>2. RingIInv /\ [RingNext]_ringVars => [RingAbstract!Next]_(RingAbstract!vars)
  <2> SUFFICES ASSUME RingIInv, [RingNext]_ringVars
               PROVE  [RingAbstract!Next]_(RingAbstract!vars)
    OBVIOUS
  <2> USE DEF RingAbstract!vars, RingAbstract!Next
  <2>1. ASSUME NEW r \in RingRanks, RingEnter(r) PROVE RingAbstract!Next
    <3>1. ringEntered[r] = ringLeft[r]
      BY <2>1, RingCallsAssumption DEF RingEnter, RingRunning, RingIInv, RingTypeOK
    <3> QED BY <2>1, <3>1 DEF RingEnter, RingAbstract!Enter
  <2>2. ASSUME NEW r \in RingRanks, Arrive(r) \/ Quit(r) \/ Reset(r)
        PROVE  UNCHANGED RingAbstract!vars
    BY <2>2 DEF Arrive, Quit, Reset
  <2>3. ASSUME NEW r \in RingRanks, RingLeave(r) PROVE RingAbstract!Next
    <3>1. ringLeft[r] < ringEntered[r] /\ Cleared(r) = ringEntered[r]
      BY <2>3 DEF RingLeave, RingRunning, Cleared
    <3>2. \A q \in RingRanks : ringLeft[r] < ringEntered[q]
      BY <3>1, ClearedBelowEntered, RingCallsAssumption DEF RingIInv, RingTypeOK
    <3> QED BY <2>3, <3>1, <3>2 DEF RingLeave, RingAbstract!Leave
  <2>4. CASE UNCHANGED ringVars
    BY <2>4 DEF ringVars
  <2> QED BY <2>1, <2>2, <2>3, <2>4 DEF RingNext, Kernel
<1> QED BY RingInitIInv, RingNextIInv, <1>1, <1>2, PTL
        DEF RingSafe, RingImplementsBarrier, RingAbstract!Safe
=============================================================================
