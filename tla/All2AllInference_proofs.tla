----------------------- MODULE All2AllInference_proofs -----------------------
(***************************************************************************)
(* NoSignalOverrun, CallsAreBarrier and OutputsCurrent of                  *)
(* All2AllInference, for every set of ranks, every number of calls and     *)
(* every even ModValue from 4 on; the last where puts are stores of the    *)
(* kernel's threads.                                                       *)
(*                                                                         *)
(* The argument: what r has issued towards q and what q has waited for of  *)
(* r keep each other within one call, so that the operations under way are *)
(* of two calls in a row, in two different slots; and a slot holds the     *)
(* count of the last call of its parity that has been delivered.           *)
(* So whoever has completed the fewest calls finds the signals it waits    *)
(* for, by equality, unless something is still in flight: no call is stuck.*)
(***************************************************************************)
EXTENDS All2AllInference, WellFoundedInduction, TLAPS

\* The calls r has issued towards q, and those of r that q has waited for.
Issued(r, q) == IF blk[r][q] = "put" THEN called[r] - 1 ELSE called[r]
Through(q, r) == IF blk[q][r] = "done" THEN called[q] ELSE called[q] - 1

Pending(r, q, j) == \E op \in wire[r][q] : op.call = j

\* What the slot of call j holds until the signal of j comes.
Before(j) == IF j <= 2 THEN 0 ELSE CallCount(j - 2)

\* CTAs run only inside a call.
IdleBlocks == \A r, q \in Ranks : blk[r][q] # "done" => Running(r)

\* As long as anything of a call is under way its signal is.
SignalIsLast ==
    \A r, q \in Ranks : \A op \in wire[r][q] :
        /\ op.call \in 1..Issued(r, q)
        /\ [call |-> op.call, part |-> "signal", val |-> CallCount(op.call)] \in wire[r][q]
        /\ op.part = "signal" => op.val = CallCount(op.call)

\* A wait is over when the call has been issued and all of it has come.
WaitsHaveReason ==
    \A r, q \in Ranks :
        /\ Through(q, r) <= Issued(r, q)
        /\ \A op \in wire[r][q] : op.call > Through(q, r)

\* The two last calls of r are in the slots of q, or under way to them.
SlotsHoldLast ==
    \A r, q \in Ranks :
        /\ \A j \in Calls \ {0} : j \in {Issued(r, q) - 1, Issued(r, q)} =>
              signals[q][SlotOf(j)][r] = IF Pending(r, q, j) THEN Before(j) ELSE CallCount(j)
        /\ \A j \in {1, 2} : j > Issued(r, q) => signals[q][SlotOf(j)][r] = 0

IInv == TypeOK /\ IdleBlocks /\ SignalIsLast /\ WaitsHaveReason /\ SlotsHoldLast

\* What a put reads is of its call, and read before the kernel ends.
SourcesCurrent ==
    \A r, q \in Ranks :
        /\ input[r] = called[r]
        /\ splits[r][q] = Issued(r, q)
        /\ \A op \in wire[r][q] : op.part \in Sources =>
              \/ op.val = Unread /\ op.call = called[r] /\ Running(r)
              \/ op.val = op.call

\* The same as SlotsHoldLast of the outputs.
OutputsHoldLast ==
    \A r, q \in Ranks : \A j \in Calls \ {0} : \A part \in Sources :
        /\ j \in {Issued(r, q) - 1, Issued(r, q)}
        /\ \A op \in wire[r][q] : op.call = j => op.part # part
        => out[q][SlotOf(j)][r][part] = j

OInv == SourcesCurrent /\ OutputsHoldLast

-----------------------------------------------------------------------------
(* Arithmetic of the call count. *)

LEMMA DivMod == ASSUME NEW a \in Int, NEW k \in Nat \ {0}
                PROVE  /\ a \div k \in Int /\ a % k \in 0..(k - 1)
                       /\ a = (a \div k) * k + (a % k)
  OBVIOUS

LEMMA Doubled == ASSUME NEW a \in Int, NEW h \in Int
                 PROVE  a * (2 * h) = 2 * (a * h) /\ a * h \in Int
  OBVIOUS

\* The count has the parity of the call: ModValue is even.
LEMMA SlotIsParity == ASSUME NEW k \in Nat
                      PROVE  SlotOf(k) = k % 2 /\ SlotOf(k) \in Slots
<1> DEFINE h == ModValue \div 2
           d == k \div ModValue
<1>1. h \in Int /\ ModValue = 2 * h BY CallAssumption
<1>2. d \in Int /\ k % ModValue \in Int /\ k = d * ModValue + (k % ModValue)
  BY DivMod, CallAssumption
<1> HIDE DEF h, d
<1>3. d * h \in Int /\ k = 2 * (d * h) + (k % ModValue)
  BY <1>1, <1>2, Doubled
<1>4. (k % ModValue) % 2 = k % 2
  <2> DEFINE e == d * h
             m == k % ModValue
  <2>1. e \in Int /\ m \in Int /\ k = 2 * e + m BY <1>2, <1>3
  <2> HIDE DEF e, m
  <2>2. m % 2 = k % 2 BY <2>1
  <2> QED BY <2>2 DEF m
<1>5. k % 2 \in {0, 1} OBVIOUS
<1> QED BY <1>4, <1>5 DEF SlotOf, CallCount, Slots

LEMMA CountFacts == ASSUME NEW k \in Nat
                    PROVE  /\ CallCount(k) \in 0..(ModValue - 1)
                           /\ CallCount(k) <= k
                           /\ k \in {1, 2} => CallCount(k) = k
<1>1. CallCount(k) \in 0..(ModValue - 1) BY DivMod, CallAssumption DEF CallCount
<1>2. CallCount(k) <= k
  <2> DEFINE d == k \div ModValue
  <2>1. d \in Int /\ k = d * ModValue + CallCount(k)
    BY DivMod, CallAssumption DEF CallCount
  <2>2. d >= 0 BY CallAssumption
  <2> HIDE DEF d
  <2>3. d * ModValue \in Int /\ d * ModValue >= 0 BY <2>1, <2>2, CallAssumption
  <2> QED BY <2>1, <2>3, <1>1
<1>3. k \in {1, 2} => CallCount(k) = k BY CallAssumption DEF CallCount
<1> QED BY <1>1, <1>2, <1>3

\* A slot is used again before its count is.
LEMMA CountChanges == ASSUME NEW k \in Nat, k >= 1
                      PROVE  CallCount(k) # Before(k)
<1>1. CASE k <= 2 BY <1>1, CountFacts DEF Before
<1>2. CASE k > 2
  <2> DEFINE a == k \div ModValue
             b == (k - 2) \div ModValue
  <2>1. /\ a \in Int /\ k = a * ModValue + CallCount(k)
        /\ b \in Int /\ k - 2 = b * ModValue + CallCount(k - 2)
        /\ CallCount(k) \in Int /\ CallCount(k - 2) \in Int
    BY <1>2, DivMod, CallAssumption, CountFacts DEF CallCount
  <2> HIDE DEF a, b
  <2>2. SUFFICES ASSUME CallCount(k) = CallCount(k - 2) PROVE FALSE BY <1>2 DEF Before
  <2>3. a * ModValue - b * ModValue = (a - b) * ModValue BY <2>1, CallAssumption
  <2>4. (a - b) * ModValue = 2 BY <2>1, <2>2, <2>3, CallAssumption
  <2>5. a - b \in Int /\ ModValue \in Int /\ ModValue >= 4 BY <2>1, CallAssumption
  <2>6. a - b >= 1 => (a - b) * ModValue >= 1 * ModValue BY <2>5
  <2>7. a - b <= 0 => (a - b) * ModValue <= 0 BY <2>5
  <2> QED BY <2>4, <2>5, <2>6, <2>7
<1> QED BY <1>1, <1>2

-----------------------------------------------------------------------------
(* What the invariant says of a pair of ranks. *)

LEMMA OpFacts ==
    ASSUME IInv, NEW r \in Ranks, NEW q \in Ranks, NEW op \in wire[r][q]
    PROVE  /\ op \in Ops /\ op.call \in Calls /\ op.call \in Nat \ {0}
           /\ op.call \in {called[r] - 1, called[r]} /\ op.call <= Issued(r, q)
<1>1. op \in Ops BY DEF IInv, TypeOK
<1>2. op.call \in Calls BY <1>1 DEF Ops
<1>3. called[r] \in Nat BY CallAssumption DEF IInv, TypeOK, Calls
<1>4. Issued(r, q) \in Int BY <1>3 DEF Issued
<1>5. op.call \in {called[r] - 1, called[r]} BY DEF IInv, TypeOK
<1>6. op.call \in 1..Issued(r, q) BY DEF IInv, SignalIsLast
<1> QED BY <1>1, <1>2, <1>4, <1>5, <1>6

LEMMA PairFacts ==
    ASSUME IInv, NEW r \in Ranks, NEW q \in Ranks
    PROVE  /\ called[r] \in Nat /\ called[r] <= MaxCalls /\ done[r] \in Nat
           /\ MaxCalls \in Nat
           /\ Issued(r, q) \in Int /\ Through(r, q) \in Int
           /\ Issued(r, q) \in {called[r] - 1, called[r]}
           /\ Through(r, q) \in {called[r] - 1, called[r]}
           /\ Issued(r, q) >= 0 /\ Through(r, q) >= 0
           /\ done[r] <= Through(r, q) /\ called[r] - 1 <= done[r]
           /\ Through(r, q) <= Issued(q, r)
<1>1. called[r] \in Nat /\ done[r] \in Nat /\ called[r] <= MaxCalls /\ MaxCalls \in Nat
  BY CallAssumption DEF IInv, TypeOK, Calls
<1>2. called[r] \in {done[r], done[r] + 1} BY DEF IInv, TypeOK
<1>3. blk[r][q] # "done" => called[r] = done[r] + 1
  BY <1>1, <1>2 DEF IInv, IdleBlocks, Running
<1> QED BY <1>1, <1>2, <1>3 DEF Issued, Through, IInv, WaitsHaveReason

\* Two calls that follow each other use different slots, the call after the next the
\* same again.
LEMMA SlotsAlternate ==
    ASSUME NEW j \in Nat
    PROVE  SlotOf(j + 1) # SlotOf(j) /\ SlotOf(j + 2) = SlotOf(j)
<1>1. SlotOf(j) = j % 2 /\ SlotOf(j + 1) = (j + 1) % 2 /\ SlotOf(j + 2) = (j + 2) % 2
  BY SlotIsParity
<1> QED BY <1>1

\* A rank that finds the count of its call has it from the peer's signal of this call,
\* and all of the call has come before.
LEMMA SeenMeansIssued ==
    ASSUME IInv, NEW q \in Ranks, NEW r \in Ranks, blk[q][r] = "wait",
           signals[q][SlotOf(called[q])][r] = CallCount(called[q])
    PROVE  called[q] <= Issued(r, q) /\ ~Pending(r, q, called[q])
<1> DEFINE k == called[q]
           i == Issued(r, q)
<1>1. k \in Nat /\ k >= 1 /\ k \in Calls
  <2>1. k \in Nat /\ k <= MaxCalls /\ done[q] \in Nat /\ MaxCalls \in Nat BY PairFacts
  <2>2. done[q] < k BY DEF IInv, IdleBlocks, Running
  <2> QED BY <2>1, <2>2 DEF Calls
<1>2. Through(q, r) = k - 1 BY <1>1 DEF Through
<1>3. i \in Int /\ k - 1 <= i /\ i <= k + 1
  <2>1. i \in Int /\ i <= called[r] /\ called[r] \in Nat BY PairFacts
  <2>2. called[r] - 1 <= Through(r, q) /\ Through(r, q) <= Issued(q, r) BY PairFacts
  <2>3. Issued(q, r) \in Int /\ Issued(q, r) <= k /\ Through(r, q) \in Int BY PairFacts
  <2>4. Through(q, r) <= i BY DEF IInv, WaitsHaveReason
  <2> QED BY <1>1, <1>2, <2>1, <2>2, <2>3, <2>4
<1>4. ASSUME i = k - 1 PROVE FALSE
  <2>1. CASE k <= 2
    <3>1. k \in {1, 2} /\ k > i BY <1>1, <1>4, <2>1
    <3>2. signals[q][SlotOf(k)][r] = 0 BY <3>1 DEF IInv, SlotsHoldLast
    <3>3. CallCount(k) = k /\ k # 0 BY <1>1, <3>1, CountFacts
    <3> QED BY <3>2, <3>3
  <2>2. CASE k > 2
    <3>1. k - 2 \in Calls \ {0} /\ k - 2 = i - 1
      BY <1>1, <1>4, <2>2, CallAssumption DEF Calls
    <3>2. ~Pending(r, q, k - 2)
      BY <1>1, <1>2 DEF Pending, IInv, WaitsHaveReason
    <3>3. signals[q][SlotOf(k - 2)][r] = CallCount(k - 2)
      BY <3>1, <3>2 DEF IInv, SlotsHoldLast
    <3>4. SlotOf(k - 2) = SlotOf(k)
      <4>1. k - 2 \in Nat /\ (k - 2) + 2 = k BY <1>1, <2>2
      <4> QED BY <4>1, SlotsAlternate
    <3>5. CallCount(k) # CallCount(k - 2) BY <1>1, <2>2, CountChanges DEF Before
    <3> QED BY <3>3, <3>4, <3>5
  <2> QED BY <1>1, <2>1, <2>2
<1>5. k <= i BY <1>1, <1>3, <1>4
<1>6. ~Pending(r, q, k)
  <2>1. SUFFICES ASSUME Pending(r, q, k) PROVE FALSE OBVIOUS
  <2>2. k \in Calls \ {0} /\ k \in {i - 1, i} BY <1>1, <1>3, <1>5
  <2>3. signals[q][SlotOf(k)][r] = Before(k) BY <2>1, <2>2 DEF IInv, SlotsHoldLast
  <2> QED BY <2>3, <1>1, CountChanges
<1> QED BY <1>5, <1>6

-----------------------------------------------------------------------------
(* Every step preserves the invariant. *)

LEMMA InitIInv == Init => IInv
<1> SUFFICES ASSUME Init PROVE IInv OBVIOUS
<1> USE CallAssumption DEF Init
<1>1. TypeOK BY DEF TypeOK, Calls, Slots
<1>2. IdleBlocks BY DEF IdleBlocks
<1>3. SignalIsLast BY DEF SignalIsLast
<1>4. WaitsHaveReason BY DEF WaitsHaveReason, Through, Issued
<1>5. SlotsHoldLast
  <2>1. SlotOf(1) \in Slots /\ SlotOf(2) \in Slots BY SlotIsParity
  <2>2. ASSUME NEW r \in Ranks, NEW q \in Ranks
        PROVE  Issued(r, q) = 0 /\ \A j \in {1, 2} : signals[q][SlotOf(j)][r] = 0
    BY <2>1 DEF Issued
  <2>3. \A j \in Calls \ {0} : j # 0 - 1 /\ j # 0 BY DEF Calls
  <2> HIDE DEF Init
  <2> QED BY <2>2, <2>3 DEF SlotsHoldLast
<1> QED BY <1>1, <1>2, <1>3, <1>4, <1>5 DEF IInv

\* Only the last two calls can be under way, so that everything of the call before the
\* last has come when a rank calls again.
LEMMA ForwardKeepsIInv ==
    ASSUME IInv, NEW r \in Ranks, Forward(r)
    PROVE  IInv'
<1> USE DEF Forward, MayCall
<1>1. /\ called[r] \in Nat /\ called[r] = done[r] /\ called[r] + 1 \in Calls
      /\ \A q \in Ranks : blk[r][q] = "done"
  <2>1. called[r] \in Nat /\ done[r] \in Nat /\ called[r] \in {done[r], done[r] + 1}
    BY PairFacts DEF IInv, TypeOK
  <2>2. called[r] = done[r] BY <2>1 DEF Running
  <2> QED BY <2>1, <2>2, CallAssumption DEF Calls, IInv, IdleBlocks
<1>2. \A a, b \in Ranks : Issued(a, b)' = Issued(a, b) /\ Through(a, b)' = Through(a, b)
  <2> SUFFICES ASSUME NEW a \in Ranks, NEW b \in Ranks
               PROVE  Issued(a, b)' = Issued(a, b) /\ Through(a, b)' = Through(a, b)
    OBVIOUS
  <2>1. CASE a = r
    <3>1. called'[r] = called[r] + 1 /\ blk'[r][b] = "put" /\ blk[r][b] = "done"
      BY <1>1 DEF IInv, TypeOK
    <3> QED BY <1>1, <2>1, <3>1 DEF Issued, Through
  <2>2. CASE a # r
    <3>1. called'[a] = called[a] /\ blk'[a][b] = blk[a][b]
      BY <2>2 DEF IInv, TypeOK
    <3> QED BY <3>1 DEF Issued, Through
  <2> QED BY <2>1, <2>2
<1>3. TypeOK'
  <2>1. \A q \in Ranks : \A op \in wire[r][q] : op.call = called[r]
    <3> SUFFICES ASSUME NEW q \in Ranks, NEW op \in wire[r][q], op.call = called[r] - 1
                 PROVE  FALSE
      BY OpFacts
    <3>1. op.call > Through(q, r) BY DEF IInv, WaitsHaveReason
    <3>2. Through(q, r) >= called[q] - 1 /\ called[q] >= Issued(q, r) /\ called[q] \in Nat
          /\ Through(q, r) \in Int /\ Issued(q, r) \in Int
      BY PairFacts
    <3>3. Issued(q, r) >= Through(r, q) BY PairFacts
    <3>4. Through(r, q) = called[r] BY <1>1 DEF Through
    <3> QED BY <1>1, <3>1, <3>2, <3>3, <3>4
  <2>2. \A a, q \in Ranks : \A op \in wire'[a][q] : op.call \in {called'[a] - 1, called'[a]}
    <3> SUFFICES ASSUME NEW a \in Ranks, NEW q \in Ranks, NEW op \in wire[a][q]
                 PROVE  op.call \in {called'[a] - 1, called'[a]}
      OBVIOUS
    <3>1. CASE a = r
      <4>1. called'[r] = called[r] + 1 BY DEF IInv, TypeOK
      <4> QED BY <1>1, <2>1, <3>1, <4>1
    <3>2. CASE a # r
      <4>1. called'[a] = called[a] BY <3>2 DEF IInv, TypeOK
      <4> QED BY <4>1, OpFacts
    <3> QED BY <3>1, <3>2
  <2> QED BY <1>1, <2>2 DEF IInv, TypeOK
<1>4. IdleBlocks' BY <1>1, <1>2 DEF IInv, TypeOK, IdleBlocks, Running
<1>5. SignalIsLast' BY <1>2 DEF IInv, SignalIsLast
<1>6. WaitsHaveReason' BY <1>2 DEF IInv, WaitsHaveReason
<1>7. SlotsHoldLast' BY <1>2 DEF IInv, SlotsHoldLast, Pending
<1> QED BY <1>3, <1>4, <1>5, <1>6, <1>7 DEF IInv

LEMMA BlockPutKeepsIInv ==
    ASSUME IInv, NEW r \in Ranks, NEW q \in Ranks, BlockPut(r, q)
    PROVE  IInv'
<1> DEFINE k == called[r]
           sig == [call |-> k, part |-> "signal", val |-> CallCount(k)]
           puts == {[call |-> k, part |-> part, val |-> Unread] : part \in Sources}
<1> USE DEF BlockPut
<1>1. k \in Nat /\ k >= 1 /\ k \in Calls /\ k <= MaxCalls /\ MaxCalls \in Nat
  <2>1. k \in Nat /\ k <= MaxCalls /\ done[r] \in Nat /\ MaxCalls \in Nat BY PairFacts
  <2>2. done[r] < k BY DEF IInv, IdleBlocks, Running
  <2> QED BY <2>1, <2>2 DEF Calls
<1>2. /\ wire'[r][q] = wire[r][q] \cup (puts \cup {sig})
      /\ \A a, b \in Ranks : a # r \/ b # q => wire'[a][b] = wire[a][b]
      /\ called' = called /\ done' = done /\ signals' = signals
  BY DEF IInv, TypeOK
<1>3. /\ \A a, b \in Ranks : Through(a, b)' = Through(a, b)
      /\ \A a, b \in Ranks : a # r \/ b # q => Issued(a, b)' = Issued(a, b)
      /\ Issued(r, q) = k - 1 /\ Issued(r, q)' = k
  BY DEF IInv, TypeOK, Through, Issued
<1>4. \A op \in puts \cup {sig} : op.call = k /\ op \in Ops
  <2>1. CallCount(k) \in Calls BY <1>1, CountFacts DEF Calls
  <2> QED BY <1>1, <2>1 DEF Ops, Sources
<1> HIDE DEF sig, puts
<1>5. TypeOK'
  <2>1. \A a, b \in Ranks : wire'[a][b] \in SUBSET Ops
    BY <1>2, <1>4 DEF IInv, TypeOK
  <2>2. wire' \in [Ranks -> [Ranks -> SUBSET Ops]]
    <3>1. wire' = [wire EXCEPT ![r][q] = wire'[r][q]] BY DEF IInv, TypeOK
    <3> QED BY <2>1, <3>1 DEF IInv, TypeOK
  <2>3. \A a, b \in Ranks : \A op \in wire'[a][b] : op.call \in {called[a] - 1, called[a]}
    BY <1>2, <1>4 DEF IInv, TypeOK
  <2> QED BY <1>1, <1>2, <2>2, <2>3 DEF IInv, TypeOK
<1>6. IdleBlocks' BY DEF IInv, TypeOK, IdleBlocks, Running
<1>7. SignalIsLast'
  <2> SUFFICES ASSUME NEW a \in Ranks, NEW b \in Ranks, NEW op \in wire'[a][b]
               PROVE  /\ op.call \in 1..Issued(a, b)'
                      /\ [call |-> op.call, part |-> "signal", val |-> CallCount(op.call)]
                            \in wire'[a][b]
                      /\ op.part = "signal" => op.val = CallCount(op.call)
    BY DEF SignalIsLast
  <2>1. CASE op \in wire[a][b]
    <3>1. op.call \in 1..Issued(a, b) BY <2>1 DEF IInv, SignalIsLast
    <3>2. Issued(a, b) \in Int /\ Issued(a, b) <= Issued(a, b)' /\ Issued(a, b)' \in Int
      BY <1>1, <1>3, PairFacts
    <3> QED BY <1>2, <2>1, <3>1, <3>2 DEF IInv, SignalIsLast
  <2>2. CASE op \notin wire[a][b]
    <3>1. a = r /\ b = q /\ op \in puts \cup {sig} BY <1>2, <2>2
    <3>2. op.call = k /\ sig \in wire'[a][b] BY <1>2, <1>4, <3>1
    <3>3. op.part = "signal" => op.val = CallCount(k) BY <3>1 DEF puts, sig, Sources
    <3> QED BY <1>1, <1>3, <3>1, <3>2, <3>3 DEF sig
  <2> QED BY <2>1, <2>2
<1>8. WaitsHaveReason'
  <2> SUFFICES ASSUME NEW a \in Ranks, NEW b \in Ranks
               PROVE  /\ Through(b, a) <= Issued(a, b)'
                      /\ \A op \in wire'[a][b] : op.call > Through(b, a)
    BY <1>3 DEF WaitsHaveReason
  <2>1. /\ Through(b, a) <= Issued(a, b) /\ Through(b, a) \in Int /\ Issued(a, b) \in Int
        /\ \A op \in wire[a][b] : op.call > Through(b, a)
    BY PairFacts DEF IInv, WaitsHaveReason
  <2> QED BY <1>1, <1>2, <1>3, <1>4, <2>1
<1>9. SlotsHoldLast'
  <2> SUFFICES ASSUME NEW a \in Ranks, NEW b \in Ranks
               PROVE  /\ \A j \in Calls \ {0} : j \in {Issued(a, b)' - 1, Issued(a, b)'} =>
                            signals[b][SlotOf(j)][a] =
                                IF Pending(a, b, j)' THEN Before(j) ELSE CallCount(j)
                      /\ \A j \in {1, 2} : j > Issued(a, b)' =>
                            signals[b][SlotOf(j)][a] = 0
    BY <1>2 DEF SlotsHoldLast
  <2>1. CASE a # r \/ b # q
    BY <1>2, <1>3, <2>1 DEF IInv, SlotsHoldLast, Pending
  <2>2. CASE a = r /\ b = q
    <3>1. Pending(r, q, k)' BY <1>2, <1>4 DEF Pending
    <3>2. signals[q][SlotOf(k)][r] = Before(k)
      <4>1. CASE k <= 2
        <5>1. k \in {1, 2} /\ k > Issued(r, q) BY <1>1, <1>3, <4>1
        <5> QED BY <4>1, <5>1 DEF IInv, SlotsHoldLast, Before
      <4>2. CASE k > 2
        <5>1. k - 2 \in Calls \ {0} /\ k - 2 = Issued(r, q) - 1
          BY <1>1, <1>3, <4>2 DEF Calls
        <5>2. ~Pending(r, q, k - 2) BY <1>1, OpFacts DEF Pending
        <5>3. signals[q][SlotOf(k - 2)][r] = CallCount(k - 2)
          BY <5>1, <5>2 DEF IInv, SlotsHoldLast
        <5>4. SlotOf(k - 2) = SlotOf(k)
          <6>1. k - 2 \in Nat /\ (k - 2) + 2 = k BY <1>1, <4>2
          <6> QED BY <6>1, SlotsAlternate
        <5> QED BY <1>1, <4>2, <5>3, <5>4 DEF Before
      <4> QED BY <1>1, <4>1, <4>2
    <3>3. ASSUME NEW j \in Calls \ {0}, j = k - 1
          PROVE  signals[q][SlotOf(j)][r] =
                    IF Pending(r, q, j)' THEN Before(j) ELSE CallCount(j)
      <4>1. Pending(r, q, j)' <=> Pending(r, q, j)
        BY <1>1, <1>2, <1>4, <3>3 DEF Pending
      <4> QED BY <1>3, <3>3, <4>1 DEF IInv, SlotsHoldLast
    <3>4. ASSUME NEW j \in {1, 2}, j > k PROVE signals[q][SlotOf(j)][r] = 0
      BY <1>1, <1>3, <3>4 DEF IInv, SlotsHoldLast
    <3> QED BY <1>3, <2>2, <3>1, <3>2, <3>3, <3>4
  <2> QED BY <2>1, <2>2
<1> QED BY <1>5, <1>6, <1>7, <1>8, <1>9 DEF IInv

LEMMA BlockWaitKeepsIInv ==
    ASSUME IInv, NEW q \in Ranks, NEW r \in Ranks, BlockWait(q, r)
    PROVE  IInv'
<1> USE DEF BlockWait, WaitOver
<1>1. called[q] <= Issued(r, q) /\ ~Pending(r, q, called[q])
  BY SeenMeansIssued DEF SignalSeen
<1>2. /\ \A a, b \in Ranks : Issued(a, b)' = Issued(a, b)
      /\ \A a, b \in Ranks : a # q \/ b # r => Through(a, b)' = Through(a, b)
      /\ Through(q, r)' = called[q] /\ Through(q, r) = called[q] - 1
  BY DEF IInv, TypeOK, Issued, Through
<1>3. TypeOK' BY DEF IInv, TypeOK
<1>4. IdleBlocks' BY DEF IInv, TypeOK, IdleBlocks, Running
<1>5. SignalIsLast' BY <1>2 DEF IInv, SignalIsLast
<1>6. WaitsHaveReason'
  <2> SUFFICES ASSUME NEW a \in Ranks, NEW b \in Ranks
               PROVE  /\ Through(b, a)' <= Issued(a, b)
                      /\ \A op \in wire[a][b] : op.call > Through(b, a)'
    BY <1>2 DEF WaitsHaveReason
  <2>1. CASE b # q \/ a # r BY <1>2, <2>1 DEF IInv, WaitsHaveReason
  <2>2. CASE b = q /\ a = r
    <3>1. \A op \in wire[r][q] : op.call > called[q]
      <4> SUFFICES ASSUME NEW op \in wire[r][q] PROVE op.call > called[q] OBVIOUS
      <4>1. op.call # called[q] BY <1>1 DEF Pending
      <4>2. op.call > called[q] - 1 BY <1>2 DEF IInv, WaitsHaveReason
      <4>3. op.call \in Nat /\ called[q] \in Nat BY OpFacts, PairFacts
      <4> QED BY <4>1, <4>2, <4>3
    <3> QED BY <1>1, <1>2, <2>2, <3>1
  <2> QED BY <2>1, <2>2
<1>7. SlotsHoldLast' BY <1>2 DEF IInv, SlotsHoldLast, Pending
<1> QED BY <1>3, <1>4, <1>5, <1>6, <1>7 DEF IInv

LEMMA KernelEndKeepsIInv ==
    ASSUME IInv, NEW r \in Ranks, KernelEnd(r)
    PROVE  IInv'
<1> USE DEF KernelEnd, KernelMayEnd
<1>1. called[r] = done[r] + 1 /\ called[r] \in Calls /\ done[r] \in Nat
      /\ \A q \in Ranks : blk[r][q] = "done"
  <2>1. called[r] \in Nat /\ done[r] \in Nat /\ called[r] \in {done[r], done[r] + 1}
    BY PairFacts DEF IInv, TypeOK
  <2> QED BY <2>1 DEF Running, KernelMayEnd, IInv, TypeOK
<1>2. \A a, b \in Ranks : Issued(a, b)' = Issued(a, b) /\ Through(a, b)' = Through(a, b)
  BY DEF Issued, Through
<1>3. TypeOK'
  <2>1. done' \in [Ranks -> Calls] /\ \A a \in Ranks : called[a] \in {done'[a], done'[a] + 1}
    BY <1>1 DEF IInv, TypeOK
  <2> QED BY <2>1 DEF IInv, TypeOK
<1>4. IdleBlocks' BY <1>1 DEF IInv, TypeOK, IdleBlocks, Running
<1>5. SignalIsLast' BY <1>2 DEF IInv, SignalIsLast
<1>6. WaitsHaveReason' BY <1>2 DEF IInv, WaitsHaveReason
<1>7. SlotsHoldLast' BY <1>2 DEF IInv, SlotsHoldLast, Pending
<1> QED BY <1>3, <1>4, <1>5, <1>6, <1>7 DEF IInv

LEMMA PutReadKeepsIInv ==
    ASSUME IInv, NEW r \in Ranks, NEW q \in Ranks, PutRead(r, q)
    PROVE  IInv'
<1>1. PICK op \in wire[r][q] :
        /\ op.val = Unread
        /\ LET source == IF op.part = "data" THEN input[r] ELSE splits[r][q]
           IN  wire' = [wire EXCEPT ![r][q] =
                            (@ \ {op}) \cup {[op EXCEPT !.val = source]}]
        /\ UNCHANGED <<input, splits, called, done, blk, out, signals>>
  BY DEF PutRead
<1> DEFINE source == IF op.part = "data" THEN input[r] ELSE splits[r][q]
           new == [op EXCEPT !.val = source]
<1>2. op \in Ops /\ op.call \in Nat \ {0} BY OpFacts
<1>3. op.part \in Sources
  <2>1. CallCount(op.call) \in 0..(ModValue - 1) BY <1>2, CountFacts
  <2>2. op.part = "signal" => op.val = CallCount(op.call) BY DEF IInv, SignalIsLast
  <2>3. op.val # CallCount(op.call) BY <1>1, <2>1, CallAssumption DEF Unread
  <2> QED BY <1>2, <2>2, <2>3 DEF Ops
<1>4. new \in Ops /\ new.call = op.call /\ new.part = op.part
  <2>1. source \in Calls BY DEF IInv, TypeOK
  <2> QED BY <1>2, <2>1 DEF Ops
<1>5. /\ wire'[r][q] = (wire[r][q] \ {op}) \cup {new}
      /\ \A a, b \in Ranks : a # r \/ b # q => wire'[a][b] = wire[a][b]
      /\ wire' = [wire EXCEPT ![r][q] = (wire[r][q] \ {op}) \cup {new}]
  BY <1>1 DEF IInv, TypeOK
<1> HIDE DEF new
<1>6. \A a, b \in Ranks : \A o \in wire'[a][b] :
         \E p \in wire[a][b] : p.call = o.call /\ p.part = o.part
                               /\ (o.part = "signal" => o = p)
  BY <1>3, <1>4, <1>5 DEF Sources
<1>7. \A a, b \in Ranks : \A p \in wire[a][b] :
         \E o \in wire'[a][b] : p.call = o.call /\ p.part = o.part
                               /\ (p.part = "signal" => o = p)
  BY <1>3, <1>4, <1>5 DEF Sources
<1>8. UNCHANGED <<called, done, blk, signals>>
      /\ \A a, b \in Ranks : Issued(a, b)' = Issued(a, b) /\ Through(a, b)' = Through(a, b)
  BY <1>1 DEF Issued, Through
<1>9. TypeOK'
  <2>1. wire' \in [Ranks -> [Ranks -> SUBSET Ops]] BY <1>4, <1>5 DEF IInv, TypeOK
  <2>2. \A a, b \in Ranks : \A o \in wire'[a][b] : o.call \in {called[a] - 1, called[a]}
    BY <1>6, OpFacts
  <2> QED BY <1>1, <2>1, <2>2 DEF IInv, TypeOK
<1>10. IdleBlocks' BY <1>8 DEF IInv, IdleBlocks, Running
<1>11. SignalIsLast'
  <2> SUFFICES ASSUME NEW a \in Ranks, NEW b \in Ranks, NEW o \in wire'[a][b]
               PROVE  /\ o.call \in 1..Issued(a, b)
                      /\ [call |-> o.call, part |-> "signal", val |-> CallCount(o.call)]
                            \in wire'[a][b]
                      /\ o.part = "signal" => o.val = CallCount(o.call)
    BY <1>8 DEF SignalIsLast
  <2>1. PICK p \in wire[a][b] : p.call = o.call /\ p.part = o.part
                                /\ (o.part = "signal" => o = p)
    BY <1>6
  <2> DEFINE sig == [call |-> o.call, part |-> "signal", val |-> CallCount(o.call)]
  <2>2. p.call \in 1..Issued(a, b) /\ sig \in wire[a][b]
        /\ (p.part = "signal" => p.val = CallCount(p.call))
    BY <2>1 DEF IInv, SignalIsLast
  <2>3. sig.part = "signal" OBVIOUS
  <2> HIDE DEF sig
  <2>4. sig \in wire'[a][b] BY <1>7, <2>2, <2>3
  <2> QED BY <2>1, <2>2, <2>4 DEF sig
<1>12. WaitsHaveReason' BY <1>6, <1>8 DEF IInv, WaitsHaveReason
<1>13. SlotsHoldLast'
  <2>1. \A a, b \in Ranks : \A j : Pending(a, b, j)' <=> Pending(a, b, j)
    BY <1>6, <1>7 DEF Pending
  <2> QED BY <1>8, <2>1 DEF IInv, SlotsHoldLast
<1> QED BY <1>9, <1>10, <1>11, <1>12, <1>13 DEF IInv

LEMMA PutDeliverKeepsIInv ==
    ASSUME IInv, NEW r \in Ranks, NEW q \in Ranks, PutDeliver(r, q)
    PROVE  IInv'
<1>1. PICK op \in wire[r][q] :
        /\ op.part \in Sources /\ op.val # Unread
        /\ out' = [out EXCEPT ![q][SlotOf(op.call)][r][op.part] = op.val]
        /\ wire' = [wire EXCEPT ![r][q] = @ \ {op}]
        /\ UNCHANGED <<input, splits, called, done, blk, signals>>
  BY DEF PutDeliver
<1>2. op \in Ops /\ op.call \in Nat \ {0} /\ op.part # "signal" BY <1>1, OpFacts DEF Sources
<1>3. /\ wire'[r][q] = wire[r][q] \ {op}
      /\ \A a, b \in Ranks : a # r \/ b # q => wire'[a][b] = wire[a][b]
      /\ \A a, b \in Ranks : \A o \in wire[a][b] : o.part = "signal" => o \in wire'[a][b]
  BY <1>1, <1>2 DEF IInv, TypeOK
<1>4. /\ UNCHANGED <<called, done, blk, signals>>
      /\ \A a, b \in Ranks : Issued(a, b)' = Issued(a, b) /\ Through(a, b)' = Through(a, b)
      /\ \A a, b \in Ranks : wire'[a][b] \subseteq wire[a][b]
  BY <1>1, <1>3 DEF Issued, Through
<1>5. TypeOK'
  <2>1. wire' \in [Ranks -> [Ranks -> SUBSET Ops]] BY <1>1 DEF IInv, TypeOK
  <2>2. \A a, b \in Ranks : \A o \in wire'[a][b] : o.call \in {called[a] - 1, called[a]}
    BY <1>4, OpFacts
  <2>3. op.val \in Calls BY <1>1, <1>2 DEF Ops
  <2>4. SlotOf(op.call) \in Slots BY <1>2, SlotIsParity
  <2>5. out' \in [Ranks -> [Slots -> [Ranks -> [Sources -> Calls]]]]
    BY <1>1, <2>3, <2>4 DEF IInv, TypeOK
  <2> QED BY <1>1, <2>1, <2>2, <2>5 DEF IInv, TypeOK
<1>6. IdleBlocks' BY <1>4 DEF IInv, IdleBlocks, Running
<1>7. SignalIsLast'
  <2> SUFFICES ASSUME NEW a \in Ranks, NEW b \in Ranks, NEW o \in wire'[a][b]
               PROVE  /\ o.call \in 1..Issued(a, b)
                      /\ [call |-> o.call, part |-> "signal", val |-> CallCount(o.call)]
                            \in wire'[a][b]
                      /\ o.part = "signal" => o.val = CallCount(o.call)
    BY <1>4 DEF SignalIsLast
  <2> DEFINE sig == [call |-> o.call, part |-> "signal", val |-> CallCount(o.call)]
  <2>1. o \in wire[a][b] BY <1>4
  <2>2. o.call \in 1..Issued(a, b) /\ sig \in wire[a][b]
        /\ (o.part = "signal" => o.val = CallCount(o.call))
    BY <2>1 DEF IInv, SignalIsLast
  <2>3. sig.part = "signal" OBVIOUS
  <2> HIDE DEF sig
  <2>4. sig \in wire'[a][b] BY <1>3, <2>2, <2>3
  <2> QED BY <2>2, <2>4 DEF sig
<1>8. WaitsHaveReason' BY <1>4 DEF IInv, WaitsHaveReason
<1>9. SlotsHoldLast'
  <2>1. ASSUME NEW a \in Ranks, NEW b \in Ranks, NEW j
        PROVE  Pending(a, b, j)' <=> Pending(a, b, j)
    <3>1. Pending(a, b, j)' => Pending(a, b, j) BY <1>4 DEF Pending
    <3>2. ASSUME Pending(a, b, j) PROVE Pending(a, b, j)'
      <4>1. PICK o \in wire[a][b] : o.call = j BY <3>2 DEF Pending
      <4> DEFINE sig == [call |-> j, part |-> "signal", val |-> CallCount(j)]
      <4>2. sig \in wire[a][b] BY <4>1 DEF IInv, SignalIsLast
      <4>3. sig.part = "signal" /\ sig.call = j OBVIOUS
      <4> HIDE DEF sig
      <4>4. sig \in wire'[a][b] BY <1>3, <4>2, <4>3
      <4> QED BY <4>3, <4>4 DEF Pending
    <3> QED BY <3>1, <3>2
  <2> QED BY <1>4, <2>1 DEF IInv, SlotsHoldLast
<1> QED BY <1>5, <1>6, <1>7, <1>8, <1>9 DEF IInv

\* The fence: with its signal a call has come as a whole.
LEMMA SignalDeliverKeepsIInv ==
    ASSUME IInv, NEW r \in Ranks, NEW q \in Ranks, SignalDeliver(r, q)
    PROVE  IInv'
<1>1. PICK op \in wire[r][q] :
        /\ op.part = "signal"
        /\ Fenced(r, q, op.call)
        /\ signals' = [signals EXCEPT ![q][SlotOf(op.call)][r] = op.val]
        /\ wire' = [wire EXCEPT ![r][q] = @ \ {op}]
        /\ UNCHANGED <<input, splits, called, done, blk, out>>
  BY DEF SignalDeliver
<1> DEFINE k == op.call
<1>2. /\ op \in Ops /\ k \in Nat \ {0} /\ k \in Calls
      /\ k \in {called[r] - 1, called[r]} /\ k <= Issued(r, q)
  BY OpFacts
<1>3. op = [call |-> k, part |-> "signal", val |-> CallCount(k)] /\ op.val = CallCount(k)
  BY <1>1, <1>2 DEF IInv, SignalIsLast, Ops
<1>4. \A o \in wire[r][q] : o.call = k => o = op
  <2> SUFFICES ASSUME NEW o \in wire[r][q], o.call = k PROVE o = op OBVIOUS
  <2>1. o \in Ops BY OpFacts
  <2>2. o.part = "signal" /\ o.val = CallCount(k) BY <1>1 DEF Fenced, IInv, SignalIsLast
  <2> QED BY <1>3, <2>1, <2>2 DEF Ops
<1>5. /\ wire'[r][q] = wire[r][q] \ {op}
      /\ \A a, b \in Ranks : a # r \/ b # q => wire'[a][b] = wire[a][b]
      /\ \A a, b \in Ranks : wire'[a][b] \subseteq wire[a][b]
  BY <1>1 DEF IInv, TypeOK
<1>6. UNCHANGED <<called, done, blk>>
      /\ \A a, b \in Ranks : Issued(a, b)' = Issued(a, b) /\ Through(a, b)' = Through(a, b)
  BY <1>1 DEF Issued, Through
<1>7. SlotOf(k) \in Slots BY <1>2, SlotIsParity
<1>8. TypeOK'
  <2>1. wire' \in [Ranks -> [Ranks -> SUBSET Ops]] BY <1>1 DEF IInv, TypeOK
  <2>2. \A a, b \in Ranks : \A o \in wire'[a][b] : o.call \in {called[a] - 1, called[a]}
    BY <1>5, OpFacts
  <2>3. CallCount(k) \in 0..(ModValue - 1) BY <1>2, CountFacts
  <2>4. signals' \in [Ranks -> [Slots -> [Ranks -> 0..(ModValue - 1)]]]
    BY <1>1, <1>3, <1>7, <2>3 DEF IInv, TypeOK
  <2> QED BY <1>1, <2>1, <2>2, <2>4 DEF IInv, TypeOK
<1>9. IdleBlocks' BY <1>6 DEF IInv, IdleBlocks, Running
<1>10. SignalIsLast'
  <2> SUFFICES ASSUME NEW a \in Ranks, NEW b \in Ranks, NEW o \in wire'[a][b]
               PROVE  /\ o.call \in 1..Issued(a, b)
                      /\ [call |-> o.call, part |-> "signal", val |-> CallCount(o.call)]
                            \in wire'[a][b]
                      /\ o.part = "signal" => o.val = CallCount(o.call)
    BY <1>6 DEF SignalIsLast
  <2> DEFINE sig == [call |-> o.call, part |-> "signal", val |-> CallCount(o.call)]
  <2>1. o \in wire[a][b] BY <1>5
  <2>2. o.call \in 1..Issued(a, b) /\ sig \in wire[a][b]
        /\ (o.part = "signal" => o.val = CallCount(o.call))
    BY <2>1 DEF IInv, SignalIsLast
  <2>3. a = r /\ b = q => o.call # k BY <1>4, <1>5
  <2>4. sig.call = o.call OBVIOUS
  <2> HIDE DEF sig
  <2>5. sig \in wire'[a][b] BY <1>5, <2>2, <2>3, <2>4
  <2> QED BY <2>2, <2>5 DEF sig
<1>11. WaitsHaveReason' BY <1>5, <1>6 DEF IInv, WaitsHaveReason
<1>12. SlotsHoldLast'
  <2> SUFFICES ASSUME NEW a \in Ranks, NEW b \in Ranks
               PROVE  /\ \A j \in Calls \ {0} : j \in {Issued(a, b) - 1, Issued(a, b)} =>
                            signals'[b][SlotOf(j)][a] =
                                IF Pending(a, b, j)' THEN Before(j) ELSE CallCount(j)
                      /\ \A j \in {1, 2} : j > Issued(a, b) =>
                            signals'[b][SlotOf(j)][a] = 0
    BY <1>6 DEF SlotsHoldLast
  <2>1. CASE a # r \/ b # q
    <3>1. ASSUME NEW j \in Nat PROVE signals'[b][SlotOf(j)][a] = signals[b][SlotOf(j)][a]
      <4>1. SlotOf(j) \in Slots BY SlotIsParity
      <4> QED BY <1>1, <1>7, <2>1, <4>1 DEF IInv, TypeOK
    <3>2. \A j : Pending(a, b, j)' <=> Pending(a, b, j) BY <1>5, <2>1 DEF Pending
    <3>3. Calls \subseteq Nat BY DEF Calls
    <3> QED BY <3>1, <3>2, <3>3 DEF IInv, SlotsHoldLast
  <2>2. CASE a = r /\ b = q
    <3>1. signals'[q][SlotOf(k)][r] = CallCount(k) /\ ~Pending(r, q, k)'
      BY <1>1, <1>3, <1>4, <1>5, <1>7 DEF IInv, TypeOK, Pending
    <3>2. Issued(r, q) \in {called[r] - 1, called[r]} /\ called[r] \in Nat /\ Issued(r, q) \in Int
      BY PairFacts
    <3>3. k \in {Issued(r, q) - 1, Issued(r, q)} BY <1>2, <3>2
    <3>4. ASSUME NEW j \in Nat, j = k - 1 \/ j = k + 1
          PROVE  signals'[q][SlotOf(j)][r] = signals[q][SlotOf(j)][r]
      <4>1. SlotOf(j) \in Slots BY SlotIsParity
      <4>2. SlotOf(j) # SlotOf(k)
        <5>1. j = k - 1 => k = j + 1 BY <1>2
        <5> QED BY <1>2, <3>4, <5>1, SlotsAlternate
      <4> QED BY <1>1, <1>7, <4>1, <4>2 DEF IInv, TypeOK
    <3>5. ASSUME NEW j \in Calls \ {0}, j \in {Issued(r, q) - 1, Issued(r, q)}
          PROVE  signals'[q][SlotOf(j)][r] =
                    IF Pending(r, q, j)' THEN Before(j) ELSE CallCount(j)
      <4>1. CASE j = k BY <3>1, <4>1
      <4>2. CASE j # k
        <5>1. j \in Nat /\ (j = k - 1 \/ j = k + 1)
          BY <1>2, <3>2, <3>3, <3>5, <4>2 DEF Calls
        <5>2. Pending(r, q, j)' <=> Pending(r, q, j) BY <1>5, <4>2 DEF Pending
        <5>3. signals[q][SlotOf(j)][r] = IF Pending(r, q, j) THEN Before(j) ELSE CallCount(j)
          BY <3>5 DEF IInv, SlotsHoldLast
        <5> QED BY <3>4, <5>1, <5>2, <5>3
      <4> QED BY <4>1, <4>2
    <3>6. ASSUME NEW j \in {1, 2}, j > Issued(r, q) PROVE signals'[q][SlotOf(j)][r] = 0
      <4>1. j = k + 1 /\ j \in Nat BY <1>2, <3>2, <3>6
      <4>2. signals[q][SlotOf(j)][r] = 0 BY <3>6 DEF IInv, SlotsHoldLast
      <4> QED BY <3>4, <4>1, <4>2
    <3> QED BY <2>2, <3>5, <3>6
  <2> QED BY <2>1, <2>2
<1> QED BY <1>8, <1>9, <1>10, <1>11, <1>12 DEF IInv

LEMMA NextIInv == IInv /\ [Next]_vars => IInv'
<1> SUFFICES ASSUME IInv, [Next]_vars PROVE IInv' OBVIOUS
<1>1. CASE Next
  BY <1>1, ForwardKeepsIInv, KernelEndKeepsIInv, BlockPutKeepsIInv, BlockWaitKeepsIInv,
     PutReadKeepsIInv, PutDeliverKeepsIInv, SignalDeliverKeepsIInv DEF Next
<1>2. CASE UNCHANGED vars
  BY <1>2 DEF vars, IInv, TypeOK, IdleBlocks, Running, SignalIsLast, WaitsHaveReason,
              Issued, Through, SlotsHoldLast, Pending
<1> QED BY <1>1, <1>2

-----------------------------------------------------------------------------
(* Theorems. *)

\* The types, among them that only two calls of a rank are ever on a wire, and that no
\* signal is out of the range of the count.
THEOREM TypeCorrect == Safe => []TypeOK
<1>1. IInv => TypeOK BY DEF IInv
<1> QED BY InitIInv, NextIInv, <1>1, PTL DEF Safe

LEMMA NoOverrun == IInv => NoSignalOverrun
<1> SUFFICES ASSUME IInv, NEW q \in Ranks, NEW r \in Ranks,
                    blk[q][r] = "wait",
                    called[r] > called[q] \/ (called[r] = called[q] /\ blk[r][q] # "put"),
                    \A op \in wire[r][q] : op.call # called[q]
             PROVE  signals[q][SlotOf(called[q])][r] = CallCount(called[q])
  BY DEF NoSignalOverrun
<1> DEFINE k == called[q]
<1>1. k \in Nat /\ k >= 1 /\ k \in Calls
  <2>1. k \in Nat /\ k <= MaxCalls /\ done[q] \in Nat /\ MaxCalls \in Nat BY PairFacts
  <2>2. done[q] < k BY DEF IInv, IdleBlocks, Running
  <2> QED BY <2>1, <2>2 DEF Calls
<1>2. k <= Issued(r, q)
  <2>1. called[r] \in Nat BY PairFacts
  <2> QED BY <1>1, <2>1 DEF Issued
<1>3. Issued(r, q) \in Int /\ Issued(r, q) <= k + 1
  <2>1. Issued(r, q) \in Int /\ Issued(r, q) <= called[r] /\ called[r] \in Nat BY PairFacts
  <2>2. called[r] - 1 <= Through(r, q) /\ Through(r, q) <= Issued(q, r) BY PairFacts
  <2>3. Issued(q, r) \in Int /\ Issued(q, r) <= k /\ Through(r, q) \in Int BY PairFacts
  <2> QED BY <1>1, <2>1, <2>2, <2>3
<1>4. ~Pending(r, q, k) BY DEF Pending
<1>5. k \in Calls \ {0} /\ k \in {Issued(r, q) - 1, Issued(r, q)} BY <1>1, <1>2, <1>3
<1> QED BY <1>4, <1>5 DEF IInv, SlotsHoldLast

\* No peer gets so far ahead that a later signal of the same slot hides the one that is
\* waited for by equality (src/coll/all2all_impl.cu, nvshmem_signal_wait_until), for any
\* number of ranks and calls, however often the count wraps around.
THEOREM SignalsAreSeen == Safe => []NoSignalOverrun
  BY InitIInv, NextIInv, NoOverrun, PTL DEF Safe

\* A call ends where all peers have begun it.
LEMMA StepRefines == IInv /\ [Next]_vars => [Abstract!Next]_(Abstract!vars)
<1> SUFFICES ASSUME IInv, [Next]_vars PROVE [Abstract!Next]_(Abstract!vars) OBVIOUS
<1> USE DEF Abstract!vars, Abstract!Next
<1>1. ASSUME NEW r \in Ranks, Forward(r) PROVE Abstract!Next
  <2>1. called[r] = done[r]
    <3>1. called[r] \in Nat /\ done[r] \in Nat /\ called[r] \in {done[r], done[r] + 1}
      BY PairFacts DEF IInv, TypeOK
    <3> QED BY <1>1, <3>1 DEF Forward, MayCall, Running
  <2> QED BY <1>1, <2>1 DEF Forward, MayCall, Abstract!Enter
<1>2. ASSUME NEW r \in Ranks, KernelEnd(r) PROVE Abstract!Next
  <2>1. done[r] < called[r] BY <1>2 DEF KernelEnd, KernelMayEnd, Running
  <2>2. ASSUME NEW q \in Ranks PROVE done[r] < called[q]
    <3>1. Through(r, q) = called[r] BY <1>2 DEF KernelEnd, KernelMayEnd, Through
    <3>2. Through(r, q) <= Issued(q, r) /\ Issued(q, r) <= called[q]
          /\ Issued(q, r) \in Int /\ called[q] \in Nat
      BY PairFacts
    <3>3. called[r] \in Nat /\ done[r] \in Nat BY PairFacts
    <3> QED BY <2>1, <3>1, <3>2, <3>3
  <2> QED BY <1>2, <2>1, <2>2 DEF KernelEnd, Abstract!Leave
<1>3. ASSUME NEW r \in Ranks, NEW q \in Ranks,
             \/ BlockPut(r, q) \/ BlockWait(r, q) \/ PutRead(r, q)
             \/ PutDeliver(r, q) \/ SignalDeliver(r, q)
      PROVE  UNCHANGED Abstract!vars
  BY <1>3 DEF BlockPut, BlockWait, WaitOver, PutRead, PutDeliver, SignalDeliver
<1>4. CASE UNCHANGED vars BY <1>4 DEF vars
<1> QED BY <1>1, <1>2, <1>3, <1>4 DEF Next

\* The exchange, which has no barrier in it, orders its calls as a barrier does: it
\* implements the abstract one.
THEOREM Refinement == Safe => CallsAreBarrier
<1>1. Init => Abstract!Init BY DEF Init, Abstract!Init
<1> QED BY InitIInv, NextIInv, StepRefines, <1>1, PTL
        DEF Safe, CallsAreBarrier, Abstract!Safe

-----------------------------------------------------------------------------
(* Outputs, where puts are stores of the kernel's threads. *)

LEMMA InitOInv == Init => OInv
<1> SUFFICES ASSUME Init PROVE OInv OBVIOUS
<1>1. \A r, q \in Ranks : Issued(r, q) = 0 BY DEF Init, Issued
<1>2. SourcesCurrent BY <1>1 DEF Init, SourcesCurrent
<1>3. OutputsHoldLast
  <2>1. \A j \in Calls \ {0} : j # 0 - 1 /\ j # 0 BY CallAssumption DEF Calls
  <2> QED BY <1>1, <2>1 DEF OutputsHoldLast
<1> QED BY <1>2, <1>3 DEF OInv

LEMMA ForwardKeepsOInv ==
    ASSUME IInv, OInv, NEW r \in Ranks, Forward(r)
    PROVE  OInv'
<1> USE DEF Forward, MayCall
<1>1. called[r] \in Nat /\ \A q \in Ranks : blk[r][q] = "done"
  BY PairFacts DEF IInv, IdleBlocks
<1>2. \A a, b \in Ranks : Issued(a, b)' = Issued(a, b)
  <2> SUFFICES ASSUME NEW a \in Ranks, NEW b \in Ranks PROVE Issued(a, b)' = Issued(a, b)
    OBVIOUS
  <2>1. CASE a = r
    <3>1. called'[r] = called[r] + 1 /\ blk'[r][b] = "put" /\ blk[r][b] = "done"
      BY <1>1 DEF IInv, TypeOK
    <3> QED BY <1>1, <2>1, <3>1 DEF Issued
  <2>2. CASE a # r
    <3>1. called'[a] = called[a] /\ blk'[a][b] = blk[a][b]
      BY <2>2 DEF IInv, TypeOK
    <3> QED BY <3>1 DEF Issued
  <2> QED BY <2>1, <2>2
<1>3. SourcesCurrent'
  <2> SUFFICES ASSUME NEW a \in Ranks, NEW b \in Ranks
               PROVE  /\ input'[a] = called'[a]
                      /\ splits[a][b] = Issued(a, b)
                      /\ \A op \in wire[a][b] : op.part \in Sources =>
                            \/ op.val = Unread /\ op.call = called'[a] /\ Running(a)'
                            \/ op.val = op.call
    BY <1>2 DEF SourcesCurrent
  <2>1. splits[a][b] = Issued(a, b) BY DEF OInv, SourcesCurrent
  <2>2. CASE a = r
    <3>1. input'[r] = called'[r] BY DEF IInv, TypeOK
    <3>2. \A op \in wire[r][b] : op.part \in Sources => op.val = op.call
      BY DEF OInv, SourcesCurrent
    <3> QED BY <2>1, <2>2, <3>1, <3>2
  <2>3. CASE a # r
    <3>1. input'[a] = input[a] /\ called'[a] = called[a] /\ done'[a] = done[a]
      BY <2>3 DEF IInv, TypeOK
    <3> QED BY <2>1, <3>1 DEF OInv, SourcesCurrent, Running
  <2> QED BY <2>2, <2>3
<1>4. OutputsHoldLast' BY <1>2 DEF OInv, OutputsHoldLast
<1> QED BY <1>3, <1>4 DEF OInv

LEMMA BlockPutKeepsOInv ==
    ASSUME IInv, OInv, NEW r \in Ranks, NEW q \in Ranks, BlockPut(r, q)
    PROVE  OInv'
<1> DEFINE k == called[r]
           sig == [call |-> k, part |-> "signal", val |-> CallCount(k)]
           puts == {[call |-> k, part |-> part, val |-> Unread] : part \in Sources}
<1> USE DEF BlockPut
<1>1. k \in Nat /\ Running(r) BY PairFacts DEF IInv, IdleBlocks
<1>2. /\ wire'[r][q] = wire[r][q] \cup (puts \cup {sig})
      /\ \A a, b \in Ranks : a # r \/ b # q => wire'[a][b] = wire[a][b]
      /\ called' = called /\ done' = done /\ input' = input /\ out' = out
  BY DEF IInv, TypeOK
<1>3. /\ \A a, b \in Ranks : a # r \/ b # q =>
            Issued(a, b)' = Issued(a, b) /\ splits'[a][b] = splits[a][b]
      /\ Issued(r, q) = k - 1 /\ Issued(r, q)' = k /\ splits'[r][q] = k
  BY DEF IInv, TypeOK, Issued
<1>4. \A op \in puts \cup {sig} : op.call = k /\ (op.part \in Sources => op.val = Unread)
  BY DEF Sources
<1>5. \A part \in Sources : \E op \in puts : op.call = k /\ op.part = part
  <2> SUFFICES ASSUME NEW part \in Sources PROVE \E op \in puts : op.call = k /\ op.part = part
    OBVIOUS
  <2>1. [call |-> k, part |-> part, val |-> Unread] \in puts OBVIOUS
  <2> QED BY <2>1
<1> HIDE DEF sig, puts
<1>6. SourcesCurrent'
  <2> SUFFICES ASSUME NEW a \in Ranks, NEW b \in Ranks
               PROVE  /\ input[a] = called[a]
                      /\ splits'[a][b] = Issued(a, b)'
                      /\ \A op \in wire'[a][b] : op.part \in Sources =>
                            \/ op.val = Unread /\ op.call = called[a] /\ Running(a)
                            \/ op.val = op.call
    BY <1>2 DEF SourcesCurrent, Running
  <2>1. CASE a # r \/ b # q BY <1>2, <1>3, <2>1 DEF OInv, SourcesCurrent
  <2>2. CASE a = r /\ b = q BY <1>1, <1>2, <1>3, <1>4, <2>2 DEF OInv, SourcesCurrent
  <2> QED BY <2>1, <2>2
<1>7. OutputsHoldLast'
  <2> SUFFICES ASSUME NEW a \in Ranks, NEW b \in Ranks, NEW j \in Calls \ {0},
                      NEW part \in Sources,
                      j \in {Issued(a, b)' - 1, Issued(a, b)'},
                      \A op \in wire'[a][b] : op.call = j => op.part # part
               PROVE  out[b][SlotOf(j)][a][part] = j
    BY <1>2 DEF OutputsHoldLast
  <2>1. CASE a # r \/ b # q BY <1>2, <1>3, <2>1 DEF OInv, OutputsHoldLast
  <2>2. CASE a = r /\ b = q
    <3>1. j = k - 1 BY <1>2, <1>3, <1>5, <2>2
    <3>2. \A op \in wire[r][q] : op.call = j => op.part # part BY <1>2, <2>2
    <3>3. j \in {Issued(r, q) - 1, Issued(r, q)} BY <1>3, <3>1
    <3>4. out[q][SlotOf(j)][r][part] = j BY <3>2, <3>3 DEF OInv, OutputsHoldLast
    <3> QED BY <2>2, <3>4
  <2> QED BY <2>1, <2>2
<1> QED BY <1>6, <1>7 DEF OInv

LEMMA PutReadKeepsOInv ==
    ASSUME IInv, OInv, NEW r \in Ranks, NEW q \in Ranks, PutRead(r, q)
    PROVE  OInv'
<1>1. PICK op \in wire[r][q] :
        /\ op.val = Unread
        /\ LET source == IF op.part = "data" THEN input[r] ELSE splits[r][q]
           IN  wire' = [wire EXCEPT ![r][q] =
                            (@ \ {op}) \cup {[op EXCEPT !.val = source]}]
        /\ UNCHANGED <<input, splits, called, done, blk, out, signals>>
  BY DEF PutRead
<1> DEFINE source == IF op.part = "data" THEN input[r] ELSE splits[r][q]
           new == [op EXCEPT !.val = source]
<1>2. op \in Ops /\ op.call \in Nat \ {0} /\ op.call <= Issued(r, q) BY OpFacts
<1>3. op.part \in Sources => source = op.call
  <2>1. op.part \in Sources => op.call = called[r]
    BY <1>1, <1>2 DEF OInv, SourcesCurrent, Unread
  <2>2. input[r] = called[r] /\ splits[r][q] = Issued(r, q) BY DEF OInv, SourcesCurrent
  <2>3. Issued(r, q) \in Int /\ Issued(r, q) <= called[r] /\ called[r] \in Nat BY PairFacts
  <2> QED BY <1>2, <2>1, <2>2, <2>3
<1>4. new.call = op.call /\ new.part = op.part /\ new.val = source BY <1>2 DEF Ops
<1>5. /\ wire'[r][q] = (wire[r][q] \ {op}) \cup {new}
      /\ \A a, b \in Ranks : a # r \/ b # q => wire'[a][b] = wire[a][b]
  BY <1>1 DEF IInv, TypeOK
<1> HIDE DEF new, source
<1>6. UNCHANGED <<input, splits, called, done, out>>
      /\ \A a, b \in Ranks : Issued(a, b)' = Issued(a, b)
  BY <1>1 DEF Issued
<1>7. SourcesCurrent'
  <2> SUFFICES ASSUME NEW a \in Ranks, NEW b \in Ranks, NEW o \in wire'[a][b],
                      o.part \in Sources
               PROVE  \/ o.val = Unread /\ o.call = called[a] /\ Running(a)
                      \/ o.val = o.call
    BY <1>6 DEF OInv, SourcesCurrent, Running
  <2>1. CASE o \in wire[a][b] BY <2>1 DEF OInv, SourcesCurrent
  <2>2. CASE o \notin wire[a][b]
    <3>1. o = new BY <1>5, <2>2
    <3> QED BY <1>3, <1>4, <3>1
  <2> QED BY <2>1, <2>2
<1>8. OutputsHoldLast'
  <2>1. \A a, b \in Ranks : \A p \in wire[a][b] :
            \E o \in wire'[a][b] : p.call = o.call /\ p.part = o.part
    BY <1>4, <1>5
  <2> QED BY <1>6, <2>1 DEF OInv, OutputsHoldLast
<1> QED BY <1>7, <1>8 DEF OInv

LEMMA PutDeliverKeepsOInv ==
    ASSUME IInv, OInv, NEW r \in Ranks, NEW q \in Ranks, PutDeliver(r, q)
    PROVE  OInv'
<1>1. PICK op \in wire[r][q] :
        /\ op.part \in Sources /\ op.val # Unread
        /\ out' = [out EXCEPT ![q][SlotOf(op.call)][r][op.part] = op.val]
        /\ wire' = [wire EXCEPT ![r][q] = @ \ {op}]
        /\ UNCHANGED <<input, splits, called, done, blk, signals>>
  BY DEF PutDeliver
<1> DEFINE k == op.call
<1>2. /\ k \in Nat \ {0} /\ k \in Calls
      /\ k \in {called[r] - 1, called[r]} /\ k <= Issued(r, q) /\ op \in Ops
  BY OpFacts
<1>3. op.val = k BY <1>1 DEF OInv, SourcesCurrent
<1>4. /\ wire'[r][q] = wire[r][q] \ {op}
      /\ \A a, b \in Ranks : a # r \/ b # q => wire'[a][b] = wire[a][b]
      /\ \A a, b \in Ranks : wire'[a][b] \subseteq wire[a][b]
  BY <1>1 DEF IInv, TypeOK
<1>5. UNCHANGED <<input, splits, called, done>>
      /\ \A a, b \in Ranks : Issued(a, b)' = Issued(a, b)
  BY <1>1 DEF Issued
<1>6. SlotOf(k) \in Slots BY <1>2, SlotIsParity
<1>7. SourcesCurrent' BY <1>4, <1>5 DEF OInv, SourcesCurrent, Running
<1>8. OutputsHoldLast'
  <2> SUFFICES ASSUME NEW a \in Ranks, NEW b \in Ranks, NEW j \in Calls \ {0},
                      NEW part \in Sources,
                      j \in {Issued(a, b) - 1, Issued(a, b)},
                      \A o \in wire'[a][b] : o.call = j => o.part # part
               PROVE  out'[b][SlotOf(j)][a][part] = j
    BY <1>5 DEF OutputsHoldLast
  <2>1. j \in Nat /\ SlotOf(j) \in Slots BY SlotIsParity DEF Calls
  <2>2. CASE a # r \/ b # q \/ part # op.part
    <3>1. out'[b][SlotOf(j)][a][part] = out[b][SlotOf(j)][a][part]
      BY <1>1, <1>6, <2>1, <2>2 DEF IInv, TypeOK
    <3>2. \A o \in wire[a][b] : o.call = j => o.part # part BY <1>4, <2>2
    <3> QED BY <3>1, <3>2 DEF OInv, OutputsHoldLast
  <2>3. CASE a = r /\ b = q /\ part = op.part /\ j = k
    BY <1>1, <1>3, <1>6, <2>3 DEF IInv, TypeOK
  <2>4. CASE a = r /\ b = q /\ part = op.part /\ j # k
    <3>1. Issued(r, q) \in {called[r] - 1, called[r]} /\ called[r] \in Nat
          /\ Issued(r, q) \in Int
      BY PairFacts
    <3>2. j = k - 1 \/ j = k + 1 BY <1>2, <2>1, <2>4, <3>1
    <3>3. SlotOf(j) # SlotOf(k)
      <4>1. j = k - 1 => k = j + 1 BY <1>2
      <4> QED BY <1>2, <2>1, <3>2, <4>1, SlotsAlternate
    <3>4. out'[b][SlotOf(j)][a][part] = out[b][SlotOf(j)][a][part]
      BY <1>1, <1>6, <2>1, <2>4, <3>3 DEF IInv, TypeOK
    <3>5. \A o \in wire[a][b] : o.call = j => o.part # part BY <1>4, <2>4
    <3> QED BY <3>4, <3>5 DEF OInv, OutputsHoldLast
  <2> QED BY <2>2, <2>3, <2>4
<1> QED BY <1>7, <1>8 DEF OInv

LEMMA SignalDeliverKeepsOInv ==
    ASSUME IInv, OInv, NEW r \in Ranks, NEW q \in Ranks, SignalDeliver(r, q)
    PROVE  OInv'
<1>1. PICK op \in wire[r][q] :
        /\ op.part = "signal"
        /\ wire' = [wire EXCEPT ![r][q] = @ \ {op}]
        /\ UNCHANGED <<input, splits, called, done, blk, out>>
  BY DEF SignalDeliver
<1>2. \A a, b \in Ranks : /\ wire'[a][b] \subseteq wire[a][b]
                          /\ \A o \in wire[a][b] : o.part \in Sources => o \in wire'[a][b]
  BY <1>1 DEF IInv, TypeOK, Sources
<1>3. UNCHANGED <<input, splits, called, done, out>>
      /\ \A a, b \in Ranks : Issued(a, b)' = Issued(a, b)
  BY <1>1 DEF Issued
<1>4. SourcesCurrent' BY <1>2, <1>3 DEF OInv, SourcesCurrent, Running
<1>5. OutputsHoldLast' BY <1>2, <1>3 DEF OInv, OutputsHoldLast
<1> QED BY <1>4, <1>5 DEF OInv

LEMMA NextOInv == ASSUME StoresByThreads PROVE IInv /\ OInv /\ [Next]_vars => OInv'
<1> SUFFICES ASSUME IInv, OInv, [Next]_vars PROVE OInv' OBVIOUS
<1>1. ASSUME NEW r \in Ranks, KernelEnd(r) PROVE OInv'
  <2>1. \A q \in Ranks : \A op \in wire[r][q] : op.val # Unread
    BY <1>1 DEF KernelEnd, KernelMayEnd
  <2>2. \A a, b \in Ranks : Issued(a, b)' = Issued(a, b) BY <1>1 DEF KernelEnd, Issued
  <2>3. \A a \in Ranks : a # r => (Running(a)' <=> Running(a))
    BY <1>1 DEF KernelEnd, KernelMayEnd, Running, IInv, TypeOK
  <2>4. SourcesCurrent' BY <1>1, <2>1, <2>2, <2>3 DEF KernelEnd, OInv, SourcesCurrent
  <2>5. OutputsHoldLast' BY <1>1, <2>2 DEF KernelEnd, OInv, OutputsHoldLast
  <2> QED BY <2>4, <2>5 DEF OInv
<1>2. ASSUME NEW q \in Ranks, NEW r \in Ranks, BlockWait(q, r) PROVE OInv'
  <2>1. \A a, b \in Ranks : Issued(a, b)' = Issued(a, b)
    BY <1>2 DEF BlockWait, WaitOver, IInv, TypeOK, Issued
  <2> QED BY <1>2, <2>1 DEF BlockWait, OInv, SourcesCurrent, OutputsHoldLast, Running
<1>3. CASE UNCHANGED vars
  BY <1>3 DEF vars, OInv, SourcesCurrent, OutputsHoldLast, Running, Issued
<1> QED BY <1>1, <1>2, <1>3, ForwardKeepsOInv, BlockPutKeepsOInv, PutReadKeepsOInv,
           PutDeliverKeepsOInv, SignalDeliverKeepsOInv DEF Next

LEMMA OutputsAfterWait == IInv /\ OInv => OutputsCurrent
<1> SUFFICES ASSUME IInv, OInv, NEW q \in Ranks, NEW r \in Ranks, NEW part \in Sources,
                    ~Running(q), done[q] > 0
             PROVE  out[q][SlotOf(done[q])][r][part] = done[q]
  BY DEF OutputsCurrent
<1> DEFINE k == done[q]
<1>1. k \in Nat /\ k = called[q] /\ blk[q][r] = "done" /\ k \in Calls
  <2>1. called[q] \in Nat /\ done[q] \in Nat /\ called[q] \in {done[q], done[q] + 1}
        /\ done[q] \in Calls
    BY PairFacts DEF IInv, TypeOK
  <2> QED BY <2>1 DEF Running, IInv, IdleBlocks
<1>2. Through(q, r) = k BY <1>1 DEF Through
<1>3. k <= Issued(r, q) /\ \A op \in wire[r][q] : op.call # k
  <2>1. \A op \in wire[r][q] : op.call > k /\ op.call \in Nat
    BY <1>2, OpFacts DEF IInv, WaitsHaveReason
  <2> QED BY <1>1, <1>2, <2>1 DEF IInv, WaitsHaveReason
<1>4. Issued(r, q) \in Int /\ Issued(r, q) <= k + 1
  <2>1. Issued(r, q) \in Int /\ Issued(r, q) <= called[r] /\ called[r] \in Nat BY PairFacts
  <2>2. called[r] - 1 <= Through(r, q) /\ Through(r, q) <= Issued(q, r) BY PairFacts
  <2>3. Issued(q, r) \in Int /\ Issued(q, r) <= called[q] /\ Through(r, q) \in Int BY PairFacts
  <2> QED BY <1>1, <2>1, <2>2, <2>3
<1>5. k \in Calls \ {0} /\ k \in {Issued(r, q) - 1, Issued(r, q)} BY <1>1, <1>3, <1>4
<1> QED BY <1>3, <1>5 DEF OInv, OutputsHoldLast

\* Where puts are stores of the kernel's own threads a caller finds, behind a call and
\* until the next, the tokens and splits of exactly that call.  (Where a NIC reads the
\* sources, it may not: the run all2all_inference_nic.)
THEOREM OutputsAreCurrent == ASSUME StoresByThreads PROVE Safe => []OutputsCurrent
<1>1. IInv /\ OInv => OutputsCurrent BY OutputsAfterWait
<1>2. IInv /\ OInv /\ [Next]_vars => IInv' /\ OInv' BY NextIInv, NextOInv
<1> QED BY InitIInv, InitOInv, <1>1, <1>2, PTL DEF Safe

-----------------------------------------------------------------------------
(* Somebody moves. *)

\* A least element.
LEMMA Least == ASSUME NEW S \in SUBSET Nat, S # {}
               PROVE  \E x \in S : \A y \in S : x <= y
<1> DEFINE R == OpToRel(LAMBDA x, y : x < y, Nat)
<1>1. IsWellFoundedOn(R, Nat) BY NatLessThanWellFounded
<1>2. PICK x \in S : \A y \in S : ~(<<y, x>> \in R) BY <1>1, WFMin
<1>3. \A y \in S : ~(y < x) BY <1>2 DEF OpToRel
<1> QED BY <1>3

\* As long as something is in flight something can be read or delivered: a put, or a
\* signal whose puts have come.
LEMMA NothingInFlight ==
    ASSUME IInv, NEW r \in Ranks, NEW q \in Ranks, ~CanMove(r)
    PROVE  wire[r][q] = {}
<1>1. \A op \in wire[r][q] : op.part \notin Sources /\ ~Fenced(r, q, op.call) BY DEF CanMove
<1>2. \A op \in wire[r][q] : op.part \in Sources \cup {"signal"} BY DEF IInv, TypeOK, Ops
<1>3. \A op \in wire[r][q] : op.part = "signal" BY <1>1, <1>2
<1> QED BY <1>1, <1>3 DEF Fenced

\* If nobody can move, the rank with the fewest completed calls is not in a call: it
\* finds the signal of every peer.
LEMMA LastIsServed ==
    ASSUME IInv, \A p \in Ranks : ~CanMove(p), NEW q \in Ranks, NEW r \in Ranks,
           done[q] <= done[r], Running(q)
    PROVE  blk[q][r] = "done"
<1>1. /\ done[q] \in Nat /\ called[q] = done[q] + 1 /\ called[q] <= MaxCalls
      /\ done[r] \in Nat /\ called[r] \in {done[r], done[r] + 1} /\ MaxCalls \in Nat
  BY CallAssumption DEF IInv, TypeOK, Calls, Running
<1>2. blk[q][r] \in {"wait", "done"} /\ blk[r][q] # "put" /\ blk[q][r] # "put"
  BY DEF CanMove, IInv, TypeOK
<1>3. Issued(r, q) = called[r] /\ Issued(q, r) = called[q] BY <1>2 DEF Issued
<1>4. called[r] >= called[q]
  <2>1. called[r] = done[r] => ~(called[r] < MaxCalls) BY <1>1 DEF CanMove, MayCall, Running
  <2> QED BY <1>1, <2>1
<1>5. called[r] <= called[q] + 1
  <2>1. Through(r, q) <= Issued(q, r) BY DEF IInv, WaitsHaveReason
  <2>2. Through(r, q) >= called[r] - 1 BY <1>1 DEF Through
  <2>3. Through(r, q) \in Int BY <1>1 DEF Through
  <2> QED BY <1>1, <1>3, <2>1, <2>2, <2>3
<1>6. called[q] \in Calls \ {0} /\ called[q] \in {Issued(r, q) - 1, Issued(r, q)}
  BY <1>1, <1>3, <1>4, <1>5 DEF Calls
<1>7. ~Pending(r, q, called[q]) BY NothingInFlight DEF Pending
<1>8. signals[q][SlotOf(called[q])][r] = CallCount(called[q])
  BY <1>6, <1>7 DEF IInv, SlotsHoldLast
<1> QED BY <1>2, <1>8 DEF CanMove, WaitOver, SignalSeen

\* No call waits for ever, whatever reads the sources of the puts.
THEOREM CallsNeverStuck == Safe => []NeverStuck
<1>1. ASSUME IInv PROVE NeverStuck
  <2> SUFFICES ASSUME ~Completed, \A p \in Ranks : ~CanMove(p) PROVE FALSE BY DEF NeverStuck
  <2>1. \A p \in Ranks : /\ done[p] \in Nat /\ called[p] \in {done[p], done[p] + 1}
                         /\ called[p] <= MaxCalls /\ MaxCalls \in Nat
    BY <1>1, CallAssumption DEF IInv, TypeOK, Calls
  <2> DEFINE D == {done[p] : p \in Ranks}
  <2>2. PICK d \in D : \A e \in D : d <= e
    <3>1. D \in SUBSET Nat /\ D # {} BY <2>1 DEF Completed
    <3> HIDE DEF D
    <3> QED BY <3>1, Least
  <2>3. PICK q \in Ranks : \A r \in Ranks : done[q] <= done[r] BY <2>2
  <2>4. PICK p \in Ranks : done[p] < MaxCalls BY <2>1 DEF Completed
  <2>5. done[q] < MaxCalls BY <2>1, <2>3, <2>4
  <2>6. Running(q) BY <2>1, <2>5 DEF CanMove, MayCall, Running
  <2>7. \A r \in Ranks : blk[q][r] = "done" BY <1>1, <2>3, <2>6, LastIsServed
  <2>8. \A r \in Ranks : wire[q][r] = {} BY <1>1, NothingInFlight
  <2>9. KernelMayEnd(q) BY <2>6, <2>7, <2>8 DEF KernelMayEnd
  <2> QED BY <2>9 DEF CanMove
<1> QED BY <1>1, InitIInv, NextIInv, PTL DEF Safe
=============================================================================
