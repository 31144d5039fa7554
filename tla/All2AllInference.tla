--------------------------- MODULE All2AllInference ---------------------------
(***************************************************************************)
(* All2AllInference (src/coll/ths_op/all2all_op.cc) and its kernel         *)
(* all2all_v2 (src/coll/all2all_impl.cu): in every call each rank puts a   *)
(* part of its input buffer, with the splits of its experts, into the      *)
(* output buffer of each peer through NVSHMEM, one CTA per peer, and waits *)
(* for a signal of each.  There is no barrier: outputs, splits and signals *)
(* have two slots used in turn, the signal is the call count, set and      *)
(* waited for by equality, and the count wraps around at MOD_VALUE.        *)
(*                                                                         *)
(* Data is the number of the call it belongs to.  External, modelled by    *)
(* how the kernel uses it: a non-blocking put reads its source some time   *)
(* after the call and is written some time after that, in any order; the   *)
(* fence puts the signal behind the puts of its call.  The scales, a third *)
(* put that carries the signal, are left out.                              *)
(***************************************************************************)
EXTENDS Integers, FiniteSets

CONSTANTS
    Ranks,          \* the processing elements
    ModValue,       \* MOD_VALUE, 1000000: even, and 2 would wrap to the initial 0
    StoresByThreads,\* TRUE: puts are stores of the kernel's own threads (NVLink
                    \* peers), FALSE: a NIC reads the sources
    MaxCalls        \* bound on the calls each rank makes

ASSUME CallAssumption ==
    /\ IsFiniteSet(Ranks)
    /\ ModValue \in Nat /\ ModValue >= 4 /\ ModValue % 2 = 0
    /\ StoresByThreads \in BOOLEAN
    /\ MaxCalls \in Nat

Calls   == 0..MaxCalls
Slots   == {0, 1}
Sources == {"data", "splits"}
Unread  == -1

\* A put or the signal of a call; val is what it carries, once it is read.
Ops == [call : Calls, part : Sources \cup {"signal"}, val : Calls \cup {Unread}]

VARIABLES
    input,      \* input[r]: the call whose tokens input_buffer holds
    splits,     \* splits[r][q]: likewise for q's part of splits_input_buffer
    called,     \* called[r]: calls of forward
    done,       \* done[r]: calls whose kernel has completed
    blk,        \* blk[r][q]: where the CTA for peer q is
    wire,       \* wire[r][q]: operations of r towards q not yet delivered
    out,        \* out[q][slot][r][part]: what output and splits of q hold
    signals     \* signals[q][slot][r]: signal_buffer of q

vars == <<input, splits, called, done, blk, wire, out, signals>>

-----------------------------------------------------------------------------
\* call_count of the k-th call: it starts at 1.
CallCount(k) == k % ModValue

\* Bug form of SlotOf: no double buffering.
SlotSingle(k) == 0

\* act_pos = call_count % 2
SlotOf(k) == CallCount(k) % 2

Running(r) == done[r] < called[r]

\* "the initial values of signal buffer is 0": what the constructor relies on.
Init ==
    /\ input   = [r \in Ranks |-> 0]
    /\ splits  = [r \in Ranks |-> [q \in Ranks |-> 0]]
    /\ called  = [r \in Ranks |-> 0]
    /\ done    = [r \in Ranks |-> 0]
    /\ blk     = [r \in Ranks |-> [q \in Ranks |-> "done"]]
    /\ wire    = [r \in Ranks |-> [q \in Ranks |-> {}]]
    /\ out     = [q \in Ranks |-> [s \in Slots |-> [r \in Ranks |->
                        [part \in Sources |-> 0]]]]
    /\ signals = [q \in Ranks |-> [s \in Slots |-> [r \in Ranks |-> 0]]]

-----------------------------------------------------------------------------
\* "last op before all2all should directly write the output into the nvshmem
\* comm buffer": the caller's op fills input_buffer, and forward launches the
\* kernel behind it.
MayCall(r) == ~Running(r) /\ called[r] < MaxCalls

Forward(r) ==
    /\ MayCall(r)
    /\ input' = [input EXCEPT ![r] = called[r] + 1]
    /\ called' = [called EXCEPT ![r] = @ + 1]
    /\ blk' = [blk EXCEPT ![r] = [q \in Ranks |-> "put"]]
    /\ UNCHANGED <<splits, done, wire, out, signals>>

\* The CTA for q writes the splits, issues both puts, and behind the fence the
\* signal.
BlockPut(r, q) ==
    LET k == called[r]
    IN  /\ blk[r][q] = "put"
        /\ splits' = [splits EXCEPT ![r][q] = k]
        /\ wire' = [wire EXCEPT ![r][q] = @ \cup
                {[call |-> k, part |-> part, val |-> Unread] : part \in Sources}
                \cup {[call |-> k, part |-> "signal", val |-> CallCount(k)]}]
        /\ blk' = [blk EXCEPT ![r][q] = "wait"]
        /\ UNCHANGED <<input, called, done, out, signals>>

\* Bug forms of SignalSeen: any signal of the slot counts, or only a later one.
SignalSeenAny(value, k) == value > 0
SignalSeenLater(value, k) == value > CallCount(k)

\* nvshmem_signal_wait_until(signal_buffer + bid, NVSHMEM_CMP_EQ, call_count)
SignalSeen(value, k) == value = CallCount(k)

WaitOver(r, q) ==
    blk[r][q] = "wait" /\ SignalSeen(signals[r][SlotOf(called[r])][q], called[r])

BlockWait(r, q) ==
    /\ WaitOver(r, q)
    /\ blk' = [blk EXCEPT ![r][q] = "done"]
    /\ UNCHANGED <<input, splits, called, done, wire, out, signals>>

\* Every CTA is through.  The kernel calls no quiet, so that only stores of its
\* own threads are known to have read their sources when it ends.
KernelMayEnd(r) ==
    /\ Running(r)
    /\ \A q \in Ranks : blk[r][q] = "done"
    /\ StoresByThreads => \A q \in Ranks : \A op \in wire[r][q] : op.val # Unread

KernelEnd(r) ==
    /\ KernelMayEnd(r)
    /\ done' = [done EXCEPT ![r] = @ + 1]
    /\ UNCHANGED <<input, splits, called, blk, wire, out, signals>>

-----------------------------------------------------------------------------
\* The source of a put is read.
PutRead(r, q) ==
    \E op \in wire[r][q] :
        /\ op.val = Unread
        /\ LET source == IF op.part = "data" THEN input[r] ELSE splits[r][q]
           IN  wire' = [wire EXCEPT ![r][q] =
                            (@ \ {op}) \cup {[op EXCEPT !.val = source]}]
        /\ UNCHANGED <<input, splits, called, done, blk, out, signals>>

\* A put is written into the slot of its call.
PutDeliver(r, q) ==
    \E op \in wire[r][q] :
        /\ op.part \in Sources /\ op.val # Unread
        /\ out' = [out EXCEPT ![q][SlotOf(op.call)][r][op.part] = op.val]
        /\ wire' = [wire EXCEPT ![r][q] = @ \ {op}]
        /\ UNCHANGED <<input, splits, called, done, blk, signals>>

\* nvshmem_fence: the puts of the call come first.
Fenced(r, q, k) == \A op \in wire[r][q] : op.call = k => op.part = "signal"

\* NVSHMEM_SIGNAL_SET
SignalDeliver(r, q) ==
    \E op \in wire[r][q] :
        /\ op.part = "signal"
        /\ Fenced(r, q, op.call)
        /\ signals' = [signals EXCEPT ![q][SlotOf(op.call)][r] = op.val]
        /\ wire' = [wire EXCEPT ![r][q] = @ \ {op}]
        /\ UNCHANGED <<input, splits, called, done, blk, out>>

Next == \E r \in Ranks :
            \/ Forward(r)
            \/ KernelEnd(r)
            \/ \E q \in Ranks : \/ BlockPut(r, q) \/ BlockWait(r, q)
                                \/ PutRead(r, q) \/ PutDeliver(r, q)
                                \/ SignalDeliver(r, q)

Safe == Init /\ [][Next]_vars

\* No step undoes another: it is enough that not everything stops while
\* something can move.
Spec == Safe /\ WF_vars(Next)

-----------------------------------------------------------------------------
\* Every variable has its type; at most two calls are on a wire.
TypeOK ==
    /\ input \in [Ranks -> Calls]
    /\ splits \in [Ranks -> [Ranks -> Calls]]
    /\ called \in [Ranks -> Calls] /\ done \in [Ranks -> Calls]
    /\ \A r \in Ranks : called[r] \in {done[r], done[r] + 1}
    /\ blk \in [Ranks -> [Ranks -> {"put", "wait", "done"}]]
    /\ wire \in [Ranks -> [Ranks -> SUBSET Ops]]
    /\ \A r, q \in Ranks : \A op \in wire[r][q] : op.call \in {called[r] - 1, called[r]}
    /\ out \in [Ranks -> [Slots -> [Ranks -> [Sources -> Calls]]]]
    /\ signals \in [Ranks -> [Slots -> [Ranks -> 0..(ModValue - 1)]]]

\* From the end of a call until the next one the caller finds the tokens and
\* the splits of exactly that call of every peer: nothing has come late,
\* nothing of a peer that is one call ahead has come early, and no put has read
\* a source that was refilled in the meantime.
OutputsCurrent ==
    \A q, r \in Ranks : \A part \in Sources :
        ~Running(q) /\ done[q] > 0 =>
            out[q][SlotOf(done[q])][r][part] = done[q]

\* A signal that has come is still there when it is waited for: no peer gets so
\* far ahead that a later SET of the same slot hides it from the wait for
\* equality.
NoSignalOverrun ==
    \A q, r \in Ranks :
        LET k == called[q]
        IN  /\ blk[q][r] = "wait"
            /\ called[r] > k \/ (called[r] = k /\ blk[r][q] # "put")
            /\ \A op \in wire[r][q] : op.call # k
            => signals[q][SlotOf(k)][r] = CallCount(k)

\* Without any barrier in it, the exchange orders the calls as one does.
Abstract == INSTANCE Barrier WITH entered <- called, left <- done
CallsAreBarrier == Abstract!Safe

Completed == \A r \in Ranks : done[r] = MaxCalls

\* Some step of r can be done: it is called, its kernel goes on or ends, or something
\* of it in flight is read or delivered.
CanMove(r) ==
    \/ MayCall(r) \/ KernelMayEnd(r)
    \/ \E q \in Ranks :
        \/ blk[r][q] = "put" \/ WaitOver(r, q)
        \/ \E op \in wire[r][q] : op.part \in Sources \/ Fenced(r, q, op.call)

\* No call waits for ever: until all are through, some rank can move.
NeverStuck == Completed \/ \E r \in Ranks : CanMove(r)

\* Every rank completes every call, also behind the wrap-around of the count.
AllCallsComplete == <>Completed
=============================================================================
