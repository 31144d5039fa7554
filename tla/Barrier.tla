------------------------------- MODULE Barrier -------------------------------
(***************************************************************************)
(* What a barrier over a set of ranks promises its callers, whatever the   *)
(* kernel behind it: rank r begins its k-th call (Enter), and the call     *)
(* returns (Leave) only when every rank has begun its own k-th call.       *)
(* Calls may follow each other at once: a fast rank may begin call k+1     *)
(* while a slow one is still inside call k.                                *)
(***************************************************************************)
EXTENDS Naturals

CONSTANTS
    Ranks,      \* the ranks of the group
    MaxCalls    \* bound on the calls each rank makes

VARIABLES
    entered,    \* entered[r]: barrier calls rank r has begun
    left        \* left[r]: barrier calls of rank r that have returned

vars == <<entered, left>>

Init == /\ entered = [r \in Ranks |-> 0]
        /\ left    = [r \in Ranks |-> 0]

Enter(r) == /\ entered[r] = left[r]
            /\ entered[r] < MaxCalls
            /\ entered' = [entered EXCEPT ![r] = @ + 1]
            /\ UNCHANGED left

Leave(r) == /\ left[r] < entered[r]
            /\ \A q \in Ranks : left[r] < entered[q]
            /\ left' = [left EXCEPT ![r] = @ + 1]
            /\ UNCHANGED entered

Next == \E r \in Ranks : Enter(r) \/ Leave(r)

Safe == Init /\ [][Next]_vars

\* A call that may return does: the device keeps scheduling a running kernel.
Spec == Safe /\ \A r \in Ranks : WF_vars(Leave(r))
=============================================================================
