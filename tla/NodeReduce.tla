------------------------------ MODULE NodeReduce ------------------------------
(***************************************************************************)
(* What the fused SM90 GEMM+ReduceScatter kernels of one node promise to   *)
(* whoever uses their sums: a rank publishes the sum of a segment only     *)
(* once every peer of its node is in the same forward or a later one, and  *)
(* what it publishes is the sum of the partial products of that forward.   *)
(***************************************************************************)
EXTENDS Integers

CONSTANTS
    Ranks,          \* ranks
    Peers,          \* Peers[r]: the ranks of r's node, r included
    Segments,       \* the tiles whose sum over the node a rank computes
    MaxForwards     \* bound on the forwards

VARIABLES
    launched,       \* launched[r]: forwards whose GEMM kernel r has launched
    ended,          \* ended[r]: forwards whose GEMM kernel has ended on r
    published       \* published[r][y]: forward of the sum of y, 0 if not yet

nvars == <<launched, ended, published>>

NInit ==
    /\ launched  = [r \in Ranks |-> 0]
    /\ ended     = [r \in Ranks |-> 0]
    /\ published = [r \in Ranks |-> [y \in Segments |-> 0]]

NLaunch(r) ==
    /\ launched[r] = ended[r]
    /\ launched[r] < MaxForwards
    /\ launched' = [launched EXCEPT ![r] = @ + 1]
    /\ published' = [published EXCEPT ![r] = [y \in Segments |-> 0]]
    /\ UNCHANGED ended

NPublish(r, y) ==
    /\ ended[r] < launched[r]
    /\ published[r][y] = 0
    /\ \A p \in Peers[r] : launched[p] >= launched[r]
    /\ published' = [published EXCEPT ![r][y] = launched[r]]
    /\ UNCHANGED <<launched, ended>>

NEnd(r) ==
    /\ ended[r] < launched[r]
    /\ \A y \in Segments : published[r][y] # 0
    /\ ended' = [ended EXCEPT ![r] = launched[r]]
    /\ UNCHANGED <<launched, published>>

\* The ranks of a set launch together, behind a collective allocation.
NLaunchAll ==
    /\ \A r \in Ranks : launched[r] = ended[r] /\ launched[r] < MaxForwards
    /\ launched' = [r \in Ranks |-> launched[r] + 1]
    /\ published' = [r \in Ranks |-> [y \in Segments |-> 0]]
    /\ UNCHANGED ended

NNext ==
    \/ \E r \in Ranks : NLaunch(r) \/ NEnd(r) \/ \E y \in Segments : NPublish(r, y)
    \/ NLaunchAll

NSpec == NInit /\ [][NNext]_nvars
=============================================================================
