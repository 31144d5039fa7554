------------------------------ MODULE MCExchanges ------------------------------
(***************************************************************************)
(* The exchanges of src/coll/ for TLC, one of them in each behaviour:      *)
(*   main     All2AllInference with the constants of the .cfg: two ranks   *)
(*            and more calls than ModValue, so that both slots are used    *)
(*            again and the count wraps around.  ModValue is even and at   *)
(*            least 4, as MOD_VALUE is; with 2 the wrapped count would be  *)
(*            the initial signal                                           *)
(*   team     TeamExchange in the configurations below                     *)
(* The variables of the other stay as they are.                            *)
(***************************************************************************)
EXTENDS All2AllInference, Sequences

VARIABLES
    instance,       \* the component of this behaviour
    exchange, forward, stage, waiting, did, remote, seen, mem, met, bad
                    \* those of TeamExchange, remote for its wire

(***************************************************************************)
(* Two forwards of each.  layer is what a layer does: the dispatch, whose  *)
(* rows are used where they are, and the combine; between two ranks of two *)
(* nodes, with a block of tokens across two splits and two warps of the    *)
(* same peer to wait for.  rail does the same on two nodes of two ranks,   *)
(* where tokens go by way of the rank of their rail, and sums by the peers *)
(* of their node; in one forward.  node does it in one node.  dispatches   *)
(* and combines follow each other, with the barrier behind the copy out    *)
(* and the extra barrier.                                                  *)
(***************************************************************************)
Dispatch == <<"copy", "dispatch", "zero", "team", "rows">>
Combine  == <<"experts", "node", "combine", "team", "reduce">>

Team(nodes, local, experts, stages) ==
    [nodes |-> nodes, local |-> local, block |-> 2, splits |-> 2,
     experts |-> [r \in 0..(nodes * local - 1) |-> experts[r + 1]],
     senders |-> 2, dispatchers |-> 1, copiers |-> 2, stages |-> stages, forwards |-> 2]

Rail(stages, forwards) ==
    [Team(2, 2, << <<{2, 3}>>, <<>>, <<>>, <<{0, 3}>> >>, stages) EXCEPT
        !.block = 1, !.splits = 1, !.senders = 1, !.forwards = forwards]

NoTokens == <<<<>>, <<>>, <<>>>>

TeamConfigs ==
    [layer      |-> Team(2, 1, << <<{0}, {0, 1}>>, <<{0}>> >>, Dispatch \o Combine),
     rail       |-> Rail(Dispatch \o Combine, 1),
     node       |-> Team(1, 3, << <<{0, 1}>>, <<{1, 2}>>, <<{0}>> >>,
                         Dispatch \o <<"experts", "combine", "team", "reduce">>),
     dispatches |-> [Team(2, 1, << <<{1}>>, <<{0, 1}>> >>, Dispatch \o <<"team">>) EXCEPT
                        !.splits = 1, !.senders = 1],
     combines   |-> Rail(Combine \o <<"team">>, 2),
     single     |-> Team(1, 2, NoTokens, <<"segments", "exchange", "team", "got", "team">>),
     indices    |-> Team(1, 3, NoTokens, <<"indices", "team", "allIndices", "team">>)]

Exchanges == INSTANCE TeamExchange WITH Configs <- TeamConfigs, wire <- remote

\* What the theorems about TeamExchange assume holds of these configurations.
ASSUME ConfigsSound == Exchanges!ConfigsOK

teamVars == <<exchange, forward, stage, waiting, did, remote, seen, mem, met, bad>>
allVars == <<instance, vars, teamVars>>

MCInit ==
    /\ instance \in {"main", "team"}
    /\ Init
    /\ Exchanges!Init
    /\ instance = "main" => exchange = "single"

MainNext == instance = "main" /\ Next /\ UNCHANGED <<instance, teamVars>>
TeamNext == instance = "team" /\ Exchanges!Next /\ UNCHANGED <<instance, vars>>

MCSpec == MCInit /\ [][MainNext \/ TeamNext]_allVars /\ WF_allVars(MainNext)

-----------------------------------------------------------------------------
\* ResultsExact of TeamExchange: every row, segment, index and sum a rank takes out
\* of its buffers is that of the forward it is in.  And all variables have their types.
TeamResultsExact == Exchanges!ResultsExact /\ Exchanges!TypeOK /\ TypeOK

\* NeverStuck of both: no call and no forward of an exchange stops short of its end, as
\* some rank can always move, that is to say, make a step.
NobodyStuck ==
    /\ instance = "main" =>
        NeverStuck /\ (ENABLED Next) = (\E r \in Ranks : CanMove(r))
    /\ instance = "team" =>
        /\ Exchanges!NeverStuck
        /\ (ENABLED Exchanges!Next) = (\E r \in Exchanges!World : Exchanges!CanMove(r))

\* Every rank completes every call of All2AllInference.
ExchangesComplete == instance = "main" => AllCallsComplete
=============================================================================
