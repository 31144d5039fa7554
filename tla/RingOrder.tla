------------------------------ MODULE RingOrder ------------------------------
(***************************************************************************)
(* When the operations of RingSchedules, whatever the pace of the ranks,   *)
(* add up every partial product once: the order their flags impose.        *)
(*                                                                         *)
(* An event is one operation, on one tile, or the epilogue's store of one. *)
(* A certificate of a configuration c of GemmRsForward is                  *)
(*   before[e]  events that are over when operation e starts               *)
(*   parts[e]   the ranks whose partial products the sum of e holds        *)
(* Certified checks it event by event; no behaviour is looked at, and no   *)
(* number of tiles, groups or forwards.                                    *)
(***************************************************************************)
EXTENDS RingSchedules

Members(c) == 0..(c.world - 1)

\* A flag or a place: what it is, its rank, its segment.
Flags(c)  == {"epilogue", "reduce", "reduce_sub_node"} \X Members(c) \X Members(c)
Places(c) == {"out", "red"} \X Members(c) \X Members(c)

\* An operation raises no flag of the epilogue.
Operations(c) == [waits : SUBSET Flags(c), from : SUBSET Places(c), to : Places(c),
                  raises : SUBSET {f \in Flags(c) : f[1] # "epilogue"}]

(***************************************************************************)
(* What the constructor of GemmRS and its callers see to: kernels run on a *)
(* positive number of tiles and groups; only the ring kernels have         *)
(* operations; the path that zeroes nothing has a caller that synchronizes *)
(* the ranks.                                                              *)
(***************************************************************************)
Sound(c) ==
    /\ c.world \in Nat \ {0} /\ c.tiles \in Nat \ {0} /\ c.groups \in Nat \ {0}
    /\ c.forwards \in Nat
    /\ c.fresh \subseteq {<<0, 0>>}
    /\ c.epilogue \in {"store", "add", "keep"}
    /\ c.ops \in [Members(c) -> Seq(Operations(c))]
    /\ c.epilogue = "store" => c.sync
    /\ c.epilogue # "keep" => \A r \in Members(c) : c.ops[r] = <<>>

-----------------------------------------------------------------------------
OpEvents(c)  == UNION {{<<"op", r, i>> : i \in 1..Len(c.ops[r])} : r \in Members(c)}
EpiEvents(c) == {"epilogue"} \X Members(c) \X Members(c)
Events(c)    == OpEvents(c) \cup EpiEvents(c)

OpOf(c, e) == c.ops[e[2]][e[3]]

\* The epilogue keeps a tile in the output_buffer of its own rank.
Target(c, e) == IF e[1] = "op" THEN OpOf(c, e).to ELSE Out(e[2], e[3])

\* Who writes a place; who raises a flag (an epilogue event and its flag have one name).
Writers(c, p) == {e \in Events(c) : Target(c, e) = p}
Raisers(c, f) == {e \in Events(c) : e = f \/ (e[1] = "op" /\ f \in OpOf(c, e).raises)}

Past(before, e) == IF e[1] = "op" THEN before[e] ELSE {}
Part(parts, e)  == IF e[1] = "op" THEN parts[e] ELSE {e[2]}

\* What the events of a set are, or come after, all of them.
Common(before, events) ==
    {d \in events \cup UNION {Past(before, x) : x \in events} :
        \A x \in events : d = x \/ d \in Past(before, x)}

\* What is over when e starts: the operation before it on its rank and what that comes
\* after, and, of a flag e waits for, what all that may have raised it have in common.
Over(c, before, e) ==
    LET last == <<"op", e[2], e[3] - 1>>
    IN  (IF e[3] > 1 THEN {last} \cup before[last] ELSE {})
            \cup UNION {Common(before, Raisers(c, f)) : f \in OpOf(c, e).waits}

\* The event whose sum e finds in a place: over when e starts, and every other writer of
\* the place is over before it, or is e, or has e before it.
IsSource(writers, before, e, w) ==
    /\ w \in before[e]
    /\ \A v \in writers \ {w} : v \in Past(before, w) \/ v = e \/ e \in Past(before, v)

\* The ranks whose partial products e finds in p: none, where nobody ever writes.
Found(c, before, parts, e, p) ==
    LET writers == Writers(c, p)
    IN  IF writers = {} THEN {}
        ELSE Part(parts, CHOOSE w \in writers : IsSource(writers, before, e, w))

\* e knows what it reads, and adds no partial product twice.
Adds(c, before, parts, e) ==
    LET from == OpOf(c, e).from
    IN  /\ \A p \in from :
            LET writers == Writers(c, p)
            IN  IF writers = {} THEN p[1] = "red" /\ c.fresh = {}
                ELSE \E w \in writers : IsSource(writers, before, e, w)
        /\ \A p, q \in from :
            p = q \/ Found(c, before, parts, e, p) \cap Found(c, before, parts, e, q) = {}
        /\ parts[e] = UNION {Found(c, before, parts, e, p) : p \in from}

\* The last event at the place of r's result is a sum of all partial products.
Completes(c, before, parts, r) ==
    LET writers == Writers(c, Out(r, r))
    IN  \E w \in writers : /\ writers \ {w} \subseteq Past(before, w)
                          /\ Part(parts, w) = Members(c)

Certified(c, before, parts) ==
    /\ before \in [OpEvents(c) -> SUBSET Events(c)]
    /\ parts \in [OpEvents(c) -> SUBSET Members(c)]
    /\ \A e \in OpEvents(c) : before[e] \subseteq Over(c, before, e) /\ Adds(c, before, parts, e)
    /\ \A r \in Members(c) : Completes(c, before, parts, r)

\* The operations have a certificate.
Ordered(c) ==
    \E before \in [OpEvents(c) -> SUBSET Events(c)], parts \in [OpEvents(c) -> SUBSET Members(c)] :
        Certified(c, before, parts)

\* No circle of waits: operations have numbers that grow along a rank's list and, for
\* every flag that is not the GEMM's, from one that raises it to those that wait for it.
Acyclic(c, number) ==
    /\ number \in [OpEvents(c) -> Nat]
    /\ \A e \in OpEvents(c) :
        /\ \A d \in OpEvents(c) : d[2] = e[2] /\ d[3] < e[3] => number[d] < number[e]
        /\ \A f \in OpOf(c, e).waits :
            f \in EpiEvents(c)
                \/ \E x \in OpEvents(c) : f \in OpOf(c, x).raises /\ number[x] < number[e]

\* The operations have such numbers.
Numbered(c) == \E number \in [OpEvents(c) -> Nat] : Acyclic(c, number)
=============================================================================
