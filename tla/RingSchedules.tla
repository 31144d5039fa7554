---------------------------- MODULE RingSchedules ----------------------------
(***************************************************************************)
(* The ring kernels of GEMM+ReduceScatter without NVLink                   *)
(* (src/gemm_rs/reduce_scatter_kernel.hpp) on one node: what each rank     *)
(* does, as a list of operations on one segment of the rows each.          *)
(*                                                                         *)
(* An operation waits for some flags, adds up some places, writes the sum  *)
(* to a place and raises some flags.  A flag and a place belong to a rank  *)
(* and a segment.                                                          *)
(***************************************************************************)
EXTENDS Integers, Sequences, SequencesExt

Epi(r, s) == <<"epilogue", r, s>>       \* epilogue_ptr, or gemm_done_ptr
Red(r, s) == <<"reduce", r, s>>         \* reduce_ptr, or copy_done_ptr
Sub(r)    == <<"reduce_sub_node", r, 0>>
Out(r, s) == <<"out", r, s>>            \* data_tile
Buf(r, s) == <<"red", r, s>>            \* reduce_buffer_tile

Op(waits, from, to, raises) ==
    [waits |-> waits, from |-> from, to |-> to, raises |-> raises]

\* ReduceScatterRing1dPullGemmk: rank r adds what r + 1 has of a segment to its own.
Pull1d(world) == [r \in 0..(world - 1) |->
    LET peer == (r + 1) % world
    IN  [i \in 1..(world - 1) |->
            LET s == (peer + i) % world
            IN  Op({Epi(r, s), IF i = 1 THEN Epi(peer, s) ELSE Red(peer, s)},
                   {Out(r, s), Out(peer, s)}, Out(r, s), {Red(r, s)})]]

\* ReduceScatterRing1dPushGemmk: rank r adds what is in its reduce_buffer, in the
\* first round too, and hands the sum to r - 1.
Push1d(world) == [r \in 0..(world - 1) |->
    LET peer == (r + world - 1) % world
    IN  [i \in 1..world |->
            LET s == (r + i) % world
            IN  Op({Epi(r, s)} \cup (IF i = 1 THEN {} ELSE {Red(r, s)}),
                   {Out(r, s), Buf(r, s)},
                   IF i = world THEN Out(r, s) ELSE Buf(peer, s), {Red(peer, s)})]]

\* run_per_segment_kernel: the same by segment; the first round copies only.
Segment1d(world) == [r \in 0..(world - 1) |->
    LET peer == (r + world - 1) % world
    IN  [i \in 1..world |->
            LET s == (r + i) % world
            IN  Op({Epi(r, s)} \cup (IF i = 1 THEN {} ELSE {Red(r, s)}),
                   {Out(r, s)} \cup (IF i = 1 THEN {} ELSE {Buf(r, s)}),
                   IF i = world THEN Out(r, s) ELSE Buf(peer, s),
                   IF i = world THEN {} ELSE {Red(peer, s)})]]

\* run_per_segment_with_cudaMemcpyAsync: an addition and a copy of their own; what round
\* i of the loop adds is operation 2 * i, what it copies operation 2 * i + 1.
Memcpy1d(world) == [r \in 0..(world - 1) |->
    LET peer == (r + world - 1) % world
    IN  [j \in 1..(2 * (world - 1)) |->
            LET s == (r + (j \div 2 + 1)) % world
            IN  IF j % 2 = 0
                THEN Op({Epi(r, s), Red(r, s)}, {Out(r, s), Buf(r, s)}, Out(r, s), {})
                ELSE Op({Epi(r, s)}, {Out(r, s)}, Buf(peer, s), {Red(peer, s)})]]

\* kTopologys[0]: in stage k rank r pulls from RankFrom[k][r], pushes to
\* RankTo[k][r]; NUMA node n sums up segment Segments[k][n] and NextNode of it;
\* the pushes from the other node go into segment UnusedSegment[r].
RankFrom == <<
    [r \in 0..7 |-> <<4, 0, 1, 2, 5, 6, 7, 3>>[r + 1]],
    [r \in 0..7 |-> <<3, 5, 1, 2, 0, 6, 7, 4>>[r + 1]],
    [r \in 0..7 |-> <<3, 0, 6, 2, 5, 1, 7, 4>>[r + 1]],
    [r \in 0..7 |-> <<3, 0, 1, 7, 5, 6, 2, 4>>[r + 1]]>>
RankTo == [k \in 1..4 |-> [r \in 0..7 |-> CHOOSE p \in 0..7 : RankFrom[k][p] = r]]
Segments == [k \in 1..4 |-> [n \in 0..1 |-> IF n = 0 THEN (k + 2) % 4 ELSE k + 3]]
UnusedSegment == [r \in 0..7 |-> <<3, 0, 1, 2, 5, 6, 7, 4>>[r + 1]]
NextNode(s) == (s + 4) % 8
NodeOf(r) == r \div 4

\* ReduceScatterRing2dPull, ReduceScatterRing2dPullGemmk
Pull2d == [r \in 0..7 |->
    LET Stage(k) ==
            LET peer == RankFrom[k][r]
                prev == RankFrom[k][peer]
                s    == Segments[k][NodeOf(peer)]
                Ready(x) == IF NodeOf(prev) # NodeOf(peer) THEN Epi(peer, x) ELSE Red(peer, x)
                Add(x) == Op({Epi(r, x), Ready(x)}, {Out(r, x), Out(peer, x)}, Out(r, x),
                             {Red(r, x)})
            IN  IF NodeOf(peer) # NodeOf(r)
                THEN <<Op({Ready(NextNode(s))}, {Out(peer, NextNode(s))}, Buf(r, 0), {})>>
                ELSE <<Add(NextNode(s)), Add(s)>>
    IN  FlattenSeq([k \in 1..4 |-> Stage(k)])
            \o <<Op({}, {Out(r, r), Buf(r, 0)}, Out(r, r), {})>>]

\* ReduceScatterRing2dPushGemmk
Push2d == [r \in 0..7 |->
    LET Before(x) == IF NodeOf(x) = 0 THEN (x + 3) % 4 ELSE 4 + ((x + 1) % 4)
        Stage(k) ==
            LET peer  == RankTo[k][r]
                from  == RankFrom[k][r]
                first == NodeOf(from) # NodeOf(r)
                s     == Segments[k][NodeOf(r)]
                Send(x, to, flag) ==
                    Op({Epi(r, x)} \cup (IF first THEN {} ELSE {Red(from, x)}),
                       {Out(r, x)} \cup (IF first THEN {} ELSE {Buf(r, x)}), to, {flag})
                Local(x) == Send(x, Buf(peer, x), Red(r, x))
            IN  IF NodeOf(peer) # NodeOf(r)
                THEN <<Send(NextNode(s), Buf(peer, UnusedSegment[peer]), Sub(r))>>
                ELSE <<Local(NextNode(s)), Local(s)>>
    IN  FlattenSeq([k \in 1..4 |-> Stage(k)])
            \o <<Op({Epi(r, r), Red(Before(r), r), Sub(NextNode(r))},
                    {Out(r, r), Buf(r, r), Buf(r, UnusedSegment[r])}, Out(r, r), {})>>]

\* run_per_segment_kernel_tp8: a ring over the segments of the other NUMA node, one
\* over those of the own with a push across in between, which the ranks that would
\* otherwise run ahead await.
Segment2d == [r \in 0..7 |->
    LET n    == NodeOf(r)
        prev == 4 * n + ((r + 3) % 4)
        next == 4 * n + ((r + 1) % 4)
        to   == IF n = 1 THEN next ELSE prev
        from == IF n = 1 THEN prev ELSE next
        Inner(i) == IF n = 1 THEN (r + 7 - i) % 4 ELSE (r + i + 1) % 4
        Add(s) == Op({Epi(r, s), Red(r, s)}, {Out(r, s), Buf(r, s)}, Out(r, s), {})
        Other(i) ==
            LET s == 4 * (1 - n) + Inner(i)
            IN  IF i = 3 THEN Add(s)
                ELSE Op({Epi(r, s)} \cup (IF i = 0 THEN {} ELSE {Red(r, s)}),
                        {Out(r, s)} \cup (IF i = 0 THEN {} ELSE {Buf(r, s)}),
                        Buf(to, s), {Red(to, s)})
        AcrossAt == (r + n) % 4
        Slowest(i) == IF i = 0 THEN {}
                      ELSE {IF n = 0 THEN Red(i + 3, 4 + ((i + 2) % 4))
                            ELSE Red((i + 2) % 4, i - 1)}
        Own(i) ==
            LET s == 4 * n + Inner(IF i < AcrossAt THEN i ELSE i - 1)
                Copy(waits) == Op(waits \cup Slowest(i), {Out(r, s)}, Buf(to, s), {Red(to, s)})
            IN  IF i = AcrossAt
                THEN <<Op(Slowest(i), {Out(r, NextNode(r))}, Buf(NextNode(r), NextNode(to)),
                          {Red(NextNode(r), NextNode(to))})>>
                ELSE IF i = (IF AcrossAt = 0 THEN 1 ELSE 0)
                THEN <<Copy({Epi(r, s)})>>
                ELSE <<Add(s), Copy({})>>
    IN  [i \in 1..4 |-> Other(i - 1)] \o FlattenSeq([i \in 1..4 |-> Own(i - 1)])
            \o <<Add(r), Op({Red(r, from)}, {Out(r, r), Buf(r, from)}, Out(r, r), {})>>]
=============================================================================
