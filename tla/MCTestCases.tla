------------------------------ MODULE MCTestCases ------------------------------
(***************************************************************************)
(* Command lines for checking TestCases.                                   *)
(***************************************************************************)
EXTENDS TestCases, SequencesExt

Text(n) == [number |-> n, rest |-> FALSE]
Opt(o, v) == [kind |-> "option", name |-> o, value |-> v]

\* Elements that are right or wrong by themselves or next to each other;
\* 65540 is 4 in an int of 16 bits.
Elements ==
  {[kind |-> k] : k \in Kinds \ {"option"}} \cup
  {Opt("mode", "Psend"), Opt("send_pattern", "random"),
   Opt("num_threads", Text(2)), Opt("num_threads", Text(65540)),
   Opt("partition_size", [number |-> 0, rest |-> TRUE]),
   Opt("iterations", [number |-> 8, rest |-> TRUE])}

\* Everything of up to three elements, to see the parser...
AnyOrder == SeqOf(Elements, 3)

\* ... and good ones, to see the loops.  65536 is 0.
Setups ==
  {<<Opt("mode", m), Opt("num_values", Text(n)),
     Opt("partition_size", Text(q)), Opt("partition_size_max", Text(max)),
     Opt("allow_1_to_n", Text(a)), Opt("allow_n_to_1", Text(b)),
     Opt("num_threads", Text(t))>> :
     m \in {"Psend", "PsendList", "Other"}, n \in {8, 12},
     q \in {-1, 0, 1, 2, 3}, max \in {-2, 0, 4, 9, 16},
     a \in {0, 1, 65536}, b \in {0, 1}, t \in {-1, 0, 1, 2, 3}}

\* Buffers that are small or leave a rest behind bursts, and thread counts
\* around those that cannot be doubled.
Edges ==
  {<<Opt("mode", m), Opt("num_values", Text(n)),
     Opt("partition_size", Text(q[1])), Opt("partition_size_max", Text(q[2])),
     Opt("send_pattern", p), Opt("num_threads", Text(t))>> :
     m \in {"Psend", "Other"}, n \in {-8, 0, 5, 6, 192, 256},
     q \in {<<0, 0>>, <<3, 6>>, <<4, 3>>, <<64, 64>>, <<192, 192>>},
     p \in {"linear", "random_burst_128"}, t \in {1, 2, 3, 16383, 16384, 32767}}

Lines == AnyOrder \cup Setups \cup Edges
===============================================================================
