---------------------------- MODULE MCPartitioned -----------------------------
(***************************************************************************)
(* Values for the constants of Partitioned that a cfg cannot write down.   *)
(***************************************************************************)
EXTENDS Partitioned

\* The linear inverse pattern: it tells partition numbers from indices.
LinearInverse == [p \in Partitions |-> PartitionCount - 1 - p]

\* Every method with two threads, which divide four partitions evenly, and
\* those that may with three, which do not: the last slice is behind the end.
EvenAndGuarded ==
  [mode : AllModes, threads : {2}] \cup
  [mode : {"Psend", "CustomPsend"}, threads : {3}]

===============================================================================
