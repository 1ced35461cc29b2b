------------------------------- MODULE MCWindows -------------------------------
(***************************************************************************)
(* Values for the constants of Windows that a cfg cannot write down.       *)
(***************************************************************************)
EXTENDS Windows

\* The linear inverse pattern: it tells partition numbers from indices.
LinearInverse == [p \in Partitions |-> PartitionCount - 1 - p]
===============================================================================
