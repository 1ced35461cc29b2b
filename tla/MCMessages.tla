------------------------------ MODULE MCMessages ------------------------------
(***************************************************************************)
(* Values for the constants of Messages that a cfg cannot write down.      *)
(***************************************************************************)
EXTENDS Messages

\* A test case with the linear inverse pattern, which tells partition numbers
\* from indices.
Case(m, n) ==
  [mode |-> m, perThread |-> n,
   pattern |-> [p \in 0 .. Threads * n - 1 |-> Threads * n - 1 - p]]

\* Two partitions for each thread; one in bench_isend, whose warm-up has the
\* threads race for the same requests in more ways than can be enumerated.
AllMethods ==
  {Case(m, 2) : m \in AllModes \ {"Isend"}} \cup {Case("Isend", 1)}

IsendOnly == {Case("Isend", 1)}
===============================================================================
