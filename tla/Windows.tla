-------------------------------- MODULE Windows --------------------------------
(***************************************************************************)
(* The run methods that put the buffer into windows of rank 1:             *)
(* benchmarks/bench_win.c, with one window for each partition, and         *)
(* benchmarks/bench_win_single.c, with one for all of them.                *)
(*                                                                         *)
(* Rank 0 locks, puts, unlocks.  Rank 1 locks its own windows once during  *)
(* the warm-up and then only waits.  Barriers and the calls that create    *)
(* and free a window are collective: they are matched by the order of the  *)
(* calls, so they are counted.                                             *)
(*                                                                         *)
(* A lock taken with MPI_MODE_NOCHECK asserts that no other rank holds a   *)
(* lock, or asks for one, before it is released: MPI need not acquire      *)
(* anything, and here it does not.                                         *)
(*                                                                         *)
(* A definition named Faulty... is the one behind it with a single fault.  *)
(* No behaviour of Spec takes it: it shows what a property would detect.   *)
(***************************************************************************)
EXTENDS Integers

CONSTANTS
  Modes,           (* the run methods to consider                          *)
  PartitionCount,  (* test_case->partition_count                           *)
  Iterations,      (* test_case->iteration_count                           *)
  Pattern          (* test_case->send_pattern, a permutation               *)

ASSUME ModesAssumption == Modes \subseteq {"Win", "WinSingle"}
ASSUME CountAssumption ==
  PartitionCount \in Nat \ {0} /\ Iterations \in Nat

Ranks == {0, 1}
Other(r) == 1 - r
Partitions == 0 .. PartitionCount - 1
None == -1

ASSUME PatternAssumption ==
  /\ Pattern \in [Partitions -> Partitions]
  /\ \A p, q \in Partitions : Pattern[p] = Pattern[q] => p = q

VARIABLES
  mode,         (* test_case->mode                                         *)
  pc,           (* the MPI call each rank makes next                       *)
  inside,       (* for each rank: it is waiting in a collective            *)
  collectives,  (* for each rank: collectives entered                      *)
  n,            (* for each rank: its loop counter p                       *)
  epoch,        (* for each rank: 0 in the warm-up, then its iteration     *)
  holder,       (* for each window: the rank that has locked it            *)
  pending,      (* partitions put and not yet in the window                *)
  memory        (* rank 1's buffer: the epoch each partition's data is from *)

vars == <<mode, pc, inside, collectives, n, epoch, holder, pending, memory>>

WindowCount == IF mode = "Win" THEN PartitionCount ELSE 1

Init ==
  /\ mode \in Modes
  /\ pc = [r \in Ranks |-> IF mode = "Win" THEN "barrier0" ELSE "create"]
  /\ inside = [r \in Ranks |-> FALSE]
  /\ collectives = [r \in Ranks |-> 0]
  /\ n = [r \in Ranks |-> 0]
  /\ epoch = [r \in Ranks |-> 0]
  /\ holder = [w \in Partitions |-> None]
  /\ pending = {}
  /\ memory = [p \in Partitions |-> None]

At(r, from) == pc[r] = from
Goto(r, to) == pc' = [pc EXCEPT ![r] = to]

-------------------------------------------------------------------------------
(* Collectives.                                                            *)

Collectives ==
  {"barrier0", "create", "barrier1", "barrier2", "free", "barrier3"}

Enter(r, counted) ==
  /\ pc[r] \in Collectives /\ ~inside[r]
  /\ inside' = [inside EXCEPT ![r] = TRUE]
  /\ collectives' = [collectives EXCEPT ![r] = IF counted THEN @ + 1 ELSE @]
  /\ UNCHANGED <<mode, pc, n, epoch, holder, pending, memory>>

\* As if the barrier behind the warm-up, or the last one, were missing.
FaultyWarmupBarrier(r) == Enter(r, pc[r] # "barrier1")
FaultyLastBarrier(r) == Enter(r, pc[r] # "barrier2")

EnterCollective(r) == Enter(r, TRUE)

\* The next call of a rank; windows are created and freed in a loop, and
\* rank 1 has nothing to do in the iterations.
LeaveCollective(r) ==
  /\ inside[r]
  /\ collectives[Other(r)] >= collectives[r]
  /\ LET again == pc[r] \in {"create", "free"} /\ n[r] + 1 < WindowCount
     IN  /\ n' = [n EXCEPT ![r] = IF again THEN @ + 1 ELSE 0]
         /\ Goto(r, CASE again -> pc[r]
                      [] pc[r] = "barrier0" -> "create"
                      [] pc[r] = "create" /\ ~again -> "lock"
                      [] pc[r] = "barrier1" ->
                           IF r = 0 /\ Iterations > 0 THEN "lock" ELSE "barrier2"
                      [] pc[r] = "barrier2" -> "free"
                      [] pc[r] = "free" /\ ~again ->
                           IF mode = "Win" THEN "done" ELSE "barrier3"
                      [] pc[r] = "barrier3" -> "done")
  /\ inside' = [inside EXCEPT ![r] = FALSE]
  /\ UNCHANGED <<mode, collectives, epoch, holder, pending, memory>>

-------------------------------------------------------------------------------
(* Access to a window.                                                     *)

\* partition_num: the warm-up takes the partitions in their natural order.
Partition(r) == IF epoch[r] = 0 THEN n[r] ELSE Pattern[n[r]]

Window(r) == IF mode = "Win" THEN Partition(r) ELSE 0

\* Rank 0 passes MPI_MODE_NOCHECK, but not in the warm-up of bench_win.
NoCheck(r) == r = 0 /\ (epoch[r] > 0 \/ mode = "WinSingle")

Lock(r) ==
  /\ At(r, "lock")
  /\ IF NoCheck(r) THEN UNCHANGED holder
     ELSE holder[Window(r)] = None /\ holder' = [holder EXCEPT ![Window(r)] = r]
  /\ Goto(r, IF r = 0 THEN "put" ELSE "unlock")
  /\ UNCHANGED <<mode, inside, collectives, n, epoch, pending, memory>>

FaultyTarget ==
  IF mode = "Win" THEN {Partition(0)}
  ELSE IF epoch[0] = 0 THEN Partitions ELSE {0}

\* What a put of rank 0 fills: the warm-up of bench_win_single takes one put.
Target ==
  IF mode = "WinSingle" /\ epoch[0] = 0 THEN Partitions ELSE {Partition(0)}

Put ==
  /\ At(0, "put")
  /\ pending' = Target
  /\ Goto(0, "unlock")
  /\ UNCHANGED <<mode, inside, collectives, n, epoch, holder, memory>>

\* External: MPI moves the data when it likes, but before the unlock returns.
Arrive(p) ==
  /\ p \in pending
  /\ pending' = pending \ {p}
  /\ memory' = [memory EXCEPT ![p] = epoch[0]]
  /\ UNCHANGED <<mode, pc, inside, collectives, n, epoch, holder>>

FaultyAccesses(r) == IF epoch[r] = 0 THEN WindowCount ELSE PartitionCount + 1

\* Accesses that make up an epoch of a rank.
Accesses(r) == IF epoch[r] = 0 THEN WindowCount ELSE PartitionCount

Unlock(r) ==
  /\ At(r, "unlock")
  /\ r = 0 => pending = {}
  /\ IF NoCheck(r) THEN UNCHANGED holder
     ELSE holder' = [holder EXCEPT ![Window(r)] = None]
  /\ LET last == n[r] + 1 = Accesses(r)
     IN  /\ n' = [n EXCEPT ![r] = IF last THEN 0 ELSE @ + 1]
         /\ epoch' = [epoch EXCEPT ![r] = IF last THEN @ + 1 ELSE @]
         /\ Goto(r, IF ~last THEN "lock"
                    ELSE IF epoch[r] = 0 THEN "barrier1"
                    ELSE IF epoch[r] < Iterations THEN "lock" ELSE "barrier2")
  /\ UNCHANGED <<mode, inside, collectives, pending, memory>>

Rank(r) ==
  \/ EnterCollective(r) \/ LeaveCollective(r)
  \/ Lock(r) \/ Unlock(r)
  \/ r = 0 /\ Put

Finished == pc = [r \in Ranks |-> "done"]

Next ==
  \/ \E r \in Ranks : Rank(r)
  \/ \E p \in Partitions : Arrive(p)
  \/ Finished /\ UNCHANGED vars

\* Ranks are scheduled, a lock that was released is granted, puts complete.
Fairness ==
  /\ \A r \in Ranks : WF_vars(Rank(r))
  /\ \A p \in Partitions : WF_vars(Arrive(p))

Spec == Init /\ [][Next]_vars /\ Fairness
-------------------------------------------------------------------------------
(* Properties.                                                             *)

TypeOK ==
  /\ mode \in Modes
  /\ pc \in [Ranks -> Collectives \cup {"lock", "put", "unlock", "done"}]
  /\ inside \in [Ranks -> BOOLEAN]
  /\ collectives \in [Ranks -> Nat]
  /\ n \in [Ranks -> Partitions]
  /\ epoch \in [Ranks -> 0 .. Iterations + 1]
  /\ holder \in [Partitions -> Ranks \cup {None}]
  /\ pending \subseteq Partitions
  /\ memory \in [Partitions -> 0..Iterations \cup {None}]

Accessing(r) == pc[r] \in {"lock", "put", "unlock"}

(* What the argument MPI_MODE_NOCHECK asserts: while rank 0 has a window   *)
(* open with it, rank 1 does not hold the lock of that window              *)
(* (bench_win.c:51, bench_win_single.c:31 and :55).                        *)
NoCheckHolds ==
  pc[0] \in {"put", "unlock"} /\ NoCheck(0) => holder[Window(0)] = None

(* It does hold in the iterations of both methods, and rank 1 will not ask *)
(* for a lock again: the barrier behind the warm-up sees to it.            *)
NoCheckInIterations ==
  epoch[0] > 0 /\ Accessing(0) => NoCheckHolds /\ ~Accessing(1)

(* The warm-up is over when Total starts: a rank past the first barrier    *)
(* finds all of the buffer filled once, and the other rank done with its   *)
(* warm-up (bench_win.c:37-38, bench_win_single.c:43-44).                  *)
WarmupIsOver ==
  \A r \in Ranks :
    epoch[r] > 0 /\ pc[r] # "barrier1" =>
      epoch[Other(r)] > 0 /\ \A p \in Partitions : memory[p] # None

Phase(r) ==
  CASE epoch[r] = 0 -> "warmup"
    [] pc[r] = "barrier1" -> IF inside[r] THEN "first" ELSE "warmup"
    [] pc[r] = "barrier2" /\ inside[r] -> "second"
    [] pc[r] \in {"free", "barrier3", "done"} -> "done"
    [] OTHER -> "timed"

\* Rank 1 has nothing to do in the iterations.
Method ==
  INSTANCE RunMethod WITH
    Rounds <- [r \in Ranks |-> IF r = 0 THEN Iterations ELSE 0],
    phase <- [r \in Ranks |-> Phase(r)],
    iter <- [r \in Ranks |-> IF epoch[r] = 0 THEN 0 ELSE epoch[r] - 1]

(* The barriers fence off what Total measures on both ranks.  Rank 0 is    *)
(* done with its windows when rank 1 begins to free them                   *)
(* (bench_win.c:64-71), and no lock or collective keeps the method from    *)
(* returning.                                                              *)
MethodSpec == Method!Spec

(* Rank 1 compares its buffer (bench.c:135) when the data of the last      *)
(* iteration is in every partition of it.                                  *)
DataAtCheck == pc[1] = "done" => \A p \in Partitions : memory[p] = Iterations
-------------------------------------------------------------------------------
(* The inductive invariant behind all of them.                             *)

\* Collectives that a rank has left, told from where it is.
Behind(r) ==
  LET first == IF mode = "Win" THEN 1 ELSE 0
      warm == first + WindowCount
  IN  CASE pc[r] = "barrier0" -> 0
        [] pc[r] = "create" -> first + n[r]
        [] pc[r] = "barrier1" -> warm
        [] pc[r] = "barrier2" -> warm + 1
        [] pc[r] = "free" -> warm + 2 + n[r]
        [] pc[r] = "barrier3" -> warm + 2 + WindowCount
        [] pc[r] = "done" ->
             warm + 2 + WindowCount + (IF mode = "Win" THEN 0 ELSE 1)
        [] OTHER -> IF epoch[r] = 0 THEN warm ELSE warm + 1

\* Where the loop counter and the epoch of a rank can be.
Places(r) ==
  /\ pc[r] \in {"barrier0", "create"} => epoch[r] = 0
  /\ pc[r] = "barrier0" => mode = "Win"
  /\ pc[r] = "barrier3" => mode = "WinSingle"
  /\ pc[r] \in {"barrier0", "barrier1", "barrier2", "barrier3", "done"} => n[r] = 0
  /\ pc[r] \in {"create", "free"} => n[r] < WindowCount
  /\ pc[r] = "barrier1" => epoch[r] = 1
  /\ pc[r] \in {"barrier2", "free", "barrier3", "done"} =>
       epoch[r] = IF r = 0 THEN Iterations + 1 ELSE 1
  /\ Accessing(r) => /\ n[r] < Accesses(r)
                     /\ epoch[r] \in IF r = 0 THEN 0..Iterations ELSE {0}
  /\ pc[r] = "put" => r = 0
  /\ inside[r] => pc[r] \in Collectives

CollectiveInv ==
  \A r \in Ranks :
    /\ Places(r)
    /\ collectives[r] = Behind(r) + (IF inside[r] THEN 1 ELSE 0)
    /\ Behind(r) <= collectives[Other(r)]

\* A lock is held by a rank that is between its lock and its unlock.
LockInv ==
  \A r \in Ranks, w \in Partitions :
    holder[w] = r => pc[r] \in {"put", "unlock"} /\ ~NoCheck(r) /\ Window(r) = w

\* What has been put in the current epoch of rank 0 is in the memory, the
\* put that is under way may be; outside of epochs all of it is there.
Filled ==
  IF epoch[0] = 0
  THEN IF mode = "Win" THEN 0 .. n[0] - 1 ELSE {}
  ELSE {Pattern[k] : k \in 0 .. n[0] - 1}

MemoryInv ==
  /\ pc[0] # "unlock" => pending = {}
  /\ pc[0] = "unlock" =>
       \A p \in Target : p \in pending \/ memory[p] = epoch[0]
  /\ pending \subseteq Target
  /\ Accessing(0) => \A p \in Filled : memory[p] = epoch[0]
  /\ epoch[0] > 0 => \A p \in Partitions : memory[p] \in Nat
  /\ epoch[0] > 0 /\ ~Accessing(0) =>
       \A p \in Partitions : memory[p] = epoch[0] - 1

IInv == TypeOK /\ CollectiveInv /\ LockInv /\ MemoryInv
===============================================================================
