------------------------------ MODULE Partitioned ------------------------------
(***************************************************************************)
(* The run methods that move one buffer by MPI partitioned communication:  *)
(* benchmarks/bench_psend.c, bench_psend_list.c, bench_psend_parrived.c,   *)
(* bench_psend_progress.c and bench_psend_custom.c (through                *)
(* custom_psend_dummy.c, which passes each call on to MPI).                *)
(*                                                                         *)
(* Rank 0 starts the request, a team of OpenMP threads marks partitions    *)
(* ready, rank 0 waits; rank 1 starts, may poll, and waits.  Epoch 0 is    *)
(* the warm-up, epochs 1..Iterations are timed, a barrier stands between   *)
(* them and another one behind them.                                       *)
(*                                                                         *)
(* MPI itself is external: it takes ready partitions off the sender when   *)
(* it likes, and delivers them to the receive of the same epoch.  A call   *)
(* that MPI calls erroneous sets `misuse`.                                 *)
(*                                                                         *)
(* A definition named Faulty... is the one behind it with a single fault.  *)
(* No behaviour of Spec takes it: it shows what a property would detect.   *)
(***************************************************************************)
EXTENDS Integers, FiniteSets

CONSTANTS
  Tests,           (* the test cases to consider, [mode, threads]          *)
  PartitionCount,  (* test_case->partition_count                           *)
  RecvCount,       (* test_case->partition_count_recv                      *)
  Iterations,      (* test_case->iteration_count                           *)
  SendPattern      (* test_case->send_pattern, a permutation               *)

AllModes ==
  {"Psend", "PsendList", "PsendParrived", "PsendProgress", "CustomPsend"}

ASSUME TestsAssumption ==
  Tests \subseteq [mode : AllModes, threads : Nat \ {0}]
ASSUME CountAssumption ==
  /\ PartitionCount \in Nat \ {0}
  /\ RecvCount \in Nat \ {0} /\ Iterations \in Nat

Ranks == {0, 1}
Other(r) == 1 - r
Partitions == 0 .. PartitionCount - 1
Epochs == 0 .. Iterations
Nothing == -1          (* what memset leaves in the receive buffer         *)

ASSUME PatternAssumption ==
  /\ SendPattern \in [Partitions -> Partitions]
  /\ \A p, q \in Partitions : SendPattern[p] = SendPattern[q] => p = q

VARIABLES
  test,      (* the test case, a constant: its mode and thread_count       *)
  pc,        (* where each rank's main thread is                           *)
  epoch,     (* for each rank: the epoch it is in, or is about to start    *)
  barriers,  (* for each rank: barriers entered                            *)
  request,   (* for each rank: "none", "inactive", "active" or "freed"     *)
  next,      (* for each thread of rank 0's team: its loop counter p       *)
  ready,     (* how often each partition was marked ready in this epoch    *)
  taken,     (* those that MPI needs no more on the send side              *)
  wire,      (* <<epoch, partition>> that MPI has and rank 1 has not       *)
  arrived,   (* partitions of rank 1's epoch that are in its buffer        *)
  buffer,    (* rank 1's buffer: the epoch each partition's data is from   *)
  probe,     (* rank 1's loop counter p over receive partitions            *)
  misuse     (* an erroneous MPI call was made                             *)

mode == test.mode
Threads == test.threads
Team == 0 .. Threads - 1

\* test_case->partitions_per_thread (test_cases.c:224).
PerThread == (PartitionCount + Threads - 1) \div Threads

team == <<next, ready>>
net == <<taken, wire, arrived, buffer>>
vars == <<test, pc, epoch, barriers, request, team, net, probe, misuse>>

Init ==
  /\ test \in Tests
  /\ pc = [r \in Ranks |-> IF mode = "CustomPsend" THEN "enter" ELSE "init"]
  /\ epoch = [r \in Ranks |-> 0]
  /\ barriers = [r \in Ranks |-> 0]
  /\ request = [r \in Ranks |-> "none"]
  /\ next = [t \in Team |-> 0]
  /\ ready = [p \in Partitions |-> 0]
  /\ taken = {} /\ wire = {} /\ arrived = {}
  /\ buffer = [p \in Partitions |-> Nothing]
  /\ probe = 0
  /\ misuse = FALSE

At(r, from) == pc[r] = from
Goto(r, to) == pc' = [pc EXCEPT ![r] = to]

-------------------------------------------------------------------------------
(* What both ranks do.                                                     *)

\* MPI_Psend_init on rank 0, MPI_Precv_init on rank 1.
InitRequest(r) ==
  /\ At(r, "init")
  /\ request' = [request EXCEPT ![r] = "inactive"]
  /\ Goto(r, "start")
  /\ UNCHANGED <<test, epoch, barriers, team, net, probe, misuse>>

\* As if the barrier behind the iterations were missing.
FaultyEnterBarrier(r) ==
  /\ pc[r] \in {"enter", "warm", "end"}
  /\ barriers' = [barriers EXCEPT ![r] = IF pc[r] = "end" THEN @ ELSE @ + 1]
  /\ Goto(r, CASE pc[r] = "enter" -> "barrier0"
               [] pc[r] = "warm" -> "barrier1"
               [] pc[r] = "end" -> "barrier2")
  /\ UNCHANGED <<test, epoch, request, team, net, probe, misuse>>

\* A barrier is behind the warm-up, another one behind the last iteration;
\* bench_custom_psend has one more at its beginning.
EnterBarrier(r) ==
  /\ pc[r] \in {"enter", "warm", "end"}
  /\ barriers' = [barriers EXCEPT ![r] = @ + 1]
  /\ Goto(r, CASE pc[r] = "enter" -> "barrier0"
               [] pc[r] = "warm" -> "barrier1"
               [] pc[r] = "end" -> "barrier2")
  /\ UNCHANGED <<test, epoch, request, team, net, probe, misuse>>

MayLeave(r) == barriers[Other(r)] >= barriers[r]

LeaveBarrier(r) ==
  /\ pc[r] \in {"barrier0", "barrier1", "barrier2"}
  /\ MayLeave(r)
  /\ Goto(r, CASE pc[r] = "barrier0" -> "init"
               [] pc[r] = "barrier1" ->
                    IF Iterations = 0 THEN "end" ELSE "start"
               [] pc[r] = "barrier2" -> "free")
  /\ UNCHANGED <<test, epoch, barriers, request, team, net, probe, misuse>>

\* MPI_Request_free.
FreeRequest(r) ==
  /\ At(r, "free")
  /\ misuse' = (misuse \/ request[r] # "inactive")
  /\ request' = [request EXCEPT ![r] = "freed"]
  /\ Goto(r, "done")
  /\ UNCHANGED <<test, epoch, barriers, team, net, probe>>

FaultyAfterEpoch(r) ==
  IF epoch[r] = 0 THEN "warm"
  ELSE IF epoch[r] <= Iterations THEN "start" ELSE "end"

\* Where a rank goes when an epoch is complete.
AfterEpoch(r) ==
  IF epoch[r] = 0 THEN "warm"
  ELSE IF epoch[r] < Iterations THEN "start" ELSE "end"

-------------------------------------------------------------------------------
(* Rank 0.                                                                 *)

\* In the warm-up one thread does all the marking, except in bench_psend;
\* bench_custom_psend never uses a team.
Sequential == mode = "CustomPsend" \/ (epoch[0] = 0 /\ mode # "Psend")

\* The threads that take part, and how many loop steps each of them makes.
Active == IF Sequential THEN {0} ELSE Team
Steps == IF Sequential THEN PartitionCount ELSE PerThread

\* MPI_Start, then the threads set out.
SendStart ==
  /\ At(0, "start")
  /\ misuse' = (misuse \/ request[0] # "inactive")
  /\ request' = [request EXCEPT ![0] = "active"]
  /\ next' = [t \in Team |-> 0]
  /\ ready' = [p \in Partitions |-> 0]
  /\ taken' = {}
  /\ Goto(0, "region")
  /\ UNCHANGED <<test, epoch, barriers, wire, arrived, buffer, probe>>

\* index = p + t * partitions_per_thread
Index(t, p) == p + t * PerThread

\* What send_pattern[index] reads: behind the end of it, anything.
Read(index) ==
  IF index < PartitionCount THEN {SendPattern[index]} ELSE 0..PartitionCount

\* MPI_Pready or MPI_Pready_list: the request is active and none of the
\* partitions is ready yet.
Pready(S) ==
  /\ misuse' = \/ misuse
               \/ request[0] # "active"
               \/ \E p \in S : p \notin Partitions \/ ready[p] > 0
  /\ ready' = [p \in Partitions |-> ready[p] + (IF p \in S THEN 1 ELSE 0)]

\* Thread t is in its loop; it advances to step n of it.
InLoop(t) == At(0, "region") /\ t \in Active /\ next[t] < Steps

Advance(t, n) ==
  /\ next' = [next EXCEPT ![t] = n]
  /\ UNCHANGED <<test, pc, epoch, barriers, request, net, probe>>

\* The warm-up of three methods takes the partitions in their natural order.
WarmupInOrder(t) ==
  /\ InLoop(t) /\ epoch[0] = 0
  /\ mode \in {"PsendParrived", "PsendProgress", "CustomPsend"}
  /\ Pready({next[t]})
  /\ Advance(t, next[t] + 1)

\* That of bench_psend_list hands over the whole pattern.
WarmupList(t) ==
  /\ InLoop(t) /\ mode = "PsendList" /\ epoch[0] = 0
  /\ Pready({SendPattern[p] : p \in Partitions})
  /\ Advance(t, Steps)

FaultyPsendMark(t) ==
  /\ InLoop(t) /\ mode = "Psend"
  /\ \E p \in Read(Index(t, next[t])) : Pready({p})
  /\ Advance(t, next[t] + 1)

\* bench_psend, warm-up and iterations: a thread breaks out of its loop when
\* its slice reaches behind the last partition.
PsendMark(t) ==
  /\ InLoop(t) /\ mode = "Psend"
  /\ LET index == Index(t, next[t])
     IN  \/ /\ index >= PartitionCount
            /\ Advance(t, Steps)
            /\ UNCHANGED <<ready, misuse>>
         \/ /\ index < PartitionCount
            /\ Pready({SendPattern[index]})
            /\ Advance(t, next[t] + 1)

\* bench_psend_list: one call for the whole slice of a thread.
ListMark(t) ==
  /\ InLoop(t) /\ mode = "PsendList" /\ epoch[0] > 0
  /\ LET slice == {Index(t, p) : p \in 0 .. PerThread - 1}
     IN  \E other \in UNION {Read(index) : index \in slice} :
           Pready({other} \cup {SendPattern[p] : p \in slice \cap Partitions})
  /\ Advance(t, Steps)

\* bench_psend_parrived: the slice one by one, without bench_psend's guard.
ParrivedMark(t) ==
  /\ InLoop(t) /\ mode = "PsendParrived" /\ epoch[0] > 0
  /\ \E p \in Read(Index(t, next[t])) : Pready({p})
  /\ Advance(t, next[t] + 1)

\* bench_psend_progress: likewise, with an MPI_Request_get_status before each
\* MPI_Pready, "to trigger progress".  It "sometimes returns true despite not
\* all Pready calls being done" (bench_psend_progress.c:105-114); all threads
\* write the answer to one variable, and since the loop that would read it is
\* commented out nobody does, so a wrong answer changes nothing.
ProgressMark(t) ==
  /\ InLoop(t) /\ mode = "PsendProgress" /\ epoch[0] > 0
  /\ \E p \in Read(Index(t, next[t])) : Pready({p})
  /\ Advance(t, next[t] + 1)

\* bench_custom_psend: the whole pattern in one thread.
CustomMark(t) ==
  /\ InLoop(t) /\ mode = "CustomPsend" /\ epoch[0] > 0
  /\ Pready({SendPattern[next[t]]})
  /\ Advance(t, next[t] + 1)

\* The implicit barrier at the end of the parallel region.
Join ==
  /\ At(0, "region")
  /\ \A t \in Active : next[t] = Steps
  /\ Goto(0, "wait")
  /\ UNCHANGED <<test, epoch, barriers, request, team, net, probe, misuse>>

\* MPI_Wait returns when MPI needs the send buffer no more.
SendWait ==
  /\ At(0, "wait")
  /\ taken = Partitions
  /\ request' = [request EXCEPT ![0] = "inactive"]
  /\ epoch' = [epoch EXCEPT ![0] = @ + 1]
  /\ Goto(0, AfterEpoch(0))
  /\ UNCHANGED <<test, barriers, team, net, probe, misuse>>

-------------------------------------------------------------------------------
(* Rank 1.                                                                 *)

Complete == arrived = Partitions

Polls == epoch[1] > 0 /\ mode \in {"PsendParrived", "PsendProgress"}

RecvStart ==
  /\ At(1, "start")
  /\ misuse' = (misuse \/ request[1] # "inactive")
  /\ request' = [request EXCEPT ![1] = "active"]
  /\ arrived' = {}
  /\ probe' = 0
  /\ Goto(1, IF Polls THEN "poll" ELSE "wait")
  /\ UNCHANGED <<test, epoch, barriers, team, taken, wire, buffer>>

\* MPI_Request_get_status: the poll ends when the request is complete.
GetStatus ==
  /\ At(1, "poll")
  /\ Goto(1, IF Complete THEN "wait"
             ELSE IF mode = "PsendParrived" THEN "parrived" ELSE "poll")
  /\ UNCHANGED <<test, epoch, barriers, request, team, net, probe, misuse>>

FaultyParrived ==
  /\ At(1, "parrived")
  /\ misuse' = (misuse \/ request[1] # "active")
  /\ \E flag \in BOOLEAN :
       /\ Complete => flag
       /\ arrived = {} => ~flag
       /\ Goto(1, IF flag THEN "wait" ELSE "poll")
  /\ probe' = (probe + 1) % RecvCount
  /\ UNCHANGED <<test, epoch, barriers, request, team, net>>

\* MPI_Parrived, whose answer is dropped (bench_psend_parrived.c:96-97).
Parrived ==
  /\ At(1, "parrived")
  /\ misuse' = (misuse \/ request[1] # "active")
  /\ Goto(1, "poll")
  /\ probe' = (probe + 1) % RecvCount
  /\ UNCHANGED <<test, epoch, barriers, request, team, net>>

FaultyRecvWait ==
  /\ At(1, "wait")
  /\ request' = [request EXCEPT ![1] = "inactive"]
  /\ epoch' = [epoch EXCEPT ![1] = @ + 1]
  /\ Goto(1, AfterEpoch(1))
  /\ UNCHANGED <<test, barriers, team, net, probe, misuse>>

\* MPI_Wait returns when every partition of the epoch has arrived.
RecvWait ==
  /\ At(1, "wait")
  /\ Complete
  /\ request' = [request EXCEPT ![1] = "inactive"]
  /\ epoch' = [epoch EXCEPT ![1] = @ + 1]
  /\ Goto(1, AfterEpoch(1))
  /\ UNCHANGED <<test, barriers, team, net, probe, misuse>>

-------------------------------------------------------------------------------
(* MPI, external.                                                          *)

\* A ready partition leaves the send buffer.
Take(p) ==
  /\ request[0] = "active"
  /\ ready[p] > 0 /\ p \notin taken
  /\ taken' = taken \cup {p}
  /\ wire' = wire \cup {<<epoch[0], p>>}
  /\ UNCHANGED <<test, pc, epoch, barriers, request, team, arrived, buffer,
                 probe, misuse>>

\* It lands in the receive of the same epoch once that is started.
Deliver(p) ==
  /\ request[1] = "active"
  /\ <<epoch[1], p>> \in wire
  /\ wire' = wire \ {<<epoch[1], p>>}
  /\ arrived' = arrived \cup {p}
  /\ buffer' = [buffer EXCEPT ![p] = epoch[1]]
  /\ UNCHANGED <<test, pc, epoch, barriers, request, team, taken, probe,
                 misuse>>

-------------------------------------------------------------------------------
Rank(r) ==
  \/ InitRequest(r) \/ EnterBarrier(r) \/ LeaveBarrier(r) \/ FreeRequest(r)
  \/ r = 0 /\ (SendStart \/ Join \/ SendWait)
  \/ r = 1 /\ (RecvStart \/ GetStatus \/ Parrived \/ RecvWait)

Thread(t) ==
  \/ WarmupInOrder(t) \/ WarmupList(t)
  \/ PsendMark(t) \/ ListMark(t) \/ ParrivedMark(t) \/ ProgressMark(t)
  \/ CustomMark(t)

AllThreads == UNION {0 .. c.threads - 1 : c \in Tests}

Mpi == \E p \in Partitions : Take(p) \/ Deliver(p)

Finished == pc = [r \in Ranks |-> "done"]

Next ==
  \/ \E r \in Ranks : Rank(r)
  \/ \E t \in AllThreads : Thread(t)
  \/ Mpi
  \/ Finished /\ UNCHANGED vars

\* Threads and ranks are scheduled and MPI makes progress, asked or not.  Not so
\* in bench_psend_progress: its sender "sometimes gets stuck" in front of
\* MPI_Wait, "but only if MPI_Request_get_status is called"
\* (bench_psend_progress.c:120), and it always is.  What of MPI's progress
\* is lost there nothing in the repository says, so none is assumed.
Fairness ==
  /\ \A r \in Ranks : WF_vars(Rank(r))
  /\ \A t \in AllThreads : WF_vars(Thread(t))
  /\ WF_vars(mode # "PsendProgress" /\ Mpi)

Spec == Init /\ [][Next]_vars /\ Fairness
-------------------------------------------------------------------------------
(* Properties.                                                             *)

TypeOK ==
  /\ test \in Tests
  /\ pc \in [Ranks -> {"enter", "barrier0", "init", "start", "region", "poll",
                       "parrived", "wait", "warm", "barrier1", "end",
                       "barrier2", "free", "done"}]
  /\ epoch \in [Ranks -> 0 .. Iterations + 1]
  /\ barriers \in [Ranks -> 0..3]
  /\ request \in [Ranks -> {"none", "inactive", "active", "freed"}]
  /\ next \in [Team -> 0..PartitionCount]
  /\ ready \in [Partitions -> Nat]
  /\ taken \subseteq Partitions /\ arrived \subseteq Partitions
  /\ wire \subseteq Epochs \X Partitions
  /\ buffer \in [Partitions -> Epochs \cup {Nothing}]
  /\ probe \in 0 .. RecvCount - 1
  /\ misuse \in BOOLEAN

(* No call is erroneous: a request is started and freed only while it is   *)
(* inactive, and however the team is scheduled no partition is marked      *)
(* ready twice in an epoch or outside of one.                              *)
MpiUsedCorrectly == ~misuse

(* In the two methods that poll, rank 1 stops IterationStartToWait only    *)
(* when all the data is there, so that the MPI_Wait behind it returns at   *)
(* once (bench_psend_parrived.c:102, bench_psend_progress.c:140).  It is   *)
(* about the loops: what MPI answers on the receiving side is taken to be  *)
(* right (bench_psend_progress.c:108-110 doubts the sending side).         *)
PollEndsComplete == pc[1] = "wait" /\ Polls => Complete

(* Outside of an epoch the receive buffer holds the data of the last one   *)
(* and of no other, in all partitions: that is what memcmp looks at        *)
(* (bench.c:135), although rank 0 may already be in the next epoch.        *)
BufferOfEpoch ==
  request[1] = "inactive" => \A p \in Partitions : buffer[p] = epoch[1] - 1

Phase(r) ==
  CASE pc[r] \in {"enter", "barrier0", "init", "warm"} -> "warmup"
    [] pc[r] = "barrier1" -> "first"
    [] pc[r] = "barrier2" -> "second"
    [] pc[r] \in {"free", "done"} -> "done"
    [] OTHER -> IF epoch[r] = 0 THEN "warmup" ELSE "timed"

Method ==
  INSTANCE RunMethod WITH
    Rounds <- [r \in Ranks |-> Iterations],
    phase <- [r \in Ranks |-> Phase(r)],
    iter <- [r \in Ranks |-> IF epoch[r] = 0 THEN 0 ELSE epoch[r] - 1]

(* What Total measures is all of the transfer and nothing but the transfer *)
(* (bench_psend.c:43-44 and :81-83): past the first barrier the other rank *)
(* has done its warm-up, past the second one all of its iterations.  In    *)
(* four of the five methods both ranks also get there.  For PsendProgress  *)
(* that is not claimed: "sometimes gets stuck here, but only if            *)
(* MPI_Request_get_status is called" (bench_psend_progress.c:120); only    *)
(* the safety part is checked of it, with an MPI that may stand still.     *)
MethodSpec ==
  /\ Method!Init /\ [][Method!Next]_(Method!vars)
  /\ mode # "PsendProgress" => Method!Fairness
-------------------------------------------------------------------------------
(* The inductive invariant of the safety part of MethodSpec: the program   *)
(* counter of a rank determines how many barriers it has entered, and      *)
(* which epochs it may be in.                                              *)

Extra == IF mode = "CustomPsend" THEN 1 ELSE 0
InEpoch == {"start", "region", "poll", "parrived", "wait"}

BarrierCount(r) ==
  CASE pc[r] = "enter" -> 0
    [] pc[r] \in {"barrier0", "init", "warm"} -> Extra
    [] pc[r] \in {"barrier1", "end"} -> Extra + 1
    [] pc[r] \in {"barrier2", "free", "done"} -> Extra + 2
    [] OTHER -> IF epoch[r] = 0 THEN Extra ELSE Extra + 1

EpochsAt(r) ==
  CASE pc[r] \in {"enter", "barrier0", "init"} -> {0}
    [] pc[r] \in {"warm", "barrier1"} -> {1}
    [] pc[r] \in {"end", "barrier2", "free", "done"} -> {Iterations + 1}
    [] OTHER -> 0..Iterations

ControlInv ==
  /\ pc \in [Ranks -> {"enter", "barrier0", "init", "warm", "barrier1", "end",
                       "barrier2", "free", "done"} \cup InEpoch]
  /\ epoch \in [Ranks -> Nat]
  /\ barriers \in [Ranks -> Nat]
  /\ \A r \in Ranks :
       /\ pc[r] \in {"enter", "barrier0"} => mode = "CustomPsend"
       /\ epoch[r] \in EpochsAt(r)
       /\ barriers[r] = BarrierCount(r)
-------------------------------------------------------------------------------
(* The inductive invariant of the other properties.                        *)

\* What the assertion in test_cases.c:225 says of a test case.  bench_psend has
\* a guard of its own and bench_custom_psend no team.
Divides(c) ==
  ((PartitionCount + c.threads - 1) \div c.threads) * c.threads = PartitionCount

TeamsAreEven ==
  \A c \in Tests : c.mode \in {"Psend", "CustomPsend"} \/ Divides(c)

\* The state of a rank's request, told from where the rank is.
RequestAt(r) ==
  CASE pc[r] \in {"enter", "barrier0", "init"} -> "none"
    [] pc[r] \in {"region", "poll", "parrived", "wait"} -> "active"
    [] pc[r] = "done" -> "freed"
    [] OTHER -> "inactive"

\* The partition that index i of the send side stands for in this epoch.
Mark(i) ==
  IF epoch[0] = 0 /\ mode \in {"PsendParrived", "PsendProgress", "CustomPsend"}
  THEN i ELSE SendPattern[i]

\* What the team has marked in this epoch: the indices its threads are past.
Marked ==
  {p \in Partitions :
     \E t \in Active : \E k \in 0 .. next[t] - 1 :
       Index(t, k) < PartitionCount /\ p = Mark(Index(t, k))}

\* Each partition is ready once if it is marked; the team is done at the wait.
MarkInv ==
  /\ pc[0] \in {"region", "wait"} =>
       /\ \A t \in Active : next[t] \in IF mode = "PsendList" THEN {0, Steps}
                                        ELSE 0..Steps
       /\ \A p \in Partitions : ready[p] = IF p \in Marked THEN 1 ELSE 0
  /\ pc[0] = "wait" => \A t \in Active : next[t] = Steps
  /\ MpiUsedCorrectly

RequestInv == \A r \in Ranks : request[r] = RequestAt(r)

\* Rank 1's buffer fills with its epoch while its request is active.
RecvInv ==
  /\ pc[1] \in {"poll", "parrived"} => Polls
  /\ PollEndsComplete
  /\ IF request[1] = "active"
     THEN \A p \in arrived : buffer[p] = epoch[1]
     ELSE \A p \in Partitions : buffer[p] = epoch[1] - 1

IInv == TypeOK /\ ControlInv /\ RequestInv /\ RecvInv
===============================================================================
