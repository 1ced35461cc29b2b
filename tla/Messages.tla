------------------------------- MODULE Messages -------------------------------
(***************************************************************************)
(* The run methods that move the buffer as one message for each partition: *)
(* benchmarks/bench_send.c, bench_send_persistent.c, bench_isend.c,        *)
(* bench_isend_test.c, bench_isend_then_test.c and bench_isend_testall.c.  *)
(*                                                                         *)
(* Both ranks have a team of threads.  A partition number is the tag of    *)
(* its message, and MPI matches the sends and receives of a tag in the     *)
(* order of the calls: the k-th with the k-th.  Nothing else ties a        *)
(* message to an iteration, so sends and receives are counted per tag.  A  *)
(* request handle is the number of its send or receive.                    *)
(*                                                                         *)
(* The partition count is a multiple of the thread count (test_cases.c:225 *)
(* asserts it; Partitioned shows what happens otherwise).                  *)
(*                                                                         *)
(* A definition named Faulty... is the one behind it with a single fault.  *)
(* No behaviour of Spec takes it: it shows what a property would detect.   *)
(***************************************************************************)
EXTENDS Integers, FiniteSets

CONSTANTS
  Tests,        (* the test cases to consider: [mode, perThread, pattern]  *)
  Threads,      (* test_case->thread_count                                 *)
  Iterations    (* test_case->iteration_count                              *)

AllModes ==
  {"Send", "SendPersistent",
   "Isend", "IsendTest", "IsendThenTest", "IsendTestall"}

ASSUME CountAssumption == Threads \in Nat \ {0} /\ Iterations \in Nat

\* send_pattern and recv_pattern are the same permutation.
ASSUME TestsAssumption ==
  \A c \in Tests :
    LET partitions == 0 .. Threads * c.perThread - 1
    IN  /\ c.mode \in AllModes
        /\ c.perThread \in Nat \ {0}
        /\ c.pattern \in [partitions -> partitions]
        /\ \A p, q \in partitions : c.pattern[p] = c.pattern[q] => p = q

Ranks == {0, 1}
Other(r) == 1 - r
Team == 0 .. Threads - 1

VARIABLES
  test,      (* the test case, a constant                                  *)
  pc,        (* where each rank's main thread is                           *)
  iter,      (* for each rank: completed iterations                        *)
  barriers,  (* for each rank: barriers entered                            *)
  next,      (* for each rank and thread: its loop counter p               *)
  stage,     (* for each rank and thread: where in the loop body it is     *)
  held,      (* for each rank and thread: the handle it has at hand        *)
  requests,  (* for each rank: the array of request handles                *)
  posted,    (* for each rank and tag: sends, receives that were started   *)
  taken,     (* for each tag: sends whose buffer MPI needs no more         *)
  landed,    (* for each tag: messages in the receive buffer               *)
  flag,      (* rank 0: answer of the last MPI_Request_get_status          *)
  misuse     (* two threads waited for one request, or an active one was   *)
             (* started again                                              *)

mode == test.mode
PerThread == test.perThread
PartitionCount == Threads * PerThread
Partitions == 0 .. PartitionCount - 1
Pattern == test.pattern

team == <<next, stage, held>>
net == <<taken, landed>>
vars == <<test, pc, iter, barriers, team, requests, posted, net, flag, misuse>>

Null == 0      (* MPI_REQUEST_NULL, or a persistent request not started    *)

Init ==
  /\ test \in Tests
  /\ pc = [r \in Ranks |-> CASE mode = "SendPersistent" -> "warmed"
                             [] mode = "Isend" -> "team"
                             [] OTHER -> "warmup"]
  /\ iter = [r \in Ranks |-> 0]
  /\ barriers = [r \in Ranks |-> 0]
  /\ next = [r \in Ranks |-> [t \in Team |-> 0]]
  /\ stage = [r \in Ranks |-> [t \in Team |-> "post"]]
  /\ held = [r \in Ranks |-> [t \in Team |-> Null]]
  /\ requests = [r \in Ranks |-> [p \in Partitions |-> Null]]
  /\ posted = [r \in Ranks |-> [p \in Partitions |-> 0]]
  /\ taken = [p \in Partitions |-> 0]
  /\ landed = [p \in Partitions |-> 0]
  /\ flag = FALSE
  /\ misuse = FALSE

At(r, from) == pc[r] = from
Goto(r, to) == pc' = [pc EXCEPT ![r] = to]

\* The k-th send or receive of tag p is complete.
Complete(r, p, k) == k <= (IF r = 0 THEN taken[p] ELSE landed[p])

\* MPI_Isend or MPI_Irecv: the next send or receive of the tag.
Post(r, p) == posted' = [posted EXCEPT ![r][p] = @ + 1]
Handle(r, p) == posted[r][p] + 1

-------------------------------------------------------------------------------
(* Warm-up.                                                                *)

\* One message with the whole buffer, in all methods but two.
WarmupPost(r) ==
  /\ At(r, "warmup")
  /\ Post(r, 0)
  /\ requests' = [requests EXCEPT ![r][0] = Handle(r, 0)]
  /\ Goto(r, "warmupwait")
  /\ UNCHANGED <<test, iter, barriers, team, net, flag, misuse>>

FaultyWarmupWait(r) ==
  /\ At(r, "warmupwait")
  /\ requests' = [requests EXCEPT ![r][0] = Null]
  /\ Goto(r, "warmed")
  /\ UNCHANGED <<test, iter, barriers, team, posted, net, flag, misuse>>

WarmupWait(r) ==
  /\ At(r, "warmupwait")
  /\ Complete(r, 0, requests[r][0])
  /\ requests' = [requests EXCEPT ![r][0] = Null]
  /\ Goto(r, "warmed")
  /\ UNCHANGED <<test, iter, barriers, team, posted, net, flag, misuse>>

\* In bench_isend every thread of the team exchanges the tags 0..PerThread-1,
\* and all threads keep the handle for tag p in requests[p].
InWarmup(r, t, from) ==
  /\ At(r, "team") /\ next[r][t] < PerThread /\ stage[r][t] = from

WarmupTag(r, t) == next[r][t]

Step(r, t, to) == stage' = [stage EXCEPT ![r][t] = to]

TeamPost(r, t) ==
  /\ InWarmup(r, t, "post")
  /\ Post(r, WarmupTag(r, t))
  /\ held' = [held EXCEPT ![r][t] = Handle(r, WarmupTag(r, t))]
  /\ Step(r, t, "store")
  /\ UNCHANGED <<test, pc, iter, barriers, next, requests, net, flag, misuse>>

TeamStore(r, t) ==
  /\ InWarmup(r, t, "store")
  /\ requests' = [requests EXCEPT ![r][WarmupTag(r, t)] = held[r][t]]
  /\ Step(r, t, "read")
  /\ UNCHANGED <<test, pc, iter, barriers, next, held, posted, net, flag,
                 misuse>>

\* MPI_Wait reads the handle, waits, and writes MPI_REQUEST_NULL back.  What
\* two waits for one request do is undefined; here both of them return.
TeamRead(r, t) ==
  /\ InWarmup(r, t, "read")
  /\ LET handle == requests[r][WarmupTag(r, t)]
     IN  /\ held' = [held EXCEPT ![r][t] = handle]
         /\ misuse' = (misuse \/ \E u \in Team \ {t} :
                         /\ InWarmup(r, u, "wait")
                         /\ WarmupTag(r, u) = WarmupTag(r, t)
                         /\ held[r][u] = handle /\ handle # Null)
  /\ Step(r, t, "wait")
  /\ UNCHANGED <<test, pc, iter, barriers, next, requests, posted, net, flag>>

TeamWait(r, t) ==
  /\ InWarmup(r, t, "wait")
  /\ Complete(r, WarmupTag(r, t), held[r][t])
  /\ requests' = IF held[r][t] = Null THEN requests
                 ELSE [requests EXCEPT ![r][WarmupTag(r, t)] = Null]
  /\ held' = [held EXCEPT ![r][t] = Null]
  /\ next' = [next EXCEPT ![r][t] = @ + 1]
  /\ Step(r, t, "post")
  /\ UNCHANGED <<test, pc, iter, barriers, posted, net, flag, misuse>>

\* The barrier behind every parallel region.
Join(r, steps, to) ==
  /\ \A t \in Team : next[r][t] = steps
  /\ next' = [next EXCEPT ![r] = [t \in Team |-> 0]]
  /\ Goto(r, to)

JoinWarmup(r) ==
  /\ At(r, "team")
  /\ Join(r, PerThread, "warmed")
  /\ UNCHANGED <<test, iter, barriers, stage, held, requests, posted, net, flag,
                 misuse>>

-------------------------------------------------------------------------------
(* Barriers.                                                               *)

FaultySynchronous == mode = "Send"

\* These two have a barrier at the start of every iteration.
Synchronous == mode \in {"Send", "SendPersistent"}

EnterBarrier(r) ==
  /\ \/ At(r, "warmed") /\ Goto(r, "barrier1")
     \/ /\ At(r, "iterate") /\ iter[r] < Iterations /\ Synchronous
        /\ Goto(r, "sync")
     \/ At(r, "iterate") /\ iter[r] = Iterations /\ Goto(r, "barrier2")
  /\ barriers' = [barriers EXCEPT ![r] = @ + 1]
  /\ UNCHANGED <<test, iter, team, requests, posted, net, flag, misuse>>

MayLeave(r) == barriers[Other(r)] >= barriers[r]

LeaveBarrier(r) ==
  /\ MayLeave(r)
  /\ \/ At(r, "barrier1") /\ Goto(r, "iterate")
     \/ At(r, "sync") /\ Goto(r, "region")
     \/ At(r, "barrier2") /\ Goto(r, "done")
  /\ UNCHANGED <<test, iter, barriers, team, requests, posted, net, flag,
                 misuse>>

-------------------------------------------------------------------------------
(* Iterations: the parallel region.                                        *)

FaultyStartRegion(r) ==
  /\ At(r, "iterate") /\ iter[r] <= Iterations /\ ~Synchronous
  /\ Goto(r, "region")
  /\ UNCHANGED <<test, iter, barriers, team, requests, posted, net, flag,
                 misuse>>

StartRegion(r) ==
  /\ At(r, "iterate") /\ iter[r] < Iterations /\ ~Synchronous
  /\ Goto(r, "region")
  /\ UNCHANGED <<test, iter, barriers, team, requests, posted, net, flag,
                 misuse>>

\* bench_isend_then_test receives in one thread, all others in the team.
Alone(r) == r = 1 /\ mode = "IsendThenTest"
Active(r) == IF Alone(r) THEN {0} ELSE Team
Steps(r) == IF Alone(r) THEN PartitionCount ELSE PerThread

\* partition_num = pattern[p + t * partitions_per_thread]
Partition(r, t) == Pattern[next[r][t] + t * PerThread]

InRegion(r, t, from) ==
  /\ At(r, "region") /\ t \in Active(r) /\ next[r][t] < Steps(r)
  /\ stage[r][t] = from

\* MPI_Send, MPI_Recv: the call, and its return when the buffer is free again
\* or filled.
SendPost(r, t) ==
  /\ mode = "Send" /\ InRegion(r, t, "post")
  /\ Post(r, Partition(r, t))
  /\ held' = [held EXCEPT ![r][t] = Handle(r, Partition(r, t))]
  /\ Step(r, t, "wait")
  /\ UNCHANGED <<test, pc, iter, barriers, next, requests, net, flag, misuse>>

SendReturn(r, t) ==
  /\ mode = "Send" /\ InRegion(r, t, "wait")
  /\ Complete(r, Partition(r, t), held[r][t])
  /\ held' = [held EXCEPT ![r][t] = Null]
  /\ next' = [next EXCEPT ![r][t] = @ + 1]
  /\ Step(r, t, "post")
  /\ UNCHANGED <<test, pc, iter, barriers, requests, posted, net, flag, misuse>>

\* MPI_Isend, MPI_Irecv; an earlier handle in the array is overwritten.
IsendPost(r, t) ==
  /\ mode \notin {"Send", "SendPersistent"} /\ InRegion(r, t, "post")
  /\ LET p == Partition(r, t)
     IN  /\ Post(r, p)
         /\ requests' = [requests EXCEPT ![r][p] = Handle(r, p)]
  /\ next' = [next EXCEPT ![r][t] = @ + 1]
  /\ UNCHANGED <<test, pc, iter, barriers, stage, held, net, flag, misuse>>

\* MPI_Start on a persistent request, which has to be inactive.
PersistentStart(r, t) ==
  /\ mode = "SendPersistent" /\ InRegion(r, t, "post")
  /\ LET p == Partition(r, t)
     IN  /\ Post(r, p)
         /\ misuse' = (misuse \/ requests[r][p] # Null)
         /\ requests' = [requests EXCEPT ![r][p] = Handle(r, p)]
  /\ next' = [next EXCEPT ![r][t] = @ + 1]
  /\ UNCHANGED <<test, pc, iter, barriers, stage, held, net, flag>>

JoinRegion(r) ==
  /\ At(r, "region")
  /\ \A t \in Active(r) : next[r][t] = Steps(r)
  /\ next' = [next EXCEPT ![r] = [t \in Team |-> 0]]
  /\ Goto(r, CASE mode = "Send" -> "iterate"
               [] mode = "IsendThenTest" /\ r = 0 -> "poll"
               [] mode = "IsendTestall" /\ r = 0 -> "testall"
               [] OTHER -> "waitall")
  /\ iter' = [iter EXCEPT ![r] = IF mode = "Send" THEN @ + 1 ELSE @]
  /\ UNCHANGED <<test, barriers, stage, held, requests, posted, net, flag,
                 misuse>>

-------------------------------------------------------------------------------
(* Iterations: what is behind the parallel region.                         *)

AllComplete(r) == \A p \in Partitions : Complete(r, p, requests[r][p])

EndIteration(r) ==
  /\ iter' = [iter EXCEPT ![r] = @ + 1]
  /\ Goto(r, "iterate")

FaultyWaitall(r) ==
  /\ At(r, "waitall")
  /\ \A p \in 0 .. PerThread - 1 : Complete(r, p, requests[r][p])
  /\ requests' = [requests EXCEPT ![r] =
                    [p \in Partitions |-> IF p < PerThread THEN Null ELSE @[p]]]
  /\ EndIteration(r)
  /\ UNCHANGED <<test, barriers, team, posted, net, flag, misuse>>

Waitall(r) ==
  /\ At(r, "waitall")
  /\ AllComplete(r)
  /\ requests' = [requests EXCEPT ![r] = [p \in Partitions |-> Null]]
  /\ EndIteration(r)
  /\ UNCHANGED <<test, barriers, team, posted, net, flag, misuse>>

\* while (!flag) MPI_Testall(...): a test that fails changes nothing.
Testall ==
  /\ At(0, "testall")
  /\ AllComplete(0)
  /\ requests' = [requests EXCEPT ![0] = [p \in Partitions |-> Null]]
  /\ EndIteration(0)
  /\ UNCHANGED <<test, barriers, team, posted, net, flag, misuse>>

\* As if flag were private to the threads, like the one of bench_isend_test.
FaultyPoll(t) ==
  /\ At(0, "poll") /\ next[0][t] < PerThread
  /\ next' = [next EXCEPT ![0][t] = @ + 1]
  /\ UNCHANGED <<test, pc, iter, barriers, stage, held, requests, posted, net,
                 flag, misuse>>

\* bench_isend_then_test: all threads ask for the requests of the partitions
\* below PerThread and write the answer to one flag.
Poll(t) ==
  /\ At(0, "poll") /\ next[0][t] < PerThread
  /\ flag' = Complete(0, next[0][t], requests[0][next[0][t]])
  /\ next' = [next EXCEPT ![0][t] = @ + 1]
  /\ UNCHANGED <<test, pc, iter, barriers, stage, held, requests, posted, net,
                 misuse>>

\* while (!flag): ask again.
PollAgain ==
  /\ At(0, "poll") /\ ~flag
  /\ Join(0, PerThread, "poll")
  /\ UNCHANGED <<test, iter, barriers, stage, held, requests, posted, net, flag,
                 misuse>>

\* The requests are not waited for: MPI finishes them in the background.
PollEnds ==
  /\ At(0, "poll") /\ flag
  /\ Join(0, PerThread, "iterate")
  /\ iter' = [iter EXCEPT ![0] = @ + 1]
  /\ flag' = FALSE
  /\ UNCHANGED <<test, barriers, stage, held, requests, posted, net, misuse>>

-------------------------------------------------------------------------------
(* MPI, external.                                                          *)

\* A short message leaves the send buffer before there is a receive for it.
Buffered(p) ==
  /\ taken[p] < posted[0][p]
  /\ taken' = [taken EXCEPT ![p] = @ + 1]
  /\ UNCHANGED <<test, pc, iter, barriers, team, requests, posted, landed, flag,
                 misuse>>

Deliver(p) ==
  /\ landed[p] < posted[0][p] /\ landed[p] < posted[1][p]
  /\ landed' = [landed EXCEPT ![p] = @ + 1]
  /\ taken' = [taken EXCEPT ![p] = IF @ > landed[p] THEN @ ELSE landed[p] + 1]
  /\ UNCHANGED <<test, pc, iter, barriers, team, requests, posted, flag,
                 misuse>>

-------------------------------------------------------------------------------
Rank(r) ==
  \/ WarmupPost(r) \/ WarmupWait(r) \/ JoinWarmup(r)
  \/ EnterBarrier(r) \/ LeaveBarrier(r)
  \/ StartRegion(r) \/ JoinRegion(r) \/ Waitall(r)
  \/ r = 0 /\ (Testall \/ PollAgain \/ PollEnds)

Thread(r, t) ==
  \/ TeamPost(r, t) \/ TeamStore(r, t) \/ TeamRead(r, t) \/ TeamWait(r, t)
  \/ SendPost(r, t) \/ SendReturn(r, t)
  \/ IsendPost(r, t) \/ PersistentStart(r, t)
  \/ r = 0 /\ Poll(t)

Finished == pc = [r \in Ranks |-> "done"]

Next ==
  \/ \E r \in Ranks : Rank(r)
  \/ \E r \in Ranks, t \in Team : Thread(r, t)
  \/ \E p \in Partitions : Buffered(p) \/ Deliver(p)
  \/ Finished /\ UNCHANGED vars

\* Threads and ranks are scheduled and MPI delivers what has its receive; it
\* need not buffer anything.
Fairness ==
  /\ \A r \in Ranks : WF_vars(Rank(r))
  /\ \A r \in Ranks, t \in Team : WF_vars(Thread(r, t))
  /\ \A p \in UNION {DOMAIN c.pattern : c \in Tests} :
       WF_vars(p \in Partitions /\ Deliver(p))

Spec == Init /\ [][Next]_vars /\ Fairness
-------------------------------------------------------------------------------
(* Properties.                                                             *)

TypeOK ==
  /\ test \in Tests
  /\ pc \in [Ranks -> {"warmup", "warmupwait", "team", "warmed", "barrier1",
                       "iterate", "sync", "region", "waitall", "testall",
                       "poll", "barrier2", "done"}]
  /\ iter \in [Ranks -> 0..Iterations]
  /\ barriers \in [Ranks -> 0 .. Iterations + 2]
  /\ next \in [Ranks -> [Team -> 0..PartitionCount]]
  /\ stage \in [Ranks -> [Team -> {"post", "store", "read", "wait"}]]
  /\ held \in [Ranks -> [Team -> Nat]]
  /\ requests \in [Ranks -> [Partitions -> Nat]]
  /\ posted \in [Ranks -> [Partitions -> Nat]]
  /\ taken \in [Partitions -> Nat] /\ landed \in [Partitions -> Nat]
  /\ flag \in BOOLEAN /\ misuse \in BOOLEAN

(* No persistent request is started while it is active, and no two threads *)
(* wait for the same request (bench_send_persistent.c:39 and :57), except  *)
(* in bench_isend, whose warm-up does the latter (WarmupIsOver).           *)
MpiUsedCorrectly == mode # "Isend" => ~misuse

\* Messages of tag p that the warm-up exchanges.
Warmup(p) ==
  CASE mode = "SendPersistent" -> 0
    [] mode = "Isend" -> IF p < PerThread THEN Threads ELSE 0
    [] OTHER -> IF p = 0 THEN 1 ELSE 0

(* What Iteration measures is one message for every partition, all of it:  *)
(* at the end of an iteration a rank has started exactly one for each, and *)
(* they are complete.  The sender of bench_isend_then_test is the          *)
(* exception, it leaves when one partition is done.                        *)
IterationIsComplete ==
  \A r \in Ranks : \A p \in Partitions :
    iter[r] > 0 /\ pc[r] \in {"iterate", "barrier2", "done"} =>
      /\ posted[r][p] = Warmup(p) + iter[r]
      /\ (r = 0 /\ mode = "IsendThenTest") \/ Complete(r, p, posted[r][p])

(* With a barrier in front of each iteration the time of an iteration does *)
(* not contain another one of the other rank (bench_send.c:24 and :42,     *)
(* bench_send_persistent.c:30 and :49).                                    *)
InStep ==
  mode \in {"Send", "SendPersistent"} =>
    \A r \in Ranks :
      pc[r] \in {"region", "waitall"} =>
        \/ iter[Other(r)] = iter[r]
        \/ /\ iter[Other(r)] = iter[r] + 1
           /\ pc[Other(r)] \in {"iterate", "sync", "barrier2"}

(* The warm-up is over when Total starts: a rank that has left the first   *)
(* barrier has no message of it under way (bench_isend.c:12 and :31-32).   *)
WarmupIsOver ==
  \A r \in Ranks : \A p \in Partitions :
    pc[r] \notin {"warmup", "warmupwait", "team", "warmed", "barrier1"} =>
      Complete(1, p, Warmup(p))

(* In all methods but bench_isend it is.                                   *)
FirstBarrierFences == mode # "Isend" => WarmupIsOver

(* Nothing is left for the next test, whose messages have the same tags:   *)
(* behind the last barrier every send has met its receive.                 *)
NothingLeft ==
  \A r \in Ranks : \A p \in Partitions :
    pc[r] = "done" => posted[0][p] = posted[1][p] /\ landed[p] = posted[0][p]

Phase(r) ==
  CASE pc[r] \in {"warmup", "warmupwait", "team", "warmed"} -> "warmup"
    [] pc[r] = "barrier1" -> "first"
    [] pc[r] = "barrier2" -> "second"
    [] pc[r] = "done" -> "done"
    [] OTHER -> "timed"

Method ==
  INSTANCE RunMethod WITH
    Rounds <- [r \in Ranks |-> Iterations],
    phase <- [r \in Ranks |-> Phase(r)]

(* The barriers fence off what Total measures, although two of the methods *)
(* have more barriers in between (bench_send.c:24 and :42), and the method *)
(* returns on both ranks, however much or little MPI buffers: neither the  *)
(* order of blocking sends and receives nor a shared flag keeps it from    *)
(* ending.                                                                 *)
MethodSpec == Method!Spec
-------------------------------------------------------------------------------
(* The inductive invariant of these properties.                            *)

BeforeFirst == {"warmup", "warmupwait", "team", "warmed"}
Behind == {"waitall", "testall", "poll"}    (* the parallel region         *)

\* Barriers in front of the first k iterations.
Syncs(k) == IF Synchronous THEN k ELSE 0

BarrierCount(r) ==
  CASE pc[r] \in BeforeFirst -> 0
    [] pc[r] = "barrier1" -> 1
    [] pc[r] = "iterate" -> 1 + Syncs(iter[r])
    [] pc[r] \in {"sync", "region"} \cup Behind -> 1 + Syncs(iter[r] + 1)
    [] OTHER -> 2 + Syncs(Iterations)

\* Barriers that a rank has left.
Passed(r) ==
  IF pc[r] \in {"barrier1", "sync", "barrier2"} THEN barriers[r] - 1
  ELSE barriers[r]

IterationsAt(r) ==
  CASE pc[r] \in BeforeFirst \cup {"barrier1"} -> {0}
    [] pc[r] = "iterate" -> 0..Iterations
    [] pc[r] \in {"barrier2", "done"} -> {Iterations}
    [] OTHER -> 0 .. Iterations - 1

\* The methods that come to a place.
ModesAt(r) ==
  CASE pc[r] \in {"warmup", "warmupwait"} -> AllModes \ {"SendPersistent", "Isend"}
    [] pc[r] = "team" -> {"Isend"}
    [] pc[r] = "sync" -> {"Send", "SendPersistent"}
    [] pc[r] = "waitall" -> AllModes \ {"Send"}
    [] pc[r] = "testall" -> {"IsendTestall"}
    [] pc[r] = "poll" -> {"IsendThenTest"}
    [] OTHER -> AllModes

ControlInv ==
  /\ test \in Tests
  /\ pc \in [Ranks -> BeforeFirst \cup {"barrier1", "iterate", "sync", "region"}
                        \cup Behind \cup {"barrier2", "done"}]
  /\ iter \in [Ranks -> Nat] /\ barriers \in [Ranks -> Nat]
  /\ \A r \in Ranks :
       /\ iter[r] \in IterationsAt(r)
       /\ mode \in ModesAt(r)
       /\ pc[r] \in {"testall", "poll"} => r = 0
       /\ pc[r] = "waitall" => r = 1 \/ mode \notin {"IsendThenTest", "IsendTestall"}
       /\ barriers[r] = BarrierCount(r)
       /\ Passed(r) <= barriers[Other(r)]

\* Where the threads are in their loops.
TeamInv(r) ==
  \A t \in Team :
    IF pc[r] = "region" /\ t \in Active(r)
    THEN /\ next[r][t] \in 0..Steps(r)
         /\ stage[r][t] = "post" \/ (/\ stage[r][t] = "wait" /\ mode = "Send"
                                     /\ next[r][t] < Steps(r))
    ELSE IF pc[r] = "team"
    THEN next[r][t] \in 0..PerThread /\ (next[r][t] = PerThread => stage[r][t] = "post")
    ELSE /\ stage[r][t] = "post"
         /\ IF pc[r] = "poll" THEN next[r][t] \in 0..PerThread ELSE next[r][t] = 0

\* Step k of thread t in the parallel region.
Begun(r, t, k) == k < next[r][t] \/ (k = next[r][t] /\ stage[r][t] = "wait")

Started(r) ==
  {p \in Partitions : \E t \in Active(r) : \E k \in 0 .. Steps(r) - 1 :
     p = Pattern[k + t * PerThread] /\ Begun(r, t, k)}

\* Sends or receives of tag p that were started in this iteration, and in the
\* warm-up.
InIteration(r, p) ==
  CASE pc[r] = "region" -> IF p \in Started(r) THEN 1 ELSE 0
    [] pc[r] \in Behind -> 1
    [] OTHER -> 0

InTeam(r, p) ==
  {t \in Team : next[r][t] > p \/ (next[r][t] = p /\ stage[r][t] # "post")}

InWarmups(r, p) ==
  CASE pc[r] = "warmup" -> 0
    [] pc[r] = "team" -> Cardinality(InTeam(r, p))
    [] OTHER -> Warmup(p)

CountInv(r) ==
  \A p \in Partitions : posted[r][p] = InWarmups(r, p) + iter[r] + InIteration(r, p)

\* A handle in requests is that of the last send or receive of the tag.
HandleInv(r) ==
  \A p \in Partitions :
    /\ pc[r] = "warmupwait" /\ p = 0 => requests[r][p] = posted[r][p]
    /\ mode # "Send" /\ InIteration(r, p) = 1 => requests[r][p] = posted[r][p]
    /\ mode = "SendPersistent" /\ InIteration(r, p) = 0 => requests[r][p] = Null

\* The blocking calls of bench_send: one is under way or has returned.
BlockingInv(r) ==
  mode = "Send" /\ pc[r] = "region" =>
    \A t \in Team : \A k \in 0 .. PerThread - 1 :
      LET p == Pattern[k + t * PerThread]
      IN  /\ k < next[r][t] => Complete(r, p, posted[r][p])
          /\ k = next[r][t] /\ stage[r][t] = "wait" => held[r][t] = posted[r][p]

\* What has been waited for is complete.
WaitedInv(r) ==
  \A p \in Partitions :
    /\ mode \notin {"Isend", "SendPersistent"}
         /\ pc[r] \notin {"warmup", "warmupwait"} => Complete(r, p, Warmup(p))
    /\ iter[r] > 0 /\ pc[r] \in {"iterate", "sync", "barrier2", "done"}
         /\ ~(r = 0 /\ mode = "IsendThenTest") => Complete(r, p, posted[r][p])

NetInv ==
  \A p \in Partitions :
    /\ landed[p] <= taken[p] /\ landed[p] <= posted[1][p]
    /\ taken[p] <= posted[0][p]

RankInv(r) ==
  TeamInv(r) /\ CountInv(r) /\ HandleInv(r) /\ BlockingInv(r) /\ WaitedInv(r)

IInv ==
  /\ TypeOK /\ ControlInv /\ NetInv /\ MpiUsedCorrectly
  /\ \A r \in Ranks : RankInv(r)
===============================================================================
