---------------------------- MODULE ProgressThread ----------------------------
(***************************************************************************)
(* The progress thread of benchmarks/bench_psend_progress_thread.c: a      *)
(* helper thread that polls the partitioned request so that the MPI        *)
(* library makes progress while the benchmark's own threads compute.       *)
(*                                                                         *)
(* One rank is modelled: its benchmark thread (pc "main"), its helper      *)
(* (pc "helper"), the three POSIX semaphores they share, the shared        *)
(* pointer thread->request, and the state of the persistent MPI request.   *)
(* Both ranks run the same code and differ in `rank`: rank 0 sends and     *)
(* drives the helper in every iteration, rank 1 receives and only creates  *)
(* and destroys it.  The other rank is left to the fairness of MpiWait.    *)
(*                                                                         *)
(* A definition named Faulty... is the one behind it with a single fault.  *)
(* No behaviour of Spec takes it: it shows what a property would detect.   *)
(***************************************************************************)
EXTENDS Integers

CONSTANT Iterations   (* test_case->iteration_count                        *)

ASSUME IterationsAssumption == Iterations \in Nat

VARIABLES
  rank,      (* comm_rank                                                  *)
  main,      (* program counter of the benchmark's thread                  *)
  helper,    (* program counter of the progress thread                     *)
  caller,    (* where main calls set_request / continue from               *)
  iter,      (* completed iterations                                       *)
  mpi,       (* the MPI request: "inactive", "active" or "freed"           *)
  request,   (* thread->request                                            *)
  request_available, signal_done, accept_requests   (* the semaphores      *)

sems == <<request_available, signal_done, accept_requests>>

vars == <<rank, main, helper, caller, iter, mpi, request, sems>>

Null == "NULL"
Req  == "&request"

\* sem_post, sem_wait and sem_trywait, each of them atomic.
Post(s) == s' = s + 1
Wait(s) == s > 0 /\ s' = s - 1
TryWait(s) == s' = IF s > 0 THEN s - 1 ELSE s

Go(pc, from, to) == pc = from /\ pc' = to

Init ==
  /\ rank \in {0, 1}
  /\ main = "create" /\ helper = "unborn"
  /\ caller = "setup"
  /\ iter = 0
  /\ mpi = "inactive"
  /\ request = Null
  /\ request_available = 0 /\ signal_done = 0 /\ accept_requests = 0

-------------------------------------------------------------------------------
(* The benchmark's thread.                                                 *)

\* progress_thread_create, then the set_request that follows it.
Create ==
  /\ Go(main, "create", "acquire")
  /\ helper' = "hello"
  /\ request' = Null
  /\ request_available' = 0 /\ signal_done' = 0 /\ accept_requests' = 0
  /\ UNCHANGED <<rank, caller, iter, mpi>>

\* MPI_Start(&request).
MpiStart ==
  /\ iter < Iterations
  /\ Go(main, "start", IF rank = 0 THEN "acquire" ELSE "wait")
  /\ caller' = "iterate"
  /\ mpi' = "active"
  /\ UNCHANGED <<rank, helper, iter, request, sems>>

\* progress_thread_set_request is three steps: sem_wait, store, sem_post.
SetRequestWait ==
  /\ Go(main, "acquire", "store")
  /\ Wait(accept_requests)
  /\ UNCHANGED <<rank, helper, caller, iter, mpi, request,
                 request_available, signal_done>>

SetRequestStore ==
  /\ Go(main, "store", "yield")
  /\ request' = IF caller = "destroy" THEN Null ELSE Req
  /\ UNCHANGED <<rank, helper, caller, iter, mpi, sems>>

SetRequestPost ==
  /\ Go(main, "yield", IF caller = "setup" THEN "start" ELSE "drain")
  /\ Post(accept_requests)
  /\ UNCHANGED <<rank, helper, caller, iter, mpi, request,
                 request_available, signal_done>>

\* progress_thread_continue: sem_trywait drops a token the helper has not
\* taken yet, so that the sem_post never makes two of them.
FaultyDrainOther ==
  /\ Go(main, "drain", "signal")
  /\ TryWait(signal_done)
  /\ UNCHANGED <<rank, helper, caller, iter, mpi, request,
                 request_available, accept_requests>>

ContinueDrain ==
  /\ Go(main, "drain", "signal")
  /\ TryWait(request_available)
  /\ UNCHANGED <<rank, helper, caller, iter, mpi, request,
                 signal_done, accept_requests>>

ContinuePost ==
  /\ Go(main, "signal", IF caller = "destroy" THEN "join" ELSE "parallel")
  /\ Post(request_available)
  /\ UNCHANGED <<rank, helper, caller, iter, mpi, request,
                 signal_done, accept_requests>>

\* The parallel region in which every partition is computed and marked ready.
ParallelRegion ==
  /\ Go(main, "parallel", "pause")
  /\ UNCHANGED <<rank, helper, caller, iter, mpi, request, sems>>

FaultyPausePost ==
  /\ Go(main, "pause", "rejoin")
  /\ UNCHANGED <<rank, helper, caller, iter, mpi, request, sems>>

\* progress_thread_pause: post signal_done, then wait until the helper is
\* out of its polling loop by taking accept_requests once.
PausePost ==
  /\ Go(main, "pause", "rejoin")
  /\ Post(signal_done)
  /\ UNCHANGED <<rank, helper, caller, iter, mpi, request,
                 request_available, accept_requests>>

FaultyPauseWait ==
  /\ Go(main, "rejoin", "wait")
  /\ UNCHANGED <<rank, helper, caller, iter, mpi, request, sems>>

PauseWait ==
  /\ Go(main, "rejoin", "reopen")
  /\ Wait(accept_requests)
  /\ UNCHANGED <<rank, helper, caller, iter, mpi, request,
                 request_available, signal_done>>

PauseReopen ==
  /\ Go(main, "reopen", "wait")
  /\ Post(accept_requests)
  /\ UNCHANGED <<rank, helper, caller, iter, mpi, request,
                 request_available, signal_done>>

\* MPI_Wait(&request, ...), the end of an iteration.
MpiWait ==
  /\ Go(main, "wait", "start")
  /\ mpi' = "inactive"
  /\ iter' = iter + 1
  /\ UNCHANGED <<rank, helper, caller, request, sems>>

\* The loop is over: barrier, then progress_thread_destroy.
Destroy ==
  /\ iter = Iterations
  /\ Go(main, "start", "acquire")
  /\ caller' = "destroy"
  /\ UNCHANGED <<rank, helper, iter, mpi, request, sems>>

\* pthread_join; the semaphores are destroyed behind it.
Join ==
  /\ Go(main, "join", "free")
  /\ helper = "done"
  /\ UNCHANGED <<rank, helper, caller, iter, mpi, request, sems>>

RequestFree ==
  /\ Go(main, "free", "done")
  /\ mpi' = "freed"
  /\ UNCHANGED <<rank, helper, caller, iter, request, sems>>

Main ==
  \/ Create \/ MpiStart
  \/ SetRequestWait \/ SetRequestStore \/ SetRequestPost
  \/ ContinueDrain \/ ContinuePost
  \/ ParallelRegion
  \/ PausePost \/ PauseWait \/ PauseReopen
  \/ MpiWait \/ Destroy \/ Join \/ RequestFree

-------------------------------------------------------------------------------
(* The helper: progress().                                                 *)

Hello ==
  /\ Go(helper, "hello", "await")
  /\ Post(accept_requests)
  /\ UNCHANGED <<rank, main, caller, iter, mpi, request,
                 request_available, signal_done>>

AwaitRequest ==
  /\ Go(helper, "await", "enter")
  /\ Wait(request_available)
  /\ UNCHANGED <<rank, main, caller, iter, mpi, request,
                 signal_done, accept_requests>>

FaultyEnter ==
  /\ Go(helper, "enter", "check")
  /\ UNCHANGED <<rank, main, caller, iter, mpi, request, sems>>

Enter ==
  /\ Go(helper, "enter", "check")
  /\ Wait(accept_requests)
  /\ UNCHANGED <<rank, main, caller, iter, mpi, request,
                 request_available, signal_done>>

\* if (thread->request == NULL) break;
CheckRequest ==
  /\ Go(helper, "check", IF request = Null THEN "done" ELSE "try")
  /\ UNCHANGED <<rank, main, caller, iter, mpi, request, sems>>

\* sem_trywait(&thread->signal_done): leave the loop or poll once more.
TryDone ==
  /\ Go(helper, "try", IF signal_done > 0 THEN "release" ELSE "poll")
  /\ TryWait(signal_done)
  /\ UNCHANGED <<rank, main, caller, iter, mpi, request,
                 request_available, accept_requests>>

\* MPI_Request_get_status(*thread->request, ...) and the usleep behind it.
Poll ==
  /\ Go(helper, "poll", "try")
  /\ UNCHANGED <<rank, main, caller, iter, mpi, request, sems>>

Release ==
  /\ Go(helper, "release", "await")
  /\ Post(accept_requests)
  /\ UNCHANGED <<rank, main, caller, iter, mpi, request,
                 request_available, signal_done>>

Helper ==
  \/ Hello \/ AwaitRequest \/ Enter \/ CheckRequest
  \/ TryDone \/ Poll \/ Release

-------------------------------------------------------------------------------
Finished == main = "done" /\ helper = "done"

Next == Main \/ Helper \/ (Finished /\ UNCHANGED vars)

\* Threads that can take a step are scheduled eventually, and MPI_Wait returns.
Fairness == WF_vars(Main) /\ WF_vars(Helper)

Spec == Init /\ [][Next]_vars /\ Fairness
-------------------------------------------------------------------------------
(* Properties.                                                             *)

Inside == {"check", "try", "poll", "release"}

\* The helper is somewhere in an iteration of its loop, signal_done not taken.
Pending ==
  request_available
  + (IF helper \in {"enter", "check", "try", "poll"} THEN 1 ELSE 0)

\* Main has posted request_available and not yet the signal_done that
\* answers it (the last post, in progress_thread_destroy, has no answer).
Unanswered ==
  \/ main \in {"parallel", "pause"}
  \/ caller = "destroy" /\ main \in {"join", "free", "done"}

\* signal_done posts that answer no round of the helper any more.
Surplus == signal_done - Pending + (IF Unanswered THEN 1 ELSE 0)

TypeOK ==
  /\ rank \in {0, 1}
  /\ main \in {"create", "start", "acquire", "store", "yield", "drain",
               "signal", "parallel", "pause", "rejoin", "reopen", "wait",
               "join", "free", "done"}
  /\ helper \in {"unborn", "hello", "await", "enter", "done"} \cup Inside
  /\ caller \in {"setup", "iterate", "destroy"}
  /\ iter \in 0..Iterations
  /\ mpi \in {"inactive", "active", "freed"}
  /\ request \in {Null, Req}
  /\ request_available \in Nat /\ signal_done \in Nat /\ accept_requests \in Nat

(* MPI_Request_get_status is only ever called on a request that main has   *)
(* started and is neither waiting for nor freeing, and never through a     *)
(* NULL pointer (bench_psend_progress_thread.c:88 against :223 and :238).  *)
PollOwned ==
  helper = "poll" =>
    /\ request = Req
    /\ mpi = "active"
    /\ main \in {"parallel", "pause", "rejoin"}

(* progress_thread_check asserts that request_available and                *)
(* accept_requests never exceed 1 (lines 60 and 62).  What it asserts of   *)
(* signal_done (line 61) does not hold: see MissedRoundIsForever.          *)
TokensBinary ==
  /\ request_available <= 1
  /\ accept_requests <= 1

(* Main never exchanges thread->request between the helper's NULL check    *)
(* (line 81) and the post that ends its round (line 93).                   *)
RequestStable == [][(helper \in Inside) => UNCHANGED request]_vars

(* The helper leaves its loop for the NULL of progress_thread_destroy, not *)
(* for the one progress_thread_create left there: once it is gone, main is *)
(* destroying it, after the last iteration and with no transfer under way. *)
ExitOnlyOnDestroy ==
  helper = "done" => caller = "destroy" /\ iter = Iterations /\ mpi # "active"

(* A round the helper missed is never made up for.  When main goes round   *)
(* its loop before the helper has woken up, signal_done keeps a post that  *)
(* nothing takes back, so that the helper leaves every later round without *)
(* polling once.                                                           *)
MissedRoundIsForever ==
  [][Surplus > 0 => Surplus' > 0 /\ helper' # "poll"]_vars

(* Every pause returns and the helper is joined, so that the benchmark     *)
(* ends whenever each MPI_Wait returns.  Whether it does is MPI's affair:  *)
(* the comment at bench_psend_progress_thread.c:153-170 records a crash in *)
(* it, and the one at bench_psend_progress.c:120 says that a sender which  *)
(* calls MPI_Request_get_status, as the helper does, may get stuck.        *)
Shutdown == <>Finished

(* The helper implements the promise of PollWindow: the window is open     *)
(* from progress_thread_continue until progress_thread_pause has got hold  *)
(* of accept_requests.                                                     *)
windowBar ==
  IF main \in {"parallel", "pause", "rejoin"} THEN "open" ELSE "closed"

helperBar ==
  CASE helper = "poll" -> "polling"
    [] helper = "done" -> "stopped"
    [] OTHER -> "idle"

Window == INSTANCE PollWindow WITH window <- windowBar, helper <- helperBar

WindowSpec == Window!Spec

(* The invariant behind them, in four parts.                               *)

\* Where main can be on behalf of each caller, and what it has done by then.
ControlInv ==
  /\ main = "create" <=> helper = "unborn"
  /\ main = "start" => mpi = "inactive"
  /\ main = "signal" => request_available = 0
  /\ caller = "setup" =>
       /\ main \in {"create", "acquire", "store", "yield", "start"}
       /\ helper \in {"unborn", "hello", "await"}
       /\ request_available = 0 /\ signal_done = 0
       /\ mpi = "inactive"
  /\ caller = "iterate" =>
       /\ main \notin {"create", "join", "free", "done"}
       /\ main # "start" => mpi = "active" /\ iter < Iterations
  /\ caller = "destroy" =>
       /\ main \in {"acquire", "store", "yield", "drain", "signal",
                       "join", "free", "done"}
       /\ iter = Iterations
       /\ mpi # "active"

\* thread->request is NULL before the first store and after the last one,
\* and the helper's NULL check stays true for as long as it relies on it.
RequestInv ==
  /\ request = Null <=>
       \/ caller = "setup" /\ main \in {"create", "acquire", "store"}
       \/ caller = "destroy" /\ main \notin {"acquire", "store"}
  /\ helper \in {"try", "poll", "release"} => request = Req
  /\ helper = "done" => request = Null

\* The right to touch thread->request is in one place: with main, with the
\* helper, or in accept_requests, where the helper has to put it first.
Right(cond) == IF cond THEN 1 ELSE 0

OneHolder ==
  accept_requests
  + Right(main \in {"store", "yield", "reopen"})
  + Right(helper \in Inside \cup {"unborn", "hello", "done"}) = 1

\* There is, or will be, a signal_done for every round that the helper is in
\* or can still begin, and it polls only in a round that has exactly that one.
EveryRoundAnswered ==
  /\ Surplus >= 0
  /\ helper = "poll" => Surplus = 0

IInv ==
  /\ TypeOK
  /\ TokensBinary
  /\ PollOwned
  /\ ControlInv
  /\ RequestInv
  /\ OneHolder
  /\ EveryRoundAnswered
===============================================================================
