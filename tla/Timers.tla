--------------------------------- MODULE Timers ---------------------------------
(***************************************************************************)
(* The timers of a run method (timers.c) on one rank, from timers_init to  *)
(* timers_store: Total around all iterations, Iteration around each of     *)
(* them, IterationStartToWait around its first part.  IterationWait is     *)
(* never started.  Rank 1 of the window methods times no iteration.        *)
(*                                                                         *)
(* Time is counted in units of any length; averages are multiples of       *)
(* 1 / Scale, and the divisions by the counts of stops leave no rest.      *)
(* Squares of such numbers are multiples of 1 / Scale^2.  Rounding of      *)
(* doubles is left out.                                                    *)
(***************************************************************************)
EXTENDS Integers

CONSTANTS
  Iterations,  (* bound of the iteration count                             *)
  MaxStep,     (* bound of the time between two readings of the clock      *)
  Scale        (* of averages                                              *)

ASSUME IterationsAssumption == Iterations \in Nat
ASSUME MaxStepAssumption == MaxStep \in Nat
ASSUME ScaleAssumption ==
  Scale \in Nat \ {0} /\ \A k \in 1 .. Iterations + 1 : Scale % k = 0

VARIABLES
  clock,            (* the last value of MPI_Wtime                         *)
  iteration_count,  (* of the test case                                    *)
  timed,            (* whether this rank times its iterations              *)
  timers,           (* the four struct timer                               *)
  i,                (* iterations that are over                            *)
  stored,           (* timings and timings_std_dev of the result           *)
  pc

vars == <<clock, iteration_count, timed, timers, i, stored, pc>>

Timer == {"Total", "Iteration", "IterationStartToWait", "IterationWait"}

\* MPI_Wtime: later or as late as the last time.
Wtime == clock .. clock + MaxStep

TimerInit ==
  [running_since |-> 0, sum |-> 0, count |-> 0, average |-> 0,
   standard_deviation |-> 0]

Init ==
  /\ clock = 0 /\ i = 0 /\ pc = "init"
  /\ iteration_count \in 0..Iterations
  /\ timed \in BOOLEAN
  /\ timers = [t \in Timer |-> TimerInit]
  /\ stored = <<>>

\* timer_start and timer_stop at the time now, and the timers they leave.
Started(ts, t, now) == [ts EXCEPT ![t].running_since = now]

\* k-th part of a duration, in units of 1 / Scale.
Share(delta, k) == (Scale \div k) * delta

FaultyStop(timer, now) ==
  LET delta == now - timer.running_since
      new_average == timer.average + Share(delta, timer.count + 2)
  IN  [running_since |-> timer.running_since,
       count |-> timer.count + 1,
       sum |-> timer.sum + delta,
       standard_deviation |->
         timer.standard_deviation
           + (Scale * delta - timer.average) * (Scale * delta - new_average),
       average |-> new_average]

\* timer_stop.  The share is added to the average; a running mean would take
\* the old average from the duration first.
Stop(timer, now) ==
  LET delta == now - timer.running_since
      new_average == timer.average + Share(delta, timer.count + 1)
  IN  [running_since |-> timer.running_since,
       count |-> timer.count + 1,
       sum |-> timer.sum + delta,
       standard_deviation |->
         timer.standard_deviation
           + (Scale * delta - timer.average) * (Scale * delta - new_average),
       average |-> new_average]

Stopped(ts, t, now) == [ts EXCEPT ![t] = Stop(@, now)]

-------------------------------------------------------------------------------
(* A run method: from its timers_start(Total) to its timers_store.  The    *)
(* warm-up is before it.                                                   *)

StartTotal ==
  /\ pc = "init"
  /\ clock' \in Wtime
  /\ timers' = Started(timers, "Total", clock')
  /\ pc' = "loop"
  /\ UNCHANGED <<iteration_count, timed, i, stored>>

StartIteration ==
  /\ pc = "loop" /\ i < iteration_count
  /\ timed
  /\ clock' \in Wtime
  /\ timers' = Started(timers, "Iteration", clock')
  /\ pc' = "iteration"
  /\ UNCHANGED <<iteration_count, timed, i, stored>>

FaultyStartStartToWait ==
  /\ pc = "iteration"
  /\ clock' \in Wtime
  /\ timers' = IF i = 0 THEN Started(timers, "IterationStartToWait", clock') ELSE timers
  /\ pc' = "start_to_wait"
  /\ UNCHANGED <<iteration_count, timed, i, stored>>

StartStartToWait ==
  /\ pc = "iteration"
  /\ clock' \in Wtime
  /\ timers' = Started(timers, "IterationStartToWait", clock')
  /\ pc' = "start_to_wait"
  /\ UNCHANGED <<iteration_count, timed, i, stored>>

StopStartToWait ==
  /\ pc = "start_to_wait"
  /\ clock' \in Wtime
  /\ timers' = Stopped(timers, "IterationStartToWait", clock')
  /\ pc' = "wait"
  /\ UNCHANGED <<iteration_count, timed, i, stored>>

StopIteration ==
  /\ pc = "wait"
  /\ clock' \in Wtime
  /\ timers' = Stopped(timers, "Iteration", clock')
  /\ i' = i + 1
  /\ pc' = "loop"
  /\ UNCHANGED <<iteration_count, timed, stored>>

\* An iteration without timers.
UntimedIteration ==
  /\ pc = "loop" /\ i < iteration_count
  /\ ~timed
  /\ clock' \in Wtime
  /\ i' = i + 1
  /\ UNCHANGED <<iteration_count, timed, timers, stored, pc>>

StopTotal ==
  /\ pc = "loop" /\ i = iteration_count
  /\ clock' \in Wtime
  /\ timers' = Stopped(timers, "Total", clock')
  /\ pc' = "stopped"
  /\ UNCHANGED <<iteration_count, timed, i, stored>>

\* timer_std_dev is the root of standard_deviation / (count - 1): not a number
\* for 0 / 0 and for a negative quotient.
IsNumber(timer) ==
  /\ timer.count # 1
  /\ timer.standard_deviation >= 0 \/ timer.count = 0

\* timers_store.
Store ==
  /\ pc = "stopped"
  /\ stored' = [timings |-> [t \in Timer |-> timers[t].average],
                numbers |-> {t \in Timer : IsNumber(timers[t])}]
  /\ pc' = "done"
  /\ UNCHANGED <<clock, iteration_count, timed, timers, i>>

Step ==
  \/ StartTotal \/ StartIteration \/ StartStartToWait \/ StopStartToWait
  \/ StopIteration \/ UntimedIteration \/ StopTotal \/ Store

Next == Step \/ (pc = "done" /\ UNCHANGED vars)

Spec == Init /\ [][Next]_vars
-------------------------------------------------------------------------------
(* Properties.                                                             *)

Done == pc = "done"
Timing(t) == stored.timings[t]

TypeOK ==
  /\ clock \in Nat /\ i \in Nat
  /\ iteration_count \in 0..Iterations /\ i <= iteration_count
  /\ timed \in BOOLEAN
  /\ timers \in [Timer -> [running_since : Nat, sum : Nat, count : Nat,
                           average : Nat, standard_deviation : Int]]
  /\ \A t \in Timer : timers[t].running_since <= clock

(* The columns of record_result are possible: t_wait, the difference of    *)
(* t_local and t_start_to_wait, is not negative (bench.c:75), and no       *)
(* iteration's average is above t_total.  Both need that the timers are    *)
(* stopped in pairs, as the divisors of the shares are their counts.       *)
ColumnsAreNested ==
  Done => /\ Timing("IterationStartToWait") <= Timing("Iteration")
          /\ Timing("Iteration") <= Timing("Total")

(* A transfer never looks faster than it was: over the iterations of the   *)
(* test case, the stored averages are at least the means of the durations  *)
(* (timers.c:37 adds delta / count without taking the old average from     *)
(* delta).  That of Total, which is stopped once, is exact: bandwidth and  *)
(* time limit are computed from it (bench.c:132, 195).                     *)
NeverUnderstates ==
  Done => /\ Timing("Total") = Scale * timers["Total"].sum
          /\ timed =>
               \A t \in {"Iteration", "IterationStartToWait"} :
                 iteration_count * Timing(t) >= Scale * timers[t].sum

-------------------------------------------------------------------------------
(* The inductive invariant of ColumnsAreNested and NeverUnderstates.       *)

AtPc == pc \in {"init", "loop", "iteration", "start_to_wait", "wait", "stopped", "done"}
Inside == pc \in {"iteration", "start_to_wait", "wait"}
Over == pc \in {"stopped", "done"}

W == timers["IterationStartToWait"]
L == timers["Iteration"]
T == timers["Total"]

\* Every stop is counted, and nothing else.
Counts ==
  /\ Inside => timed /\ i < iteration_count
  /\ pc = "init" => i = 0
  /\ Over => i = iteration_count
  /\ L.count = IF timed THEN i ELSE 0
  /\ W.count = IF pc = "wait" THEN L.count + 1 ELSE L.count
  /\ T.count = IF Over THEN 1 ELSE 0

\* The averages of a timer lie between its mean and its sum.
Between(timer) ==
  /\ timer.count * timer.average >= Scale * timer.sum
  /\ timer.average <= Scale * timer.sum

Bounds == Between(W) /\ Between(L) /\ Between(T)

\* StartToWait is inside Iteration, also the one that is not over.
PartInside ==
  /\ pc = "start_to_wait" => L.running_since <= W.running_since
  /\ IF pc = "wait"
     THEN W.average <= L.average + Share(clock - L.running_since, W.count)
     ELSE W.average <= L.average

\* The iterations follow each other inside Total.
LocalInside ==
  /\ pc = "init" => L.sum = 0
  /\ pc = "loop" => T.running_since + L.sum <= clock
  /\ Inside => T.running_since + L.sum <= L.running_since
  /\ Over => L.sum <= T.sum

Kept == Done => stored.timings = [t \in Timer |-> timers[t].average]

IInv ==
  /\ TypeOK /\ AtPc /\ Counts /\ Bounds /\ PartInside /\ LocalInside /\ Kept

(* "average time" is what bench.c:204 prints of timings[Iteration]: the    *)
(* sum of the durations, divided by their number.                          *)
MeanIsAverage ==
  Done => \A t \in Timer : timers[t].count * Timing(t) = Scale * timers[t].sum
===============================================================================
