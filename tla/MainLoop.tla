------------------------------- MODULE MainLoop -------------------------------
(***************************************************************************)
(* main() and bench() of bench.c on both ranks: the loop over the test     *)
(* cases, the time limit, the result files, and the job being killed and   *)
(* run again.                                                              *)
(*                                                                         *)
(* A run method (benchmarks/*.c) is modelled by what all fourteen of them  *)
(* share: a warm-up, a barrier, the timed iterations, a second barrier.    *)
(* MPI matches collectives by the order of the calls and not by test case, *)
(* so barriers are counted and nothing else ties one rank to the other.    *)
(*                                                                         *)
(* All tests of a run have one mode and one thread count (test_cases.c:178 *)
(* and :188 with setups.c:105-106), so the two comparisons that guard the  *)
(* time limit always hold and are left out.                                *)
(*                                                                         *)
(* A definition named Faulty... is the one behind it with a single fault.  *)
(* No behaviour of Spec takes it: it shows what a property would detect.   *)
(***************************************************************************)
EXTENDS Integers, Sequences

CONSTANTS
  Count,        (* test_cases_get_count(tests)                             *)
  MaxRuns,      (* bound: how often the program is started in one directory *)
  Skews         (* TRUE: ranks may differ about the limit for the same test *)

ASSUME CountAssumption == Count \in Nat
ASSUME MaxRunsAssumption == MaxRuns \in Nat
ASSUME SkewAssumption == Skews \subseteq BOOLEAN

Ranks == {0, 1}
Other(r) == 1 - r
Tests == 0 .. Count - 1
None == -1

\* What main reads of a Result: whether timings[Total] is above the limit, and
\* success.  `by`, the test that measured it, is no field of the code's.
Result == [by : Tests \cup {None}, over : BOOLEAN, success : BOOLEAN]
Cleared == [by |-> None, over |-> FALSE, success |-> FALSE]   (* calloc *)

VARIABLES
  pc,        (* where each rank is                                         *)
  i,         (* its loop counter                                           *)
  result,    (* tests->results                                             *)
  success,   (* the verdict it accumulates                                 *)
  barriers,  (* how many barriers it has entered                           *)
  file,      (* R0.csv, R1.csv: for every header line the rows below it    *)
  runs,      (* how often the job was started                              *)
  skewed     (* whether the clocks of this job's ranks differ; a constant  *)

vars == <<pc, i, result, success, barriers, file, runs, skewed>>

Locations == {"open", "loop", "warmup", "barrier1", "timed", "barrier2",
              "record", "finalize", "done", "killed"}

Init ==
  /\ pc = [r \in Ranks |-> "open"]
  /\ i = [r \in Ranks |-> 0]
  /\ result = [r \in Ranks |-> [t \in Tests |-> Cleared]]
  /\ success = [r \in Ranks |-> r = 1]
  /\ barriers = [r \in Ranks |-> 0]
  /\ file = [r \in Ranks |-> <<>>]
  /\ runs = 1
  /\ skewed \in Skews

At(r, from) == pc[r] = from
Goto(r, to) == pc' = [pc EXCEPT ![r] = to]

-------------------------------------------------------------------------------
\* open_result_file appends a header line and reopens the file to append: mode
\* "a", although its comment says "overwrite" (bench.c:44).
OpenResultFile(r) ==
  /\ At(r, "open")
  /\ file' = [file EXCEPT ![r] = Append(@, <<>>)]
  /\ Goto(r, "loop")
  /\ UNCHANGED <<i, result, success, barriers, runs, skewed>>

FaultyLimitExceeded(r) ==
  i[r] > 0 /\ result[r][i[r] - 1].by = i[r] - 1 /\ result[r][i[r] - 1].over

FaultyLimitOnReceiver(r) ==
  r = 1 /\ i[r] > 0 /\ result[r][i[r] - 1].over

\* The previous test took longer than time_limit on this rank.
LimitExceeded(r) == i[r] > 0 /\ result[r][i[r] - 1].over

\* The previous result stands in for this test.
SkipTest(r) ==
  /\ At(r, "loop") /\ i[r] < Count
  /\ LimitExceeded(r)
  /\ result' = [result EXCEPT ![r][i[r]] = result[r][i[r] - 1]]
  /\ Goto(r, "record")
  /\ UNCHANGED <<i, success, barriers, file, runs, skewed>>

\* bench(): reset the buffer, call the run method, exchange the warm-up data.
StartBench(r) ==
  /\ At(r, "loop") /\ i[r] < Count
  /\ ~LimitExceeded(r)
  /\ Goto(r, "warmup")
  /\ UNCHANGED <<i, result, success, barriers, file, runs, skewed>>

\* As if the barrier behind the iterations were missing.
FaultyEnterBarrier(r) ==
  /\ \/ /\ At(r, "warmup") /\ Goto(r, "barrier1")
        /\ barriers' = [barriers EXCEPT ![r] = @ + 1]
     \/ /\ At(r, "timed") /\ Goto(r, "barrier2")
        /\ UNCHANGED barriers
  /\ UNCHANGED <<i, result, success, file, runs, skewed>>

EnterBarrier(r) ==
  /\ \/ At(r, "warmup") /\ Goto(r, "barrier1")
     \/ At(r, "timed") /\ Goto(r, "barrier2")
  /\ barriers' = [barriers EXCEPT ![r] = @ + 1]
  /\ UNCHANGED <<i, result, success, file, runs, skewed>>

\* A barrier is left once the other rank has entered its own.
MayLeave(r) == barriers[Other(r)] >= barriers[r]

LeaveFirstBarrier(r) ==
  /\ At(r, "barrier1")
  /\ MayLeave(r)
  /\ Goto(r, "timed")
  /\ UNCHANGED <<i, result, success, barriers, file, runs, skewed>>

\* Total is read off this rank's own clock; memcmp is of this rank's buffer,
\* and on rank 0 compares the data with what it was copied from.
LeaveSecondBarrier(r) ==
  /\ At(r, "barrier2")
  /\ MayLeave(r)
  /\ \E over, ok \in BOOLEAN :
       /\ LET other == result[Other(r)][i[r]]
          IN  other.by = i[r] /\ ~skewed => over = other.over
       /\ r = 0 => ok
       /\ result' = [result EXCEPT ![r][i[r]] =
                       [by |-> i[r], over |-> over, success |-> ok]]
  /\ Goto(r, "record")
  /\ UNCHANGED <<i, success, barriers, file, runs, skewed>>

FaultyRecordResult(r) ==
  /\ At(r, "record")
  /\ LET res == result[r][i[r]]
         run == Len(file[r])
     IN  /\ file' = [file EXCEPT ![r][run] = Append(@, res)]
         /\ success' = [success EXCEPT ![r] = res.success]
  /\ i' = [i EXCEPT ![r] = @ + 1]
  /\ Goto(r, "loop")
  /\ UNCHANGED <<result, barriers, runs, skewed>>

FaultyCount(r) ==
  /\ At(r, "record")
  /\ LET res == result[r][i[r]]
         run == Len(file[r])
     IN  /\ file' = [file EXCEPT ![r][run] = Append(@, res)]
         /\ success' = [success EXCEPT ![r] = @ /\ res.success]
  /\ i' = [i EXCEPT ![r] = @ + 2]
  /\ Goto(r, "loop")
  /\ UNCHANGED <<result, barriers, runs, skewed>>

\* record_result writes the row and flushes it; then success &= ..., i++.
RecordResult(r) ==
  /\ At(r, "record")
  /\ LET res == result[r][i[r]]
         run == Len(file[r])
     IN  /\ file' = [file EXCEPT ![r][run] = Append(@, res)]
         /\ success' = [success EXCEPT ![r] = @ /\ res.success]
  /\ i' = [i EXCEPT ![r] = @ + 1]
  /\ Goto(r, "loop")
  /\ UNCHANGED <<result, barriers, runs, skewed>>

\* close_result_file and test_cases_free, then MPI_Finalize, a collective.
EnterFinalize(r) ==
  /\ At(r, "loop") /\ i[r] = Count
  /\ Goto(r, "finalize")
  /\ UNCHANGED <<i, result, success, barriers, file, runs, skewed>>

LeaveFinalize(r) ==
  /\ At(r, "finalize")
  /\ pc[Other(r)] \in {"finalize", "done"}
  /\ Goto(r, "done")
  /\ UNCHANGED <<i, result, success, barriers, file, runs, skewed>>

Rank(r) ==
  \/ OpenResultFile(r) \/ SkipTest(r) \/ StartBench(r)
  \/ EnterBarrier(r) \/ LeaveFirstBarrier(r) \/ LeaveSecondBarrier(r)
  \/ RecordResult(r) \/ EnterFinalize(r) \/ LeaveFinalize(r)

-------------------------------------------------------------------------------
AllDone == pc = [r \in Ranks |-> "done"]
AllKilled == pc = [r \in Ranks |-> "killed"]

\* The batch system ends the job: mpirun takes both ranks down.
Kill ==
  /\ ~AllDone /\ ~AllKilled
  /\ pc' = [r \in Ranks |-> "killed"]
  /\ UNCHANGED <<i, result, success, barriers, file, runs, skewed>>

\* The program is started again where the files of an earlier run are.
Rerun ==
  /\ AllDone \/ AllKilled
  /\ runs < MaxRuns
  /\ runs' = runs + 1
  /\ pc' = [r \in Ranks |-> "open"]
  /\ i' = [r \in Ranks |-> 0]
  /\ result' = [r \in Ranks |-> [t \in Tests |-> Cleared]]
  /\ success' = [r \in Ranks |-> r = 1]
  /\ barriers' = [r \in Ranks |-> 0]
  /\ UNCHANGED <<file, skewed>>

Stopped == AllDone \/ AllKilled

Next ==
  \/ \E r \in Ranks : Rank(r)
  \/ Kill
  \/ Rerun
  \/ Stopped /\ runs = MaxRuns /\ UNCHANGED vars

\* Each rank that can go on does; nobody has to kill the job or start it again.
Fairness == \A r \in Ranks : WF_vars(Rank(r))

Spec == Init /\ [][Next]_vars /\ Fairness
-------------------------------------------------------------------------------
(* Properties.                                                             *)

TypeOK ==
  /\ pc \in [Ranks -> Locations]
  /\ i \in [Ranks -> 0..Count]
  /\ result \in [Ranks -> [Tests -> Result]]
  /\ success \in [Ranks -> BOOLEAN]
  /\ barriers \in [Ranks -> Nat]
  /\ file \in [Ranks -> Seq(Seq(Result))]
  /\ runs \in Nat
  /\ skewed \in BOOLEAN

(* What a rank times is an exchange with the other rank about the same     *)
(* test: while it is between its two barriers the other one is between the *)
(* calls of the two barriers that match them.  Nothing in the code says    *)
(* which test a barrier belongs to, and each rank decides for itself which *)
(* tests to skip (bench.c:191-201).                                        *)
SameTestBenched ==
  \A r \in Ranks :
    pc[r] = "timed" =>
      /\ pc[Other(r)] \in {"barrier1", "timed", "barrier2"}
      /\ i[Other(r)] = i[r]

\* The rows below the newest header line.
Rows(r) == file[r][Len(file[r])]

(* R0.csv and R1.csv can be joined row by row: the rows both of them have  *)
(* come from the measurement of one and the same test.                     *)
RowsPair ==
  (\A r \in Ranks : pc[r] \notin {"open", "killed"}) =>
    \A k \in 1..Len(Rows(0)) :
      k <= Len(Rows(1)) => Rows(0)[k].by = Rows(1)[k].by

(* The verdict printed at the end is that of all rows in R1.csv.           *)
VerdictCoversRows ==
  pc[1] = "done" =>
    /\ Len(Rows(1)) = Count
    /\ success[1] = \A k \in 1..Count : Rows(1)[k].success

\* Every row is of its own test up to the first one over the limit, and
\* repeats that one from there on.
FollowsLimit(rows) ==
  \A k \in 1..Len(rows) :
    /\ \A m \in 1 .. k-1 : rows[m].over => rows[k] = rows[m]
    /\ (\A m \in 1 .. k-1 : ~rows[m].over) => rows[k].by = k - 1

(* The rows below one header line of a result file are to be read without  *)
(* knowing how the job went on: in every section of both files, also those *)
(* of jobs that were killed on the way and the ones started after them,    *)
(* the rows are measurements of the tests in their order until one is over *)
(* the limit, and copies of that one afterwards.  No row is left over from *)
(* an earlier test or job, no test behind the limit is measured after all, *)
(* and none before it is skipped (bench.c:189-201).                        *)
RowsFollowLimit ==
  \A r \in Ranks : \A n \in 1..Len(file[r]) : FollowsLimit(file[r][n])

(* If the clocks agree about the limit, a job that nobody kills ends.      *)
Termination == ~skewed => <>[](AllDone \/ AllKilled)

(* "If time limit was exceeded in last test, don't bench this mode any     *)
(* more" (bench.c:189): once a test has exceeded the limit, the program    *)
(* skips what is left and ends.                                            *)
LimitStopsTheMode ==
  (\E r \in Ranks : LimitExceeded(r)) ~> Stopped

(* The invariant behind SameTestBenched.                                   *)

\* Barriers that a rank has left.
Passed(r) ==
  barriers[r] - (IF pc[r] \in {"barrier1", "barrier2"} THEN 1 ELSE 0)

\* How many barriers a rank has entered tells where it is: it enters two in
\* each test, until a test exceeds the limit and it enters none any more.
BarrierCount(r) ==
  /\ pc[r] = "open" => i[r] = 0 /\ barriers[r] = 0
  /\ pc[r] = "loop" =>
       /\ barriers[r] % 2 = 0
       /\ LimitExceeded(r) \/ barriers[r] = 2 * i[r]
  /\ pc[r] = "warmup" => barriers[r] = 2 * i[r] /\ i[r] < Count
  /\ pc[r] \in {"barrier1", "timed"} =>
       barriers[r] = 2 * i[r] + 1 /\ i[r] < Count
  /\ pc[r] = "barrier2" => barriers[r] = 2 * i[r] + 2 /\ i[r] < Count
  /\ pc[r] = "record" =>
       /\ barriers[r] % 2 = 0 /\ i[r] < Count
       /\ result[r][i[r]].over \/ barriers[r] = 2 * i[r] + 2
  /\ pc[r] \in {"finalize", "done"} => barriers[r] % 2 = 0

BarrierInv ==
  \A r \in Ranks :
    /\ BarrierCount(r)
    /\ pc[r] # "killed" => Passed(r) <= barriers[Other(r)]
    /\ pc[r] = "killed" => pc[Other(r)] = "killed"

\* The part of TypeOK that BarrierInv needs.
ControlTypeOK ==
  /\ pc \in [Ranks -> Locations]
  /\ i \in [Ranks -> 0..Count]
  /\ result \in [Ranks -> [Tests -> Result]]
  /\ barriers \in [Ranks -> Nat]

IInv == ControlTypeOK /\ BarrierInv

(* The invariant behind RowsPair and VerdictCoversRows.                    *)

\* The tests a rank has a result for, and how many of them it has measured:
\* the tests behind those repeat the result of the last one.
Decided(r) == 0 .. (IF pc[r] = "record" THEN i[r] ELSE i[r] - 1)
Measured(r) == IF pc[r] = "barrier2" THEN i[r] ELSE barriers[r] \div 2

\* The file of a rank is what its results are, and rank 1's verdict is about it.
RowsOf(r) ==
  /\ Len(file[r]) > 0 /\ Len(Rows(r)) = i[r]
  /\ \A k \in 1..i[r] : Rows(r)[k] = result[r][k - 1]
  /\ r = 1 => success[r] = \A k \in 1..i[r] : Rows(r)[k].success

ResultsOf(r) ==
  /\ Measured(r) <= (IF pc[r] = "record" THEN i[r] + 1 ELSE i[r])
  /\ \A t \in Decided(r) :
       result[r][t].by = IF t < Measured(r) THEN t ELSE Measured(r) - 1
  /\ pc[r] \in {"finalize", "done"} => i[r] = Count

RowsInv ==
  /\ pc[1] = "open" => success[1]
  /\ \A r \in Ranks : pc[r] \notin {"open", "killed"} => RowsOf(r) /\ ResultsOf(r)

(* The invariant behind RowsFollowLimit: what it says of the rows holds of *)
(* the results they are taken from, and a test that is under way is one    *)
(* before which nothing was over the limit.                                *)
ResultsFollowLimit(r) ==
  /\ \A t \in Decided(r) :
       /\ \A u \in 0 .. t-1 : result[r][u].over => result[r][t] = result[r][u]
       /\ (\A u \in 0 .. t-1 : ~result[r][u].over) => result[r][t].by = t
  /\ pc[r] \in {"warmup", "barrier1", "timed", "barrier2"} => ~LimitExceeded(r)

LimitInv ==
  \A r \in Ranks : pc[r] \notin {"open", "killed"} => ResultsFollowLimit(r)
===============================================================================
