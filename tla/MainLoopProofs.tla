---------------------------- MODULE MainLoopProofs ----------------------------
(***************************************************************************)
(* What MainLoop guarantees for every number of test cases, of runs, and   *)
(* whatever the clocks of the two ranks say.                               *)
(***************************************************************************)
EXTENDS MainLoop, SequenceTheorems, TLAPS

\* There are two ranks, each the other of its other.
LEMMA OtherRank ==
  ASSUME NEW r \in Ranks
  PROVE  Other(r) \in Ranks /\ Other(r) # r /\ Other(Other(r)) = r
BY DEF Ranks, Other

\* Arithmetic of a loop counter.
LEMMA PositiveSuccessor == \A m, n : n \in Nat /\ m = n + 1 => m > 0 /\ m - 1 = n
OBVIOUS

LEMMA UpTo == \A n \in Nat : 1 .. n + 1 = (1..n) \cup {n + 1} /\ 0..n = (0 .. n - 1) \cup {n}
OBVIOUS

LEMMA LastOrBefore ==
  \A n \in Nat : \A u \in 0 .. n-1 : u = n - 1 \/ u \in 0 .. (n-1) - 1
OBVIOUS

LEMMA Halves ==
  \A n \in Nat : (2 * n) \div 2 = n /\ (2 * n + 1) \div 2 = n /\ (2 * n + 2) \div 2 = n + 1
OBVIOUS

\* The invariant holds when the job is started.
LEMMA InitIInv == Init => IInv
BY CountAssumption
   DEF Init, IInv, ControlTypeOK, BarrierInv, BarrierCount, Passed, Ranks,
       Other, Tests, None, Result, Cleared, Locations, LimitExceeded


\* A step of rank r leaves what belongs to the other rank alone.
OnlyRank(r) ==
  \A q \in Ranks \ {r} :
    /\ pc'[q] = pc[q]
    /\ i'[q] = i[q]
    /\ result'[q] = result[q]
    /\ barriers'[q] = barriers[q]

\* Such a step keeps the invariant if it keeps r's own part of it and enters
\* barriers only.
LEMMA OnlyRankIInv ==
  ASSUME IInv, NEW r \in Ranks,
         ControlTypeOK', OnlyRank(r),
         pc[r] # "killed", pc'[r] # "killed",
         BarrierCount(r)',
         Passed(r)' <= barriers[Other(r)],
         barriers'[r] >= barriers[r]
  PROVE  IInv'
<1> DEFINE q == Other(r)
<1>1. q \in Ranks /\ q # r /\ Other(q) = r /\ Ranks = {q, r}
  BY DEF Ranks, Other
<1>2. /\ pc'[q] = pc[q] /\ i'[q] = i[q]
      /\ result'[q] = result[q] /\ barriers'[q] = barriers[q]
  BY <1>1 DEF OnlyRank
<1> HIDE DEF q
<1>3. pc[q] # "killed"
  BY <1>1 DEF IInv, BarrierInv
<1>4. BarrierCount(q)'
  BY <1>1, <1>2 DEF IInv, BarrierInv, BarrierCount, LimitExceeded
<1>5. Passed(q)' <= barriers'[r]
  <2>1. Passed(q)' = Passed(q)
    BY <1>2 DEF Passed
  <2>2. Passed(q) <= barriers[r]
    BY <1>1, <1>3 DEF IInv, BarrierInv
  <2>3. /\ barriers[q] \in Nat /\ barriers[r] \in Nat /\ barriers'[r] \in Nat
        /\ Passed(q) \in Int
    BY <1>1 DEF IInv, ControlTypeOK, Passed
  <2> QED
    BY <2>1, <2>2, <2>3
<1>6. Passed(r)' <= barriers'[q]
  BY <1>2 DEF q
<1>7. BarrierInv'
  <2> SUFFICES ASSUME NEW x \in Ranks
               PROVE  /\ BarrierCount(x)'
                      /\ Passed(x)' <= barriers'[Other(x)]
                      /\ pc'[x] # "killed"
    BY DEF BarrierInv
  <2>1. CASE x = r
    BY <2>1, <1>6 DEF q
  <2>2. CASE x = q
    BY <2>2, <1>1, <1>2, <1>3, <1>4, <1>5
  <2> QED
    BY <2>1, <2>2, <1>1
<1> QED
  BY <1>7 DEF IInv

\* No step of a rank breaks the count of its barriers or of the other's.
LEMMA RankIInv ==
  ASSUME IInv, NEW r \in Ranks, Rank(r)
  PROVE  IInv'
<1>1. /\ pc \in [Ranks -> Locations] /\ i \in [Ranks -> 0..Count]
      /\ result \in [Ranks -> [Tests -> Result]] /\ barriers \in [Ranks -> Nat]
  BY DEF IInv, ControlTypeOK
<1>2. /\ i[r] \in 0..Count /\ barriers[r] \in Nat /\ barriers[Other(r)] \in Nat
      /\ result[r] \in [Tests -> Result]
  BY <1>1, OtherRank
<1>3. BarrierCount(r) /\ (pc[r] # "killed" => Passed(r) <= barriers[Other(r)])
  BY DEF IInv, BarrierInv
<1> USE <1>1, <1>2, <1>3, CountAssumption DEF At, Goto
<1>4. SUFFICES /\ ControlTypeOK' /\ OnlyRank(r)
               /\ pc[r] # "killed" /\ pc'[r] # "killed"
               /\ BarrierCount(r)'
               /\ Passed(r)' <= barriers[Other(r)] /\ barriers'[r] >= barriers[r]
  BY OnlyRankIInv
<1>5. CASE OpenResultFile(r)
  BY <1>5 DEF OpenResultFile, ControlTypeOK, OnlyRank, BarrierCount, Passed,
              LimitExceeded, Locations
<1>6. CASE SkipTest(r)
  <2>1. i[r] \in Tests /\ i[r] - 1 \in Tests /\ result[r][i[r] - 1] \in Result
    BY <1>6 DEF SkipTest, LimitExceeded, Tests
  <2>2. /\ result'[r][i[r]] = result[r][i[r] - 1]
        /\ result' \in [Ranks -> [Tests -> Result]]
    BY <1>6, <2>1 DEF SkipTest
  <2>3. barriers[r] % 2 = 0 /\ result'[r][i[r]].over
    BY <1>6, <2>2 DEF SkipTest, LimitExceeded, BarrierCount
  <2>4. ControlTypeOK' /\ OnlyRank(r)
    BY <1>6, <2>2 DEF SkipTest, ControlTypeOK, OnlyRank, Locations
  <2> QED
    BY <1>6, <2>3, <2>4 DEF SkipTest, BarrierCount, Passed
<1>7. CASE StartBench(r)
  <2>1. ControlTypeOK' /\ OnlyRank(r)
    BY <1>7 DEF StartBench, ControlTypeOK, OnlyRank, Locations
  <2>2. /\ pc[r] = "loop" /\ pc'[r] = "warmup" /\ i' = i /\ i[r] < Count
        /\ barriers' = barriers
    BY <1>7 DEF StartBench
  <2>3. barriers[r] = 2 * i[r]
    BY <1>7, <2>2 DEF StartBench, BarrierCount
  <2> QED
    BY <2>1, <2>2, <2>3 DEF BarrierCount, Passed
<1>8. CASE EnterBarrier(r)
  <2>1. ControlTypeOK' /\ OnlyRank(r) /\ pc'[r] \in {"barrier1", "barrier2"}
    BY <1>8 DEF EnterBarrier, ControlTypeOK, OnlyRank, Locations
  <2>2. barriers'[r] = barriers[r] + 1 /\ i' = i /\ result' = result
    BY <1>8 DEF EnterBarrier
  <2>3. pc[r] \in {"warmup", "timed"}
    BY <1>8 DEF EnterBarrier
  <2>4. BarrierCount(r)'
    BY <1>8, <2>2 DEF EnterBarrier, BarrierCount
  <2> QED
    BY <2>1, <2>2, <2>3, <2>4 DEF Passed
<1>9. CASE LeaveFirstBarrier(r)
  <2>1. ControlTypeOK' /\ OnlyRank(r)
    BY <1>9 DEF LeaveFirstBarrier, ControlTypeOK, OnlyRank, Locations
  <2> QED
    BY <1>9, <2>1 DEF LeaveFirstBarrier, MayLeave, BarrierCount, Passed
<1>10. CASE LeaveSecondBarrier(r)
  <2>1. i[r] \in Tests
    BY <1>10 DEF LeaveSecondBarrier, BarrierCount, Tests
  <2>2. result' \in [Ranks -> [Tests -> Result]]
    BY <1>10, <2>1 DEF LeaveSecondBarrier, Result
  <2>3. ControlTypeOK' /\ OnlyRank(r)
    BY <1>10, <2>2 DEF LeaveSecondBarrier, ControlTypeOK, OnlyRank, Locations
  <2>4. barriers' = barriers /\ i' = i /\ pc[r] = "barrier2" /\ pc'[r] = "record"
    BY <1>10 DEF LeaveSecondBarrier
  <2>5. barriers[r] = 2 * i[r] + 2 /\ i[r] < Count
    BY <2>4 DEF BarrierCount
  <2>6. BarrierCount(r)'
    BY <2>4, <2>5 DEF BarrierCount
  <2>7. Passed(r)' <= barriers[Other(r)]
    BY <1>10, <2>4 DEF LeaveSecondBarrier, MayLeave, Passed
  <2> QED
    BY <2>3, <2>4, <2>6, <2>7
<1>11. CASE RecordResult(r)
  <2>1. /\ i' = [i EXCEPT ![r] = @ + 1] /\ result' = result
        /\ barriers' = barriers /\ pc' = [pc EXCEPT ![r] = "loop"]
        /\ pc[r] = "record"
    BY <1>11 DEF RecordResult
  <2>2. /\ i[r] < Count /\ barriers[r] % 2 = 0
        /\ result[r][i[r]].over \/ barriers[r] = 2 * i[r] + 2
    BY <2>1 DEF BarrierCount
  <2>3. ControlTypeOK' /\ OnlyRank(r) /\ i'[r] = i[r] + 1
    BY <2>1, <2>2 DEF ControlTypeOK, OnlyRank, Locations
  <2>4. LimitExceeded(r)' \/ barriers'[r] = 2 * i'[r]
    <3>1. i'[r] > 0 /\ i'[r] - 1 = i[r]
      <4>1. i[r] \in Nat
        OBVIOUS
      <4> QED
        BY <2>3, <4>1, PositiveSuccessor
    <3>2. result[r][i[r]].over => LimitExceeded(r)'
      <4>1. result'[r][i'[r] - 1] = result[r][i[r]]
        BY <2>1, <3>1
      <4>2. LimitExceeded(r)' <=> i'[r] > 0 /\ result'[r][i'[r] - 1].over
        BY DEF LimitExceeded
      <4> QED
        BY <3>1, <4>1, <4>2, Zenon
    <3>3. barriers[r] = 2 * i[r] + 2 => barriers'[r] = 2 * i'[r]
      BY <2>1, <2>3
    <3> QED
      BY <2>2, <3>2, <3>3
  <2>5. BarrierCount(r)'
    BY <2>1, <2>2, <2>4 DEF BarrierCount
  <2> QED
    BY <2>1, <2>3, <2>5 DEF Passed
<1>12. CASE EnterFinalize(r)
  <2>1. ControlTypeOK' /\ OnlyRank(r)
    BY <1>12 DEF EnterFinalize, ControlTypeOK, OnlyRank, Locations
  <2> QED
    BY <1>12, <2>1 DEF EnterFinalize, BarrierCount, Passed
<1>13. CASE LeaveFinalize(r)
  <2>1. ControlTypeOK' /\ OnlyRank(r)
    BY <1>13 DEF LeaveFinalize, ControlTypeOK, OnlyRank, Locations
  <2> QED
    BY <1>13, <2>1 DEF LeaveFinalize, BarrierCount, Passed
<1> QED
  BY <1>5, <1>6, <1>7, <1>8, <1>9, <1>10, <1>11, <1>12, <1>13 DEF Rank

\* No step of the job breaks it: a rank moves, or both are reset at once.
LEMMA NextIInv == IInv /\ [Next]_vars => IInv'
<1> SUFFICES ASSUME IInv, [Next]_vars PROVE IInv'
  OBVIOUS
<1>1. CASE \E r \in Ranks : Rank(r)
  BY <1>1, RankIInv
<1>2. CASE Kill
  <2>1. /\ pc' = [r \in Ranks |-> "killed"] /\ i' = i /\ result' = result
        /\ barriers' = barriers
    BY <1>2 DEF Kill
  <2>2. ControlTypeOK'
    BY <2>1 DEF IInv, ControlTypeOK, Locations
  <2>3. BarrierInv'
    BY <2>1, OtherRank DEF BarrierInv, BarrierCount
  <2> QED
    BY <2>2, <2>3 DEF IInv
<1>3. CASE Rerun
  <2>1. /\ pc' = [r \in Ranks |-> "open"] /\ i' = [r \in Ranks |-> 0]
        /\ result' = [r \in Ranks |-> [t \in Tests |-> Cleared]]
        /\ barriers' = [r \in Ranks |-> 0]
    BY <1>3 DEF Rerun
  <2>2. ControlTypeOK'
    BY <2>1, CountAssumption
       DEF ControlTypeOK, Locations, Cleared, Result, None
  <2>3. BarrierInv'
    BY <2>1, OtherRank DEF BarrierInv, BarrierCount, Passed
  <2> QED
    BY <2>2, <2>3 DEF IInv
<1>4. CASE UNCHANGED vars
  BY <1>4 DEF vars, IInv, ControlTypeOK, BarrierInv, BarrierCount, Passed,
              LimitExceeded
<1> QED
  BY <1>1, <1>2, <1>3, <1>4 DEF Next

(* A rank's place in its loop is told by the barriers it has entered, and  *)
(* no rank is ahead of the other by more than the barrier it waits in.     *)
THEOREM Invariance == Spec => []IInv
<1>1. Init => IInv
  BY InitIInv
<1> QED
  BY <1>1, NextIInv, PTL DEF Spec

\* Two ranks that are between the barriers agree about the test.
LEMMA SameTest == IInv => SameTestBenched
<1> SUFFICES ASSUME IInv, NEW r \in Ranks, pc[r] = "timed"
             PROVE  /\ pc[Other(r)] \in {"barrier1", "timed", "barrier2"}
                    /\ i[Other(r)] = i[r]
  BY DEF SameTestBenched
<1> DEFINE q == Other(r)
<1>1. q \in Ranks /\ Other(q) = r
  BY OtherRank
<1>2. /\ pc[q] \in Locations /\ i[q] \in 0..Count /\ i[r] \in 0..Count
      /\ barriers[q] \in Nat
  BY <1>1 DEF IInv, ControlTypeOK
<1>3. barriers[r] = 2 * i[r] + 1 /\ barriers[q] >= barriers[r]
  BY <1>2 DEF IInv, BarrierInv, BarrierCount, Passed, ControlTypeOK
<1>4. pc[q] # "killed" /\ BarrierCount(q) /\ Passed(q) <= barriers[r]
  BY <1>1 DEF IInv, BarrierInv
<1> HIDE DEF q
<1>5. pc[q] \in {"barrier1", "timed", "barrier2"}
  <2> SUFFICES ASSUME pc[q] \notin {"barrier1", "timed", "barrier2"} PROVE FALSE
    OBVIOUS
  <2>1. barriers[q] = barriers[r]
    BY <1>2, <1>3, <1>4 DEF Passed
  <2>2. barriers[q] % 2 = 0
    BY <1>2, <1>4, CountAssumption DEF BarrierCount, Locations
  <2> QED
    BY <1>2, <1>3, <2>1, <2>2
<1>6. i[q] = i[r]
  BY <1>2, <1>3, <1>4, <1>5 DEF BarrierCount, Passed
<1> QED
  BY <1>5, <1>6 DEF q

(* However the clocks disagree about the limit, a rank never times a test  *)
(* against another test of the other rank (bench.c:191-201).               *)
THEOREM RanksTimeTheSameTest == Spec => []SameTestBenched
BY Invariance, SameTest, PTL

-------------------------------------------------------------------------------
(* The result files.                                                       *)

\* A step of rank r leaves the other rank's file and verdict alone.
OnlyFile(r) ==
  \A q \in Ranks \ {r} : file'[q] = file[q] /\ success'[q] = success[q]

\* What a row is and what it does to the file of a rank.
LEMMA RecordRow ==
  ASSUME TypeOK, IInv, NEW r \in Ranks, RecordResult(r), Len(file[r]) > 0
  PROVE  /\ i[r] \in Tests /\ result[r][i[r]] \in Result
         /\ file' \in [Ranks -> Seq(Seq(Result))]
         /\ Len(file'[r]) = Len(file[r])
         /\ \A n \in 1 .. Len(file[r]) - 1 : file'[r][n] = file[r][n]
         /\ Rows(r)' = Append(Rows(r), result[r][i[r]])
         /\ \A q \in Ranks \ {r} : file'[q] = file[q]
<1> DEFINE f == file[r]
           run == Len(f)
           res == result[r][i[r]]
           row == Append(f[run], res)
           g == [f EXCEPT ![run] = row]
<1>1. i[r] \in Tests /\ res \in Result
  <2>1. pc[r] = "record" /\ i[r] < Count /\ i[r] \in 0..Count
    BY DEF RecordResult, At, IInv, BarrierInv, BarrierCount, TypeOK
  <2>2. i[r] \in Tests
    BY <2>1, CountAssumption DEF Tests
  <2> QED
    BY <2>2 DEF TypeOK
<1>2. f \in Seq(Seq(Result)) /\ file \in [Ranks -> Seq(Seq(Result))]
  BY DEF TypeOK
<1>3. run \in 1..Len(f) /\ f[run] \in Seq(Result) /\ Len(f) \in Nat
  BY <1>2, LenProperties, ElementOfSeq
<1>4. row \in Seq(Result)
  BY <1>1, <1>3, AppendProperties
<1>5. file' = [file EXCEPT ![r] = g]
  BY DEF RecordResult
<1> HIDE DEF f, row, res, run
<1>6. /\ g \in Seq(Seq(Result))
      /\ Len(g) = Len(f)
      /\ \A n \in 1..Len(f) :
           g[n] = IF n = run THEN row ELSE f[n]
  BY <1>2, <1>3, <1>4, ExceptSeq
<1> HIDE DEF g
<1>7. /\ file'[r] = g
      /\ \A q \in Ranks \ {r} : file'[q] = file[q]
  BY <1>2, <1>5
<1>8. file' \in [Ranks -> Seq(Seq(Result))]
  BY <1>2, <1>5, <1>6
<1>9. \A n \in 1 .. Len(f) - 1 : file'[r][n] = f[n]
  BY <1>3, <1>6, <1>7 DEF run
<1>10. Rows(r)' = row
  BY <1>3, <1>6, <1>7 DEF Rows, run
<1> QED
  BY <1>1, <1>6, <1>7, <1>8, <1>9, <1>10 DEF f, run, row, res, Rows

\* Opening a file puts a header line behind what is there.
LEMMA OpenAppends ==
  ASSUME TypeOK, NEW r \in Ranks, OpenResultFile(r)
  PROVE  /\ file' \in [Ranks -> Seq(Seq(Result))]
         /\ Len(file'[r]) = Len(file[r]) + 1
         /\ \A n \in 1..Len(file[r]) : file'[r][n] = file[r][n]
         /\ Rows(r)' = <<>>
         /\ \A q \in Ranks \ {r} : file'[q] = file[q]
<1>1. file \in [Ranks -> Seq(Seq(Result))] /\ file[r] \in Seq(Seq(Result))
  BY DEF TypeOK
<1>2. <<>> \in Seq(Result)
  BY EmptySeq
<1>3. file' = [file EXCEPT ![r] = Append(file[r], <<>>)]
  BY DEF OpenResultFile
<1>4. /\ Append(file[r], <<>>) \in Seq(Seq(Result))
      /\ Len(Append(file[r], <<>>)) = Len(file[r]) + 1
      /\ \A n \in 1..Len(file[r]) : Append(file[r], <<>>)[n] = file[r][n]
      /\ Append(file[r], <<>>)[Len(file[r]) + 1] = <<>>
  BY <1>1, <1>2, AppendProperties
<1> QED
  BY <1>1, <1>3, <1>4 DEF Rows

\* What a row and a result belong to, step by step.
LEMMA OnlyRankRows ==
  ASSUME RowsInv, NEW r \in Ranks, OnlyRank(r), OnlyFile(r),
         r = 1 => pc'[r] # "open",
         pc'[r] \notin {"open", "killed"} => RowsOf(r)' /\ ResultsOf(r)'
  PROVE  RowsInv'
<1>0. pc'[1] = "open" => success'[1]
  BY DEF RowsInv, OnlyRank, OnlyFile, Ranks
<1> SUFFICES ASSUME NEW q \in Ranks, q # r, pc'[q] \notin {"open", "killed"}
             PROVE  RowsOf(q)' /\ ResultsOf(q)'
  BY <1>0 DEF RowsInv
<1>1. /\ pc'[q] = pc[q] /\ i'[q] = i[q] /\ result'[q] = result[q]
      /\ barriers'[q] = barriers[q]
      /\ file'[q] = file[q] /\ success'[q] = success[q]
  BY DEF OnlyRank, OnlyFile
<1>2. RowsOf(q) /\ ResultsOf(q)
  BY <1>1 DEF RowsInv
<1>3. RowsOf(q)'
  BY <1>1, <1>2 DEF RowsOf, Rows
<1>4. ResultsOf(q)'
  BY <1>1, <1>2 DEF ResultsOf, Decided, Measured
<1> QED
  BY <1>3, <1>4

\* No step of a rank makes a difference between its file, its results and
\* its verdict.
LEMMA RankRows ==
  ASSUME TypeOK, IInv, RowsInv, NEW r \in Ranks, Rank(r)
  PROVE  RowsInv'
<1>1. /\ i[r] \in 0..Count /\ i[r] \in Nat /\ barriers[r] \in Nat
      /\ pc[r] \in Locations /\ result \in [Ranks -> [Tests -> Result]]
      /\ success \in [Ranks -> BOOLEAN] /\ i \in [Ranks -> 0..Count]
      /\ barriers \in [Ranks -> Nat] /\ pc \in [Ranks -> Locations]
  BY CountAssumption DEF TypeOK
<1>2. BarrierCount(r)
  BY DEF IInv, BarrierInv
<1>3. pc[r] \notin {"open", "killed"} => RowsOf(r) /\ ResultsOf(r)
  BY DEF RowsInv
<1>4. SUFFICES /\ OnlyRank(r) /\ OnlyFile(r)
               /\ pc'[r] # "open" /\ RowsOf(r)' /\ ResultsOf(r)'
  BY OnlyRankRows
<1> USE <1>1, CountAssumption DEF At, Goto
\* Steps that touch neither results nor rows.
<1>5. ASSUME pc[r] \notin {"open", "killed"}, i' = i, result' = result,
             success' = success, file' = file, OnlyRank(r),
             pc[r] # "record", pc'[r] # "record", Measured(r)' = Measured(r),
             pc'[r] \in {"finalize", "done"} => i[r] = Count
      PROVE  OnlyFile(r) /\ RowsOf(r)' /\ ResultsOf(r)'
  <2>1. RowsOf(r)' /\ OnlyFile(r)
    BY <1>3, <1>5 DEF RowsOf, Rows, OnlyFile
  <2>2. ResultsOf(r)'
    BY <1>3, <1>5 DEF ResultsOf, Decided
  <2> QED
    BY <2>1, <2>2
<1>6. CASE OpenResultFile(r)
  <2>1. /\ i' = i /\ barriers' = barriers /\ success' = success /\ result' = result
        /\ pc[r] = "open" /\ pc' = [pc EXCEPT ![r] = "loop"]
    BY <1>6 DEF OpenResultFile
  <2>2. i[r] = 0 /\ barriers[r] = 0
    BY <1>2, <2>1 DEF BarrierCount
  <2>3. OnlyRank(r) /\ OnlyFile(r)
    BY <1>6, <2>1, OpenAppends DEF OnlyRank, OnlyFile
  <2>4. ResultsOf(r)'
    BY <2>1, <2>2 DEF ResultsOf, Decided, Measured
  <2>5. Len(file'[r]) > 0 /\ Len(Rows(r)') = 0
    <3>1. Len(file[r]) \in Nat
      BY LenProperties DEF TypeOK
    <3> QED
      BY <1>6, <3>1, OpenAppends, EmptySeq
  <2>6. r = 1 => success[r]
    BY <2>1 DEF RowsInv
  <2>7. RowsOf(r)'
    <3>1. i'[r] = 0 /\ 1 .. i'[r] = {}
      BY <2>1, <2>2
    <3>2. r = 1 => success'[r] = TRUE
      BY <2>1, <2>6
    <3>3. (\A k \in 1 .. i'[r] : Rows(r)'[k].success) = TRUE
      BY <3>1
    <3> QED
      BY <2>5, <3>1, <3>2, <3>3 DEF RowsOf
  <2> QED
    BY <2>1, <2>3, <2>4, <2>7
<1>7. CASE SkipTest(r)
  <2>1. /\ i' = i /\ barriers' = barriers /\ success' = success /\ file' = file
        /\ pc[r] = "loop" /\ pc' = [pc EXCEPT ![r] = "record"]
        /\ i[r] < Count /\ i[r] > 0
        /\ result' = [result EXCEPT ![r][i[r]] = result[r][i[r] - 1]]
    BY <1>7 DEF SkipTest, LimitExceeded
  <2>2. i[r] \in Tests /\ i[r] - 1 \in Tests
    BY <2>1 DEF Tests
  <2>3. OnlyRank(r) /\ OnlyFile(r) /\ RowsOf(r) /\ ResultsOf(r)
    BY <1>3, <2>1 DEF OnlyRank, OnlyFile
  <2>4. /\ result'[r][i[r]] = result[r][i[r] - 1]
        /\ \A t \in 0 .. i[r] - 1 : result'[r][t] = result[r][t]
    BY <2>1, <2>2 DEF Tests
  <2>5. RowsOf(r)'
    <3>1. \A k \in 1..i[r] : k - 1 \in 0 .. i[r] - 1
      OBVIOUS
    <3> QED
      BY <2>1, <2>3, <2>4, <3>1 DEF RowsOf, Rows
  <2>6. ResultsOf(r)'
    <3> DEFINE m == Measured(r)
    <3>1. m \in Int /\ m <= i[r] /\ Measured(r)' = m
      BY <2>1, <2>3 DEF ResultsOf, Measured
    <3>2. \A t \in 0 .. i[r] - 1 : result[r][t].by = IF t < m THEN t ELSE m - 1
      BY <2>1, <2>3 DEF ResultsOf, Decided
    <3> HIDE DEF m
    <3>3. \A t \in 0..i[r] : result'[r][t].by = IF t < m THEN t ELSE m - 1
      BY <2>1, <2>4, <3>1, <3>2, UpTo
    <3> QED
      BY <2>1, <3>1, <3>3 DEF ResultsOf, Decided
  <2> QED
    BY <2>1, <2>3, <2>5, <2>6
<1>8. CASE StartBench(r)
  <2>1. OnlyRank(r)
    BY <1>8 DEF StartBench, OnlyRank
  <2> QED
    BY <1>5, <1>8, <2>1 DEF StartBench, Measured
<1>9. CASE EnterBarrier(r)
  <2>1. OnlyRank(r) /\ i' = i /\ barriers'[r] = barriers[r] + 1
    BY <1>9 DEF EnterBarrier, OnlyRank
  <2>2. Measured(r)' = Measured(r)
    <3>1. CASE pc[r] = "warmup"
      <4>1. barriers[r] = 2 * i[r] /\ pc'[r] = "barrier1"
        BY <1>2, <1>9, <3>1 DEF EnterBarrier, BarrierCount
      <4> QED
        BY <2>1, <3>1, <4>1, Halves DEF Measured
    <3>2. CASE pc[r] = "timed"
      <4>1. barriers[r] = 2 * i[r] + 1 /\ pc'[r] = "barrier2"
        BY <1>2, <1>9, <3>2 DEF EnterBarrier, BarrierCount
      <4> QED
        BY <2>1, <3>2, <4>1, Halves DEF Measured
    <3> QED
      BY <1>9, <3>1, <3>2 DEF EnterBarrier
  <2> QED
    BY <1>5, <1>9, <2>1, <2>2 DEF EnterBarrier
<1>10. CASE LeaveFirstBarrier(r)
  <2>1. OnlyRank(r)
    BY <1>10 DEF LeaveFirstBarrier, OnlyRank
  <2> QED
    BY <1>5, <1>10, <2>1 DEF LeaveFirstBarrier, Measured
<1>11. CASE LeaveSecondBarrier(r)
  <2>1. /\ i' = i /\ barriers' = barriers /\ success' = success /\ file' = file
        /\ pc[r] = "barrier2" /\ pc' = [pc EXCEPT ![r] = "record"]
    BY <1>11 DEF LeaveSecondBarrier
  <2>2. PICK over \in BOOLEAN, ok \in BOOLEAN :
          result' = [result EXCEPT ![r][i[r]] =
                       [by |-> i[r], over |-> over, success |-> ok]]
    BY <1>11 DEF LeaveSecondBarrier
  <2>3. barriers[r] = 2 * i[r] + 2 /\ i[r] < Count /\ i[r] \in Tests
    BY <1>2, <2>1 DEF BarrierCount, Tests
  <2>4. OnlyRank(r) /\ OnlyFile(r) /\ RowsOf(r) /\ ResultsOf(r)
    BY <1>3, <2>1, <2>2 DEF OnlyRank, OnlyFile
  <2>5. /\ result'[r][i[r]].by = i[r]
        /\ \A t \in 0 .. i[r] - 1 : result'[r][t] = result[r][t]
    BY <2>2, <2>3 DEF Tests
  <2>6. RowsOf(r)'
    <3>1. \A k \in 1..i[r] : k - 1 \in 0 .. i[r] - 1
      OBVIOUS
    <3> QED
      BY <2>1, <2>4, <2>5, <3>1 DEF RowsOf, Rows
  <2>7. ResultsOf(r)'
    <3>1. Measured(r) = i[r] /\ Measured(r)' = i[r] + 1
      BY <2>1, <2>3 DEF Measured
    <3>2. \A t \in 0 .. i[r] - 1 : result[r][t].by = t
      BY <2>1, <2>4, <3>1 DEF ResultsOf, Decided
    <3>3. \A t \in 0..i[r] : result'[r][t].by = t
      BY <2>5, <3>2, UpTo
    <3> QED
      BY <2>1, <3>1, <3>3 DEF ResultsOf, Decided
  <2> QED
    BY <2>1, <2>4, <2>6, <2>7
<1>12. CASE RecordResult(r)
  <2> DEFINE res == result[r][i[r]]
  <2>1. /\ i' = [i EXCEPT ![r] = @ + 1] /\ result' = result
        /\ barriers' = barriers /\ pc' = [pc EXCEPT ![r] = "loop"]
        /\ pc[r] = "record"
        /\ success' = [success EXCEPT ![r] = @ /\ res.success]
    BY <1>12 DEF RecordResult
  <2>2. RowsOf(r) /\ ResultsOf(r)
    BY <1>3, <2>1
  <2>3. /\ res \in Result /\ Len(file'[r]) = Len(file[r])
        /\ Rows(r)' = Append(Rows(r), res)
        /\ \A q \in Ranks \ {r} : file'[q] = file[q]
    BY <1>12, <2>2, RecordRow DEF RowsOf
  <2>4. OnlyRank(r) /\ OnlyFile(r)
    BY <2>1, <2>3 DEF OnlyRank, OnlyFile
  <2>5. Rows(r) \in Seq(Result) /\ Len(Rows(r)) = i[r]
    <3>1. file[r] \in Seq(Seq(Result)) /\ Len(file[r]) \in 1..Len(file[r])
      BY <2>2, LenProperties DEF TypeOK, RowsOf
    <3> QED
      BY <2>2, <3>1, ElementOfSeq DEF Rows, RowsOf
  <2> HIDE DEF res
  <2>6. /\ Len(Rows(r)') = i[r] + 1
        /\ \A k \in 1..i[r] : Rows(r)'[k] = Rows(r)[k]
        /\ Rows(r)'[i[r] + 1] = res
    BY <2>3, <2>5, AppendProperties
  <2>7. i'[r] = i[r] + 1
    BY <2>1
  <2>8. RowsOf(r)'
    <3>1. 1 .. i[r] + 1 = (1..i[r]) \cup {i[r] + 1}
      BY UpTo
    <3>2. \A k \in 1 .. i[r] + 1 : Rows(r)'[k] = result'[r][k - 1]
      BY <2>1, <2>2, <2>6, <3>1 DEF RowsOf, res
    <3>3. r = 1 => success'[r] = \A k \in 1 .. i[r] + 1 : Rows(r)'[k].success
      BY <2>1, <2>2, <2>6, <3>1 DEF RowsOf
    <3> QED
      BY <2>2, <2>3, <2>6, <2>7, <3>2, <3>3 DEF RowsOf
  <2>9. ResultsOf(r)'
    BY <2>1, <2>2, <2>7 DEF ResultsOf, Decided, Measured
  <2> QED
    BY <2>1, <2>4, <2>8, <2>9
<1>13. CASE EnterFinalize(r)
  <2>1. OnlyRank(r)
    BY <1>13 DEF EnterFinalize, OnlyRank
  <2> QED
    BY <1>5, <1>13, <2>1 DEF EnterFinalize, Measured
<1>14. CASE LeaveFinalize(r)
  <2>1. OnlyRank(r) /\ pc[r] = "finalize" /\ i[r] = Count
    BY <1>3, <1>14 DEF LeaveFinalize, OnlyRank, ResultsOf
  <2> QED
    BY <1>5, <1>14, <2>1 DEF LeaveFinalize, Measured
<1> QED
  BY <1>6, <1>7, <1>8, <1>9, <1>10, <1>11, <1>12, <1>13, <1>14 DEF Rank

\* Types of what IInv does not speak of.
LEMMA NextTypeOK == IInv' /\ TypeOK /\ RowsInv /\ IInv /\ [Next]_vars => TypeOK'
<1> SUFFICES ASSUME IInv', TypeOK, RowsInv, IInv, [Next]_vars PROVE TypeOK'
  OBVIOUS
<1>1. ControlTypeOK'
  BY DEF IInv
<1>2. SUFFICES /\ success' \in [Ranks -> BOOLEAN]
               /\ file' \in [Ranks -> Seq(Seq(Result))]
               /\ runs' \in Nat /\ skewed' \in BOOLEAN
  BY <1>1 DEF ControlTypeOK, TypeOK
<1>3. ASSUME NEW r \in Ranks, Rank(r)
      PROVE  /\ success' \in [Ranks -> BOOLEAN]
             /\ file' \in [Ranks -> Seq(Seq(Result))]
             /\ runs' = runs /\ skewed' = skewed
  <2>1. CASE OpenResultFile(r)
    BY <2>1, OpenAppends DEF OpenResultFile, TypeOK
  <2>2. CASE RecordResult(r)
    <3>1. pc[r] = "record"
      BY <2>2 DEF RecordResult, At
    <3>2. Len(file[r]) > 0
      BY <3>1 DEF RowsInv, RowsOf
    <3>3. success' = [success EXCEPT ![r] = @ /\ result[r][i[r]].success]
      BY <2>2 DEF RecordResult
    <3>4. result[r][i[r]].success \in BOOLEAN
      BY <2>2, <3>2, RecordRow DEF Result
    <3> QED
      BY <2>2, <3>2, <3>3, <3>4, RecordRow DEF RecordResult, TypeOK
  <2>3. CASE \/ SkipTest(r) \/ StartBench(r) \/ EnterBarrier(r)
             \/ LeaveFirstBarrier(r) \/ LeaveSecondBarrier(r)
             \/ EnterFinalize(r) \/ LeaveFinalize(r)
    BY <2>3 DEF SkipTest, StartBench, EnterBarrier, LeaveFirstBarrier,
                LeaveSecondBarrier, EnterFinalize, LeaveFinalize, TypeOK
  <2> QED
    BY <1>3, <2>1, <2>2, <2>3 DEF Rank
<1>4. CASE \E r \in Ranks : Rank(r)
  BY <1>3, <1>4 DEF TypeOK
<1>5. CASE Kill \/ UNCHANGED vars
  BY <1>5 DEF Kill, vars, TypeOK
<1>6. CASE Rerun
  <2>1. success' = [r \in Ranks |-> r = 1] /\ UNCHANGED <<file, skewed>>
        /\ runs' = runs + 1
    BY <1>6 DEF Rerun
  <2>2. success' \in [Ranks -> BOOLEAN]
    BY <2>1
  <2> QED
    BY <2>1, <2>2 DEF TypeOK
<1> QED
  BY <1>4, <1>5, <1>6 DEF Next

LEMMA NextRows == TypeOK /\ IInv /\ RowsInv /\ [Next]_vars => RowsInv'
<1> SUFFICES ASSUME TypeOK, IInv, RowsInv, [Next]_vars PROVE RowsInv'
  OBVIOUS
<1>1. CASE \E r \in Ranks : Rank(r)
  BY <1>1, RankRows
<1>2. CASE Kill
  BY <1>2 DEF Kill, RowsInv, Ranks
<1>3. CASE Rerun
  BY <1>3 DEF Rerun, RowsInv, Ranks
<1>4. CASE UNCHANGED vars
  <2>1. /\ pc' = pc /\ i' = i /\ result' = result /\ success' = success
        /\ barriers' = barriers /\ file' = file
    BY <1>4 DEF vars
  <2>2. \A r \in Ranks : RowsOf(r)' = RowsOf(r)
    BY <2>1 DEF RowsOf, Rows
  <2>3. \A r \in Ranks : ResultsOf(r)' = ResultsOf(r)
    BY <2>1 DEF ResultsOf, Decided, Measured
  <2> QED
    BY <2>1, <2>2, <2>3 DEF RowsInv
<1> QED
  BY <1>1, <1>2, <1>3, <1>4 DEF Next

LEMMA InitRows == Init => TypeOK /\ RowsInv
<1> SUFFICES ASSUME Init PROVE TypeOK /\ RowsInv
  OBVIOUS
<1>1. file \in [Ranks -> Seq(Seq(Result))]
  BY EmptySeq DEF Init
<1>2. TypeOK
  BY <1>1, CountAssumption, SkewAssumption
     DEF Init, TypeOK, Ranks, Locations, Tests, Cleared, Result, None
<1>3. RowsInv
  BY DEF Init, RowsInv, Ranks
<1> QED
  BY <1>2, <1>3

(* The files, the results and the verdict of a rank say the same, and the  *)
(* barriers it has entered tell which tests it has measured itself.        *)
THEOREM RowsInvariance == Spec => [](TypeOK /\ RowsInv)
<1> USE DEF Spec
<1> QED
  BY InitRows, NextTypeOK, NextRows, Invariance, PTL

(* Type correctness of both ranks' state and files.                        *)
THEOREM TypeCorrect == Spec => []TypeOK
BY RowsInvariance, PTL

\* Rows of the same number are about the same test: had only one of the ranks
\* skipped it, the other one would still be waiting in a barrier of it.
LEMMA Paired == TypeOK /\ IInv /\ RowsInv => RowsPair
<1> SUFFICES ASSUME TypeOK, IInv, RowsInv,
                    \A r \in Ranks : pc[r] \notin {"open", "killed"},
                    NEW k \in 1 .. Len(Rows(0)), k <= Len(Rows(1))
             PROVE  Rows(0)[k].by = Rows(1)[k].by
  BY DEF RowsPair
<1>1. 0 \in Ranks /\ 1 \in Ranks
  BY DEF Ranks
<1>2. /\ i[0] \in Nat /\ i[1] \in Nat
      /\ RowsOf(0) /\ RowsOf(1) /\ ResultsOf(0) /\ ResultsOf(1)
  BY <1>1, CountAssumption DEF RowsInv, TypeOK
<1>3. /\ k \in 1..i[0] /\ k \in 1..i[1]
      /\ k - 1 \in 0 .. i[0] - 1 /\ k - 1 \in 0 .. i[1] - 1
  BY <1>2 DEF RowsOf
<1>4. Rows(0)[k] = result[0][k - 1] /\ Rows(1)[k] = result[1][k - 1]
  BY <1>2, <1>3 DEF RowsOf
<1>5. \A r \in Ranks :
        /\ result[r][k - 1].by =
             IF k - 1 < Measured(r) THEN k - 1 ELSE Measured(r) - 1
        /\ Measured(r) \in Int
  <2> SUFFICES ASSUME NEW r \in Ranks
               PROVE  /\ k - 1 \in Decided(r) /\ ResultsOf(r)
                      /\ Measured(r) \in Int
    BY DEF ResultsOf
  <2>1. i[r] \in Nat /\ k - 1 \in 0 .. i[r] - 1 /\ barriers[r] \in Nat
    BY <1>2, <1>3 DEF Ranks, TypeOK
  <2> QED
    BY <1>2, <2>1 DEF Decided, Measured, Ranks
<1>6. \A r \in Ranks : k > Measured(r) => Measured(Other(r)) <= Measured(r)
  <2> SUFFICES ASSUME NEW r \in Ranks, k > Measured(r)
               PROVE  Measured(Other(r)) <= Measured(r)
    OBVIOUS
  <2> DEFINE q == Other(r)
  <2>1. q \in Ranks /\ Other(q) = r
    BY OtherRank
  <2>2. /\ barriers[r] \in Nat /\ barriers[q] \in Nat /\ i[r] \in Nat
        /\ i[q] \in Nat /\ pc[r] \in Locations /\ pc[q] \in Locations
        /\ pc[r] \notin {"open", "killed"} /\ pc[q] \notin {"open", "killed"}
    BY <1>2, <2>1 DEF TypeOK, Ranks
  <2>3. BarrierCount(r) /\ BarrierCount(q) /\ Passed(q) <= barriers[r]
    BY <2>1, <2>2 DEF IInv, BarrierInv
  <2> HIDE DEF q
  <2>4. k <= i[r]
    BY <1>3 DEF Ranks
  <2>5. barriers[r] = 2 * Measured(r)
    BY <2>2, <2>3, <2>4, Halves DEF Measured, BarrierCount, Locations
  <2>6. 2 * Measured(q) <= Passed(q)
    <3>1. CASE pc[q] \in {"barrier1", "timed"}
      BY <2>2, <2>3, <3>1, Halves, SMTT(20) DEF Measured, BarrierCount, Passed
    <3>2. CASE pc[q] = "barrier2"
      BY <2>2, <2>3, <3>2, SMTT(20) DEF Measured, BarrierCount, Passed
    <3>3. CASE pc[q] \in {"loop", "warmup", "record", "finalize", "done"}
      <4>1. barriers[q] % 2 = 0
        BY <2>2, <2>3, <3>3, SMTT(20) DEF BarrierCount
      <4> QED
        BY <2>2, <3>3, <4>1, SMTT(20) DEF Measured, Passed
    <3> QED
      BY <2>2, <3>1, <3>2, <3>3 DEF Locations
  <2> QED
    BY <1>5, <2>1, <2>3, <2>5, <2>6, <2>2, SMTT(20) DEF q, Passed
<1> QED
  BY <1>1, <1>4, <1>5, <1>6, SMTT(20) DEF Other

(* Rows of the same number in R0.csv and R1.csv are measurements of one    *)
(* and the same test, whatever the clocks of the ranks said about the      *)
(* limit (bench.c:191-201).                                                *)
THEOREM FilesJoin == Spec => []RowsPair
BY Paired, RowsInvariance, Invariance, PTL

(* What rank 1 prints at the end is about every row of its file.           *)
THEOREM VerdictIsOfAllRows == Spec => []VerdictCoversRows
<1>1. TypeOK /\ RowsInv => VerdictCoversRows
  BY DEF RowsInv, RowsOf, ResultsOf, VerdictCoversRows, Ranks
<1> QED
  BY <1>1, RowsInvariance, PTL

-------------------------------------------------------------------------------
(* The rows and the time limit.                                            *)

\* A step of rank r keeps LimitInv if it keeps r's own part of it.
LEMMA OnlyRankLimit ==
  ASSUME LimitInv, NEW r \in Ranks, OnlyRank(r),
         pc'[r] \notin {"open", "killed"} => ResultsFollowLimit(r)'
  PROVE  LimitInv'
<1> SUFFICES ASSUME NEW q \in Ranks, q # r, pc'[q] \notin {"open", "killed"}
             PROVE  ResultsFollowLimit(q)'
  BY DEF LimitInv
<1>1. pc'[q] = pc[q] /\ i'[q] = i[q] /\ result'[q] = result[q]
  BY DEF OnlyRank
<1>2. ResultsFollowLimit(q)
  BY <1>1 DEF LimitInv
<1> QED
  BY <1>1, <1>2 DEF ResultsFollowLimit, Decided, LimitExceeded

\* What a rank's result for one more test has to be.
LEMMA OneMoreResult ==
  ASSUME TypeOK, NEW r \in Ranks, i[r] < Count,
         pc'[r] = "record", i' = i,
         \A t \in 0 .. i[r] - 1 :
           /\ result'[r][t] = result[r][t]
           /\ \A u \in 0 .. t-1 : result[r][u].over => result[r][t] = result[r][u]
           /\ (\A u \in 0 .. t-1 : ~result[r][u].over) => result[r][t].by = t,
         \A u \in 0 .. i[r] - 1 :
           result[r][u].over => result'[r][i[r]] = result[r][u],
         (\A u \in 0 .. i[r] - 1 : ~result[r][u].over) =>
           result'[r][i[r]].by = i[r]
  PROVE  ResultsFollowLimit(r)'
<1>1. i[r] \in Nat
  BY CountAssumption DEF TypeOK
<1>2. Decided(r)' = 0..i[r]
  BY DEF Decided
<1>3. SUFFICES ASSUME NEW t \in 0..i[r]
               PROVE  /\ \A u \in 0 .. t-1 :
                           result'[r][u].over => result'[r][t] = result'[r][u]
                      /\ (\A u \in 0 .. t-1 : ~result'[r][u].over) =>
                           result'[r][t].by = t
  BY <1>2 DEF ResultsFollowLimit
<1>4. \A u \in 0 .. t-1 : u \in 0 .. i[r] - 1 /\ result'[r][u] = result[r][u]
  BY <1>1
<1>5. CASE t = i[r]
  BY <1>4, <1>5
<1>6. CASE t \in 0 .. i[r] - 1
  BY <1>4, <1>6
<1> QED
  BY <1>1, <1>5, <1>6

\* A test is measured only while nothing is over the limit, and what is over it
\* stands for every test behind it.
LEMMA RankLimit ==
  ASSUME TypeOK, IInv, LimitInv, NEW r \in Ranks, Rank(r)
  PROVE  LimitInv'
<1>1. /\ i[r] \in 0..Count /\ i[r] \in Nat /\ pc[r] \in Locations
      /\ result \in [Ranks -> [Tests -> Result]] /\ i \in [Ranks -> 0..Count]
      /\ pc \in [Ranks -> Locations]
  BY CountAssumption DEF TypeOK
<1>2. BarrierCount(r)
  BY DEF IInv, BarrierInv
<1>3. pc[r] \notin {"open", "killed"} => ResultsFollowLimit(r)
  BY DEF LimitInv
<1>4. SUFFICES OnlyRank(r) /\ ResultsFollowLimit(r)'
  BY OnlyRankLimit
<1> USE <1>1, CountAssumption DEF At, Goto
<1>5. CASE OpenResultFile(r)
  <2>1. /\ OnlyRank(r) /\ i'[r] = 0 /\ pc'[r] = "loop"
    BY <1>2, <1>5 DEF OpenResultFile, OnlyRank, BarrierCount
  <2>2. Decided(r)' = {}
    BY <2>1 DEF Decided
  <2> QED
    BY <2>1, <2>2 DEF ResultsFollowLimit
<1>6. CASE SkipTest(r)
  <2>1. /\ i' = i /\ pc[r] = "loop" /\ pc'[r] = "record"
        /\ i[r] < Count /\ i[r] > 0 /\ result[r][i[r] - 1].over
        /\ result' = [result EXCEPT ![r][i[r]] = result[r][i[r] - 1]]
    BY <1>6 DEF SkipTest, LimitExceeded
  <2>2. i[r] \in Tests /\ i[r] - 1 \in 0 .. i[r] - 1
    BY <2>1 DEF Tests
  <2>3. /\ result'[r][i[r]] = result[r][i[r] - 1]
        /\ \A t \in 0 .. i[r] - 1 : result'[r][t] = result[r][t]
    BY <2>1, <2>2 DEF Tests
  <2>4. Decided(r) = 0 .. i[r] - 1 /\ ResultsFollowLimit(r)
    BY <1>3, <2>1 DEF Decided
  <2>5. \A t \in 0 .. i[r] - 1 :
           /\ \A u \in 0 .. t-1 : result[r][u].over => result[r][t] = result[r][u]
           /\ (\A u \in 0 .. t-1 : ~result[r][u].over) => result[r][t].by = t
    BY <2>4 DEF ResultsFollowLimit
  <2>6. \A u \in 0 .. i[r] - 1 :
           result[r][u].over => result[r][i[r] - 1] = result[r][u]
    <3>1. \A u \in 0 .. i[r] - 1 : u = i[r] - 1 \/ u \in 0 .. (i[r] - 1) - 1
      BY LastOrBefore
    <3> QED
      BY <2>2, <2>5, <3>1
  <2>7. ResultsFollowLimit(r)'
    BY <2>1, <2>2, <2>3, <2>5, <2>6, OneMoreResult
  <2> QED
    BY <1>6, <2>7 DEF SkipTest, OnlyRank
<1>7. CASE StartBench(r)
  <2>1. /\ OnlyRank(r) /\ i' = i /\ result' = result /\ ~LimitExceeded(r)
        /\ pc[r] = "loop" /\ pc'[r] = "warmup"
    BY <1>7 DEF StartBench, OnlyRank
  <2> QED
    BY <1>3, <2>1 DEF ResultsFollowLimit, Decided, LimitExceeded
<1>8. CASE EnterBarrier(r) \/ LeaveFirstBarrier(r)
  <2> USE DEF EnterBarrier, LeaveFirstBarrier
  <2>1. OnlyRank(r) /\ i' = i /\ result' = result
    <3>1. i' = i /\ result' = result
      BY <1>8
    <3>2. \A q \in Ranks \ {r} : pc'[q] = pc[q] /\ barriers'[q] = barriers[q]
      <4>1. CASE EnterBarrier(r)
        BY <4>1 DEF TypeOK
      <4>2. CASE LeaveFirstBarrier(r)
        BY <4>2
      <4> QED
        BY <1>8, <4>1, <4>2
    <3> QED
      BY <3>1, <3>2 DEF OnlyRank
  <2>2. pc[r] \in {"warmup", "barrier1", "timed"}
    BY <1>8
  <2>3. pc'[r] \in {"barrier1", "timed", "barrier2"}
    BY <1>8
  <2> QED
    BY <1>3, <2>1, <2>2, <2>3 DEF ResultsFollowLimit, Decided, LimitExceeded
<1>9. CASE LeaveSecondBarrier(r)
  <2>1. /\ i' = i /\ pc[r] = "barrier2" /\ pc'[r] = "record"
    BY <1>9 DEF LeaveSecondBarrier
  <2>2. PICK over \in BOOLEAN, ok \in BOOLEAN :
          result' = [result EXCEPT ![r][i[r]] =
                       [by |-> i[r], over |-> over, success |-> ok]]
    BY <1>9 DEF LeaveSecondBarrier
  <2>3. i[r] < Count /\ i[r] \in Tests
    BY <1>2, <2>1 DEF BarrierCount, Tests
  <2>4. /\ result'[r][i[r]].by = i[r]
        /\ \A t \in 0 .. i[r] - 1 : result'[r][t] = result[r][t]
    BY <2>2, <2>3 DEF Tests
  <2>5. /\ Decided(r) = 0 .. i[r] - 1 /\ ResultsFollowLimit(r)
        /\ i[r] = 0 \/ ~result[r][i[r] - 1].over
    BY <1>3, <2>1 DEF Decided, ResultsFollowLimit, LimitExceeded
  <2>6. \A t \in 0 .. i[r] - 1 :
           /\ \A u \in 0 .. t-1 : result[r][u].over => result[r][t] = result[r][u]
           /\ (\A u \in 0 .. t-1 : ~result[r][u].over) => result[r][t].by = t
    BY <2>5 DEF ResultsFollowLimit
  <2>7. \A u \in 0 .. i[r] - 1 : ~result[r][u].over
    <3> SUFFICES ASSUME NEW u \in 0 .. i[r] - 1, result[r][u].over PROVE FALSE
      OBVIOUS
    <3>1. i[r] - 1 \in 0 .. i[r] - 1 /\ ~result[r][i[r] - 1].over
      BY <2>5
    <3>2. u = i[r] - 1 \/ u \in 0 .. (i[r] - 1) - 1
      BY LastOrBefore
    <3> QED
      BY <2>6, <3>1, <3>2
  <2>8. ResultsFollowLimit(r)'
    BY <2>1, <2>3, <2>4, <2>6, <2>7, OneMoreResult
  <2> QED
    BY <1>9, <2>8 DEF LeaveSecondBarrier, OnlyRank
<1>10. CASE RecordResult(r)
  <2>1. /\ OnlyRank(r) /\ i'[r] = i[r] + 1 /\ result' = result
        /\ pc[r] = "record" /\ pc'[r] = "loop"
    BY <1>10 DEF RecordResult, OnlyRank
  <2>2. Decided(r)' = Decided(r)
    BY <2>1 DEF Decided
  <2> QED
    BY <1>3, <2>1, <2>2 DEF ResultsFollowLimit
<1>11. CASE EnterFinalize(r) \/ LeaveFinalize(r)
  <2>1. /\ OnlyRank(r) /\ i' = i /\ result' = result
        /\ pc[r] \in {"loop", "finalize"} /\ pc'[r] \in {"finalize", "done"}
    BY <1>11 DEF EnterFinalize, LeaveFinalize, OnlyRank
  <2> QED
    BY <1>3, <2>1 DEF ResultsFollowLimit, Decided
<1> QED
  BY <1>5, <1>6, <1>7, <1>8, <1>9, <1>10, <1>11 DEF Rank

LEMMA NextLimit == TypeOK /\ IInv /\ LimitInv /\ [Next]_vars => LimitInv'
<1> SUFFICES ASSUME TypeOK, IInv, LimitInv, [Next]_vars PROVE LimitInv'
  OBVIOUS
<1>1. CASE \E r \in Ranks : Rank(r)
  BY <1>1, RankLimit
<1>2. CASE Kill \/ Rerun
  BY <1>2 DEF Kill, Rerun, LimitInv
<1>3. CASE UNCHANGED vars
  BY <1>3 DEF vars, LimitInv, ResultsFollowLimit, Decided, LimitExceeded
<1> QED
  BY <1>1, <1>2, <1>3 DEF Next

\* The row that is added continues its section; the others stay what they are.
LEMMA RecordFollows ==
  ASSUME TypeOK, IInv, RowsInv, LimitInv, RowsFollowLimit,
         NEW r \in Ranks, RecordResult(r)
  PROVE  \A n \in 1..Len(file'[r]) : FollowsLimit(file'[r][n])
<1>1. /\ pc[r] = "record" /\ RowsOf(r) /\ ResultsFollowLimit(r)
      /\ i[r] \in Nat
  <2>1. pc[r] = "record"
    BY DEF RecordResult, At
  <2>2. i[r] \in Nat
    BY CountAssumption DEF TypeOK
  <2> QED
    BY <2>1, <2>2 DEF RowsInv, LimitInv
<1>2. /\ result[r][i[r]] \in Result
      /\ Len(file'[r]) = Len(file[r])
      /\ \A n \in 1 .. Len(file[r]) - 1 : file'[r][n] = file[r][n]
      /\ file'[r][Len(file[r])] = Append(Rows(r), result[r][i[r]])
  BY <1>1, RecordRow DEF RowsOf, Rows
<1>3. /\ Len(file[r]) \in Nat /\ Len(file[r]) \in 1..Len(file[r])
      /\ Rows(r) \in Seq(Result) /\ Len(Rows(r)) = i[r]
  <2>1. file[r] \in Seq(Seq(Result)) /\ Len(file[r]) \in 1..Len(file[r])
        /\ Len(file[r]) \in Nat
    BY <1>1, LenProperties DEF TypeOK, RowsOf
  <2> QED
    BY <1>1, <2>1, ElementOfSeq DEF Rows, RowsOf
<1> DEFINE rows == Append(Rows(r), result[r][i[r]])
<1>4. /\ Len(rows) = i[r] + 1
      /\ \A k \in 1..i[r] : rows[k] = Rows(r)[k]
      /\ rows[i[r] + 1] = result[r][i[r]]
  BY <1>2, <1>3, AppendProperties
<1>5. \A k \in 1 .. i[r] + 1 : rows[k] = result[r][k - 1]
  <2>1. \A k \in 1..i[r] : Rows(r)[k] = result[r][k - 1]
    BY <1>1 DEF RowsOf
  <2> QED
    BY <1>1, <1>4, <2>1, UpTo
<1> HIDE DEF rows
<1>6. FollowsLimit(rows)
  <2> SUFFICES ASSUME NEW k \in 1 .. i[r] + 1
               PROVE  /\ \A m \in 1 .. k-1 : rows[m].over => rows[k] = rows[m]
                      /\ (\A m \in 1 .. k-1 : ~rows[m].over) => rows[k].by = k - 1
    BY <1>4 DEF FollowsLimit
  <2>1. k - 1 \in Decided(r)
    BY <1>1 DEF Decided
  <2>2. /\ \A u \in 0 .. (k-1) - 1 :
             result[r][u].over => result[r][k - 1] = result[r][u]
        /\ (\A u \in 0 .. (k-1) - 1 : ~result[r][u].over) =>
             result[r][k - 1].by = k - 1
    BY <1>1, <2>1 DEF ResultsFollowLimit
  <2>3. \A m \in 1 .. k-1 :
          m - 1 \in 0 .. (k-1) - 1 /\ rows[m] = result[r][m - 1]
    BY <1>1, <1>5
  <2>4. \A u \in 0 .. (k-1) - 1 :
          u + 1 \in 1 .. k-1 /\ rows[u + 1] = result[r][u]
    <3> SUFFICES ASSUME NEW u \in 0 .. (k-1) - 1
                 PROVE  u + 1 \in 1 .. k-1 /\ rows[u + 1] = result[r][u]
      OBVIOUS
    <3>1. u + 1 \in 1 .. k-1 /\ (u + 1) - 1 = u
      OBVIOUS
    <3> QED
      BY <2>3, <3>1
  <2>5. rows[k] = result[r][k - 1]
    BY <1>5
  <2> QED
    BY <2>2, <2>3, <2>4, <2>5
<1>7. \A n \in 1..Len(file[r]) : n \in 1 .. Len(file[r]) - 1 \/ n = Len(file[r])
  BY <1>3
<1>8. \A n \in 1 .. Len(file[r]) - 1 : FollowsLimit(file'[r][n])
  <2>1. \A n \in 1 .. Len(file[r]) - 1 : n \in 1..Len(file[r])
    BY <1>3
  <2> QED
    BY <1>2, <2>1 DEF RowsFollowLimit
<1> QED
  BY <1>2, <1>6, <1>7, <1>8 DEF rows

\* So does the header line of a file that is opened.
LEMMA OpenFollows ==
  ASSUME TypeOK, RowsFollowLimit, NEW r \in Ranks, OpenResultFile(r)
  PROVE  \A n \in 1..Len(file'[r]) : FollowsLimit(file'[r][n])
<1>1. /\ Len(file[r]) \in Nat /\ Len(file'[r]) = Len(file[r]) + 1
      /\ \A n \in 1..Len(file[r]) : file'[r][n] = file[r][n]
      /\ file'[r][Len(file[r]) + 1] = <<>>
  BY OpenAppends, LenProperties DEF TypeOK, Rows
<1>2. FollowsLimit(<<>>)
  BY EmptySeq DEF FollowsLimit
<1>3. \A n \in 1..Len(file[r]) : FollowsLimit(file'[r][n])
  BY <1>1 DEF RowsFollowLimit
<1> QED
  BY <1>1, <1>2, <1>3, UpTo

LEMMA NextFollows ==
  TypeOK /\ IInv /\ RowsInv /\ LimitInv /\ RowsFollowLimit /\ [Next]_vars =>
    RowsFollowLimit'
<1> SUFFICES ASSUME TypeOK, IInv, RowsInv, LimitInv, RowsFollowLimit,
                    [Next]_vars, NEW q \in Ranks
             PROVE  \A n \in 1..Len(file'[q]) : FollowsLimit(file'[q][n])
  BY DEF RowsFollowLimit
<1>1. CASE file'[q] = file[q]
  BY <1>1 DEF RowsFollowLimit
<1>2. CASE OpenResultFile(q)
  BY <1>2, OpenFollows
<1>3. CASE RecordResult(q)
  BY <1>3, RecordFollows
<1>4. ASSUME NEW r \in Ranks, Rank(r), ~OpenResultFile(q), ~RecordResult(q)
      PROVE  file'[q] = file[q]
  <2>1. CASE OpenResultFile(r)
    BY <1>4, <2>1, OpenAppends
  <2>2. CASE RecordResult(r)
    BY <1>4, <2>2 DEF RecordResult, TypeOK
  <2>3. CASE \/ SkipTest(r) \/ StartBench(r) \/ EnterBarrier(r)
             \/ LeaveFirstBarrier(r) \/ LeaveSecondBarrier(r)
             \/ EnterFinalize(r) \/ LeaveFinalize(r)
    BY <2>3 DEF SkipTest, StartBench, EnterBarrier, LeaveFirstBarrier,
                LeaveSecondBarrier, EnterFinalize, LeaveFinalize
  <2> QED
    BY <1>4, <2>1, <2>2, <2>3 DEF Rank
<1>5. CASE Kill \/ Rerun \/ UNCHANGED vars
  BY <1>1, <1>5 DEF Kill, Rerun, vars
<1> QED
  BY <1>1, <1>2, <1>3, <1>4, <1>5 DEF Next

(* In every section of both files, however many jobs were killed before:   *)
(* the rows are those of the tests in their order up to the first one over *)
(* the limit, and copies of that one from there on (bench.c:189-201).      *)
THEOREM RowsFollow == Spec => []RowsFollowLimit
<1>1. Init => LimitInv /\ RowsFollowLimit
  BY DEF Init, LimitInv, RowsFollowLimit, Ranks
<1> QED
  BY <1>1, NextLimit, NextFollows, Invariance, RowsInvariance, PTL DEF Spec

-------------------------------------------------------------------------------
(* What two barriers promise the main loop of a run method, for any number *)
(* of iterations on either rank: RunMethod by itself, with a phase and a   *)
(* counter of iterations for each rank.                                    *)

CONSTANT Rounds
VARIABLES phase, iter

Method == INSTANCE RunMethod

LEMMA MethodInit == Method!Init => Method!IInv
BY DEF Method!Init, Method!IInv, Method!TypeOK, Method!PhaseInv, Method!Phases,
       Method!Ranks

\* One rank moves, the other one stays where it is.
LEMMA MethodStep ==
  ASSUME Method!IInv, NEW r \in Method!Ranks, Method!Rank(r)
  PROVE  Method!IInv'
<1> USE DEF Method!IInv, Method!TypeOK, Method!PhaseInv, Method!Phases,
            Method!Ranks, Method!Other, Method!Move
<1>1. CASE Method!EnterFirst(r)
  BY <1>1 DEF Method!EnterFirst
<1>2. CASE Method!LeaveFirst(r)
  BY <1>2 DEF Method!LeaveFirst
<1>3. CASE Method!Iterate(r)
  BY <1>3 DEF Method!Iterate
<1>4. CASE Method!EnterSecond(r)
  BY <1>4 DEF Method!EnterSecond
<1>5. CASE Method!LeaveSecond(r)
  BY <1>5 DEF Method!LeaveSecond
<1> QED
  BY <1>1, <1>2, <1>3, <1>4, <1>5 DEF Method!Rank

(* Whoever is in its iterations or behind them never meets the warm-up of  *)
(* the other rank: the phases that two ranks can be in at once.            *)
THEOREM MethodInvariance ==
  Method!Init /\ [][Method!Next]_(Method!vars) => []Method!IInv
<1>1. Method!IInv /\ [Method!Next]_(Method!vars) => Method!IInv'
  <2> SUFFICES ASSUME Method!IInv, [Method!Next]_(Method!vars)
               PROVE  Method!IInv'
    OBVIOUS
  <2>1. CASE Method!Next
    BY <2>1, MethodStep DEF Method!Next
  <2>2. CASE UNCHANGED Method!vars
    BY <2>2 DEF Method!vars, Method!IInv, Method!TypeOK, Method!PhaseInv
  <2> QED
    BY <2>1, <2>2
<1> QED
  BY <1>1, MethodInit, PTL

(* The iterations of a rank lie between the warm-up and the end of the     *)
(* other one, whether or not anybody is scheduled fairly.                  *)
THEOREM IterationsFenced ==
  Method!Init /\ [][Method!Next]_(Method!vars) => []Method!Fenced
<1>1. Method!IInv => Method!Fenced
  BY DEF Method!IInv, Method!TypeOK, Method!PhaseInv, Method!Fenced,
         Method!Phases, Method!Ranks, Method!Other
<1> QED
  BY <1>1, MethodInvariance, PTL
===============================================================================
