---------------------------- MODULE MessagesProofs ----------------------------
(***************************************************************************)
(* What the run methods with one message for each partition guarantee for  *)
(* every number of threads, partitions and iterations and every pattern.   *)
(***************************************************************************)
EXTENDS Messages, FiniteSetTheorems, TLAPS

-------------------------------------------------------------------------------
(* Barriers and iterations.                                                *)

LEMMA InitControl == Init => ControlInv
<1> SUFFICES ASSUME Init PROVE ControlInv
  OBVIOUS
<1>1. test \in Tests /\ mode \in AllModes
  BY TestsAssumption DEF Init, mode
<1> QED
  BY <1>1 DEF Init, ControlInv, BarrierCount, Passed, IterationsAt, ModesAt,
              BeforeFirst, Behind, Syncs, Ranks, Other, AllModes

\* The main thread of a rank moves, that of the other rank does not.
LEMMA RankControl ==
  ASSUME ControlInv, NEW r \in Ranks, Rank(r)
  PROVE  ControlInv'
<1> USE CountAssumption
    DEF ControlInv, BarrierCount, Passed, IterationsAt, ModesAt, BeforeFirst,
        Behind, Syncs, Synchronous, AllModes, mode, Ranks, Other, At, Goto
<1>1. CASE WarmupPost(r)
  BY <1>1 DEF WarmupPost
<1>2. CASE WarmupWait(r)
  BY <1>2 DEF WarmupWait
<1>3. CASE JoinWarmup(r)
  BY <1>3 DEF JoinWarmup, Join
<1>4. CASE EnterBarrier(r)
  <2>1. CASE pc[r] = "warmed"
    BY <1>4, <2>1, SMTT(20) DEF EnterBarrier
  <2>2. CASE pc[r] = "iterate" /\ iter[r] < Iterations
    BY <1>4, <2>2, SMTT(20) DEF EnterBarrier
  <2>3. CASE pc[r] = "iterate" /\ iter[r] = Iterations
    <3>1. /\ pc' = [pc EXCEPT ![r] = "barrier2"]
          /\ barriers' = [barriers EXCEPT ![r] = @ + 1]
          /\ UNCHANGED <<test, iter>>
      BY <1>4, <2>3 DEF EnterBarrier
    <3>2. barriers[r] = 1 + Syncs(Iterations)
      BY <2>3
    <3> QED
      BY <2>3, <3>1, <3>2, SMTT(20)
  <2> QED
    BY <1>4, <2>1, <2>2, <2>3 DEF EnterBarrier
<1>5. CASE LeaveBarrier(r)
  <2>1. CASE pc[r] = "barrier1"
    <3>1. CASE r = 0
      BY <3>1, <1>5, <2>1, SMTT(20) DEF LeaveBarrier, MayLeave
    <3>2. CASE r = 1
      BY <3>2, <1>5, <2>1, SMTT(20) DEF LeaveBarrier, MayLeave
    <3> QED
      BY <3>1, <3>2
  <2>2. CASE pc[r] = "sync"
    <3>1. CASE r = 0
      BY <3>1, <1>5, <2>2, SMTT(20) DEF LeaveBarrier, MayLeave
    <3>2. CASE r = 1
      BY <3>2, <1>5, <2>2, SMTT(20) DEF LeaveBarrier, MayLeave
    <3> QED
      BY <3>1, <3>2
  <2>3. CASE pc[r] = "barrier2"
    BY <1>5, <2>3, SMTT(20) DEF LeaveBarrier, MayLeave
  <2> QED
    BY <1>5, <2>1, <2>2, <2>3 DEF LeaveBarrier
<1>6. CASE StartRegion(r)
  BY <1>6 DEF StartRegion
<1>7. CASE JoinRegion(r)
  <2>1. CASE mode = "Send"
    <3>1. /\ pc' = [pc EXCEPT ![r] = "iterate"]
          /\ iter' = [iter EXCEPT ![r] = @ + 1]
          /\ UNCHANGED <<test, barriers>>
          /\ pc[r] = "region"
      BY <1>7, <2>1 DEF JoinRegion
    <3>2. barriers[r] = iter[r] + 2 /\ iter[r] \in 0 .. Iterations - 1 /\ Synchronous
      BY <1>7, <2>1 DEF JoinRegion
    <3>3. CASE r = 0
      BY <2>1, <3>1, <3>2, <3>3, SMTT(20)
    <3>4. CASE r = 1
      BY <2>1, <3>1, <3>2, <3>4, SMTT(20)
    <3> QED
      BY <3>3, <3>4
  <2>2. CASE mode # "Send"
    <3>1. PICK to \in {"waitall", "testall", "poll"} :
            /\ pc' = [pc EXCEPT ![r] = to]
            /\ to = "testall" => r = 0 /\ mode = "IsendTestall"
            /\ to = "poll" => r = 0 /\ mode = "IsendThenTest"
            /\ to = "waitall" => r = 1 \/ mode \notin {"IsendThenTest", "IsendTestall"}
      BY <1>7, <2>2 DEF JoinRegion
    <3>2. UNCHANGED <<test, barriers, iter>> /\ pc[r] = "region"
      BY <1>7, <2>2 DEF JoinRegion
    <3>3. CASE to = "waitall"
      <4>1. \A q \in Ranks : BarrierCount(q)' = BarrierCount(q) /\ Passed(q)' = Passed(q)
        BY <3>1, <3>2, <3>3
      <4>2. \A q \in Ranks : iter[q] \in IterationsAt(q)' /\ mode \in ModesAt(q)'
        BY <2>2, <3>1, <3>2, <3>3
      <4>3. pc' \in [Ranks -> BeforeFirst \cup {"barrier1", "iterate", "sync", "region"}
                                \cup Behind \cup {"barrier2", "done"}]
        BY <3>1, <3>3
      <4> HIDE DEF BarrierCount, Passed, IterationsAt, ModesAt, BeforeFirst, Behind
      <4> QED
        BY <3>1, <3>2, <3>3, <4>1, <4>2, <4>3
    <3>4. CASE to = "testall"
      BY <2>2, <3>1, <3>2, <3>4, SMTT(20)
    <3>5. CASE to = "poll"
      BY <2>2, <3>1, <3>2, <3>5, SMTT(20)
    <3> QED
      BY <3>1, <3>3, <3>4, <3>5
  <2> QED
    BY <2>1, <2>2
<1>8. CASE Waitall(r)
  <2>1. /\ pc[r] = "waitall"
        /\ pc' = [pc EXCEPT ![r] = "iterate"]
        /\ iter' = [iter EXCEPT ![r] = @ + 1]
        /\ UNCHANGED <<test, barriers>>
    BY <1>8 DEF Waitall, EndIteration
  <2>2. CASE r = 0
    BY <2>1, <2>2, SMTT(20)
  <2>3. CASE r = 1
    BY <2>1, <2>3, SMTT(20)
  <2> QED
    BY <2>2, <2>3
<1>9. CASE r = 0 /\ Testall
  BY <1>9 DEF Testall, EndIteration
<1>10. CASE r = 0 /\ PollAgain
  BY <1>10 DEF PollAgain, Join
<1>11. CASE r = 0 /\ PollEnds
  BY <1>11 DEF PollEnds, Join
<1> QED
  BY <1>1, <1>2, <1>3, <1>4, <1>5, <1>6, <1>7, <1>8, <1>9, <1>10, <1>11
     DEF Rank

\* Threads of a team and MPI leave the ranks where they are.
LEMMA OthersStutter ==
  ASSUME \/ \E r \in Ranks, t \in Team : Thread(r, t)
         \/ \E p \in Partitions : Buffered(p) \/ Deliver(p)
         \/ UNCHANGED vars
  PROVE  UNCHANGED <<test, pc, iter, barriers>>
<1>1. ASSUME NEW r \in Ranks, NEW t \in Team, Thread(r, t)
      PROVE  UNCHANGED <<test, pc, iter, barriers>>
  BY <1>1 DEF Thread, TeamPost, TeamStore, TeamRead, TeamWait, SendPost,
              SendReturn, IsendPost, PersistentStart, Poll
<1>2. ASSUME NEW p \in Partitions, Buffered(p) \/ Deliver(p)
      PROVE  UNCHANGED <<test, pc, iter, barriers>>
  BY <1>2 DEF Buffered, Deliver
<1> QED
  BY <1>1, <1>2 DEF vars

LEMMA ControlStep == ControlInv /\ [Next]_vars => ControlInv'
<1> SUFFICES ASSUME ControlInv, [Next]_vars PROVE ControlInv'
  OBVIOUS
<1>1. CASE \E r \in Ranks : Rank(r)
  BY <1>1, RankControl
<1>2. CASE ~\E r \in Ranks : Rank(r)
  <2>1. UNCHANGED <<test, pc, iter, barriers>>
    BY <1>2, OthersStutter DEF Next
  <2> QED
    BY <2>1 DEF ControlInv, BarrierCount, Passed, IterationsAt, ModesAt, Syncs,
                Synchronous, mode
<1> QED
  BY <1>1, <1>2

(* Where a rank is in its code determines which barriers it has entered,   *)
(* which iterations it may be in and which methods lead there, and no rank *)
(* has passed a barrier that the other one has not entered.                *)
THEOREM Invariance == Spec => []ControlInv
BY InitControl, ControlStep, PTL DEF Spec

(* In the methods with a barrier in front of each iteration an iteration   *)
(* does not overlap with another one of the other rank.                    *)
THEOREM IterationsAreInStep == Spec => []InStep
<1>1. ControlInv => InStep
  <2> SUFFICES ASSUME ControlInv, mode \in {"Send", "SendPersistent"},
                      NEW r \in Ranks, pc[r] \in {"region", "waitall"}
               PROVE  \/ iter[Other(r)] = iter[r]
                      \/ /\ iter[Other(r)] = iter[r] + 1
                         /\ pc[Other(r)] \in {"iterate", "sync", "barrier2"}
    BY DEF InStep
  <2> DEFINE q == Other(r)
  <2>1. q \in Ranks /\ Other(q) = r
    BY DEF Other, Ranks
  <2> HIDE DEF q
  <2>2. /\ barriers[r] = iter[r] + 2 /\ iter[r] \in 0 .. Iterations - 1
        /\ Passed(r) = barriers[r]
    BY DEF ControlInv, BarrierCount, Passed, IterationsAt, BeforeFirst, Behind,
           Syncs, Synchronous
  <2>3. Passed(r) <= barriers[q] /\ Passed(q) <= barriers[r]
    BY <2>1 DEF ControlInv, q
  <2>4. iter[q] = iter[r] \/ (/\ iter[q] = iter[r] + 1
                              /\ pc[q] \in {"iterate", "sync", "barrier2"})
    BY <2>1, <2>2, <2>3, CountAssumption, SMTT(20)
       DEF ControlInv, BarrierCount, Passed, IterationsAt, BeforeFirst, Behind,
           Syncs, Synchronous
  <2> QED
    BY <2>4 DEF q
<1> QED
  BY <1>1, Invariance, PTL

-------------------------------------------------------------------------------
(* Refinement of RunMethod.                                                *)

PhaseBar == [r \in Ranks |-> Phase(r)]

\* A rank that shows the same phase and iterations shows nothing of its step.
LEMMA HiddenStep ==
  ASSUME \A q \in Ranks : Phase(q)' = Phase(q), iter' = iter
  PROVE  UNCHANGED Method!vars
<1>1. PhaseBar' = PhaseBar
  BY DEF PhaseBar
<1> QED
  BY <1>1 DEF Method!vars, PhaseBar

\* A rank that moves to another phase makes RunMethod's Move.
LEMMA VisibleMove ==
  ASSUME NEW r \in Ranks, NEW from, NEW to,
         Phase(r) = from, Phase(r)' = to,
         \A q \in Ranks \ {r} : Phase(q)' = Phase(q)
  PROVE  Method!Move(r, from, to)
<1>1. PhaseBar' = [PhaseBar EXCEPT ![r] = to] /\ PhaseBar[r] = from
  BY DEF PhaseBar
<1> QED
  BY <1>1 DEF Method!Move, PhaseBar

\* Every step of a rank is a step of RunMethod or hidden.
LEMMA RankImplements ==
  ASSUME ControlInv, NEW r \in Ranks, Rank(r)
  PROVE  [Method!Next]_(Method!vars)
<1>1. r \in {0, 1} /\ DOMAIN pc = Ranks /\ iter \in [Ranks -> Nat]
  BY DEF ControlInv, Ranks
<1> USE DEF At, Goto
<1>2. CASE WarmupPost(r) \/ WarmupWait(r) \/ JoinWarmup(r) \/ StartRegion(r)
  BY <1>1, <1>2, HiddenStep
     DEF WarmupPost, WarmupWait, JoinWarmup, Join, StartRegion, Phase
<1>3. CASE EnterBarrier(r)
  <2>1. \A q \in Ranks \ {r} : Phase(q)' = Phase(q)
    BY <1>1, <1>3 DEF EnterBarrier, Phase
  <2>2. CASE pc[r] = "warmed"
    <3>1. Phase(r) = "warmup" /\ Phase(r)' = "first"
      BY <1>1, <1>3, <2>2 DEF EnterBarrier, Phase
    <3> QED
      BY <1>3, <2>1, <3>1, VisibleMove
         DEF EnterBarrier, Method!Next, Method!Rank, Method!EnterFirst,
             Method!Ranks, Ranks
  <2>3. CASE pc[r] = "iterate" /\ pc' = [pc EXCEPT ![r] = "sync"]
    <3>1. Phase(r)' = Phase(r)
      BY <1>1, <2>3 DEF Phase
    <3> QED
      BY <1>3, <2>1, <3>1, HiddenStep DEF EnterBarrier
  <2>4. CASE /\ pc[r] = "iterate" /\ iter[r] = Iterations
             /\ pc' = [pc EXCEPT ![r] = "barrier2"]
    <3>1. Phase(r) = "timed" /\ Phase(r)' = "second"
      BY <1>1, <2>4 DEF Phase
    <3> QED
      BY <1>3, <2>1, <2>4, <3>1, VisibleMove
         DEF EnterBarrier, Method!Next, Method!Rank, Method!EnterSecond,
             Method!Ranks, Ranks
  <2> QED
    BY <1>3, <2>2, <2>3, <2>4 DEF EnterBarrier
<1>4. CASE LeaveBarrier(r)
  <2> DEFINE q == Other(r)
  <2>1. q \in Ranks /\ barriers[q] >= barriers[r]
    BY <1>4 DEF LeaveBarrier, MayLeave, Other, Ranks
  <2>2. \A s \in Ranks \ {r} : Phase(s)' = Phase(s)
    BY <1>1, <1>4 DEF LeaveBarrier, Phase
  <2>3. \A s \in Ranks : barriers[s] = BarrierCount(s) /\ iter[s] \in IterationsAt(s)
    BY DEF ControlInv
  <2>4. CASE pc[r] = "barrier1"
    <3>1. Phase(r) = "first" /\ Phase(r)' = "timed"
      BY <1>1, <1>4, <2>4 DEF LeaveBarrier, Phase
    <3>2. barriers[r] = 1
      <4>1. barriers[r] = BarrierCount(r)
        BY <2>3
      <4> QED
        BY <4>1, <2>4 DEF BarrierCount, BeforeFirst, Behind
    <3> HIDE DEF q
    <3>3. pc[q] \notin BeforeFirst
      <4>1. barriers[q] = BarrierCount(q) /\ barriers[q] >= 1
        BY <2>1, <2>3, <3>2
      <4> QED
        BY <4>1 DEF BarrierCount, BeforeFirst, Behind
    <3>4. Phase(q) # "warmup"
      BY <3>3 DEF Phase, BeforeFirst
    <3> QED
      BY <1>4, <2>2, <3>1, <3>4, VisibleMove
         DEF q, LeaveBarrier, Method!Next, Method!Rank, Method!LeaveFirst,
             Method!Ranks, Method!Other, Ranks, Other
  <2>5. CASE pc[r] = "sync"
    <3>1. Phase(r)' = Phase(r)
      BY <1>1, <1>4, <2>5 DEF LeaveBarrier, Phase
    <3> QED
      BY <1>4, <2>2, <3>1, HiddenStep DEF LeaveBarrier
  <2>6. CASE pc[r] = "barrier2"
    <3>1. Phase(r) = "second" /\ Phase(r)' = "done"
      BY <1>1, <1>4, <2>6 DEF LeaveBarrier, Phase
    <3>2. barriers[r] = 2 + Syncs(Iterations)
      BY <2>3, <2>6 DEF BarrierCount, BeforeFirst, Behind
    <3> HIDE DEF q
    <3>3. pc[q] \in {"barrier2", "done"}
      BY <2>1, <2>3, <3>2, CountAssumption
         DEF ControlInv, BarrierCount, IterationsAt, BeforeFirst, Behind, Syncs
    <3>4. Phase(q) \in {"second", "done"}
      BY <3>3 DEF Phase
    <3> QED
      BY <1>4, <2>2, <3>1, <3>4, VisibleMove
         DEF q, LeaveBarrier, Method!Next, Method!Rank, Method!LeaveSecond,
             Method!Ranks, Method!Other, Ranks, Other
  <2> QED
    BY <1>4, <2>4, <2>5, <2>6 DEF LeaveBarrier
<1>5. CASE JoinRegion(r) \/ Waitall(r) \/ (r = 0 /\ (Testall \/ PollAgain \/ PollEnds))
  <2>1. /\ pc[r] \in {"region", "waitall", "testall", "poll"}
        /\ \E to \in {"iterate", "poll", "testall", "waitall"} :
             pc' = [pc EXCEPT ![r] = to]
        /\ iter' = iter \/ iter' = [iter EXCEPT ![r] = @ + 1]
    BY <1>1, <1>5
       DEF JoinRegion, Waitall, Testall, PollAgain, PollEnds, EndIteration, Join
  <2>2. iter[r] < Iterations /\ Phase(r) = "timed"
    BY <2>1, CountAssumption
       DEF ControlInv, IterationsAt, BeforeFirst, Phase
  <2>3. \A q \in Ranks : Phase(q)' = Phase(q)
    BY <1>1, <2>1 DEF Phase
  <2>4. CASE iter' = iter
    BY <2>3, <2>4, HiddenStep
  <2>5. CASE iter' = [iter EXCEPT ![r] = @ + 1]
    <3>1. PhaseBar' = PhaseBar
      BY <2>3 DEF PhaseBar
    <3> QED
      BY <2>2, <2>5, <3>1
         DEF Method!Next, Method!Rank, Method!Iterate, Method!Ranks, PhaseBar, Ranks
  <2> QED
    BY <2>1, <2>4, <2>5
<1> QED
  BY <1>2, <1>3, <1>4, <1>5 DEF Rank

(* The barriers fence off what Total measures: each of these run methods   *)
(* implements RunMethod, as far as safety goes.                            *)
THEOREM ImplementsRunMethod == Spec => Method!Init /\ [][Method!Next]_(Method!vars)
<1>1. Init => Method!Init
  <2> SUFFICES ASSUME Init PROVE Method!Init
    OBVIOUS
  <2>1. \A r \in Ranks : Phase(r) = "warmup"
    BY DEF Init, Phase
  <2> QED
    BY <2>1 DEF Init, Method!Init, Method!Ranks, Ranks
<1>2. ControlInv /\ [Next]_vars => [Method!Next]_(Method!vars)
  <2> SUFFICES ASSUME ControlInv, [Next]_vars PROVE [Method!Next]_(Method!vars)
    OBVIOUS
  <2>1. CASE \E r \in Ranks : Rank(r)
    BY <2>1, RankImplements
  <2>2. CASE ~\E r \in Ranks : Rank(r)
    <3>1. UNCHANGED <<test, pc, iter, barriers>>
      BY <2>2, OthersStutter DEF Next
    <3> QED
      BY <3>1, HiddenStep DEF Phase
  <2> QED
    BY <2>1, <2>2
<1> QED
  BY <1>1, <1>2, Invariance, PTL DEF Spec

-------------------------------------------------------------------------------
(* The partitions of a team's threads.                                     *)

\* The sizes of a test case are positive.
LEMMA Sizes ==
  ASSUME test \in Tests
  PROVE  /\ Threads \in Nat \ {0} /\ PerThread \in Nat \ {0}
         /\ PartitionCount \in Nat \ {0} /\ PerThread <= PartitionCount
         /\ 0 \in Partitions /\ mode \in AllModes
<1>1. Threads \in Nat \ {0} /\ PerThread \in Nat \ {0} /\ mode \in AllModes
  BY CountAssumption, TestsAssumption DEF PerThread, mode
<1>2. PartitionCount \in Nat /\ PerThread <= PartitionCount
  <2>1. PICK s \in Nat : Threads = s + 1
    <3>1. Threads - 1 \in Nat /\ Threads = (Threads - 1) + 1
      BY <1>1
    <3> QED
      BY <3>1
  <2>2. Threads * PerThread = s * PerThread + PerThread /\ s * PerThread \in Nat
    BY <1>1, <2>1
  <2> QED
    BY <1>1, <2>2 DEF PartitionCount
<1> QED
  BY <1>1, <1>2 DEF Partitions

LEMMA TeamSize == IsFiniteSet(Team) /\ Cardinality(Team) = Threads
<1>1. Threads \in Nat \ {0} /\ 0 \in Int /\ Threads - 1 \in Int
  BY CountAssumption
<1>2. /\ IsFiniteSet(0 .. Threads - 1)
      /\ Cardinality(0 .. Threads - 1) =
           IF 0 > Threads - 1 THEN 0 ELSE Threads - 1 - 0 + 1
  BY ONLY <1>1, FS_Interval
<1> QED
  BY <1>1, <1>2 DEF Team

\* The pattern is a permutation of the partitions.
LEMMA PatternPermutes ==
  ASSUME test \in Tests
  PROVE  /\ Pattern \in [Partitions -> Partitions]
         /\ \A i, j \in Partitions : Pattern[i] = Pattern[j] => i = j
         /\ \A p \in Partitions : \E i \in Partitions : Pattern[i] = p
<1>1. /\ Pattern \in [Partitions -> Partitions]
      /\ \A i, j \in Partitions : Pattern[i] = Pattern[j] => i = j
  BY TestsAssumption DEF Pattern, Partitions, PartitionCount, PerThread
<1>2. IsFiniteSet(Partitions)
  BY Sizes, FS_Interval DEF Partitions
<1>3. Pattern \in Injection(Partitions, Partitions)
  BY <1>1 DEF Injection, IsInjective
<1>4. Pattern \in Surjection(Partitions, Partitions)
  BY <1>2, <1>3, FS_Injection
<1> QED
  BY <1>1, <1>4 DEF Surjection

\* What follows a thread's slice of the partitions.
LEMMA NextSlice ==
  ASSUME NEW t \in Nat, NEW u \in Nat, t < u, NEW n \in Nat
  PROVE  t * n \in Nat /\ u * n \in Nat /\ t * n + n <= u * n
<1>1. PICK d \in Nat : u = t + 1 + d
  <2>1. u - (t + 1) \in Nat /\ u = t + 1 + (u - (t + 1))
    OBVIOUS
  <2> QED
    BY <2>1
<1>2. u * n = t * n + n + d * n /\ d * n \in Nat /\ t * n \in Nat
  BY <1>1
<1> QED
  BY <1>2

\* Each thread has its own partitions.
LEMMA Slices ==
  ASSUME test \in Tests, NEW r \in Ranks,
         NEW t \in Active(r), NEW k \in 0 .. Steps(r) - 1
  PROVE  /\ k + t * PerThread \in Partitions
         /\ Pattern[k + t * PerThread] \in Partitions
         /\ \A u \in Active(r) : \A l \in 0 .. Steps(r) - 1 :
              Pattern[l + u * PerThread] = Pattern[k + t * PerThread]
                => u = t /\ l = k
<1>1. /\ Threads \in Nat \ {0} /\ PerThread \in Nat \ {0}
      /\ PartitionCount \in Nat \ {0}
  BY Sizes
<1>2. ASSUME NEW u \in Active(r), NEW l \in 0 .. Steps(r) - 1
      PROVE  l + u * PerThread \in Partitions
  <2>1. CASE Alone(r)
    BY <1>1, <1>2, <2>1 DEF Active, Steps, Partitions
  <2>2. CASE ~Alone(r)
    <3>1. u \in Nat /\ u < Threads /\ l \in Nat /\ l < PerThread
      BY <1>1, <1>2, <2>2 DEF Active, Steps, Team
    <3>2. u * PerThread \in Nat /\ u * PerThread + PerThread <= Threads * PerThread
          /\ Threads * PerThread \in Nat
      BY <1>1, <3>1, NextSlice
    <3> QED
      BY <1>1, <3>1, <3>2 DEF Partitions, PartitionCount
  <2> QED
    BY <2>1, <2>2
<1>3. ASSUME NEW u \in Active(r), NEW l \in 0 .. Steps(r) - 1,
             l + u * PerThread = k + t * PerThread
      PROVE  u = t /\ l = k
  <2>1. CASE Alone(r)
    BY <1>1, <1>3, <2>1 DEF Active, Steps
  <2>2. CASE ~Alone(r)
    <3>1. /\ u \in Nat /\ l \in Nat /\ l < PerThread
          /\ t \in Nat /\ k \in Nat /\ k < PerThread
      BY <1>1, <1>3, <2>2 DEF Active, Steps, Team
    <3>2. CASE u < t
      <4>1. u * PerThread \in Nat /\ t * PerThread \in Nat
            /\ u * PerThread + PerThread <= t * PerThread
        BY <1>1, <3>1, <3>2, NextSlice
      <4> QED
        BY <1>1, <1>3, <3>1, <4>1
    <3>3. CASE t < u
      <4>1. u * PerThread \in Nat /\ t * PerThread \in Nat
            /\ t * PerThread + PerThread <= u * PerThread
        BY <1>1, <3>1, <3>3, NextSlice
      <4> QED
        BY <1>1, <1>3, <3>1, <4>1
    <3>4. CASE u = t
      <4>1. u * PerThread = t * PerThread /\ t * PerThread \in Nat
        BY <1>1, <3>1, <3>4
      <4> QED
        BY <1>3, <3>1, <3>4, <4>1
    <3> QED
      BY <3>1, <3>2, <3>3, <3>4
  <2> QED
    BY <2>1, <2>2
<1>4. k + t * PerThread \in Partitions
  BY <1>2
<1> QED
  BY <1>2, <1>3, <1>4, PatternPermutes

\* In bench_send both ranks have a team.
LEMMA SendSlices ==
  ASSUME test \in Tests, mode = "Send", NEW r \in Ranks
  PROVE  /\ Active(r) = Team /\ Steps(r) = PerThread
         /\ \A t \in Team : \A k \in 0 .. PerThread - 1 :
              Pattern[k + t * PerThread] \in Partitions
<1>1. Active(r) = Team /\ Steps(r) = PerThread
  BY DEF Active, Steps, Alone
<1> QED
  BY <1>1, Slices

\* Together they have all of them.
LEMMA SlicesCover ==
  ASSUME test \in Tests, NEW r \in Ranks, NEW p \in Partitions
  PROVE  \E t \in Active(r) : \E k \in 0 .. Steps(r) - 1 :
           p = Pattern[k + t * PerThread]
<1>1. /\ Threads \in Nat \ {0} /\ PerThread \in Nat \ {0}
      /\ PartitionCount \in Nat \ {0}
  BY Sizes
<1>2. PICK i \in Partitions : Pattern[i] = p
  BY PatternPermutes
<1>3. i \in Nat /\ i < PartitionCount
  BY <1>1 DEF Partitions
<1>4. CASE Alone(r)
  <2>1. 0 \in Active(r) /\ i \in 0 .. Steps(r) - 1 /\ i + 0 * PerThread = i
    BY <1>1, <1>3, <1>4 DEF Active, Steps
  <2> QED
    BY <1>2, <2>1
<1>5. CASE ~Alone(r)
  <2> DEFINE t == i \div PerThread
             k == i % PerThread
  <2>1. t \in Nat /\ k \in 0 .. PerThread - 1 /\ i = PerThread * t + k
    BY <1>1, <1>3
  <2> HIDE DEF t, k
  <2>2. PerThread * t = t * PerThread /\ t * PerThread \in Nat
    BY <1>1, <2>1
  <2>3. t < Threads
    <3> SUFFICES ASSUME Threads < t \/ Threads = t PROVE FALSE
      BY <1>1, <2>1
    <3>1. CASE Threads < t
      <4>1. Threads * PerThread + PerThread <= t * PerThread
            /\ Threads * PerThread \in Nat
        BY <1>1, <2>1, <3>1, NextSlice
      <4> QED
        BY <1>1, <1>3, <2>1, <2>2, <4>1 DEF PartitionCount
    <3>2. CASE Threads = t
      BY <1>1, <1>3, <2>1, <2>2, <3>2 DEF PartitionCount
    <3> QED
      BY <3>1, <3>2
  <2>4. t \in Active(r) /\ k \in 0 .. Steps(r) - 1 /\ k + t * PerThread = i
    BY <1>1, <1>5, <2>1, <2>2, <2>3 DEF Active, Steps, Team
  <2> QED
    BY <1>2, <2>4
<1> QED
  BY <1>4, <1>5

-------------------------------------------------------------------------------
(* Types, and what a step leaves alone.                                    *)

\* TypeOK without what follows from the rest of the invariant.
BaseOK ==
  /\ next \in [Ranks -> [Team -> Nat]]
  /\ stage \in [Ranks -> [Team -> {"post", "store", "read", "wait"}]]
  /\ held \in [Ranks -> [Team -> Nat]]
  /\ requests \in [Ranks -> [Partitions -> Nat]]
  /\ posted \in [Ranks -> [Partitions -> Nat]]
  /\ taken \in [Partitions -> Nat] /\ landed \in [Partitions -> Nat]
  /\ flag \in BOOLEAN /\ misuse \in BOOLEAN

LEMMA TypeIsBase == TypeOK => BaseOK
<1> SUFFICES ASSUME TypeOK PROVE BaseOK
  OBVIOUS
<1>1. PartitionCount \in Nat
  BY Sizes DEF TypeOK
<1>2. next \in [Ranks -> [Team -> Nat]]
  BY <1>1 DEF TypeOK
<1> QED
  BY <1>2 DEF TypeOK, BaseOK

\* The test case is a constant, and so is what depends on it alone.
LEMMA TestStays ==
  ASSUME test' = test
  PROVE  /\ mode' = mode /\ PerThread' = PerThread /\ Pattern' = Pattern
         /\ PartitionCount' = PartitionCount /\ Partitions' = Partitions
         /\ \A q \in Ranks : Active(q)' = Active(q) /\ Steps(q)' = Steps(q)
         /\ \A p \in Partitions : Warmup(p)' = Warmup(p)
<1>1. mode' = mode /\ PerThread' = PerThread /\ Pattern' = Pattern
  BY DEF mode, PerThread, Pattern
<1>2. PartitionCount' = PartitionCount /\ Partitions' = Partitions
  BY <1>1 DEF PartitionCount, Partitions
<1>3. \A q \in Ranks : Active(q)' = Active(q) /\ Steps(q)' = Steps(q)
  BY <1>1, <1>2 DEF Active, Steps, Alone
<1>4. \A p \in Partitions : Warmup(p)' = Warmup(p)
  BY <1>1 DEF Warmup
<1> QED
  BY <1>1, <1>2, <1>3, <1>4

LEMMA RankBase ==
  ASSUME IInv, NEW r \in Ranks, Rank(r)
  PROVE  BaseOK' /\ test' = test
<1>1. BaseOK /\ test \in Tests
  BY TypeIsBase DEF IInv, TypeOK
<1>2. test' = test
  BY DEF Rank, WarmupPost, WarmupWait, JoinWarmup, EnterBarrier, LeaveBarrier,
         StartRegion, JoinRegion, Waitall, Testall, PollAgain, PollEnds
<1>3. Partitions' = Partitions /\ 0 \in Partitions /\ Null \in Nat
  BY <1>1, <1>2, TestStays, Sizes DEF Null
<1> USE <1>1, <1>2, <1>3 DEF BaseOK
<1>4. CASE WarmupPost(r)
  BY <1>4 DEF WarmupPost, Post, Handle, team, net
<1>5. CASE WarmupWait(r)
  BY <1>5 DEF WarmupWait, team, net
<1>6. CASE JoinWarmup(r) \/ (r = 0 /\ PollAgain)
  BY <1>6 DEF JoinWarmup, PollAgain, Join, net, Ranks
<1>7. CASE EnterBarrier(r) \/ LeaveBarrier(r) \/ StartRegion(r)
  BY <1>7 DEF EnterBarrier, LeaveBarrier, StartRegion, team, net
<1>8. CASE JoinRegion(r)
  BY <1>8 DEF JoinRegion, net
<1>9. CASE Waitall(r) \/ (r = 0 /\ Testall)
  BY <1>9 DEF Waitall, Testall, team, net, Ranks
<1>10. CASE r = 0 /\ PollEnds
  BY <1>10 DEF PollEnds, Join, net, Ranks
<1> QED
  BY <1>4, <1>5, <1>6, <1>7, <1>8, <1>9, <1>10 DEF Rank

LEMMA ThreadBase ==
  ASSUME IInv, NEW r \in Ranks, NEW t \in Team, Thread(r, t)
  PROVE  BaseOK' /\ UNCHANGED <<test, pc, iter, barriers, net>>
<1>1. BaseOK /\ test \in Tests
  BY TypeIsBase DEF IInv, TypeOK
<1>2. UNCHANGED <<test, pc, iter, barriers, net>>
  BY DEF Thread, TeamPost, TeamStore, TeamRead, TeamWait, SendPost, SendReturn,
         IsendPost, PersistentStart, Poll
<1>3. Partitions' = Partitions /\ Null \in Nat
  BY <1>1, <1>2, TestStays DEF Null
<1>4. ASSUME next[r][t] < PerThread PROVE WarmupTag(r, t) \in Partitions
  BY <1>1, <1>4, Sizes DEF WarmupTag, Partitions, BaseOK
<1>5. ASSUME t \in Active(r), next[r][t] < Steps(r)
      PROVE  Partition(r, t) \in Partitions
  <2>1. next[r][t] \in 0 .. Steps(r) - 1
    BY <1>1, <1>5, Sizes DEF Steps, BaseOK
  <2> QED
    BY <1>1, <1>5, <2>1, Slices DEF Partition
<1> USE <1>1, <1>2, <1>3 DEF BaseOK, net
<1>6. CASE TeamPost(r, t)
  BY <1>4, <1>6 DEF TeamPost, InWarmup, Post, Handle, Step
<1>7. CASE TeamStore(r, t)
  BY <1>4, <1>7 DEF TeamStore, InWarmup, Step
<1>8. CASE TeamRead(r, t)
  <2>1. WarmupTag(r, t) \in Partitions
    BY <1>4, <1>8 DEF TeamRead, InWarmup
  <2>2. misuse' \in BOOLEAN
    BY <1>8 DEF TeamRead
  <2>3. held' = [held EXCEPT ![r][t] = requests[r][WarmupTag(r, t)]]
        /\ stage' = [stage EXCEPT ![r][t] = "wait"]
        /\ UNCHANGED <<next, requests, posted, flag>>
    BY <1>8 DEF TeamRead, Step
  <2> QED
    BY <2>1, <2>2, <2>3
<1>9. CASE TeamWait(r, t)
  BY <1>4, <1>9 DEF TeamWait, InWarmup, Step
<1>10. CASE SendPost(r, t)
  BY <1>5, <1>10 DEF SendPost, InRegion, Post, Handle, Step
<1>11. CASE SendReturn(r, t)
  BY <1>5, <1>11 DEF SendReturn, InRegion, Step
<1>12. CASE IsendPost(r, t)
  BY <1>5, <1>12 DEF IsendPost, InRegion, Post, Handle
<1>13. CASE PersistentStart(r, t)
  BY <1>5, <1>13 DEF PersistentStart, InRegion, Post, Handle
<1>14. CASE r = 0 /\ Poll(t)
  BY <1>14 DEF Poll, Complete
<1> QED
  BY <1>6, <1>7, <1>8, <1>9, <1>10, <1>11, <1>12, <1>13, <1>14 DEF Thread

LEMMA MpiBase ==
  ASSUME IInv, NEW p \in Partitions, Buffered(p) \/ Deliver(p)
  PROVE  /\ BaseOK' /\ NetInv'
         /\ UNCHANGED <<test, pc, iter, barriers, team, requests, posted, flag, misuse>>
         /\ \A s \in Partitions : taken'[s] >= taken[s] /\ landed'[s] >= landed[s]
<1>1. BaseOK /\ NetInv
  BY TypeIsBase DEF IInv
<1>2. UNCHANGED <<test, pc, iter, barriers, team, requests, posted, flag, misuse>>
  BY DEF Buffered, Deliver
<1>3. Partitions' = Partitions
  BY <1>2, TestStays
<1>4. /\ taken' \in [Partitions -> Nat] /\ landed' \in [Partitions -> Nat]
      /\ \A s \in Partitions : taken'[s] >= taken[s] /\ landed'[s] >= landed[s]
  <2>1. CASE Buffered(p)
    BY <1>1, <2>1 DEF Buffered, BaseOK
  <2>2. CASE Deliver(p)
    <3>1. taken[p] \in Nat /\ landed[p] \in Nat
      BY <1>1 DEF BaseOK
    <3> DEFINE new == IF taken[p] > landed[p] THEN taken[p] ELSE landed[p] + 1
    <3>2. /\ taken' = [taken EXCEPT ![p] = new]
          /\ landed' = [landed EXCEPT ![p] = landed[p] + 1]
      BY <2>2 DEF Deliver
    <3>3. new \in Nat /\ new >= taken[p]
      BY <3>1
    <3> HIDE DEF new
    <3> QED
      BY <1>1, <3>2, <3>3 DEF BaseOK
  <2> QED
    BY <2>1, <2>2
<1>5. NetInv'
  BY <1>1, <1>2, <1>3 DEF NetInv, BaseOK, Buffered, Deliver, Ranks
<1> QED
  BY <1>1, <1>2, <1>3, <1>4, <1>5 DEF BaseOK, team

\* Nothing that the invariant says of a rank changes with the other rank, or
\* when MPI moves on.
LEMMA Frame ==
  ASSUME BaseOK, BaseOK', NEW q \in Ranks, RankInv(q),
         test \in Tests, test' = test,
         pc'[q] = pc[q], iter'[q] = iter[q], next'[q] = next[q],
         stage'[q] = stage[q], held'[q] = held[q],
         requests'[q] = requests[q], posted'[q] = posted[q],
         \A p \in Partitions : taken'[p] >= taken[p] /\ landed'[p] >= landed[p]
  PROVE  RankInv(q)'
<1>1. /\ mode' = mode /\ PerThread' = PerThread /\ Pattern' = Pattern
      /\ PartitionCount' = PartitionCount /\ Partitions' = Partitions
      /\ Active(q)' = Active(q) /\ Steps(q)' = Steps(q)
      /\ \A p \in Partitions : Warmup(p)' = Warmup(p)
  BY TestStays
<1>2. Started(q)' = Started(q)
  BY <1>1 DEF Started, Begun
<1>3. \A p \in Partitions : InIteration(q, p)' = InIteration(q, p)
  BY <1>2 DEF InIteration
<1>4. \A p \in Partitions : InTeam(q, p)' = InTeam(q, p)
  BY DEF InTeam
<1>5. \A p \in Partitions : InWarmups(q, p)' = InWarmups(q, p)
  BY <1>1, <1>4 DEF InWarmups
<1>6. ASSUME NEW p \in Partitions, NEW k \in Nat, Complete(q, p, k)
      PROVE  Complete(q, p, k)'
  BY <1>6 DEF Complete, BaseOK
<1>7. TeamInv(q)'
  BY <1>1 DEF RankInv, TeamInv
<1>8. CountInv(q)'
  BY <1>1, <1>3, <1>5 DEF RankInv, CountInv
<1>9. HandleInv(q)'
  BY <1>1, <1>3 DEF RankInv, HandleInv
<1>10. BlockingInv(q)'
  <2> SUFFICES ASSUME mode = "Send", pc[q] = "region",
                      NEW t \in Team, NEW k \in 0 .. PerThread - 1, NEW p,
                      p = Pattern[k + t * PerThread]
               PROVE  /\ k < next[q][t] => Complete(q, p, posted[q][p])'
                      /\ k = next[q][t] /\ stage[q][t] = "wait"
                           => held[q][t] = posted[q][p]
    BY <1>1 DEF BlockingInv
  <2>1. p \in Partitions
    BY SendSlices
  <2>2. posted[q][p] \in Nat
    BY <2>1 DEF BaseOK
  <2>3. /\ k < next[q][t] => Complete(q, p, posted[q][p])
        /\ k = next[q][t] /\ stage[q][t] = "wait" => held[q][t] = posted[q][p]
    BY DEF RankInv, BlockingInv
  <2>4. Complete(q, p, posted[q][p]) => Complete(q, p, posted[q][p])'
    BY <1>6, <2>1, <2>2 DEF Complete
  <2> QED
    BY <2>3, <2>4
<1>11. WaitedInv(q)'
  <2> SUFFICES ASSUME NEW p \in Partitions
               PROVE  /\ Complete(q, p, Warmup(p)) => Complete(q, p, Warmup(p))'
                      /\ Complete(q, p, posted[q][p]) => Complete(q, p, posted[q][p])'
    BY <1>1 DEF RankInv, WaitedInv
  <2>1. posted[q][p] \in Nat /\ Warmup(p) \in Nat
    BY CountAssumption DEF BaseOK, Warmup
  <2> QED
    BY <1>1, <1>6, <2>1 DEF Complete
<1> QED
  BY <1>7, <1>8, <1>9, <1>10, <1>11 DEF RankInv

\* Sends and receives are started and never taken back.
LEMMA NetStays ==
  ASSUME BaseOK, BaseOK', NetInv, test' = test, UNCHANGED net,
         \A q \in Ranks : \A p \in Partitions : posted'[q][p] >= posted[q][p]
  PROVE  NetInv'
<1>1. Partitions' = Partitions
  BY TestStays
<1>2. UNCHANGED <<taken, landed>> /\ 0 \in Ranks /\ 1 \in Ranks
  BY DEF net, Ranks
<1> QED
  BY <1>1, <1>2 DEF NetInv, BaseOK

\* A step of a rank does not touch the other one.
LEMMA RankOthers ==
  ASSUME IInv, NEW r \in Ranks, Rank(r)
  PROVE  NetInv' /\ \A q \in Ranks \ {r} : RankInv(q)'
<1>1. BaseOK /\ BaseOK' /\ test' = test /\ NetInv /\ test \in Tests
  BY TypeIsBase, RankBase DEF IInv, TypeOK
<1>2. UNCHANGED net
  BY DEF Rank, WarmupPost, WarmupWait, JoinWarmup, EnterBarrier, LeaveBarrier,
         StartRegion, JoinRegion, Waitall, Testall, PollAgain, PollEnds
<1>3. ASSUME NEW q \in Ranks \ {r}
      PROVE  /\ pc'[q] = pc[q] /\ iter'[q] = iter[q] /\ next'[q] = next[q]
             /\ stage'[q] = stage[q] /\ held'[q] = held[q]
             /\ requests'[q] = requests[q] /\ posted'[q] = posted[q]
  <2>1. DOMAIN pc = Ranks /\ DOMAIN iter = Ranks
    BY DEF IInv, TypeOK
  <2> USE <1>1, <1>3, <2>1 DEF BaseOK, Goto, team
  <2>2. CASE WarmupPost(r) \/ WarmupWait(r)
    BY <2>2 DEF WarmupPost, WarmupWait, Post
  <2>3. CASE JoinWarmup(r) \/ (r = 0 /\ (PollAgain \/ PollEnds))
    BY <2>3 DEF JoinWarmup, PollAgain, PollEnds, Join
  <2>4. CASE EnterBarrier(r) \/ LeaveBarrier(r) \/ StartRegion(r)
    BY <2>4 DEF EnterBarrier, LeaveBarrier, StartRegion
  <2>5. CASE JoinRegion(r)
    BY <2>5 DEF JoinRegion
  <2>6. CASE Waitall(r) \/ (r = 0 /\ Testall)
    BY <2>6 DEF Waitall, Testall, EndIteration
  <2> QED
    BY <2>2, <2>3, <2>4, <2>5, <2>6 DEF Rank
<1>4. UNCHANGED <<taken, landed>>
  BY <1>2 DEF net
<1>5. \A p \in Partitions : taken'[p] >= taken[p] /\ landed'[p] >= landed[p]
  BY <1>1, <1>4 DEF BaseOK
<1>6. \A q \in Ranks \ {r} : RankInv(q)'
  BY <1>1, <1>3, <1>5, Frame DEF IInv
<1>7. \A q \in Ranks : \A p \in Partitions : posted'[q][p] >= posted[q][p]
  <2> USE <1>1 DEF BaseOK
  <2>1. CASE WarmupPost(r)
    <3>1. 0 \in Partitions
      BY Sizes
    <3>2. posted' = [posted EXCEPT ![r][0] = posted[r][0] + 1]
      BY <2>1 DEF WarmupPost, Post
    <3> QED
      BY <3>1, <3>2
  <2>2. CASE UNCHANGED posted
    BY <2>2
  <2> QED
    BY <2>1, <2>2
       DEF Rank, WarmupWait, JoinWarmup, EnterBarrier, LeaveBarrier,
           StartRegion, JoinRegion, Waitall, Testall, PollAgain, PollEnds
<1> QED
  BY <1>1, <1>2, <1>6, <1>7, NetStays

\* Nor does a step of a thread.
LEMMA ThreadOthers ==
  ASSUME IInv, NEW r \in Ranks, NEW t \in Team, Thread(r, t)
  PROVE  NetInv' /\ \A q \in Ranks \ {r} : RankInv(q)'
<1>1. /\ BaseOK /\ BaseOK' /\ NetInv /\ test \in Tests
      /\ UNCHANGED <<test, pc, iter, barriers, net>>
  BY TypeIsBase, ThreadBase DEF IInv, TypeOK
<1>2. ASSUME NEW q \in Ranks \ {r}
      PROVE  /\ next'[q] = next[q] /\ stage'[q] = stage[q] /\ held'[q] = held[q]
             /\ requests'[q] = requests[q] /\ posted'[q] = posted[q]
  <2> USE <1>1, <1>2 DEF BaseOK, Step, Post
  <2>1. CASE TeamPost(r, t) \/ TeamStore(r, t) \/ TeamRead(r, t)
    BY <2>1 DEF TeamPost, TeamStore, TeamRead
  <2>2. CASE TeamWait(r, t)
    BY <2>2 DEF TeamWait
  <2>3. CASE SendPost(r, t) \/ SendReturn(r, t)
    BY <2>3 DEF SendPost, SendReturn
  <2>4. CASE IsendPost(r, t) \/ PersistentStart(r, t) \/ (r = 0 /\ Poll(t))
    BY <2>4 DEF IsendPost, PersistentStart, Poll
  <2> QED
    BY <2>1, <2>2, <2>3, <2>4 DEF Thread
<1>3. UNCHANGED <<taken, landed>>
  BY <1>1 DEF net
<1>4. \A p \in Partitions : taken'[p] >= taken[p] /\ landed'[p] >= landed[p]
  BY <1>1, <1>3 DEF BaseOK
<1>5. \A q \in Ranks \ {r} : RankInv(q)'
  BY <1>1, <1>2, <1>4, Frame DEF IInv
<1>6. \A q \in Ranks : \A p \in Partitions : posted'[q][p] >= posted[q][p]
  <2> USE <1>1 DEF BaseOK
  <2>1. CASE UNCHANGED posted
    BY <2>1
  <2>2. ASSUME NEW p, posted' = [posted EXCEPT ![r][p] = @ + 1]
        PROVE  \A q \in Ranks : \A s \in Partitions : posted'[q][s] >= posted[q][s]
    BY <2>2
  <2> QED
    BY <2>1, <2>2
       DEF Thread, TeamPost, TeamStore, TeamRead, TeamWait, SendPost, SendReturn,
           IsendPost, PersistentStart, Poll, Post
<1> QED
  BY <1>1, <1>5, <1>6, NetStays

-------------------------------------------------------------------------------
(* Steps of the main thread.                                               *)

\* What is known of a rank before its step.
LEMMA Facts ==
  ASSUME IInv, NEW r \in Ranks
  PROVE  /\ BaseOK /\ ControlInv /\ RankInv(r) /\ test \in Tests
         /\ DOMAIN pc = Ranks /\ iter \in [Ranks -> Nat]
         /\ iter[r] \in IterationsAt(r) /\ mode \in ModesAt(r)
         /\ pc[r] \in {"testall", "poll"} => r = 0
BY TypeIsBase DEF IInv, TypeOK, ControlInv

\* At the start of the parallel region nothing has been done in it.
LEMMA NoneStarted ==
  ASSUME BaseOK, NEW r \in Ranks, test \in Tests,
         \A t \in Team : next[r][t] = 0 /\ stage[r][t] = "post"
  PROVE  Started(r) = {}
<1>1. Active(r) \subseteq Team
  BY Sizes DEF Active, Team
<1> QED
  BY <1>1 DEF Started, Begun

\* At its end everything has.
LEMMA AllStarted ==
  ASSUME BaseOK, NEW r \in Ranks, test \in Tests,
         \A t \in Active(r) : next[r][t] = Steps(r)
  PROVE  Started(r) = Partitions
<1>1. ASSUME NEW p \in Partitions PROVE p \in Started(r)
  <2>1. PICK t \in Active(r), k \in 0 .. Steps(r) - 1 : p = Pattern[k + t * PerThread]
    BY SlicesCover
  <2>2. k < next[r][t]
    BY <2>1, Sizes DEF Steps
  <2> QED
    BY <2>1, <2>2 DEF Started, Begun
<1> QED
  BY <1>1 DEF Started

LEMMA WarmupPostSelf ==
  ASSUME IInv, BaseOK', NEW r \in Ranks, WarmupPost(r)
  PROVE  RankInv(r)'
<1>1. /\ BaseOK /\ RankInv(r) /\ test \in Tests /\ iter[r] = 0 /\ pc[r] = "warmup"
      /\ mode \notin {"SendPersistent", "Isend"} /\ 0 \in Partitions
  BY Facts, Sizes
     DEF WarmupPost, At, IterationsAt, ModesAt, BeforeFirst
<1>2. /\ pc'[r] = "warmupwait" /\ iter'[r] = 0 /\ test' = test
      /\ next'[r] = next[r] /\ stage'[r] = stage[r]
      /\ posted' = [posted EXCEPT ![r][0] = posted[r][0] + 1]
      /\ requests' = [requests EXCEPT ![r][0] = posted[r][0] + 1]
  BY <1>1, Facts DEF WarmupPost, Goto, Post, Handle, team
<1>3. /\ mode' = mode /\ Partitions' = Partitions
      /\ \A p \in Partitions : Warmup(p)' = Warmup(p)
  BY <1>2, TestStays
<1>4. TeamInv(r)'
  BY <1>1, <1>2 DEF RankInv, TeamInv
<1>5. ASSUME NEW p \in Partitions
      PROVE  InIteration(r, p)' = 0 /\ InWarmups(r, p)' = Warmup(p)
  BY <1>2, <1>3 DEF InIteration, InWarmups, Behind
<1>6. CountInv(r)'
  <2> SUFFICES ASSUME NEW p \in Partitions PROVE posted'[r][p] = Warmup(p)
    BY <1>2, <1>3, <1>5, CountAssumption DEF CountInv, Warmup
  <2>1. posted[r][p] = 0
    BY <1>1 DEF RankInv, CountInv, InWarmups, InIteration, Behind
  <2> QED
    BY <1>1, <1>2, <2>1 DEF Warmup, BaseOK
<1>7. HandleInv(r)'
  BY <1>1, <1>2, <1>3, <1>5 DEF HandleInv, BaseOK
<1>8. BlockingInv(r)' /\ WaitedInv(r)'
  BY <1>2 DEF BlockingInv, WaitedInv
<1> QED
  BY <1>4, <1>6, <1>7, <1>8 DEF RankInv

LEMMA WarmupWaitSelf ==
  ASSUME IInv, BaseOK', NEW r \in Ranks, WarmupWait(r)
  PROVE  RankInv(r)'
<1>1. /\ BaseOK /\ RankInv(r) /\ test \in Tests /\ iter[r] = 0 /\ pc[r] = "warmupwait"
      /\ mode \notin {"SendPersistent", "Isend"} /\ 0 \in Partitions
  BY Facts, Sizes
     DEF WarmupWait, At, IterationsAt, ModesAt, BeforeFirst
<1>2. /\ pc'[r] = "warmed" /\ iter'[r] = 0 /\ test' = test
      /\ next'[r] = next[r] /\ stage'[r] = stage[r]
      /\ UNCHANGED <<posted, taken, landed>>
  BY <1>1, Facts DEF WarmupWait, Goto, team, net
<1>3. /\ mode' = mode /\ Partitions' = Partitions
      /\ \A p \in Partitions : Warmup(p)' = Warmup(p)
  BY <1>2, TestStays
<1>4. TeamInv(r)'
  BY <1>1, <1>2 DEF RankInv, TeamInv
<1>5. ASSUME NEW p \in Partitions
      PROVE  /\ InIteration(r, p)' = 0 /\ InWarmups(r, p)' = Warmup(p)
             /\ posted[r][p] = Warmup(p) /\ Warmup(p) \in Nat
  <2>1. InIteration(r, p)' = 0 /\ InWarmups(r, p)' = Warmup(p)
    BY <1>2, <1>3 DEF InIteration, InWarmups, Behind
  <2>2. InIteration(r, p) = 0 /\ InWarmups(r, p) = Warmup(p)
    BY <1>1 DEF InIteration, InWarmups, Behind
  <2>3. posted[r][p] = Warmup(p) + 0 + 0 /\ Warmup(p) \in Nat
    BY <1>1, <2>2, CountAssumption DEF RankInv, CountInv, Warmup
  <2> QED
    BY <2>1, <2>2, <2>3
<1>6. CountInv(r)'
  BY <1>2, <1>3, <1>5 DEF CountInv
<1>7. HandleInv(r)' /\ BlockingInv(r)'
  BY <1>1, <1>2, <1>3, <1>5 DEF HandleInv, BlockingInv
<1>8. WaitedInv(r)'
  <2> SUFFICES ASSUME NEW p \in Partitions PROVE Complete(r, p, Warmup(p))
    BY <1>2, <1>3, Facts DEF WaitedInv, Complete
  <2>1. CASE p = 0
    BY <1>1, <1>5, <2>1 DEF RankInv, HandleInv, WarmupWait
  <2>2. CASE p # 0
    BY <1>1, <2>2 DEF Warmup, Complete, BaseOK
  <2> QED
    BY <2>1, <2>2
<1> QED
  BY <1>4, <1>6, <1>7, <1>8 DEF RankInv

LEMMA JoinWarmupSelf ==
  ASSUME IInv, BaseOK', NEW r \in Ranks, JoinWarmup(r)
  PROVE  RankInv(r)'
<1>1. /\ BaseOK /\ RankInv(r) /\ test \in Tests /\ iter[r] = 0 /\ pc[r] = "team"
      /\ mode = "Isend" /\ PerThread \in Nat \ {0} /\ Threads \in Nat \ {0}
  BY Facts, Sizes
     DEF JoinWarmup, At, IterationsAt, ModesAt, BeforeFirst
<1>2. /\ pc'[r] = "warmed" /\ iter'[r] = 0 /\ test' = test
      /\ next'[r] = [t \in Team |-> 0] /\ UNCHANGED <<stage, posted>>
      /\ \A t \in Team : next[r][t] = PerThread
  BY <1>1, Facts DEF JoinWarmup, Join, Goto, BaseOK
<1>3. /\ mode' = mode /\ Partitions' = Partitions
      /\ \A p \in Partitions : Warmup(p)' = Warmup(p)
  BY <1>2, TestStays
<1>4. \A t \in Team : stage[r][t] = "post"
  BY <1>1, <1>2 DEF RankInv, TeamInv
<1>5. TeamInv(r)'
  BY <1>2, <1>4 DEF TeamInv
<1>6. ASSUME NEW p \in Partitions
      PROVE  InIteration(r, p)' = 0 /\ InWarmups(r, p)' = Warmup(p)
  BY <1>2, <1>3 DEF InIteration, InWarmups, Behind
<1>7. CountInv(r)'
  <2> SUFFICES ASSUME NEW p \in Partitions PROVE posted[r][p] = Warmup(p)
    BY <1>1, <1>2, <1>3, <1>6, CountAssumption DEF CountInv, Warmup
  <2>1. posted[r][p] = Cardinality(InTeam(r, p)) + 0 + 0
    BY <1>1 DEF RankInv, CountInv, InWarmups, InIteration, Behind
  <2>2. p \in Nat
    BY DEF Partitions
  <2>3. InTeam(r, p) = IF p < PerThread THEN Team ELSE {}
    BY <1>1, <1>2, <1>4, <2>2 DEF InTeam
  <2>4. Cardinality(Team) = Threads /\ Cardinality({}) = 0
    BY TeamSize, FS_EmptySet
  <2> QED
    BY <1>1, <2>1, <2>3, <2>4 DEF Warmup
<1>8. HandleInv(r)' /\ BlockingInv(r)' /\ WaitedInv(r)'
  BY <1>1, <1>2, <1>3, <1>6 DEF HandleInv, BlockingInv, WaitedInv
<1> QED
  BY <1>5, <1>7, <1>8 DEF RankInv

\* Outside of the warm-up and the iterations only pc moves.
LEMMA BarrierSelf ==
  ASSUME IInv, BaseOK', NEW r \in Ranks,
         EnterBarrier(r) \/ LeaveBarrier(r) \/ StartRegion(r)
  PROVE  RankInv(r)'
<1>1. /\ BaseOK /\ RankInv(r) /\ test \in Tests /\ iter[r] \in Nat
      /\ iter[r] \in IterationsAt(r) /\ DOMAIN pc = Ranks
  BY Facts
<1>2. UNCHANGED <<test, iter, next, stage, held, requests, posted, taken, landed>>
  BY DEF EnterBarrier, LeaveBarrier, StartRegion, team, net
<1>3. /\ mode' = mode /\ Partitions' = Partitions /\ PerThread' = PerThread
      /\ Pattern' = Pattern
      /\ Active(r)' = Active(r) /\ Steps(r)' = Steps(r)
      /\ \A p \in Partitions : Warmup(p)' = Warmup(p)
  BY <1>2, TestStays
<1>4. /\ pc[r] \in {"warmed", "barrier1", "iterate", "sync", "barrier2"}
      /\ pc'[r] \in {"barrier1", "iterate", "sync", "barrier2", "done", "region"}
      /\ pc[r] = "warmed" => pc'[r] = "barrier1"
      /\ pc[r] = "barrier1" => pc'[r] = "iterate"
      /\ pc'[r] = "iterate" => pc[r] = "barrier1"
  BY <1>1 DEF EnterBarrier, LeaveBarrier, StartRegion, At, Goto
<1>5. \A t \in Team : next[r][t] = 0 /\ stage[r][t] = "post"
  BY <1>1, <1>4 DEF RankInv, TeamInv
<1>6. Started(r)' = {}
  <2>1. Started(r)' = Started(r)
    BY <1>2, <1>3 DEF Started, Begun
  <2> QED
    BY <1>1, <1>5, <2>1, NoneStarted
<1>7. ASSUME NEW p \in Partitions
      PROVE  /\ InIteration(r, p)' = 0 /\ InWarmups(r, p)' = Warmup(p)
             /\ InIteration(r, p) = 0 /\ InWarmups(r, p) = Warmup(p)
  BY <1>3, <1>4, <1>6 DEF InIteration, InWarmups, Behind
<1>8. TeamInv(r)'
  <2>1. Steps(r) \in Nat
    BY <1>1, Sizes DEF Steps
  <2>2. pc'[r] \notin {"team", "poll"}
    BY <1>4
  <2> QED
    BY <1>2, <1>3, <1>5, <2>1, <2>2 DEF TeamInv
<1>9. CountInv(r)'
  BY <1>1, <1>2, <1>3, <1>7 DEF RankInv, CountInv
<1>10. HandleInv(r)'
  BY <1>1, <1>2, <1>3, <1>4, <1>7 DEF RankInv, HandleInv
<1>11. BlockingInv(r)'
  BY <1>2, <1>3, <1>5 DEF BlockingInv
<1>12. WaitedInv(r)'
  <2> SUFFICES ASSUME NEW p \in Partitions
               PROVE  /\ mode \notin {"Isend", "SendPersistent"}
                           => Complete(r, p, Warmup(p))
                      /\ iter[r] > 0 /\ pc'[r] \in {"iterate", "sync", "barrier2", "done"}
                           /\ ~(r = 0 /\ mode = "IsendThenTest")
                           => Complete(r, p, posted[r][p])
    BY <1>2, <1>3 DEF WaitedInv, Complete
  <2>1. iter[r] > 0 => pc[r] \in {"iterate", "sync", "barrier2"}
    BY <1>1, <1>4 DEF IterationsAt, BeforeFirst
  <2> QED
    BY <1>1, <1>4, <2>1 DEF RankInv, WaitedInv
<1> QED
  BY <1>8, <1>9, <1>10, <1>11, <1>12 DEF RankInv

LEMMA JoinRegionSelf ==
  ASSUME IInv, BaseOK', NEW r \in Ranks, JoinRegion(r)
  PROVE  RankInv(r)'
<1>1. /\ BaseOK /\ RankInv(r) /\ test \in Tests /\ iter[r] \in Nat
      /\ DOMAIN pc = Ranks /\ iter \in [Ranks -> Nat]
      /\ pc[r] = "region" /\ \A t \in Active(r) : next[r][t] = Steps(r)
  BY Facts DEF JoinRegion, At
<1>2. /\ UNCHANGED <<test, stage, requests, posted, taken, landed>>
      /\ next'[r] = [t \in Team |-> 0]
      /\ pc'[r] \in {"iterate"} \cup Behind
      /\ (pc'[r] = "iterate") <=> (mode = "Send")
      /\ iter'[r] = IF mode = "Send" THEN iter[r] + 1 ELSE iter[r]
  BY <1>1 DEF JoinRegion, Goto, net, Behind, BaseOK
<1>3. /\ mode' = mode /\ Partitions' = Partitions /\ PerThread' = PerThread
      /\ \A p \in Partitions : Warmup(p)' = Warmup(p)
  BY <1>2, TestStays
<1>4. Steps(r) \in Nat /\ PerThread \in Nat
  BY <1>1, Sizes DEF Steps
<1>5. \A t \in Team : stage[r][t] = "post"
  <2>1. \A t \in Active(r) \cap Team : ~(next[r][t] < Steps(r))
    BY <1>1, <1>4
  <2> QED
    BY <1>1, <2>1 DEF RankInv, TeamInv
<1>6. TeamInv(r)'
  BY <1>2, <1>3, <1>4, <1>5 DEF TeamInv, Behind
<1>7. Started(r) = Partitions
  BY <1>1, AllStarted
<1>8. ASSUME NEW p \in Partitions
      PROVE  /\ InIteration(r, p)' = IF mode = "Send" THEN 0 ELSE 1
             /\ InWarmups(r, p)' = Warmup(p)
             /\ InIteration(r, p) = 1 /\ InWarmups(r, p) = Warmup(p)
  BY <1>1, <1>2, <1>3, <1>7 DEF InIteration, InWarmups, Behind
<1>9. CountInv(r)'
  <2> SUFFICES ASSUME NEW p \in Partitions
               PROVE  posted[r][p] = Warmup(p) + iter'[r] + InIteration(r, p)'
    BY <1>2, <1>3, <1>8 DEF CountInv
  <2>1. posted[r][p] = Warmup(p) + iter[r] + 1
    BY <1>1, <1>8 DEF RankInv, CountInv
  <2>2. Warmup(p) \in Nat
    BY CountAssumption DEF Warmup
  <2> QED
    BY <1>1, <1>2, <1>8, <2>1, <2>2
<1>10. HandleInv(r)'
  BY <1>1, <1>2, <1>3, <1>8 DEF RankInv, HandleInv, Behind
<1>11. BlockingInv(r)'
  BY <1>2 DEF BlockingInv, Behind
<1>12. WaitedInv(r)'
  <2> SUFFICES ASSUME NEW p \in Partitions
               PROVE  /\ mode \notin {"Isend", "SendPersistent"}
                           => Complete(r, p, Warmup(p))
                      /\ pc'[r] \in {"iterate", "sync", "barrier2", "done"}
                           => Complete(r, p, posted[r][p])
    BY <1>2, <1>3 DEF WaitedInv, Complete
  <2>1. mode \notin {"Isend", "SendPersistent"} => Complete(r, p, Warmup(p))
    BY <1>1 DEF RankInv, WaitedInv
  <2>2. CASE mode = "Send"
    <3>1. PICK t \in Active(r), k \in 0 .. Steps(r) - 1 : p = Pattern[k + t * PerThread]
      BY <1>1, SlicesCover
    <3>2. t \in Team /\ k \in 0 .. PerThread - 1 /\ k < next[r][t]
      BY <1>1, <1>4, <2>2, SendSlices
    <3>3. Complete(r, p, posted[r][p])
      BY <1>1, <2>2, <3>1, <3>2 DEF RankInv, BlockingInv
    <3> QED
      BY <2>1, <3>3
  <2>3. CASE mode # "Send"
    BY <1>2, <2>1, <2>3 DEF Behind
  <2> QED
    BY <2>2, <2>3
<1> QED
  BY <1>6, <1>9, <1>10, <1>11, <1>12 DEF RankInv

\* What completes an iteration: everything was waited for, or rank 0 of
\* bench_isend_then_test goes on without.
LEMMA IterationSelf ==
  ASSUME IInv, BaseOK', NEW r \in Ranks,
         Waitall(r) \/ (r = 0 /\ (Testall \/ PollEnds))
  PROVE  RankInv(r)'
<1>1. /\ BaseOK /\ RankInv(r) /\ test \in Tests /\ iter[r] \in Nat
      /\ DOMAIN pc = Ranks /\ iter \in [Ranks -> Nat] /\ mode \in ModesAt(r)
      /\ pc[r] \in Behind
  BY Facts DEF Waitall, Testall, PollEnds, At, Behind
<1>2. /\ UNCHANGED <<test, stage, posted, taken, landed>>
      /\ pc'[r] = "iterate" /\ iter'[r] = iter[r] + 1
  BY <1>1 DEF Waitall, Testall, PollEnds, Join, EndIteration, Goto, team, net
<1>3. next'[r] = [t \in Team |-> 0] \/ (next'[r] = next[r] /\ pc[r] # "poll")
  BY <1>1 DEF Waitall, Testall, PollEnds, Join, EndIteration, team, At, BaseOK
<1>4. \/ AllComplete(r) /\ requests'[r] = [p \in Partitions |-> Null]
      \/ r = 0 /\ mode = "IsendThenTest" /\ requests' = requests
  BY <1>1 DEF Waitall, Testall, PollEnds, At, ModesAt, BaseOK, BeforeFirst
<1>5. /\ mode' = mode /\ Partitions' = Partitions
      /\ \A p \in Partitions : Warmup(p)' = Warmup(p)
  BY <1>2, TestStays
<1>6. mode # "Send"
  BY <1>1 DEF ModesAt, Behind, AllModes
<1>7. TeamInv(r)'
  BY <1>1, <1>2, <1>3 DEF RankInv, TeamInv, Behind
<1>8. ASSUME NEW p \in Partitions
      PROVE  /\ InIteration(r, p)' = 0 /\ InWarmups(r, p)' = Warmup(p)
             /\ InIteration(r, p) = 1 /\ InWarmups(r, p) = Warmup(p)
             /\ Warmup(p) \in Nat
  BY <1>1, <1>2, <1>5, CountAssumption DEF InIteration, InWarmups, Behind, Warmup
<1>9. CountInv(r)'
  <2> SUFFICES ASSUME NEW p \in Partitions
               PROVE  posted[r][p] = Warmup(p) + (iter[r] + 1) + 0
    BY <1>2, <1>5, <1>8 DEF CountInv
  <2> QED
    BY <1>1, <1>8 DEF RankInv, CountInv
<1>10. HandleInv(r)'
  BY <1>2, <1>4, <1>5, <1>8 DEF HandleInv
<1>11. BlockingInv(r)'
  BY <1>2 DEF BlockingInv
<1>12. WaitedInv(r)'
  <2> SUFFICES ASSUME NEW p \in Partitions
               PROVE  /\ mode \notin {"Isend", "SendPersistent"}
                           => Complete(r, p, Warmup(p))
                      /\ ~(r = 0 /\ mode = "IsendThenTest")
                           => Complete(r, p, posted[r][p])
    BY <1>2, <1>5 DEF WaitedInv, Complete
  <2>1. mode \notin {"Isend", "SendPersistent"} => Complete(r, p, Warmup(p))
    BY <1>1 DEF RankInv, WaitedInv, Behind
  <2>2. requests[r][p] = posted[r][p]
    BY <1>1, <1>6, <1>8 DEF RankInv, HandleInv
  <2> QED
    BY <1>4, <2>1, <2>2 DEF AllComplete
<1> QED
  BY <1>7, <1>9, <1>10, <1>11, <1>12 DEF RankInv

LEMMA PollAgainSelf ==
  ASSUME IInv, BaseOK', NEW r \in Ranks, r = 0 /\ PollAgain
  PROVE  RankInv(r)'
<1>1. /\ BaseOK /\ RankInv(r) /\ test \in Tests /\ DOMAIN pc = Ranks
      /\ pc[r] = "poll" /\ PerThread \in Nat
  BY Facts, Sizes DEF PollAgain, At
<1>2. /\ UNCHANGED <<test, iter, stage, requests, posted, taken, landed>>
      /\ next'[r] = [t \in Team |-> 0] /\ pc'[r] = "poll"
  BY <1>1 DEF PollAgain, Join, Goto, net, BaseOK
<1>3. /\ mode' = mode /\ Partitions' = Partitions /\ PerThread' = PerThread
      /\ \A p \in Partitions : Warmup(p)' = Warmup(p)
  BY <1>2, TestStays
<1>4. TeamInv(r)'
  BY <1>1, <1>2, <1>3 DEF RankInv, TeamInv
<1>5. ASSUME NEW p \in Partitions
      PROVE  /\ InIteration(r, p)' = InIteration(r, p)
             /\ InWarmups(r, p)' = InWarmups(r, p)
  BY <1>1, <1>2, <1>3 DEF InIteration, InWarmups, Behind
<1>6. CountInv(r)' /\ HandleInv(r)'
  BY <1>1, <1>2, <1>3, <1>5 DEF RankInv, CountInv, HandleInv
<1>7. BlockingInv(r)'
  BY <1>2 DEF BlockingInv
<1>8. WaitedInv(r)'
  BY <1>1, <1>2, <1>3 DEF RankInv, WaitedInv, Complete
<1> QED
  BY <1>4, <1>6, <1>7, <1>8 DEF RankInv

LEMMA RankSelf ==
  ASSUME IInv, NEW r \in Ranks, Rank(r)
  PROVE  RankInv(r)'
BY RankBase, WarmupPostSelf, WarmupWaitSelf, JoinWarmupSelf, BarrierSelf,
   JoinRegionSelf, IterationSelf, PollAgainSelf DEF Rank

-------------------------------------------------------------------------------
(* Steps of the threads.                                                   *)

\* A thread of the warm-up's team goes on in its loop: TeamPost starts a send
\* or receive of its tag, the others do not.
LEMMA WarmupSelf ==
  ASSUME IInv, BaseOK', NEW r \in Ranks, NEW t \in Team,
         TeamPost(r, t) \/ TeamStore(r, t) \/ TeamRead(r, t) \/ TeamWait(r, t)
  PROVE  RankInv(r)'
<1>1. /\ BaseOK /\ RankInv(r) /\ test \in Tests /\ mode = "Isend"
      /\ pc[r] = "team" /\ iter[r] = 0 /\ next[r][t] < PerThread
      /\ PerThread \in Nat /\ PerThread <= PartitionCount /\ PartitionCount \in Nat
  BY Facts, Sizes
     DEF TeamPost, TeamStore, TeamRead, TeamWait, InWarmup, At, ModesAt,
         IterationsAt, BeforeFirst
<1>2. UNCHANGED <<test, pc, iter, taken, landed>>
  BY DEF TeamPost, TeamStore, TeamRead, TeamWait, net
<1>3. /\ mode' = mode /\ Partitions' = Partitions /\ PerThread' = PerThread
      /\ \A p \in Partitions : Warmup(p)' = Warmup(p)
  BY <1>2, TestStays
<1> DEFINE n == next[r][t]
<1>4. PICK to \in {"post", "store", "read", "wait"} :
        stage' = [stage EXCEPT ![r][t] = to]
  BY DEF TeamPost, TeamStore, TeamRead, TeamWait, Step
<1>5. /\ stage'[r] = [stage[r] EXCEPT ![t] = to]
      /\ \/ next'[r] = next[r]
         \/ next'[r] = [next[r] EXCEPT ![t] = n + 1] /\ to = "post"
  BY <1>1, <1>4 DEF TeamPost, TeamStore, TeamRead, TeamWait, Step, BaseOK
<1>6. TeamInv(r)'
  BY <1>1, <1>2, <1>3, <1>5 DEF RankInv, TeamInv, BaseOK
<1>7. ASSUME NEW p \in Partitions
      PROVE  InIteration(r, p)' = 0 /\ InIteration(r, p) = 0
  BY <1>1, <1>2 DEF InIteration, Behind
<1>8. ASSUME NEW p \in Partitions
      PROVE  posted'[r][p] = Cardinality(InTeam(r, p))'
  <2>1. posted[r][p] = Cardinality(InTeam(r, p)) + 0 + 0 /\ posted[r][p] \in Nat
    BY <1>1, <1>7 DEF RankInv, CountInv, InWarmups, BaseOK
  <2>2. IsFiniteSet(InTeam(r, p)) /\ Cardinality(InTeam(r, p)) \in Nat
    <3>1. IsFiniteSet(Team) /\ InTeam(r, p) \subseteq Team
      BY TeamSize DEF InTeam
    <3> QED
      BY <3>1, FS_Subset, FS_CardinalityType
  <2>3. p \in Nat /\ n \in Nat
    BY <1>1 DEF BaseOK, Partitions
  <2>4. CASE TeamPost(r, t)
    <3>1. /\ stage[r][t] = "post" /\ stage'[r] = [stage[r] EXCEPT ![t] = "store"]
          /\ next'[r] = next[r]
          /\ posted' = [posted EXCEPT ![r][n] = @ + 1]
      BY <1>1, <2>4 DEF TeamPost, InWarmup, Post, WarmupTag, Step, BaseOK
    <3>2. CASE p = n
      <4>1. InTeam(r, p)' = InTeam(r, p) \cup {t} /\ t \notin InTeam(r, p)
        BY <1>1, <2>3, <3>1, <3>2 DEF InTeam, BaseOK
      <4>2. Cardinality(InTeam(r, p))' = Cardinality(InTeam(r, p)) + 1
        BY <2>2, <4>1, FS_AddElement
      <4>3. posted'[r][p] = posted[r][p] + 1
        BY <1>1, <3>1, <3>2 DEF BaseOK
      <4> QED
        BY <2>1, <2>2, <4>2, <4>3
    <3>3. CASE p # n
      <4>1. InTeam(r, p)' = InTeam(r, p)
        BY <1>1, <2>3, <3>1, <3>3 DEF InTeam, BaseOK
      <4>2. posted'[r][p] = posted[r][p]
        BY <1>1, <3>1, <3>3 DEF BaseOK
      <4> QED
        BY <2>1, <2>2, <4>1, <4>2
    <3> QED
      BY <3>2, <3>3
  <2>5. CASE TeamStore(r, t) \/ TeamRead(r, t) \/ TeamWait(r, t)
    <3>1. posted' = posted /\ stage[r][t] # "post"
      BY <2>5 DEF TeamStore, TeamRead, TeamWait, InWarmup
    <3>2. \/ next'[r] = next[r] /\ to # "post"
          \/ next'[r] = [next[r] EXCEPT ![t] = n + 1] /\ to = "post"
      BY <1>1, <1>4, <1>5, <2>5 DEF TeamStore, TeamRead, TeamWait, Step, BaseOK
    <3>3. InTeam(r, p)' = InTeam(r, p)
      BY <1>1, <1>5, <2>3, <3>1, <3>2 DEF InTeam, BaseOK
    <3> QED
      BY <2>1, <2>2, <3>1, <3>3
  <2> QED
    BY <2>4, <2>5
<1>9. CountInv(r)'
  <2> SUFFICES ASSUME NEW p \in Partitions
               PROVE  posted'[r][p] = Cardinality(InTeam(r, p))' + 0 + 0
    BY <1>1, <1>2, <1>3, <1>7 DEF CountInv, InWarmups
  <2> QED
    BY <1>3, <1>8 DEF BaseOK
<1>10. HandleInv(r)' /\ BlockingInv(r)' /\ WaitedInv(r)'
  BY <1>1, <1>2, <1>3, <1>7 DEF HandleInv, BlockingInv, WaitedInv
<1> QED
  BY <1>6, <1>9, <1>10 DEF RankInv

\* A thread in the parallel region starts its next send or receive.
LEMMA StartStep ==
  ASSUME BaseOK, BaseOK', test \in Tests, test' = test, NEW r \in Ranks, NEW t \in Team,
         t \in Active(r), next[r][t] < Steps(r), stage[r][t] = "post",
         \/ next'[r] = next[r] /\ stage'[r] = [stage[r] EXCEPT ![t] = "wait"]
         \/ next'[r] = [next[r] EXCEPT ![t] = @ + 1] /\ stage'[r] = stage[r]
  PROVE  /\ Partition(r, t) \in Partitions /\ Partition(r, t) \notin Started(r)
         /\ Started(r)' = Started(r) \cup {Partition(r, t)}
<1> DEFINE n == next[r][t]
<1>1. n \in 0 .. Steps(r) - 1 /\ Steps(r) \in Nat
  BY Sizes DEF BaseOK, Steps
<1>2. /\ mode' = mode /\ PerThread' = PerThread /\ Pattern' = Pattern
      /\ Partitions' = Partitions /\ Active(r)' = Active(r) /\ Steps(r)' = Steps(r)
  BY TestStays
<1>3. /\ Partition(r, t) \in Partitions
      /\ \A u \in Active(r) : \A l \in 0 .. Steps(r) - 1 :
           Pattern[l + u * PerThread] = Partition(r, t) => u = t /\ l = n
  BY <1>1, Slices DEF Partition
<1>4. ~Begun(r, t, n)
  BY <1>1 DEF Begun
<1>5. ASSUME NEW u \in Team, NEW l \in 0 .. Steps(r) - 1
      PROVE  Begun(r, u, l)' <=> Begun(r, u, l) \/ (u = t /\ l = n)
  <2>1. CASE u = t
    <3>1. \/ next'[r][t] = n /\ stage'[r][t] = "wait"
          \/ next'[r][t] = n + 1 /\ stage'[r][t] = "post"
      BY DEF BaseOK
    <3> HIDE DEF n
    <3>2. n = next[r][t] /\ stage[r][t] = "post"
      BY DEF n
    <3> QED
      BY <1>1, <2>1, <3>1, <3>2 DEF Begun
  <2>2. CASE u # t
    BY <2>2 DEF Begun, BaseOK
  <2> QED
    BY <2>1, <2>2
<1>6. Active(r) \subseteq Team
  BY Sizes DEF Active, Team
<1>7. Partition(r, t) \notin Started(r)
  BY <1>3, <1>4 DEF Started
<1>8. ASSUME NEW p \in Partitions
      PROVE  p \in Started(r)' <=> p \in Started(r) \/ p = Partition(r, t)
  <2>1. p \in Started(r)' <=>
          \E u \in Active(r) : \E l \in 0 .. Steps(r) - 1 :
            p = Pattern[l + u * PerThread] /\ Begun(r, u, l)'
    BY <1>2 DEF Started
  <2>2. p \in Started(r) <=>
          \E u \in Active(r) : \E l \in 0 .. Steps(r) - 1 :
            p = Pattern[l + u * PerThread] /\ Begun(r, u, l)
    BY DEF Started
  <2>3. Partition(r, t) = Pattern[n + t * PerThread]
    BY DEF Partition
  <2> QED
    BY <1>1, <1>5, <1>6, <2>1, <2>2, <2>3
<1>9. Started(r) \subseteq Partitions /\ Started(r)' \subseteq Partitions
  BY <1>2 DEF Started
<1> QED
  BY <1>3, <1>7, <1>8, <1>9

\* Calls that start a send or receive: MPI_Isend, MPI_Start, and the first half
\* of MPI_Send.
LEMMA PostSelf ==
  ASSUME IInv, BaseOK', NEW r \in Ranks, NEW t \in Team,
         SendPost(r, t) \/ IsendPost(r, t) \/ PersistentStart(r, t)
  PROVE  /\ RankInv(r)'
         /\ PersistentStart(r, t) => requests[r][Partition(r, t)] = Null
<1> DEFINE n == next[r][t]
           x == Partition(r, t)
<1>1. /\ BaseOK /\ RankInv(r) /\ test \in Tests /\ iter[r] \in Nat
      /\ pc[r] = "region" /\ t \in Active(r) /\ n < Steps(r)
      /\ stage[r][t] = "post" /\ Steps(r) \in Nat
  BY Facts, Sizes
     DEF SendPost, IsendPost, PersistentStart, InRegion, At, Steps
<1>2. UNCHANGED <<test, pc, iter, taken, landed>>
  BY DEF SendPost, IsendPost, PersistentStart, net
<1>3. /\ mode' = mode /\ Partitions' = Partitions /\ PerThread' = PerThread
      /\ Pattern' = Pattern /\ Active(r)' = Active(r) /\ Steps(r)' = Steps(r)
      /\ \A p \in Partitions : Warmup(p)' = Warmup(p)
  BY <1>2, TestStays
<1>4. posted' = [posted EXCEPT ![r][x] = @ + 1]
  BY DEF SendPost, IsendPost, PersistentStart, Post
<1>5. \/ /\ mode = "Send" /\ next'[r] = next[r]
         /\ stage'[r] = [stage[r] EXCEPT ![t] = "wait"]
         /\ held'[r] = [held[r] EXCEPT ![t] = posted[r][x] + 1]
         /\ requests' = requests
      \/ /\ mode # "Send" /\ next'[r] = [next[r] EXCEPT ![t] = @ + 1]
         /\ stage'[r] = stage[r]
         /\ requests' = [requests EXCEPT ![r][x] = posted[r][x] + 1]
  BY <1>1 DEF SendPost, IsendPost, PersistentStart, Step, Handle, BaseOK
<1>6. /\ x \in Partitions /\ x \notin Started(r)
      /\ Started(r)' = Started(r) \cup {x}
  BY <1>1, <1>2, <1>5, StartStep
<1> HIDE DEF x
<1>7. ASSUME NEW p \in Partitions
      PROVE  /\ InIteration(r, p) = IF p \in Started(r) THEN 1 ELSE 0
             /\ InIteration(r, p)' = IF p \in Started(r) \/ p = x THEN 1 ELSE 0
             /\ InWarmups(r, p)' = Warmup(p) /\ InWarmups(r, p) = Warmup(p)
             /\ Warmup(p) \in Nat
  <2>1. InWarmups(r, p)' = Warmup(p) /\ InWarmups(r, p) = Warmup(p)
    BY <1>1, <1>2, <1>3 DEF InWarmups
  <2>2. Warmup(p) \in Nat
    BY CountAssumption DEF Warmup
  <2>3. InIteration(r, p) = IF p \in Started(r) THEN 1 ELSE 0
    BY <1>1 DEF InIteration, Behind
  <2>4. InIteration(r, p)' = IF p \in Started(r)' THEN 1 ELSE 0
    BY <1>1, <1>2 DEF InIteration, Behind
  <2> QED
    BY <1>6, <2>1, <2>2, <2>3, <2>4
<1>8. ASSUME NEW p \in Partitions
      PROVE  /\ posted'[r][p] = IF p = x THEN posted[r][p] + 1 ELSE posted[r][p]
             /\ posted[r][p] \in Nat
  BY <1>1, <1>4, <1>6 DEF BaseOK
<1>9. TeamInv(r)'
  <2> SUFFICES ASSUME NEW u \in Team
               PROVE IF u \in Active(r)
                     THEN /\ next'[r][u] \in 0..Steps(r)
                          /\ stage'[r][u] = "post" \/ (/\ stage'[r][u] = "wait"
                                                      /\ mode = "Send"
                                                      /\ next'[r][u] < Steps(r))
                     ELSE stage'[r][u] = "post" /\ next'[r][u] = 0
    BY <1>1, <1>2, <1>3 DEF TeamInv
  <2>1. CASE u = t
    BY <1>1, <1>5, <2>1 DEF BaseOK
  <2>2. CASE u # t
    BY <1>1, <1>5, <2>2 DEF RankInv, TeamInv, BaseOK
  <2> QED
    BY <2>1, <2>2
<1>10. CountInv(r)'
  <2> SUFFICES ASSUME NEW p \in Partitions
               PROVE  posted'[r][p] = Warmup(p) + iter[r] + InIteration(r, p)'
    BY <1>2, <1>3, <1>7 DEF CountInv
  <2>1. posted[r][p] = Warmup(p) + iter[r] + InIteration(r, p)
    BY <1>1, <1>7 DEF RankInv, CountInv
  <2> QED
    BY <1>1, <1>6, <1>7, <1>8, <2>1
<1>11. HandleInv(r)'
  <2> SUFFICES ASSUME NEW p \in Partitions, mode # "Send"
               PROVE  /\ p \in Started(r) \/ p = x => requests'[r][p] = posted'[r][p]
                      /\ mode = "SendPersistent" /\ p \notin Started(r) /\ p # x
                           => requests'[r][p] = Null
    BY <1>1, <1>2, <1>3, <1>7 DEF HandleInv
  <2>1. /\ p \in Started(r) => requests[r][p] = posted[r][p]
        /\ mode = "SendPersistent" /\ p \notin Started(r) => requests[r][p] = Null
    BY <1>1, <1>7 DEF RankInv, HandleInv
  <2>2. requests'[r][p] = IF p = x THEN posted[r][x] + 1 ELSE requests[r][p]
    BY <1>1, <1>5, <1>6 DEF BaseOK
  <2> QED
    BY <1>6, <1>8, <2>1, <2>2
<1>12. BlockingInv(r)'
  <2> SUFFICES ASSUME mode = "Send", NEW u \in Team, NEW k \in 0 .. PerThread - 1,
                      NEW p, p = Pattern[k + u * PerThread]
               PROVE  /\ k < next'[r][u] => Complete(r, p, posted'[r][p])
                      /\ k = next'[r][u] /\ stage'[r][u] = "wait"
                           => held'[r][u] = posted'[r][p]
    BY <1>2, <1>3 DEF BlockingInv, Complete
  <2>1. p \in Partitions /\ Active(r) = Team /\ Steps(r) = PerThread
    BY <1>1, SendSlices
  <2>2. p = x <=> u = t /\ k = n
    <3>1. n \in 0 .. Steps(r) - 1 /\ x = Pattern[n + t * PerThread]
      BY <1>1 DEF BaseOK, x, Partition
    <3> QED
      BY <1>1, <2>1, <3>1, Slices
  <2>3. /\ k < next[r][u] => Complete(r, p, posted[r][p])
        /\ k = next[r][u] /\ stage[r][u] = "wait" => held[r][u] = posted[r][p]
    BY <1>1 DEF RankInv, BlockingInv
  <2>4. next'[r] = next[r] /\ stage'[r] = [stage[r] EXCEPT ![t] = "wait"]
        /\ held'[r] = [held[r] EXCEPT ![t] = posted[r][x] + 1]
    BY <1>5
  <2>5. CASE p = x
    BY <1>1, <1>8, <2>1, <2>2, <2>4, <2>5 DEF BaseOK
  <2>6. CASE p # x
    <3>1. posted'[r][p] = posted[r][p]
      BY <1>8, <2>1, <2>6
    <3>2. CASE u # t
      BY <1>1, <2>3, <2>4, <3>1, <3>2 DEF BaseOK
    <3>3. CASE u = t /\ k # n
      BY <1>1, <2>3, <2>4, <3>1, <3>3 DEF BaseOK
    <3> QED
      BY <2>2, <2>6, <3>2, <3>3
  <2> QED
    BY <2>5, <2>6
<1>13. WaitedInv(r)'
  BY <1>1, <1>2, <1>3 DEF RankInv, WaitedInv, Complete
<1>14. PersistentStart(r, t) => requests[r][x] = Null
  BY <1>1, <1>6, <1>7 DEF PersistentStart, RankInv, HandleInv
<1> QED
  BY <1>9, <1>10, <1>11, <1>12, <1>13, <1>14 DEF RankInv, x

\* The second half of MPI_Send or MPI_Recv.
LEMMA ReturnSelf ==
  ASSUME IInv, BaseOK', NEW r \in Ranks, NEW t \in Team, SendReturn(r, t)
  PROVE  RankInv(r)'
<1> DEFINE n == next[r][t]
<1>1. /\ BaseOK /\ RankInv(r) /\ test \in Tests /\ mode = "Send"
      /\ pc[r] = "region" /\ n < Steps(r) /\ stage[r][t] = "wait"
      /\ Active(r) = Team /\ Steps(r) = PerThread /\ PerThread \in Nat
      /\ Complete(r, Partition(r, t), held[r][t])
  BY Facts, Sizes, SendSlices DEF SendReturn, InRegion, At
<1>2. UNCHANGED <<test, pc, iter, requests, posted, taken, landed>>
  BY DEF SendReturn, net
<1>3. /\ mode' = mode /\ Partitions' = Partitions /\ PerThread' = PerThread
      /\ Pattern' = Pattern /\ Active(r)' = Active(r) /\ Steps(r)' = Steps(r)
      /\ \A p \in Partitions : Warmup(p)' = Warmup(p)
  BY <1>2, TestStays
<1>4. /\ next'[r] = [next[r] EXCEPT ![t] = n + 1]
      /\ stage'[r] = [stage[r] EXCEPT ![t] = "post"]
      /\ held'[r] = [held[r] EXCEPT ![t] = Null]
  BY <1>1 DEF SendReturn, Step, BaseOK
<1>5. ASSUME NEW u \in Team, NEW k \in Nat
      PROVE  Begun(r, u, k)' <=> Begun(r, u, k)
  <2>1. CASE u = t
    <3>1. next'[r][t] = n + 1 /\ stage'[r][t] = "post" /\ n \in Nat
      BY <1>1, <1>4 DEF BaseOK
    <3>2. next[r][t] = n
      OBVIOUS
    <3> HIDE DEF n
    <3> QED
      BY <1>1, <2>1, <3>1, <3>2 DEF Begun
  <2>2. CASE u # t
    BY <1>1, <1>4, <2>2 DEF Begun, BaseOK
  <2> QED
    BY <2>1, <2>2
<1>6. Started(r)' = Started(r)
  <2>1. Started(r)' = {p \in Partitions : \E u \in Active(r) : \E k \in 0 .. Steps(r) - 1 :
                         p = Pattern[k + u * PerThread] /\ Begun(r, u, k)'}
    BY <1>3 DEF Started
  <2>2. \A u \in Active(r) : \A k \in 0 .. Steps(r) - 1 :
          Begun(r, u, k)' <=> Begun(r, u, k)
    BY <1>1, <1>5
  <2> QED
    BY <2>1, <2>2 DEF Started
<1>7. ASSUME NEW p \in Partitions
      PROVE  /\ InIteration(r, p)' = InIteration(r, p)
             /\ InWarmups(r, p)' = InWarmups(r, p)
  BY <1>1, <1>2, <1>3, <1>6 DEF InIteration, InWarmups
<1>8. TeamInv(r)'
  <2> SUFFICES ASSUME NEW u \in Team
               PROVE  /\ next'[r][u] \in 0..Steps(r)
                      /\ stage'[r][u] = "post" \/ (/\ stage'[r][u] = "wait"
                                                  /\ next'[r][u] < Steps(r))
    BY <1>1, <1>2, <1>3 DEF TeamInv
  <2>1. CASE u = t
    BY <1>1, <1>4, <2>1 DEF BaseOK
  <2>2. CASE u # t
    BY <1>1, <1>4, <2>2 DEF RankInv, TeamInv, BaseOK
  <2> QED
    BY <2>1, <2>2
<1>9. CountInv(r)' /\ HandleInv(r)'
  BY <1>1, <1>2, <1>3, <1>7 DEF RankInv, CountInv, HandleInv
<1>10. BlockingInv(r)'
  <2> SUFFICES ASSUME NEW u \in Team, NEW k \in 0 .. PerThread - 1,
                      NEW p, p = Pattern[k + u * PerThread]
               PROVE  /\ k < next'[r][u] => Complete(r, p, posted[r][p])
                      /\ k = next'[r][u] /\ stage'[r][u] = "wait"
                           => held'[r][u] = posted[r][p]
    BY <1>2, <1>3 DEF BlockingInv, Complete
  <2>1. /\ k < next[r][u] => Complete(r, p, posted[r][p])
        /\ k = next[r][u] /\ stage[r][u] = "wait" => held[r][u] = posted[r][p]
    BY <1>1 DEF RankInv, BlockingInv
  <2>2. CASE u # t
    BY <1>1, <1>4, <2>1, <2>2 DEF BaseOK
  <2>3. CASE u = t /\ k < n
    BY <1>1, <1>4, <2>1, <2>3 DEF BaseOK
  <2>4. CASE u = t /\ k = n
    <3>1. p = Partition(r, t) /\ held[r][t] = posted[r][p]
      BY <1>1, <2>1, <2>4 DEF Partition
    <3>2. Complete(r, p, posted[r][p]) /\ stage'[r][u] = "post"
      BY <1>1, <1>4, <2>4, <3>1 DEF BaseOK
    <3> QED
      BY <3>2
  <2>5. CASE u = t /\ k > n
    BY <1>1, <1>4, <2>5 DEF BaseOK
  <2>6. n \in Nat /\ k \in Nat
    BY <1>1 DEF BaseOK
  <2> HIDE DEF n
  <2> QED
    BY <2>2, <2>3, <2>4, <2>5, <2>6
<1>11. WaitedInv(r)'
  BY <1>1, <1>2, <1>3 DEF RankInv, WaitedInv, Complete
<1> QED
  BY <1>8, <1>9, <1>10, <1>11 DEF RankInv

LEMMA PollSelf ==
  ASSUME IInv, BaseOK', NEW r \in Ranks, NEW t \in Team, r = 0 /\ Poll(t)
  PROVE  RankInv(r)'
<1>1. /\ BaseOK /\ RankInv(r) /\ test \in Tests
      /\ pc[r] = "poll" /\ PerThread \in Nat /\ next[r][t] < PerThread
  BY Facts, Sizes DEF Poll, At
<1>2. /\ UNCHANGED <<test, pc, iter, stage, requests, posted, taken, landed>>
      /\ next'[r] = [next[r] EXCEPT ![t] = @ + 1]
  BY <1>1 DEF Poll, net, BaseOK
<1>3. /\ mode' = mode /\ Partitions' = Partitions /\ PerThread' = PerThread
      /\ \A p \in Partitions : Warmup(p)' = Warmup(p)
  BY <1>2, TestStays
<1>4. TeamInv(r)'
  BY <1>1, <1>2, <1>3 DEF RankInv, TeamInv, BaseOK
<1>5. ASSUME NEW p \in Partitions
      PROVE  /\ InIteration(r, p)' = InIteration(r, p)
             /\ InWarmups(r, p)' = InWarmups(r, p)
  BY <1>1, <1>2, <1>3 DEF InIteration, InWarmups, Behind
<1>6. CountInv(r)' /\ HandleInv(r)'
  BY <1>1, <1>2, <1>3, <1>5 DEF RankInv, CountInv, HandleInv
<1>7. BlockingInv(r)'
  BY <1>1, <1>2 DEF BlockingInv
<1>8. WaitedInv(r)'
  BY <1>1, <1>2, <1>3 DEF RankInv, WaitedInv, Complete
<1> QED
  BY <1>4, <1>6, <1>7, <1>8 DEF RankInv

LEMMA ThreadSelf ==
  ASSUME IInv, NEW r \in Ranks, NEW t \in Team, Thread(r, t)
  PROVE  RankInv(r)' /\ MpiUsedCorrectly'
<1>1. BaseOK' /\ test' = test
  BY ThreadBase
<1>2. RankInv(r)'
  BY <1>1, WarmupSelf, PostSelf, ReturnSelf, PollSelf DEF Thread
<1>3. mode' = mode /\ (mode # "Isend" => ~misuse)
  BY <1>1, TestStays DEF IInv, MpiUsedCorrectly
<1>4. ASSUME mode = "Isend" PROVE MpiUsedCorrectly'
  BY <1>3, <1>4 DEF MpiUsedCorrectly
<1>5. ASSUME mode # "Isend" PROVE MpiUsedCorrectly'
  <2>1. CASE PersistentStart(r, t)
    <3>1. requests[r][Partition(r, t)] = Null
      BY <1>1, <2>1, PostSelf
    <3>2. misuse' = (misuse \/ requests[r][Partition(r, t)] # Null)
      BY <2>1 DEF PersistentStart
    <3>3. ~misuse'
      BY <1>3, <1>5, <3>1, <3>2, Zenon
    <3> QED
      BY <3>3 DEF MpiUsedCorrectly
  <2>2. CASE TeamRead(r, t)
    BY <1>5, <2>2, Facts DEF TeamRead, InWarmup, At, ModesAt
  <2>3. CASE ~PersistentStart(r, t) /\ ~TeamRead(r, t)
    <3>1. misuse' = misuse
      BY <2>3 DEF Thread, TeamPost, TeamStore, TeamWait, SendPost, SendReturn,
                  IsendPost, Poll
    <3> QED
      BY <1>3, <3>1 DEF MpiUsedCorrectly
  <2> QED
    BY <2>1, <2>2, <2>3
<1> QED
  BY <1>2, <1>4, <1>5

-------------------------------------------------------------------------------
(* The invariant, and what follows from it.                                *)

LEMMA InitInv == Init => IInv
<1> SUFFICES ASSUME Init PROVE IInv
  OBVIOUS
<1>1. /\ ControlInv /\ test \in Tests /\ mode \in AllModes
      /\ PartitionCount \in Nat \ {0} /\ PerThread \in Nat
      /\ \A r \in Ranks : Steps(r) \in Nat
  BY InitControl, Sizes DEF ControlInv, Steps
<1>2. /\ \A r \in Ranks : iter[r] = 0 /\ barriers[r] = 0
      /\ \A r \in Ranks : \A t \in Team :
           next[r][t] = 0 /\ stage[r][t] = "post" /\ held[r][t] = 0
      /\ \A r \in Ranks : \A p \in Partitions :
           requests[r][p] = 0 /\ posted[r][p] = 0
      /\ \A p \in Partitions : taken[p] = 0 /\ landed[p] = 0
  BY DEF Init, Null
<1>3. \A r \in Ranks : pc[r] = CASE mode = "SendPersistent" -> "warmed"
                                 [] mode = "Isend" -> "team"
                                 [] OTHER -> "warmup"
  BY DEF Init
<1>4. TypeOK
  <2>1. pc \in [Ranks -> {"warmup", "team", "warmed"}]
    BY DEF Init
  <2>2. iter \in [Ranks -> 0..Iterations] /\ barriers \in [Ranks -> 0 .. Iterations + 2]
    BY CountAssumption DEF Init
  <2>3. next \in [Ranks -> [Team -> 0..PartitionCount]]
    BY <1>1 DEF Init
  <2> QED
    BY <1>1, <2>1, <2>2, <2>3 DEF Init, TypeOK, Null
<1>5. NetInv
  BY <1>2 DEF NetInv, Ranks
<1>6. MpiUsedCorrectly
  BY DEF Init, MpiUsedCorrectly
<1>7. ASSUME NEW r \in Ranks PROVE RankInv(r)
  <2>1. pc[r] \in {"warmup", "team", "warmed"}
        /\ (pc[r] = "team" => mode = "Isend")
        /\ (pc[r] = "warmed" => mode = "SendPersistent")
        /\ (mode = "SendPersistent" => pc[r] = "warmed")
    BY <1>3
  <2>2. TeamInv(r)
    BY <1>1, <1>2, <2>1 DEF TeamInv
  <2>3. ASSUME NEW p \in Partitions
        PROVE  InIteration(r, p) = 0 /\ InWarmups(r, p) = 0
    <3>1. InTeam(r, p) = {}
      BY <1>1, <1>2 DEF InTeam, Partitions
    <3> QED
      BY <2>1, <3>1, FS_EmptySet DEF InIteration, InWarmups, Warmup, Behind
  <2>4. CountInv(r)
    BY <1>2, <2>3 DEF CountInv
  <2>5. HandleInv(r)
    BY <1>2, <2>1, <2>3 DEF HandleInv, Null
  <2>6. BlockingInv(r)
    BY <2>1 DEF BlockingInv
  <2>7. WaitedInv(r)
    <3>1. iter[r] = 0
      BY <1>2
    <3> QED
      BY <2>1, <3>1 DEF WaitedInv
  <2> QED
    BY <2>2, <2>4, <2>5, <2>6, <2>7 DEF RankInv
<1> QED
  BY <1>1, <1>4, <1>5, <1>6, <1>7 DEF IInv

\* The bounds of TypeOK follow from the places of ranks and threads.
LEMMA BoundsStep ==
  ASSUME test \in Tests, test' = test, BaseOK', ControlInv',
         \A r \in Ranks : RankInv(r)'
  PROVE  TypeOK'
<1>1. /\ PartitionCount \in Nat /\ PerThread \in Nat /\ PerThread <= PartitionCount
      /\ Partitions' = Partitions /\ PartitionCount' = PartitionCount
      /\ PerThread' = PerThread /\ \A q \in Ranks : Steps(q)' = Steps(q)
  BY Sizes, TestStays
<1>2. ASSUME NEW r \in Ranks
      PROVE  iter'[r] \in 0..Iterations /\ barriers'[r] \in 0 .. Iterations + 2
  BY CountAssumption, <1>2
     DEF ControlInv, IterationsAt, BarrierCount, BeforeFirst, Behind, Syncs
<1>3. iter' \in [Ranks -> 0..Iterations] /\ barriers' \in [Ranks -> 0 .. Iterations + 2]
  BY <1>2 DEF ControlInv
<1>4. ASSUME NEW r \in Ranks, NEW t \in Team
      PROVE  next'[r][t] \in 0..PartitionCount
  BY <1>1 DEF RankInv, TeamInv, Steps
<1>5. next' \in [Ranks -> [Team -> 0..PartitionCount]]
  BY <1>4 DEF BaseOK
<1>6. pc' \in [Ranks -> {"warmup", "warmupwait", "team", "warmed", "barrier1",
                         "iterate", "sync", "region", "waitall", "testall",
                         "poll", "barrier2", "done"}]
  BY DEF ControlInv, BeforeFirst, Behind
<1> QED
  BY <1>1, <1>3, <1>5, <1>6 DEF TypeOK, BaseOK

LEMMA NextInv == IInv /\ [Next]_vars => IInv'
<1> SUFFICES ASSUME IInv, [Next]_vars PROVE IInv'
  OBVIOUS
<1>1. ControlInv'
  BY ControlStep DEF IInv
<1>2. ASSUME test' = test, BaseOK', NetInv', MpiUsedCorrectly',
             \A r \in Ranks : RankInv(r)'
      PROVE  IInv'
  <2>1. TypeOK'
    BY <1>1, <1>2, BoundsStep DEF IInv, TypeOK
  <2> QED
    BY <1>1, <1>2, <2>1 DEF IInv
<1>3. ASSUME NEW r \in Ranks, Rank(r) PROVE IInv'
  <2>1. BaseOK' /\ NetInv' /\ \A q \in Ranks : RankInv(q)'
    BY <1>3, RankBase, RankOthers, RankSelf
  <2>2. UNCHANGED <<test, misuse>>
    BY <1>3 DEF Rank, WarmupPost, WarmupWait, JoinWarmup, EnterBarrier,
                LeaveBarrier, StartRegion, JoinRegion, Waitall, Testall,
                PollAgain, PollEnds
  <2>3. MpiUsedCorrectly'
    BY <2>2 DEF IInv, MpiUsedCorrectly, mode
  <2> QED
    BY <1>2, <2>1, <2>2, <2>3
<1>4. ASSUME NEW r \in Ranks, NEW t \in Team, Thread(r, t) PROVE IInv'
  BY <1>2, <1>4, ThreadBase, ThreadOthers, ThreadSelf
<1>5. ASSUME NEW p \in Partitions, Buffered(p) \/ Deliver(p) PROVE IInv'
  <2>1. /\ BaseOK /\ test \in Tests /\ BaseOK' /\ NetInv'
        /\ UNCHANGED <<test, pc, iter, barriers, team, requests, posted, flag, misuse>>
        /\ \A s \in Partitions : taken'[s] >= taken[s] /\ landed'[s] >= landed[s]
    BY <1>5, MpiBase, TypeIsBase DEF IInv, TypeOK
  <2>2. UNCHANGED <<next, stage, held>>
    BY <2>1 DEF team
  <2>3. \A r \in Ranks : RankInv(r)'
    BY <2>1, <2>2, Frame DEF IInv
  <2>4. MpiUsedCorrectly'
    BY <2>1 DEF IInv, MpiUsedCorrectly, mode
  <2> QED
    BY <1>2, <2>1, <2>3, <2>4
<1>6. CASE UNCHANGED vars
  <2>1. BaseOK /\ test \in Tests
    BY TypeIsBase DEF IInv, TypeOK
  <2>2. UNCHANGED <<test, pc, iter, barriers, next, stage, held, requests, posted,
                    taken, landed, flag, misuse>>
    BY <1>6 DEF vars, team, net
  <2>3. BaseOK' /\ NetInv' /\ MpiUsedCorrectly'
    BY <2>1, <2>2, TestStays DEF IInv, BaseOK, NetInv, MpiUsedCorrectly
  <2>4. \A s \in Partitions : taken'[s] >= taken[s] /\ landed'[s] >= landed[s]
    BY <2>1, <2>2 DEF BaseOK
  <2>5. \A r \in Ranks : RankInv(r)'
    BY <2>1, <2>2, <2>3, <2>4, Frame DEF IInv
  <2> QED
    BY <1>2, <2>2, <2>3, <2>5
<1> QED
  BY <1>3, <1>4, <1>5, <1>6 DEF Next

(* How many sends and receives of each tag there were is known at every    *)
(* place of the code, a handle in the array is that of the last one, and   *)
(* what was waited for is complete.                                        *)
THEOREM MessageInvariance == Spec => []IInv
BY InitInv, NextInv, PTL DEF Spec

(* Every variable of these run methods keeps its type.                     *)
THEOREM TypeCorrect == Spec => []TypeOK
<1>1. IInv => TypeOK
  BY DEF IInv
<1> QED
  BY <1>1, MessageInvariance, PTL

(* No persistent request is started while it is active, and outside of the *)
(* warm-up of bench_isend no two threads wait for one request.             *)
THEOREM MpiIsUsedCorrectly == Spec => []MpiUsedCorrectly
<1>1. IInv => MpiUsedCorrectly
  BY DEF IInv
<1> QED
  BY <1>1, MessageInvariance, PTL

(* An iteration is exactly one message for every partition, and all of it. *)
THEOREM IterationsAreComplete == Spec => []IterationIsComplete
<1>1. IInv => IterationIsComplete
  <2> SUFFICES ASSUME IInv, NEW r \in Ranks, NEW p \in Partitions,
                      iter[r] > 0, pc[r] \in {"iterate", "barrier2", "done"}
               PROVE  /\ posted[r][p] = Warmup(p) + iter[r]
                      /\ (r = 0 /\ mode = "IsendThenTest") \/ Complete(r, p, posted[r][p])
    BY DEF IterationIsComplete
  <2>1. RankInv(r) /\ iter[r] \in Nat /\ Warmup(p) \in Nat
    BY Facts, CountAssumption DEF Warmup
  <2>2. InIteration(r, p) = 0 /\ InWarmups(r, p) = Warmup(p)
    BY DEF InIteration, InWarmups, Behind
  <2>3. posted[r][p] = Warmup(p) + iter[r]
    BY <2>1, <2>2 DEF RankInv, CountInv
  <2> QED
    BY <2>1, <2>3 DEF RankInv, WaitedInv
<1> QED
  BY <1>1, MessageInvariance, PTL

(* In all methods but bench_isend no message of the warm-up is under way   *)
(* when a rank has left the first barrier.                                 *)
THEOREM FirstBarrierEndsWarmup == Spec => []FirstBarrierFences
<1>1. IInv => FirstBarrierFences
  <2> SUFFICES ASSUME IInv, mode # "Isend", NEW r \in Ranks, NEW p \in Partitions,
                      pc[r] \notin BeforeFirst \cup {"barrier1"}
               PROVE  Complete(1, p, Warmup(p))
    BY DEF FirstBarrierFences, WarmupIsOver, BeforeFirst
  <2>1. BaseOK /\ ControlInv /\ RankInv(1) /\ 1 \in Ranks
    BY Facts DEF Ranks, IInv
  <2>2. CASE mode = "SendPersistent"
    BY <2>1, <2>2 DEF Warmup, Complete, BaseOK
  <2>3. CASE mode # "SendPersistent"
    <3>1. pc[1] \notin BeforeFirst
      <4>1. CASE r = 1
        BY <4>1
      <4>2. CASE r = 0
        <5>1. iter[r] \in Nat /\ barriers[r] = BarrierCount(r)
              /\ Passed(r) <= barriers[1] /\ barriers[1] = BarrierCount(1)
          BY <2>1, <4>2 DEF ControlInv, Ranks, Other
        <5>2. Passed(r) >= 1
          <6>1. CASE pc[r] = "sync"
            <7>1. Synchronous
              BY <2>1, <6>1 DEF ControlInv, ModesAt, Synchronous, BeforeFirst
            <7>2. BarrierCount(r) = 1 + (iter[r] + 1)
              BY <6>1, <7>1 DEF BarrierCount, BeforeFirst, Behind, Syncs
            <7> QED
              BY <5>1, <6>1, <7>2 DEF Passed
          <6>2. CASE pc[r] = "barrier2"
            BY <5>1, <6>2, CountAssumption
               DEF BarrierCount, Passed, BeforeFirst, Behind, Syncs
          <6>3. CASE pc[r] \notin {"sync", "barrier2"}
            <7>1. BarrierCount(r) >= 1
              BY <5>1, <6>3, CountAssumption
                 DEF BarrierCount, BeforeFirst, Behind, Syncs
            <7> QED
              BY <5>1, <6>3, <7>1 DEF Passed
          <6> QED
            BY <6>1, <6>2, <6>3
        <5>3. BarrierCount(1) # 0
          BY <2>1, <5>1, <5>2 DEF ControlInv, Passed
        <5> QED
          BY <5>3 DEF BarrierCount, BeforeFirst, Behind
      <4> QED
        BY <4>1, <4>2 DEF Ranks
    <3> QED
      BY <2>1, <2>3, <3>1 DEF RankInv, WaitedInv, BeforeFirst
  <2> QED
    BY <2>2, <2>3
<1> QED
  BY <1>1, MessageInvariance, PTL

(* Nothing is left for the next test.  Without an iteration the warm-up of *)
(* bench_isend may leave a message: two of its threads wait for one        *)
(* request and none for another.                                           *)
THEOREM NothingIsLeft ==
  ASSUME Iterations > 0 \/ \A c \in Tests : c.mode # "Isend"
  PROVE  Spec => []NothingLeft
<1>1. IInv => NothingLeft
  <2> SUFFICES ASSUME IInv, NEW r \in Ranks, NEW p \in Partitions, pc[r] = "done"
               PROVE  posted[0][p] = posted[1][p] /\ landed[p] = posted[0][p]
    BY DEF NothingLeft
  <2>1. BaseOK /\ ControlInv /\ NetInv /\ test \in Tests /\ 0 \in Ranks /\ 1 \in Ranks
        /\ RankInv(0) /\ RankInv(1)
    BY Facts DEF Ranks, IInv
  <2>2. ASSUME NEW q \in Ranks PROVE pc[q] \in {"barrier2", "done"}
    <3>1. CASE q = r
      BY <3>1
    <3>2. CASE q # r
      <4>1. q = Other(r) /\ r = Other(q)
        BY <3>2 DEF Ranks, Other
      <4>2. barriers[r] = 2 + Syncs(Iterations) /\ Passed(r) = barriers[r]
        BY <2>1 DEF ControlInv, BarrierCount, Passed, BeforeFirst, Behind
      <4>3. barriers[q] >= 2 + Syncs(Iterations) /\ barriers[q] = BarrierCount(q)
            /\ iter[q] \in IterationsAt(q)
        BY <2>1, <4>1, <4>2 DEF ControlInv
      <4>4. pc \in [Ranks -> BeforeFirst \cup {"barrier1", "iterate", "sync", "region"}
                               \cup Behind \cup {"barrier2", "done"}]
        BY <2>1 DEF ControlInv
      <4> QED
        BY <4>3, <4>4, CountAssumption
           DEF BarrierCount, IterationsAt, BeforeFirst, Behind, Syncs
    <3> QED
      BY <3>1, <3>2
  <2>3. ASSUME NEW q \in Ranks
        PROVE  iter[q] = Iterations /\ posted[q][p] = Warmup(p) + Iterations
    <3>1. iter[q] = Iterations /\ InIteration(q, p) = 0 /\ InWarmups(q, p) = Warmup(p)
      BY <2>1, <2>2 DEF ControlInv, IterationsAt, InIteration, InWarmups,
                        BeforeFirst, Behind
    <3>2. Warmup(p) \in Nat
      BY CountAssumption DEF Warmup
    <3>3. RankInv(q)
      BY DEF IInv
    <3>4. posted[q][p] = Warmup(p) + Iterations + 0
      BY <3>1, <3>3 DEF RankInv, CountInv
    <3> QED
      BY <3>1, <3>2, <3>4, CountAssumption
  <2>4. posted[0][p] = posted[1][p] /\ posted[1][p] \in Nat
    BY <2>1, <2>3 DEF BaseOK
  <2>5. landed[p] >= posted[1][p]
    <3>1. CASE Iterations > 0
      <4>1. Complete(1, p, posted[1][p])
        BY <2>1, <2>2, <2>3, <3>1 DEF RankInv, WaitedInv
      <4> QED
        BY <2>1, <4>1 DEF Complete, BaseOK
    <3>2. CASE Iterations = 0
      <4>1. mode # "Isend" /\ posted[1][p] = Warmup(p)
        BY <2>1, <2>3, <3>2, CountAssumption DEF mode, Warmup
      <4>2. CASE mode = "SendPersistent"
        BY <2>1, <4>1, <4>2 DEF Warmup, BaseOK
      <4>3. CASE mode # "SendPersistent"
        <5>1. pc[1] \notin {"warmup", "warmupwait"}
          BY <2>1, <2>2
        <5>2. Complete(1, p, Warmup(p))
          BY <2>1, <4>1, <4>3, <5>1 DEF RankInv, WaitedInv
        <5> QED
          BY <2>1, <4>1, <5>2 DEF Complete, BaseOK
      <4> QED
        BY <4>2, <4>3
    <3> QED
      BY <3>1, <3>2, CountAssumption
  <2>6. landed[p] <= posted[1][p] /\ landed[p] \in Nat
    BY <2>1 DEF NetInv, BaseOK
  <2> QED
    BY <2>4, <2>5, <2>6
<1> QED
  BY <1>1, MessageInvariance, PTL
===============================================================================
