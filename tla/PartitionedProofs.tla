--------------------------- MODULE PartitionedProofs ---------------------------
(***************************************************************************)
(* What the partitioned run methods guarantee for every number of threads, *)
(* partitions and iterations and every pattern.                            *)
(***************************************************************************)
EXTENDS Partitioned, FiniteSetTheorems, TLAPS

LEMMA InitControl == Init => ControlInv
BY DEF Init, ControlInv, BarrierCount, EpochsAt, InEpoch, Extra, mode, Ranks

\* The main thread of a rank moves, that of the other rank does not.
LEMMA RankControl ==
  ASSUME ControlInv, NEW r \in Ranks, Rank(r)
  PROVE  ControlInv'
<1> USE CountAssumption
    DEF ControlInv, BarrierCount, EpochsAt, InEpoch, Extra, mode, Ranks,
        At, Goto
<1>1. CASE InitRequest(r)
  BY <1>1 DEF InitRequest
<1>2. CASE EnterBarrier(r)
  BY <1>2 DEF EnterBarrier
<1>3. CASE LeaveBarrier(r)
  BY <1>3 DEF LeaveBarrier
<1>4. CASE FreeRequest(r)
  BY <1>4 DEF FreeRequest
<1>5. CASE r = 0 /\ SendStart
  BY <1>5 DEF SendStart
<1>6. CASE r = 0 /\ Join
  BY <1>6 DEF Join
<1>7. CASE r = 0 /\ SendWait
  BY <1>7 DEF SendWait, AfterEpoch
<1>8. CASE r = 1 /\ RecvStart
  BY <1>8 DEF RecvStart
<1>9. CASE r = 1 /\ GetStatus
  BY <1>9 DEF GetStatus
<1>10. CASE r = 1 /\ Parrived
  BY <1>10 DEF Parrived
<1>11. CASE r = 1 /\ RecvWait
  BY <1>11 DEF RecvWait, AfterEpoch
<1> QED
  BY <1>1, <1>2, <1>3, <1>4, <1>5, <1>6, <1>7, <1>8, <1>9, <1>10, <1>11
     DEF Rank

\* Threads of the team and MPI leave the ranks where they are.
LEMMA OthersStutter ==
  ASSUME (\E t \in AllThreads : Thread(t)) \/ Mpi \/ UNCHANGED vars
  PROVE  UNCHANGED <<test, pc, epoch, barriers>>
<1>1. ASSUME NEW t \in AllThreads, Thread(t)
      PROVE  UNCHANGED <<test, pc, epoch, barriers>>
  BY <1>1 DEF Thread, WarmupInOrder, WarmupList, PsendMark, ListMark,
              ParrivedMark, ProgressMark, CustomMark, Advance
<1>2. ASSUME Mpi
      PROVE  UNCHANGED <<test, pc, epoch, barriers>>
  BY <1>2 DEF Mpi, Take, Deliver
<1>3. ASSUME UNCHANGED vars
      PROVE  UNCHANGED <<test, pc, epoch, barriers>>
  BY <1>3 DEF vars
<1> QED
  BY <1>1, <1>2, <1>3

(* Where a rank is in its code determines which barriers it has entered    *)
(* and which epochs it may be in.                                          *)
THEOREM Invariance == Spec => []ControlInv
<1>1. ControlInv /\ [Next]_vars => ControlInv'
  <2> SUFFICES ASSUME ControlInv, [Next]_vars PROVE ControlInv'
    OBVIOUS
  <2>1. CASE \E r \in Ranks : Rank(r)
    BY <2>1, RankControl
  <2>2. CASE (\E t \in AllThreads : Thread(t)) \/ Mpi \/ UNCHANGED vars
    <3>1. UNCHANGED <<test, pc, epoch, barriers>>
      BY <2>2, OthersStutter
    <3> QED
      BY <3>1 DEF ControlInv, BarrierCount, EpochsAt, Extra, mode
  <2> QED
    BY <2>1, <2>2 DEF Next
<1> QED
  BY <1>1, InitControl, PTL DEF Spec

\* What RunMethod sees of a rank.
Completed(r) == IF epoch[r] = 0 THEN 0 ELSE epoch[r] - 1
PhaseBar == [r \in Ranks |-> Phase(r)]
IterBar == [r \in Ranks |-> Completed(r)]

\* A rank that shows the same phase and iterations shows nothing of its step.
LEMMA HiddenStep ==
  ASSUME \A r \in Ranks : Phase(r)' = Phase(r) /\ Completed(r)' = Completed(r)
  PROVE  UNCHANGED Method!vars
<1>1. PhaseBar' = PhaseBar /\ IterBar' = IterBar
  BY DEF PhaseBar, IterBar
<1> QED
  BY <1>1 DEF Method!vars, PhaseBar, IterBar, Completed

\* A rank that moves to another phase makes RunMethod's Move.
LEMMA VisibleMove ==
  ASSUME NEW r \in Ranks, NEW from, NEW to,
         Phase(r) = from, Phase(r)' = to,
         \A q \in Ranks \ {r} : Phase(q)' = Phase(q),
         \A q \in Ranks : Completed(q)' = Completed(q)
  PROVE  /\ Method!Move(r, from, to)
         /\ UNCHANGED [q \in Ranks |-> IF epoch[q] = 0 THEN 0 ELSE epoch[q] - 1]
<1>1. PhaseBar' = [PhaseBar EXCEPT ![r] = to] /\ PhaseBar[r] = from
  BY DEF PhaseBar
<1>2. IterBar' = IterBar
  BY DEF IterBar
<1> QED
  BY <1>1, <1>2 DEF Method!Move, PhaseBar, IterBar, Completed

\* Every step of a rank is a step of RunMethod or hidden.
LEMMA RankImplements ==
  ASSUME ControlInv, ControlInv', NEW r \in Ranks, Rank(r)
  PROVE  [Method!Next]_(Method!vars)
<1> USE DEF ControlInv, EpochsAt, InEpoch, Ranks, At, Goto
<1>1. CASE EnterBarrier(r)
  <2>1. \A q \in Ranks : Completed(q)' = Completed(q)
    BY <1>1 DEF EnterBarrier, Completed
  <2>2. \A q \in Ranks \ {r} : Phase(q)' = Phase(q)
    BY <1>1 DEF EnterBarrier, Phase
  <2>3. CASE pc[r] = "enter"
    BY <1>1, <2>1, <2>2, <2>3, HiddenStep DEF EnterBarrier, Phase
  <2>4. CASE pc[r] = "warm"
    <3>1. Phase(r) = "warmup" /\ Phase(r)' = "first"
      BY <1>1, <2>4 DEF EnterBarrier, Phase
    <3> QED
      BY <2>1, <2>2, <3>1, VisibleMove
         DEF Method!Next, Method!Rank, Method!EnterFirst, Method!Ranks
  <2>5. CASE pc[r] = "end"
    <3>1. Phase(r) = "timed" /\ Phase(r)' = "second"
      BY <1>1, <2>5, CountAssumption DEF EnterBarrier, Phase
    <3>2. Completed(r) = Iterations
      BY <2>5, CountAssumption DEF Completed
    <3> QED
      BY <2>1, <2>2, <3>1, <3>2, VisibleMove
         DEF Method!Next, Method!Rank, Method!EnterSecond, Method!Ranks, Completed
  <2> QED
    BY <1>1, <2>3, <2>4, <2>5 DEF EnterBarrier
<1>2. CASE LeaveBarrier(r)
  <2>1. \A q \in Ranks : Completed(q)' = Completed(q)
    BY <1>2 DEF LeaveBarrier, Completed
  <2>2. \A q \in Ranks \ {r} : Phase(q)' = Phase(q)
    BY <1>2 DEF LeaveBarrier, Phase
  <2>3. CASE pc[r] = "barrier0"
    BY <1>2, <2>1, <2>2, <2>3, HiddenStep DEF LeaveBarrier, Phase
  <2>4. CASE pc[r] = "barrier1"
    <3>1. Phase(r) = "first" /\ Phase(r)' = "timed"
      BY <1>2, <2>4, CountAssumption DEF LeaveBarrier, Phase
    <3>2. Phase(Other(r)) # "warmup"
      <4> DEFINE q == Other(r)
      <4>1. q \in Ranks
        BY DEF Other
      <4>2. barriers[r] = Extra + 1 /\ Extra \in {0, 1}
        BY <2>4 DEF BarrierCount, Extra
      <4>3. BarrierCount(q) >= Extra + 1
        BY <1>2, <4>1, <4>2 DEF LeaveBarrier, MayLeave
      <4> HIDE DEF q
      <4>4. /\ pc[q] \notin {"enter", "barrier0", "init", "warm"}
            /\ pc[q] \in InEpoch => epoch[q] # 0
        BY <4>2, <4>3 DEF BarrierCount
      <4>5. Phase(q) # "warmup"
        BY <4>1, <4>4, CountAssumption DEF Phase
      <4> QED
        BY <4>5 DEF q
    <3> QED
      BY <2>1, <2>2, <3>1, <3>2, VisibleMove
         DEF Method!Next, Method!Rank, Method!LeaveFirst, Method!Ranks,
             Method!Other, Other
  <2>5. CASE pc[r] = "barrier2"
    <3>1. Phase(r) = "second" /\ Phase(r)' = "done"
      BY <1>2, <2>5 DEF LeaveBarrier, Phase
    <3>2. Phase(Other(r)) \in {"second", "done"}
      BY <1>2, <2>5 DEF LeaveBarrier, MayLeave, BarrierCount, Extra, Phase, Other
    <3> QED
      BY <2>1, <2>2, <3>1, <3>2, VisibleMove
         DEF Method!Next, Method!Rank, Method!LeaveSecond, Method!Ranks,
             Method!Other, Other
  <2> QED
    BY <1>2, <2>3, <2>4, <2>5 DEF LeaveBarrier
<1>3. CASE (r = 0 /\ SendWait) \/ (r = 1 /\ RecvWait)
  <2>1. /\ pc[r] = "wait" /\ epoch[r] \in 0..Iterations
        /\ epoch' = [epoch EXCEPT ![r] = @ + 1]
        /\ pc' = [pc EXCEPT ![r] = AfterEpoch(r)]
    BY <1>3 DEF SendWait, RecvWait
  <2>2. \A q \in Ranks \ {r} : Phase(q)' = Phase(q) /\ Completed(q)' = Completed(q)
    BY <2>1 DEF Phase, Completed
  <2>3. Phase(r)' = Phase(r)
    BY <2>1 DEF Phase, AfterEpoch
  <2>4. CASE epoch[r] = 0
    <3>1. Completed(r)' = Completed(r)
      BY <2>1, <2>4 DEF Completed
    <3> QED
      BY <2>2, <2>3, <3>1, HiddenStep
  <2>5. CASE epoch[r] # 0
    <3>1. Phase(r) = "timed" /\ Completed(r) < Iterations /\ Completed(r)' = Completed(r) + 1
      BY <2>1, <2>5, CountAssumption, SMTT(20) DEF Phase, Completed
    <3>2. PhaseBar' = PhaseBar
      BY <2>2, <2>3 DEF PhaseBar
    <3>3. IterBar' = [IterBar EXCEPT ![r] = @ + 1]
      BY <2>2, <3>1 DEF IterBar
    <3> QED
      BY <3>1, <3>2, <3>3
         DEF Method!Next, Method!Rank, Method!Iterate, Method!Ranks, PhaseBar,
             IterBar, Completed
  <2> QED
    BY <2>4, <2>5
<1>4. CASE \/ InitRequest(r) \/ FreeRequest(r)
           \/ r = 0 /\ (SendStart \/ Join)
           \/ r = 1 /\ (RecvStart \/ GetStatus \/ Parrived)
  <2>1. \A q \in Ranks : Phase(q)' = Phase(q) /\ Completed(q)' = Completed(q)
    BY <1>4 DEF InitRequest, FreeRequest, SendStart, Join, RecvStart,
                GetStatus, Parrived, Phase, Completed
  <2> QED
    BY <2>1, HiddenStep
<1> QED
  BY <1>1, <1>2, <1>3, <1>4 DEF Rank

(* Safety of the refinement, for any number of threads, partitions and     *)
(* iterations: the two barriers of the partitioned methods keep the timed  *)
(* iterations of a rank apart from the warm-up of the other one, and a     *)
(* rank is done only after the last iteration of both.                     *)
THEOREM ImplementsRunMethod == Spec => Method!Init /\ [][Method!Next]_(Method!vars)
<1>1. Init => Method!Init
  BY DEF Init, Method!Init, Phase, Ranks, Method!Ranks
<1>2. ControlInv /\ ControlInv' /\ [Next]_vars => [Method!Next]_(Method!vars)
  <2> SUFFICES ASSUME ControlInv, ControlInv', [Next]_vars
               PROVE  [Method!Next]_(Method!vars)
    OBVIOUS
  <2>1. CASE \E r \in Ranks : Rank(r)
    BY <2>1, RankImplements
  <2>2. CASE (\E t \in AllThreads : Thread(t)) \/ Mpi \/ UNCHANGED vars
    <3>1. UNCHANGED <<test, pc, epoch, barriers>>
      BY <2>2, OthersStutter
    <3> QED
      BY <3>1, HiddenStep DEF Phase, Completed
  <2> QED
    BY <2>1, <2>2 DEF Next
<1> QED
  BY <1>1, <1>2, Invariance, PTL DEF Spec

-------------------------------------------------------------------------------
(* The buffer of rank 1, for every team.                                   *)

LEMMA DivMod ==
  ASSUME NEW m \in Nat, NEW g \in Nat \ {0}
  PROVE  /\ m \div g \in Nat /\ m % g \in 0 .. g - 1
         /\ m = g * (m \div g) + (m % g)
OBVIOUS

\* Rounding up a division.
LEMMA CeilBounds ==
  ASSUME NEW n \in Nat \ {0}, NEW t \in Nat \ {0}
  PROVE  LET c == (n + t - 1) \div t IN c \in 1..n /\ c * t >= n
<1> DEFINE x == n + t - 1
           c == x \div t
<1>1. x \in Nat
  OBVIOUS
<1>2. c \in Nat /\ x % t \in 0 .. t - 1 /\ x = t * c + (x % t)
  <2> HIDE DEF x
  <2> QED
    BY <1>1, DivMod
<1>3. t * c = c * t /\ c * t \in Nat
  BY <1>2
<1> HIDE DEF c
<1>4. c * t >= n /\ c * t <= n + t - 1
  BY <1>2, <1>3
<1>5. c # 0
  BY <1>4
<1>6. c <= n
  <2> SUFFICES ASSUME c >= n + 1 PROVE FALSE
    BY <1>2
  <2> DEFINE d == c - (n + 1)
  <2>1. d \in Nat /\ c = d + n + 1
    BY <1>2
  <2> HIDE DEF d
  <2>2. c * t = d * t + n * t + t
    BY <2>1
  <2>3. d * t \in Nat /\ n * t >= n
    BY <2>1
  <2> QED
    BY <1>4, <2>2, <2>3
<1> QED
  BY <1>2, <1>4, <1>5, <1>6 DEF c

LEMMA TeamTypes ==
  ASSUME test \in Tests
  PROVE  /\ Threads \in Nat \ {0} /\ mode \in AllModes
         /\ PerThread \in 1..PartitionCount
         /\ PerThread * Threads >= PartitionCount
         /\ Active \subseteq Team /\ Steps \in 1..PartitionCount
         /\ PartitionCount \in Nat \ {0} /\ RecvCount \in Nat \ {0}
         /\ Iterations \in Nat
<1>1. Threads \in Nat \ {0} /\ mode \in AllModes
  BY TestsAssumption DEF Threads, mode
<1>2. PerThread \in 1..PartitionCount /\ PerThread * Threads >= PartitionCount
  BY <1>1, CountAssumption, CeilBounds DEF PerThread
<1> QED
  BY <1>1, <1>2, CountAssumption DEF Active, Steps, Team

LEMMA InitBase == Init => IInv
<1> SUFFICES ASSUME Init PROVE IInv
  OBVIOUS
<1>1. test \in Tests
  BY DEF Init
<1>2. TypeOK
  <2>1. pc \in [Ranks -> {"enter", "init"}]
    BY DEF Init
  <2>2. next \in [Team -> 0..PartitionCount] /\ probe \in 0 .. RecvCount - 1
    BY <1>1, TeamTypes DEF Init
  <2>3. /\ epoch \in [Ranks -> 0 .. Iterations + 1] /\ barriers \in [Ranks -> 0..3]
    BY <1>1, TeamTypes DEF Init
  <2> QED
    BY <1>1, <2>1, <2>2, <2>3 DEF Init, TypeOK
<1>3. RequestInv /\ RecvInv
  BY <1>1 DEF Init, RequestInv, RequestAt, RecvInv, PollEndsComplete, Nothing, Ranks
<1> QED
  BY <1>2, <1>3, InitControl DEF IInv

\* What a rank does to its request, and rank 1 to its buffer.
LEMMA RankBase ==
  ASSUME IInv, NEW r \in Ranks, Rank(r)
  PROVE  RequestInv' /\ RecvInv'
<1> USE DEF IInv, ControlInv, InEpoch, EpochsAt, RequestInv, RequestAt, RecvInv,
            PollEndsComplete, Polls, Complete, mode, Ranks, At, Goto, team, net
<1>0. /\ request \in [Ranks -> {"none", "inactive", "active", "freed"}]
      /\ epoch[0] \in Nat /\ epoch[1] \in Nat
  BY DEF TypeOK
<1>1. CASE InitRequest(r)
  BY <1>0, <1>1, CountAssumption DEF InitRequest
<1>2. CASE EnterBarrier(r)
  BY <1>0, <1>2, CountAssumption DEF EnterBarrier
<1>3. CASE LeaveBarrier(r)
  BY <1>0, <1>3, CountAssumption DEF LeaveBarrier
<1>4. CASE FreeRequest(r)
  BY <1>0, <1>4, CountAssumption DEF FreeRequest
<1>5. CASE r = 0 /\ SendStart
  BY <1>0, <1>5, CountAssumption DEF SendStart
<1>6. CASE r = 0 /\ Join
  BY <1>0, <1>6, CountAssumption DEF Join
<1>7. CASE r = 0 /\ SendWait
  BY <1>0, <1>7, CountAssumption DEF SendWait, AfterEpoch
<1>8. CASE r = 1 /\ RecvStart
  BY <1>0, <1>8, CountAssumption DEF RecvStart
<1>9. CASE r = 1 /\ GetStatus
  BY <1>0, <1>9, CountAssumption DEF GetStatus
<1>10. CASE r = 1 /\ Parrived
  BY <1>0, <1>10, CountAssumption DEF Parrived
<1>11. CASE r = 1 /\ RecvWait
  BY <1>0, <1>11, CountAssumption DEF RecvWait, AfterEpoch
<1> QED
  BY <1>1, <1>2, <1>3, <1>4, <1>5, <1>6, <1>7, <1>8, <1>9, <1>10, <1>11
     DEF Rank

LEMMA RankTypes ==
  ASSUME IInv, ControlInv', NEW r \in Ranks, Rank(r)
  PROVE  TypeOK'
<1>1. TypeOK /\ test \in Tests /\ test' = test
  BY DEF IInv, TypeOK, Rank, InitRequest, EnterBarrier, LeaveBarrier,
         FreeRequest, SendStart, Join, SendWait, RecvStart, GetStatus, Parrived,
         RecvWait
<1>2. /\ pc' \in [Ranks -> {"enter", "barrier0", "init", "start", "region", "poll",
                            "parrived", "wait", "warm", "barrier1", "end",
                            "barrier2", "free", "done"}]
      /\ epoch' \in [Ranks -> 0 .. Iterations + 1]
      /\ barriers' \in [Ranks -> 0..3]
  <2>1. \A q \in Ranks : epoch'[q] \in 0 .. Iterations + 1 /\ barriers'[q] \in 0..3
    BY CountAssumption DEF ControlInv, EpochsAt, BarrierCount, Extra
  <2> QED
    BY <2>1 DEF ControlInv, InEpoch
<1>3. request' \in [Ranks -> {"none", "inactive", "active", "freed"}]
  BY <1>1 DEF TypeOK, Rank, InitRequest, EnterBarrier, LeaveBarrier,
         FreeRequest, SendStart, Join, SendWait, RecvStart, GetStatus, Parrived,
         RecvWait
<1>4. /\ wire' = wire /\ buffer' = buffer
      /\ taken' \in {taken, {}} /\ arrived' \in {arrived, {}}
      /\ next' = next \/ next' = [t \in Team |-> 0]
      /\ ready' = ready \/ ready' = [p \in Partitions |-> 0]
      /\ probe' \in {probe, 0, (probe + 1) % RecvCount}
      /\ \/ misuse' = misuse \/ misuse' = (misuse \/ request[r] # "inactive")
         \/ misuse' = (misuse \/ request[1] # "active")
  BY DEF Rank, InitRequest, EnterBarrier, LeaveBarrier,
         FreeRequest, SendStart, Join, SendWait, RecvStart, GetStatus, Parrived,
         RecvWait, team, net
<1>5. probe' \in 0 .. RecvCount - 1
  <2>1. probe + 1 \in Nat /\ RecvCount \in Nat \ {0}
    BY <1>1, CountAssumption DEF TypeOK
  <2>2. (probe + 1) % RecvCount \in 0 .. RecvCount - 1
    BY <2>1, DivMod
  <2> QED
    BY <1>1, <1>4, <2>1, <2>2 DEF TypeOK
<1>6. Team' = Team /\ 0 \in 0..PartitionCount
  BY <1>1, CountAssumption DEF Team, Threads
<1>7. next' \in [Team -> 0..PartitionCount] /\ ready' \in [Partitions -> Nat]
  BY <1>1, <1>4, <1>6 DEF TypeOK
<1> QED
  BY <1>1, <1>2, <1>3, <1>4, <1>5, <1>6, <1>7 DEF TypeOK

\* What a step of a thread does to the team's part of the state.
LEMMA ThreadTypes ==
  ASSUME IInv, NEW t, Thread(t)
  PROVE  TypeOK'
<1>1. /\ UNCHANGED <<test, pc, epoch, barriers, request, taken, wire, arrived,
                     buffer, probe>>
      /\ InLoop(t)
  BY DEF Thread, WarmupInOrder, WarmupList, PsendMark, ListMark, ParrivedMark,
         ProgressMark, CustomMark, Advance, net
<1>2. t \in Team /\ next[t] \in 0..PartitionCount /\ Steps \in 1..PartitionCount
      /\ Team' = Team
  BY <1>1, TeamTypes DEF InLoop, IInv, TypeOK, Team, Threads
<1>3. next' = [next EXCEPT ![t] = next[t] + 1] \/ next' = [next EXCEPT ![t] = Steps]
  BY DEF Thread, WarmupInOrder, WarmupList, PsendMark, ListMark, ParrivedMark,
         ProgressMark, CustomMark, Advance
<1>4. next' \in [Team -> 0..PartitionCount]
  BY <1>1, <1>2, <1>3, CountAssumption DEF InLoop, IInv, TypeOK
<1>5. \/ UNCHANGED <<ready, misuse>>
      \/ \E S : Pready(S)
  BY DEF Thread, WarmupInOrder, WarmupList, PsendMark, ListMark, ParrivedMark,
         ProgressMark, CustomMark
<1>6. ready' \in [Partitions -> Nat] /\ misuse' \in BOOLEAN
  <2>1. CASE UNCHANGED <<ready, misuse>>
    BY <2>1 DEF IInv, TypeOK
  <2>2. CASE \E S : Pready(S)
    <3>1. PICK S : Pready(S)
      BY <2>2
    <3>2. misuse' \in BOOLEAN
      BY <3>1, Zenon DEF Pready
    <3>3. ready' \in [Partitions -> Nat]
      BY <3>1 DEF Pready, IInv, TypeOK
    <3> QED
      BY <3>2, <3>3
  <2> QED
    BY <1>5, <2>1, <2>2
<1> QED
  BY <1>1, <1>2, <1>4, <1>6 DEF IInv, TypeOK

LEMMA MpiBase ==
  ASSUME IInv, Mpi
  PROVE  TypeOK' /\ RecvInv'
<1>1. PICK p \in Partitions : Take(p) \/ Deliver(p)
  BY DEF Mpi
<1>2. CASE Take(p)
  <2>1. epoch[0] \in Epochs
    BY <1>2, CountAssumption
       DEF Take, IInv, RequestInv, RequestAt, ControlInv, EpochsAt, InEpoch,
           Ranks, Epochs
  <2>2. TypeOK'
    BY <1>2, <2>1 DEF Take, IInv, TypeOK, team, Team, Threads
  <2>3. RecvInv'
    BY <1>2 DEF Take, IInv, RecvInv, Polls, PollEndsComplete, Complete, mode
  <2> QED
    BY <2>2, <2>3
<1>3. CASE Deliver(p)
  <2>1. epoch[1] \in Epochs
    BY <1>3, CountAssumption
       DEF Deliver, IInv, RequestInv, RequestAt, ControlInv, EpochsAt, InEpoch,
           Ranks, Epochs
  <2>2. TypeOK'
    BY <1>3, <2>1 DEF Deliver, IInv, TypeOK, team, Team, Threads
  <2>3. RecvInv'
    BY <1>1, <1>3 DEF Deliver, IInv, TypeOK, RecvInv, Polls, PollEndsComplete,
                      Complete, mode
  <2> QED
    BY <2>2, <2>3
<1> QED
  BY <1>1, <1>2, <1>3

LEMMA NextBase == IInv /\ ControlInv' /\ [Next]_vars => IInv'
<1> SUFFICES ASSUME IInv, ControlInv', [Next]_vars PROVE IInv'
  OBVIOUS
<1>1. CASE \E r \in Ranks : Rank(r)
  BY <1>1, RankBase, RankTypes DEF IInv
<1>2. CASE \E t \in AllThreads : Thread(t)
  <2>1. PICK t \in AllThreads : Thread(t)
    BY <1>2
  <2>2. TypeOK'
    BY <2>1, ThreadTypes
  <2>3. UNCHANGED <<test, pc, epoch, barriers, request, taken, wire, arrived,
                    buffer, probe>>
    BY <2>1 DEF Thread, WarmupInOrder, WarmupList, PsendMark, ListMark,
                ParrivedMark, ProgressMark, CustomMark, Advance, net
  <2>4. RequestInv' /\ RecvInv'
    BY <2>3 DEF IInv, RequestInv, RequestAt, RecvInv, Polls, PollEndsComplete,
                Complete, mode
  <2> QED
    BY <2>2, <2>4 DEF IInv
<1>3. CASE Mpi
  <2>1. UNCHANGED <<pc, request>>
    BY <1>3 DEF Mpi, Take, Deliver
  <2> QED
    BY <1>3, <2>1, MpiBase DEF IInv, RequestInv, RequestAt
<1>4. CASE UNCHANGED vars
  BY <1>4 DEF vars, team, net, IInv, TypeOK, RequestInv, RequestAt, RecvInv,
              Polls, PollEndsComplete, Complete, mode, Team, Threads
<1> QED
  BY <1>1, <1>2, <1>3, <1>4 DEF Next

(* What the request of a rank is and what rank 1's buffer holds, whatever  *)
(* the team is.                                                            *)
THEOREM BufferInvariance == Spec => []IInv
BY InitBase, NextBase, Invariance, PTL DEF Spec

THEOREM TypeCorrect == Spec => []TypeOK
<1>1. IInv => TypeOK
  BY DEF IInv
<1> QED
  BY <1>1, BufferInvariance, PTL

(* When rank 1 stops polling all the data is there, in both methods that   *)
(* poll (bench_psend_parrived.c:102, bench_psend_progress.c:140).          *)
THEOREM PollsToTheEnd == Spec => []PollEndsComplete
<1>1. IInv => PollEndsComplete
  BY DEF IInv, RecvInv
<1> QED
  BY <1>1, BufferInvariance, PTL

(* What rank 1 compares between its epochs is the last epoch and nothing   *)
(* else (bench.c:135), although rank 0 may be sending the next one.        *)
THEOREM BufferIsOfEpoch == Spec => []BufferOfEpoch
<1>1. IInv => BufferOfEpoch
  BY DEF IInv, RecvInv, BufferOfEpoch
<1> QED
  BY <1>1, BufferInvariance, PTL

-------------------------------------------------------------------------------
(* What the team marks.                                                    *)

\* Slices do not overlap.
LEMMA NextSlice ==
  ASSUME NEW a \in Nat, NEW b \in Nat, NEW c \in Nat, a < b
  PROVE  a * c + c <= b * c
<1> DEFINE d == b - a - 1
<1>1. d \in Nat /\ b = a + d + 1
  OBVIOUS
<1> HIDE DEF d
<1>2. b * c = a * c + d * c + c
  BY <1>1
<1>3. d * c \in Nat /\ a * c \in Nat
  BY <1>1
<1> QED
  BY <1>2, <1>3

LEMMA IndexTypes ==
  ASSUME test \in Tests, NEW t \in Active, NEW k \in Nat
  PROVE  /\ Index(t, k) \in Nat /\ t \in Nat /\ Index(t, k) >= k
         /\ Sequential => t = 0 /\ Index(t, k) = k
<1>1. t \in Nat /\ PerThread \in Nat /\ (Sequential => t = 0)
  BY TeamTypes DEF Active, Team
<1>2. t * PerThread \in Nat /\ (t = 0 => t * PerThread = 0)
  BY <1>1
<1> QED
  BY <1>1, <1>2 DEF Index

\* No index belongs to two steps of the team.
LEMMA IndexInjective ==
  ASSUME test \in Tests, NEW t \in Active, NEW u \in Active,
         NEW j \in 0 .. Steps - 1, NEW k \in 0 .. Steps - 1,
         Index(t, j) = Index(u, k)
  PROVE  t = u /\ j = k
<1>1. CASE Sequential
  BY <1>1, IndexTypes
<1>2. CASE ~Sequential
  <2>1. /\ t \in Nat /\ u \in Nat /\ PerThread \in Nat
        /\ j \in 0 .. PerThread - 1 /\ k \in 0 .. PerThread - 1
    BY <1>2, TeamTypes, IndexTypes DEF Steps
  <2>2. t * PerThread \in Nat /\ u * PerThread \in Nat
    BY <2>1
  <2>3. ~(t < u)
    <3> SUFFICES ASSUME t < u PROVE FALSE
      OBVIOUS
    <3>1. t * PerThread + PerThread <= u * PerThread
      BY <2>1, NextSlice
    <3> QED
      BY <2>1, <2>2, <3>1 DEF Index
  <2>4. ~(u < t)
    <3> SUFFICES ASSUME u < t PROVE FALSE
      OBVIOUS
    <3>1. u * PerThread + PerThread <= t * PerThread
      BY <2>1, NextSlice
    <3> QED
      BY <2>1, <2>2, <3>1 DEF Index
  <2>5. t = u
    BY <2>1, <2>3, <2>4
  <2> QED
    BY <2>1, <2>2, <2>5 DEF Index
<1> QED
  BY <1>1, <1>2

\* Where the slices are even none of them is behind the last partition.
LEMMA IndexInside ==
  ASSUME test \in Tests, TeamsAreEven, mode # "Psend",
         NEW t \in Active, NEW k \in 0 .. Steps - 1
  PROVE  Index(t, k) \in Partitions
<1>1. CASE Sequential
  BY <1>1, IndexTypes, CountAssumption DEF Steps, Partitions
<1>2. CASE ~Sequential
  <2>1. /\ t \in Nat /\ t < Threads /\ Threads \in Nat /\ PerThread \in Nat
        /\ k \in 0 .. PerThread - 1
    BY <1>2, TeamTypes DEF Active, Team, Steps
  <2>2. PerThread * Threads = PartitionCount
    BY <1>2 DEF TeamsAreEven, Divides, Sequential, mode, PerThread, Threads
  <2>3. t * PerThread + PerThread <= Threads * PerThread
    BY <2>1, NextSlice
  <2>4. Threads * PerThread = PerThread * Threads /\ t * PerThread \in Nat
    BY <2>1
  <2> QED
    BY <2>1, <2>2, <2>3, <2>4 DEF Index, Partitions
<1> QED
  BY <1>1, <1>2

LEMMA MarkInjective ==
  ASSUME NEW i \in Partitions, NEW k \in Partitions
  PROVE  Mark(i) \in Partitions /\ (Mark(i) = Mark(k) => i = k)
BY PatternAssumption DEF Mark

\* What thread t marks when it goes from its step next[t] on to step m.
Slice(t, m) ==
  {p \in Partitions :
     \E k \in next[t] .. m - 1 :
       Index(t, k) < PartitionCount /\ p = Mark(Index(t, k))}

\* A thread that marks this marks nothing twice.
LEMMA MarkStep ==
  ASSUME IInv, MarkInv, NEW t, InLoop(t), NEW m \in 1..Steps, next[t] < m,
         mode = "PsendList" => m = Steps,
         next' = [next EXCEPT ![t] = m], UNCHANGED <<test, pc, epoch>>,
         \/ Pready(Slice(t, m))
         \/ Slice(t, m) = {} /\ UNCHANGED <<ready, misuse>>
  PROVE  MarkInv'
<1>1. /\ pc[0] = "region" /\ pc' = pc /\ t \in Active /\ t \in Team
      /\ test \in Tests /\ test' = test /\ epoch' = epoch
      /\ \A u \in Active : u \in Team /\ next[u] \in 0..Steps
      /\ Steps \in 1..PartitionCount
      /\ next \in [Team -> 0..PartitionCount]
      /\ PartitionCount \in Nat
  <2>1. /\ test \in Tests /\ next \in [Team -> 0..PartitionCount]
        /\ pc[0] = "region" /\ t \in Active
    BY DEF InLoop, At, IInv, TypeOK
  <2>2. /\ Active \subseteq Team /\ Steps \in 1..PartitionCount
        /\ PartitionCount \in Nat
    BY <2>1, TeamTypes
  <2>3. \A u \in Active : next[u] \in 0..Steps
    BY <2>1, <2>2 DEF MarkInv
  <2> QED
    BY <2>1, <2>2, <2>3
<1>2. Active' = Active /\ Steps' = Steps /\ mode' = mode
  BY <1>1 DEF Active, Steps, Sequential, mode, Team, Threads, PerThread
<1>3. \A i, u : Mark(i)' = Mark(i) /\ Index(u, i)' = Index(u, i)
  BY <1>1, <1>2 DEF Mark, mode, Index, PerThread, Threads
<1>4. \A u \in Active : next'[u] = IF u = t THEN m ELSE next[u]
  BY <1>1
<1>5. Marked' = Marked \cup Slice(t, m)
  <2>1. \A p \in Partitions : p \in Marked' <=> p \in Marked \cup Slice(t, m)
    <3> TAKE p \in Partitions
    <3>1. ASSUME NEW u \in Active, NEW k \in 0 .. next'[u] - 1,
                 Index(u, k) < PartitionCount, p = Mark(Index(u, k))
          PROVE  p \in Marked \cup Slice(t, m)
      <4>1. CASE u = t /\ k >= next[t]
        <5>1. k \in next[t] .. m - 1
          BY <1>1, <1>4, <3>1, <4>1
        <5> QED
          BY <3>1, <4>1, <5>1 DEF Slice
      <4>2. CASE ~(u = t /\ k >= next[t])
        <5>1. k \in 0 .. next[u] - 1
          BY <1>1, <1>4, <3>1, <4>2
        <5> QED
          BY <3>1, <5>1 DEF Marked
      <4> QED
        BY <4>1, <4>2
    <3>2. ASSUME p \in Marked PROVE p \in Marked'
      <4>1. PICK u \in Active : \E k \in 0 .. next[u] - 1 :
              Index(u, k) < PartitionCount /\ p = Mark(Index(u, k))
        BY <3>2 DEF Marked
      <4>2. PICK k \in 0 .. next[u] - 1 :
              Index(u, k) < PartitionCount /\ p = Mark(Index(u, k))
        BY <4>1
      <4>3. k \in 0 .. next'[u] - 1
        BY <1>1, <1>4, <4>1
      <4> QED
        BY <1>2, <1>3, <4>2, <4>3 DEF Marked
    <3>3. ASSUME p \in Slice(t, m) PROVE p \in Marked'
      <4>1. PICK k \in next[t] .. m - 1 :
              Index(t, k) < PartitionCount /\ p = Mark(Index(t, k))
        BY <3>3 DEF Slice
      <4>2. k \in 0 .. next'[t] - 1
        BY <1>1, <1>4, <4>1
      <4> QED
        BY <1>1, <1>2, <1>3, <4>1, <4>2 DEF Marked
    <3>4. p \in Marked' => p \in Marked \cup Slice(t, m)
      BY <1>2, <1>3, <3>1 DEF Marked
    <3> QED
      BY <3>2, <3>3, <3>4
  <2> QED
    BY <2>1 DEF Marked, Slice, Partitions
<1>6. ASSUME NEW p \in Slice(t, m) PROVE p \notin Marked
  <2> SUFFICES ASSUME p \in Marked PROVE FALSE
    OBVIOUS
  <2>1. PICK k \in next[t] .. m - 1 :
          Index(t, k) < PartitionCount /\ p = Mark(Index(t, k))
    BY <1>6 DEF Slice
  <2>2. PICK u \in Active : \E j \in 0 .. next[u] - 1 :
          Index(u, j) < PartitionCount /\ p = Mark(Index(u, j))
    BY DEF Marked
  <2>3. PICK j \in 0 .. next[u] - 1 :
          Index(u, j) < PartitionCount /\ p = Mark(Index(u, j))
    BY <2>2
  <2>4. k \in 0 .. Steps - 1 /\ j \in 0 .. Steps - 1
    BY <1>1, <2>1, <2>3
  <2>5. Index(t, k) \in Partitions /\ Index(u, j) \in Partitions
    BY <1>1, <2>1, <2>3, <2>4, IndexTypes DEF Partitions
  <2>6. Index(t, k) = Index(u, j)
    BY <2>1, <2>3, <2>5, MarkInjective
  <2>7. t = u /\ k = j
    BY <1>1, <2>4, <2>6, IndexInjective
  <2> QED
    BY <1>1, <2>1, <2>3, <2>7
<1>7. /\ \A p \in Partitions : ready[p] = IF p \in Marked THEN 1 ELSE 0
      /\ request[0] = "active" /\ ~misuse
      /\ \A u \in Active :
           next[u] \in IF mode = "PsendList" THEN {0, Steps} ELSE 0..Steps
  BY <1>1 DEF MarkInv, MpiUsedCorrectly, IInv, RequestInv, RequestAt, Ranks
<1>8. /\ ~misuse'
      /\ \A p \in Partitions :
           ready'[p] = IF p \in Marked \cup Slice(t, m) THEN 1 ELSE 0
  <2>1. CASE Pready(Slice(t, m))
    BY <1>6, <1>7, <2>1 DEF Pready, Slice
  <2>2. CASE Slice(t, m) = {} /\ UNCHANGED <<ready, misuse>>
    BY <1>7, <2>2
  <2> QED
    BY <2>1, <2>2
<1> QED
  BY <1>1, <1>2, <1>4, <1>5, <1>7, <1>8 DEF MarkInv, MpiUsedCorrectly

\* Every step of a thread is such a step.
LEMMA ThreadMarks ==
  ASSUME IInv, MarkInv, TeamsAreEven, NEW t, Thread(t)
  PROVE  MarkInv'
<1> DEFINE k == next[t]
<1>1. /\ InLoop(t) /\ t \in Active /\ k \in Nat /\ k < Steps
      /\ Steps \in 1..PartitionCount /\ PartitionCount \in Nat
      /\ test \in Tests /\ mode \in AllModes
      /\ mode = "PsendList" => k = 0
      /\ k + 1 \in 1..Steps /\ Steps \in 1..Steps
  <2>1. InLoop(t) /\ test \in Tests /\ t \in Active /\ k < Steps /\ pc[0] = "region"
    BY DEF Thread, WarmupInOrder, WarmupList, PsendMark, ListMark,
           ParrivedMark, ProgressMark, CustomMark, InLoop, At, IInv, TypeOK
  <2>2. /\ Steps \in 1..PartitionCount /\ PartitionCount \in Nat
        /\ mode \in AllModes
    BY <2>1, TeamTypes
  <2>3. k \in IF mode = "PsendList" THEN {0, Steps} ELSE 0..Steps
    BY <2>1 DEF MarkInv
  <2> QED
    BY <2>1, <2>2, <2>3
<1>2. UNCHANGED <<test, pc, epoch>>
  BY DEF Thread, WarmupInOrder, WarmupList, PsendMark, ListMark,
         ParrivedMark, ProgressMark, CustomMark, Advance
<1>3. mode # "PsendList" /\ Index(t, k) < PartitionCount =>
        Slice(t, k + 1) = {Mark(Index(t, k))}
  <2> SUFFICES ASSUME Index(t, k) < PartitionCount
               PROVE  Slice(t, k + 1) = {Mark(Index(t, k))}
    OBVIOUS
  <2>1. Index(t, k) \in Partitions
    BY <1>1, IndexTypes DEF Partitions
  <2>2. Mark(Index(t, k)) \in Partitions
    BY <2>1, MarkInjective
  <2>3. k .. (k + 1) - 1 = {k}
    BY <1>1
  <2> QED
    BY <2>2, <2>3 DEF Slice
<1>one. ASSUME mode # "PsendList", Index(t, k) < PartitionCount,
               Pready({Mark(Index(t, k))}), next' = [next EXCEPT ![t] = k + 1]
        PROVE  MarkInv'
  <2> DEFINE m == k + 1
  <2>1. m \in 1..Steps /\ next[t] < m
    BY <1>1
  <2>2. Pready(Slice(t, m)) /\ next' = [next EXCEPT ![t] = m]
    BY <1>3, <1>one
  <2> HIDE DEF m
  <2> QED
    BY <1>1, <1>2, <1>one, <2>1, <2>2, MarkStep
<1>4. CASE WarmupInOrder(t)
  <2>1. /\ Sequential /\ Index(t, k) = k /\ k < PartitionCount
        /\ Mark(Index(t, k)) = k /\ mode # "PsendList"
    BY <1>1, <1>4, IndexTypes DEF WarmupInOrder, Sequential, Mark, Steps
  <2>2. Pready({Mark(Index(t, k))}) /\ next' = [next EXCEPT ![t] = k + 1]
    BY <1>4, <2>1 DEF WarmupInOrder, Advance
  <2> QED
    BY <1>one, <2>1, <2>2
<1>5. CASE WarmupList(t)
  <2>1. /\ Sequential /\ k = 0 /\ mode = "PsendList" /\ epoch[0] = 0
        /\ Steps = PartitionCount
    BY <1>1, <1>5 DEF WarmupList, Sequential, Steps
  <2>2. \A i \in 0 .. Steps - 1 :
          i \in Partitions /\ Index(t, i) = i /\ Mark(i) = SendPattern[i]
    BY <1>1, <2>1, IndexTypes DEF Partitions, Mark
  <2>3. Slice(t, Steps) = {SendPattern[p] : p \in Partitions}
    BY <1>1, <2>1, <2>2, PatternAssumption DEF Slice, Partitions
  <2>4. Pready(Slice(t, Steps)) /\ next' = [next EXCEPT ![t] = Steps]
    BY <1>5, <2>3 DEF WarmupList, Advance
  <2> QED
    BY <1>1, <1>2, <2>4, MarkStep
<1>6. CASE PsendMark(t)
  <2>1. mode = "Psend" /\ \A i : Mark(i) = SendPattern[i]
    BY <1>6 DEF PsendMark, Mark
  <2>2. CASE Index(t, k) < PartitionCount
    <3>1. Index(t, k) \in Nat
      BY <1>1, IndexTypes
    <3>2. ~(Index(t, k) >= PartitionCount)
      BY <1>1, <2>2, <3>1
    <3>3. Pready({SendPattern[Index(t, k)]}) /\ next' = [next EXCEPT ![t] = k + 1]
      BY <1>6, <3>2 DEF PsendMark, Advance
    <3> QED
      BY <1>one, <2>1, <2>2, <3>3
  <2>3. CASE ~(Index(t, k) < PartitionCount)
    <3>1. Slice(t, Steps) = {}
      <4> SUFFICES ASSUME NEW i \in k .. Steps - 1 PROVE ~(Index(t, i) < PartitionCount)
        BY DEF Slice
      <4>1. t * PerThread \in Nat /\ i \in Nat /\ i >= k
        BY <1>1, IndexTypes, TeamTypes
      <4> QED
        BY <1>1, <2>3, <4>1 DEF Index
    <3>2. UNCHANGED <<ready, misuse>> /\ next' = [next EXCEPT ![t] = Steps]
      BY <1>6, <2>3 DEF PsendMark, Advance
    <3> QED
      BY <1>1, <1>2, <3>1, <3>2, MarkStep
  <2> QED
    BY <2>2, <2>3
<1>7. CASE ListMark(t)
  <2>1. mode = "PsendList" /\ epoch[0] > 0 /\ k = 0 /\ ~Sequential /\ Steps = PerThread
    BY <1>1, <1>7 DEF ListMark, Sequential, Steps, IInv, TypeOK
  <2>2. \A i \in 0 .. PerThread - 1 :
          Index(t, i) \in Partitions /\ Mark(Index(t, i)) = SendPattern[Index(t, i)]
    BY <1>1, <2>1, IndexInside DEF Mark
  <2> DEFINE slice == {Index(t, p) : p \in 0 .. PerThread - 1}
  <2>3. slice \subseteq Partitions /\ slice \cap Partitions = slice
    BY <2>2
  <2>4. Slice(t, Steps) = {SendPattern[p] : p \in slice}
    BY <1>1, <2>1, <2>2, PatternAssumption DEF Slice, Partitions
  <2>5. PICK other \in UNION {Read(index) : index \in slice} :
          Pready({other} \cup {SendPattern[p] : p \in slice \cap Partitions})
    BY <1>7 DEF ListMark
  <2>6. \A index \in slice : Read(index) = {SendPattern[index]}
    <3> SUFFICES ASSUME NEW index \in Partitions
                 PROVE  Read(index) = {SendPattern[index]}
      BY <2>3
    <3>1. index < PartitionCount
      BY <1>1 DEF Partitions
    <3> QED
      BY <3>1 DEF Read
  <2>7. {other} \cup {SendPattern[p] : p \in slice \cap Partitions} = Slice(t, Steps)
    BY <2>3, <2>4, <2>5, <2>6
  <2>8. next' = [next EXCEPT ![t] = Steps]
    BY <1>7 DEF ListMark, Advance
  <2> QED
    BY <1>1, <1>2, <2>5, <2>7, <2>8, MarkStep
<1>8. CASE ParrivedMark(t) \/ ProgressMark(t)
  <2>1. mode \in {"PsendParrived", "PsendProgress"} /\ epoch[0] > 0
    BY <1>8 DEF ParrivedMark, ProgressMark
  <2>2. Index(t, k) \in Partitions
    BY <1>1, <2>1, IndexInside
  <2>3. Read(Index(t, k)) = {Mark(Index(t, k))} /\ Index(t, k) < PartitionCount
    BY <1>1, <2>1, <2>2 DEF Read, Mark, Partitions, IInv, TypeOK
  <2>4. Pready({Mark(Index(t, k))}) /\ next' = [next EXCEPT ![t] = k + 1]
    BY <1>8, <2>3 DEF ParrivedMark, ProgressMark, Advance
  <2> QED
    BY <1>one, <2>1, <2>3, <2>4
<1>9. CASE CustomMark(t)
  <2>1. /\ mode = "CustomPsend" /\ epoch[0] > 0 /\ Sequential
        /\ Index(t, k) = k /\ k < PartitionCount
    BY <1>1, <1>9, IndexTypes DEF CustomMark, Sequential, Steps
  <2>2. Mark(Index(t, k)) = SendPattern[k]
    BY <2>1 DEF Mark
  <2>3. Pready({Mark(Index(t, k))}) /\ next' = [next EXCEPT ![t] = k + 1]
    BY <1>9, <2>1, <2>2 DEF CustomMark, Advance
  <2> QED
    BY <1>one, <2>1, <2>3
<1> QED
  BY <1>4, <1>5, <1>6, <1>7, <1>8, <1>9 DEF Thread

\* What has been marked depends on rank 0's place and on its team alone.
LEMMA MarkedStays ==
  ASSUME MarkInv, test' = test, epoch'[0] = epoch[0], next' = next,
         ready' = ready, pc'[0] = pc[0], ~misuse'
  PROVE  MarkInv'
<1>1. /\ Active' = Active /\ Steps' = Steps /\ mode' = mode
      /\ \A i, u : Mark(i)' = Mark(i) /\ Index(u, i)' = Index(u, i)
  BY DEF Active, Steps, Sequential, mode, Team, Threads, PerThread, Mark, Index
<1>2. Marked' = Marked
  BY <1>1 DEF Marked
<1> QED
  BY <1>1, <1>2 DEF MarkInv, MpiUsedCorrectly

\* A rank starts its request when it is inactive and frees it likewise; rank 0
\* begins each epoch with nothing marked.
LEMMA RankMarks ==
  ASSUME IInv, MarkInv, NEW r \in Ranks, Rank(r)
  PROVE  MarkInv'
<1>1. /\ ~misuse /\ test' = test /\ test \in Tests
      /\ request[0] = RequestAt(0) /\ request[1] = RequestAt(1)
      /\ pc \in [Ranks -> {"enter", "barrier0", "init", "start", "region", "poll",
                           "parrived", "wait", "warm", "barrier1", "end",
                           "barrier2", "free", "done"}]
      /\ epoch \in [Ranks -> 0 .. Iterations + 1]
  BY DEF Rank, InitRequest, EnterBarrier, LeaveBarrier, FreeRequest, SendStart,
         Join, SendWait, RecvStart, GetStatus, Parrived, RecvWait, MarkInv,
         MpiUsedCorrectly, IInv, TypeOK, RequestInv, Ranks
<1>2. ~misuse'
  BY <1>1 DEF Rank, InitRequest, EnterBarrier, LeaveBarrier, FreeRequest, SendStart,
         Join, SendWait, RecvStart, GetStatus, Parrived, RecvWait, At, RequestAt,
         Ranks
<1>3. CASE r = 1
  <2>1. /\ epoch'[0] = epoch[0] /\ pc'[0] = pc[0] /\ next' = next /\ ready' = ready
    BY <1>1, <1>3
       DEF Rank, InitRequest, EnterBarrier, LeaveBarrier, FreeRequest,
           RecvStart, GetStatus, Parrived, RecvWait, Goto, team, Ranks
  <2> QED
    BY <1>1, <1>2, <2>1, MarkedStays
<1>4. CASE r = 0 /\ SendStart
  <2>1. /\ Team' = Team /\ Active' = Active
        /\ \A u \in Active : next'[u] = 0
        /\ \A p \in Partitions : ready'[p] = 0
        /\ pc'[0] = "region"
    BY <1>1, <1>4, TeamTypes
       DEF SendStart, Team, Threads, Active, Sequential, mode, Goto, Ranks
  <2>2. Steps' \in Nat
    <3>1. Steps' = Steps
      BY <1>1, <1>4 DEF SendStart, Steps, Sequential, mode, PerThread, Threads
    <3> QED
      BY <1>1, <3>1, TeamTypes
  <2>3. Marked' = {}
    BY <2>1 DEF Marked
  <2> QED
    BY <1>2, <2>1, <2>2, <2>3 DEF MarkInv, MpiUsedCorrectly
<1>5. CASE r = 0 /\ Join
  <2>1. /\ Active' = Active /\ Steps' = Steps /\ mode' = mode
        /\ \A i, u : Mark(i)' = Mark(i) /\ Index(u, i)' = Index(u, i)
        /\ next' = next /\ ready' = ready /\ pc[0] = "region"
        /\ \A u \in Active : next[u] = Steps
    BY <1>1, <1>5 DEF Join, At, Active, Steps, Sequential, mode, Team, Threads,
                      PerThread, Mark, Index, team
  <2>2. Marked' = Marked
    BY <2>1 DEF Marked
  <2> QED
    BY <1>2, <2>1, <2>2 DEF MarkInv, MpiUsedCorrectly
<1>6. CASE r = 0 /\ ~SendStart /\ ~Join
  <2>1. pc'[0] \notin {"region", "wait"}
    BY <1>1, <1>6 DEF Rank, InitRequest, EnterBarrier, LeaveBarrier,
       FreeRequest, SendWait, AfterEpoch, Goto, Ranks
  <2> QED
    BY <1>2, <2>1 DEF MarkInv, MpiUsedCorrectly
<1> QED
  BY <1>3, <1>4, <1>5, <1>6 DEF Ranks

LEMMA NextMarks ==
  ASSUME TeamsAreEven, IInv, MarkInv, [Next]_vars
  PROVE  MarkInv'
<1>1. CASE \E r \in Ranks : Rank(r)
  BY <1>1, RankMarks
<1>2. CASE \E t \in AllThreads : Thread(t)
  BY <1>2, ThreadMarks
<1>3. CASE Mpi \/ UNCHANGED vars
  <2>1. UNCHANGED <<test, epoch, next, ready, pc, misuse>>
    BY <1>3 DEF Mpi, Take, Deliver, vars, team
  <2> QED
    BY <2>1, MarkedStays DEF MarkInv, MpiUsedCorrectly
<1> QED
  BY <1>1, <1>2, <1>3 DEF Next

(* Where partitions_per_thread * thread_count == partition_count holds, as *)
(* test_cases.c:225 asserts, or the method guards its slices, the team     *)
(* marks what its threads are past and nothing twice.                      *)
THEOREM MarkInvariance ==
  ASSUME TeamsAreEven
  PROVE  Spec => []MarkInv
<1>1. Init => MarkInv
  BY DEF Init, MarkInv, MpiUsedCorrectly, Ranks
<1>2. IInv /\ MarkInv /\ [Next]_vars => MarkInv'
  BY NextMarks
<1> QED
  BY <1>1, <1>2, BufferInvariance, PTL DEF Spec

(* However the team is scheduled no MPI call is erroneous.                 *)
THEOREM MpiIsUsedCorrectly ==
  ASSUME TeamsAreEven
  PROVE  Spec => []MpiUsedCorrectly
<1>1. MarkInv => MpiUsedCorrectly
  BY DEF MarkInv
<1> QED
  BY <1>1, MarkInvariance, PTL

\* A pattern leaves no partition out.
LEMMA PatternCovers ==
  \A p \in Partitions : \E k \in Partitions : SendPattern[k] = p
<1>1. IsFiniteSet(Partitions)
  BY CountAssumption, FS_Interval DEF Partitions
<1>2. SendPattern \in Injection(Partitions, Partitions)
  BY PatternAssumption DEF Injection, IsInjective
<1>3. SendPattern \in Surjection(Partitions, Partitions)
  BY <1>1, <1>2, FS_Injection
<1> QED
  BY <1>3 DEF Surjection

\* Nor do the slices of the team.
LEMMA SlicesCoverAll ==
  ASSUME test \in Tests, NEW i \in Partitions
  PROVE  \E t \in Active : \E k \in 0 .. Steps - 1 : Index(t, k) = i
<1>1. /\ i \in Nat /\ i < PartitionCount /\ PartitionCount \in Nat
      /\ PerThread \in Nat \ {0} /\ Threads \in Nat
      /\ PerThread * Threads >= PartitionCount
  BY TeamTypes DEF Partitions
<1>2. CASE Sequential
  <2>1. 0 \in Active /\ i \in 0 .. Steps - 1
    BY <1>1, <1>2 DEF Active, Steps
  <2> QED
    BY <1>1, <1>2, <2>1, IndexTypes
<1>3. CASE ~Sequential
  <2> DEFINE t == i \div PerThread
             k == i % PerThread
  <2>1. t \in Nat /\ k \in 0 .. PerThread - 1 /\ i = PerThread * t + k
    BY <1>1, DivMod
  <2> HIDE DEF t, k
  <2>2. PerThread * t = t * PerThread /\ t * PerThread \in Nat
    BY <1>1, <2>1
  <2>3. t < Threads
    <3> SUFFICES ASSUME Threads < t \/ Threads = t PROVE FALSE
      BY <1>1, <2>1
    <3>1. Threads * PerThread <= t * PerThread
      <4>1. CASE Threads < t
        <5>1. Threads * PerThread + PerThread <= t * PerThread
          BY <1>1, <2>1, <4>1, NextSlice
        <5> QED
          BY <1>1, <2>2, <5>1
      <4>2. CASE Threads = t
        BY <2>2, <4>2
      <4> QED
        BY <4>1, <4>2
    <3>2. Threads * PerThread = PerThread * Threads /\ Threads * PerThread \in Nat
      BY <1>1
    <3> QED
      BY <1>1, <2>1, <2>2, <3>1, <3>2
  <2>4. t \in Active /\ k \in 0 .. Steps - 1 /\ Index(t, k) = i
    BY <1>1, <1>3, <2>1, <2>2, <2>3 DEF Active, Team, Steps, Index
  <2> QED
    BY <2>4
<1> QED
  BY <1>2, <1>3

(* When rank 0 waits, every partition was marked ready exactly once in     *)
(* this epoch: that is what its MPI_Wait and the one of rank 1 wait for.   *)
THEOREM EachMarkedOnce ==
  ASSUME TeamsAreEven
  PROVE  Spec => [](pc[0] = "wait" => \A p \in Partitions : ready[p] = 1)
<1>1. IInv /\ MarkInv => (pc[0] = "wait" => \A p \in Partitions : ready[p] = 1)
  <2> SUFFICES ASSUME IInv, MarkInv, pc[0] = "wait", NEW p \in Partitions
               PROVE  p \in Marked
    BY DEF MarkInv
  <2>1. test \in Tests
    BY DEF IInv, TypeOK
  <2>2. PICK i \in Partitions : Mark(i) = p
    BY PatternCovers DEF Mark
  <2>3. PICK t \in Active : \E k \in 0 .. Steps - 1 : Index(t, k) = i
    BY <2>1, SlicesCoverAll
  <2>4. next[t] = Steps
    BY <2>3 DEF MarkInv
  <2> QED
    BY <2>2, <2>3, <2>4, CountAssumption DEF Marked, Partitions
<1> QED
  BY <1>1, BufferInvariance, MarkInvariance, PTL
================================================================================
