------------------------- MODULE ProgressThreadProofs -------------------------
(***************************************************************************)
(* What ProgressThread guarantees for every number of iterations.          *)
(***************************************************************************)
EXTENDS ProgressThread, TLAPS

\* Nothing has been posted and nothing is shared when the benchmark begins.
LEMMA InitIInv == Init => IInv
BY IterationsAssumption
   DEF Init, IInv, TypeOK, TokensBinary, PollOwned, ControlInv, RequestInv,
       OneHolder, EveryRoundAnswered, Surplus, Pending, Unanswered, Right,
       Inside, Null, Req

\* The actions of the benchmark's thread keep the invariant.
LEMMA MainIInv == IInv /\ Main => IInv'
<1> SUFFICES ASSUME IInv, Main PROVE IInv'
  OBVIOUS
<1> USE IterationsAssumption
    DEF IInv, TypeOK, TokensBinary, PollOwned, ControlInv, RequestInv,
        OneHolder, EveryRoundAnswered, Surplus, Pending, Unanswered, Right,
        Inside, Null, Req, Go, Wait, TryWait, Post, sems
<1>1. CASE Create  BY <1>1 DEF Create
<1>2. CASE MpiStart  BY <1>2 DEF MpiStart
<1>3. CASE SetRequestWait  BY <1>3 DEF SetRequestWait
<1>4. CASE SetRequestStore  BY <1>4 DEF SetRequestStore
<1>5. CASE SetRequestPost  BY <1>5 DEF SetRequestPost
<1>6. CASE ContinueDrain  BY <1>6 DEF ContinueDrain
<1>7. CASE ContinuePost  BY <1>7 DEF ContinuePost
<1>8. CASE ParallelRegion  BY <1>8 DEF ParallelRegion
<1>9. CASE PausePost  BY <1>9 DEF PausePost
<1>10. CASE PauseWait  BY <1>10 DEF PauseWait
<1>11. CASE PauseReopen  BY <1>11 DEF PauseReopen
<1>12. CASE MpiWait  BY <1>12 DEF MpiWait
<1>13. CASE Destroy  BY <1>13 DEF Destroy
<1>14. CASE Join  BY <1>14 DEF Join
<1>15. CASE RequestFree  BY <1>15 DEF RequestFree
<1> QED
  BY <1>1, <1>2, <1>3, <1>4, <1>5, <1>6, <1>7, <1>8, <1>9, <1>10, <1>11,
     <1>12, <1>13, <1>14, <1>15 DEF Main

\* The actions of the helper keep it too.
LEMMA HelperIInv == IInv /\ Helper => IInv'
<1> SUFFICES ASSUME IInv, Helper PROVE IInv'
  OBVIOUS
<1> USE IterationsAssumption
    DEF IInv, TypeOK, TokensBinary, PollOwned, ControlInv, RequestInv,
        OneHolder, EveryRoundAnswered, Surplus, Pending, Unanswered, Right,
        Inside, Null, Req, Go, Wait, TryWait, Post, sems
<1>1. CASE Hello  BY <1>1 DEF Hello
<1>2. CASE AwaitRequest  BY <1>2 DEF AwaitRequest
<1>3. CASE Enter  BY <1>3 DEF Enter
<1>4. CASE CheckRequest  BY <1>4 DEF CheckRequest
<1>5. CASE TryDone  BY <1>5 DEF TryDone
<1>6. CASE Poll  BY <1>6 DEF Poll
<1>7. CASE Release  BY <1>7 DEF Release
<1> QED
  BY <1>1, <1>2, <1>3, <1>4, <1>5, <1>6, <1>7 DEF Helper

\* Finished is a stutter: no step leaves the invariant.
LEMMA NextIInv == IInv /\ [Next]_vars => IInv'
<1> SUFFICES ASSUME IInv, [Next]_vars PROVE IInv'
  OBVIOUS
<1>1. CASE Main
  BY <1>1, MainIInv
<1>2. CASE Helper
  BY <1>2, HelperIInv
<1>3. CASE UNCHANGED vars
  BY <1>3
     DEF vars, sems, IInv, TypeOK, TokensBinary, PollOwned, ControlInv,
         RequestInv, OneHolder, EveryRoundAnswered, Surplus, Pending,
         Unanswered, Right
<1> QED
  BY <1>1, <1>2, <1>3 DEF Next

(* The inductive invariant holds in every reachable state, whatever the    *)
(* number of iterations and however the two threads are interleaved.       *)
THEOREM Invariance == Spec => []IInv
<1>1. Init => IInv
  BY InitIInv
<1>2. IInv /\ [Next]_vars => IInv'
  BY NextIInv
<1> QED
  BY <1>1, <1>2, PTL DEF Spec

(* The variables keep the range that TypeOK gives them.                    *)
THEOREM TypeCorrect == Spec => []TypeOK
<1>1. IInv => TypeOK
  BY DEF IInv
<1> QED
  BY <1>1, Invariance, PTL

(* The helper polls no request that is inactive, freed or being waited for *)
(* (line 88 of bench_psend_progress_thread.c against lines 223 and 238).   *)
THEOREM PollsOwnedRequests == Spec => []PollOwned
<1>1. IInv => PollOwned
  BY DEF IInv
<1> QED
  BY <1>1, Invariance, PTL

(* Two of the three assertions of progress_thread_check hold (lines 60 and *)
(* 62).                                                                    *)
THEOREM TokensStayBinary == Spec => []TokensBinary
<1>1. IInv => TokensBinary
  BY DEF IInv
<1> QED
  BY <1>1, Invariance, PTL

(* The helper breaks out of its loop only once main destroys it.           *)
THEOREM ExitsOnlyOnDestroy == Spec => []ExitOnlyOnDestroy
<1>1. IInv => ExitOnlyOnDestroy
  BY DEF IInv, ControlInv, RequestInv, ExitOnlyOnDestroy
<1> QED
  BY <1>1, Invariance, PTL

(* The request pointer is not exchanged while the helper relies on it.     *)
THEOREM RequestIsStable == Spec => RequestStable
<1>1. IInv /\ [Next]_vars => [(helper \in Inside) => UNCHANGED request]_vars
  <2> SUFFICES ASSUME IInv, Next, helper \in Inside PROVE request' = request
    BY DEF vars, sems
  <2>1. accept_requests = 0 /\ main \notin {"create", "store"}
    BY DEF IInv, TypeOK, ControlInv, OneHolder, Right, Inside
  <2>2. CASE Main
    BY <2>1, <2>2
       DEF Main, Create, MpiStart, SetRequestWait, SetRequestStore,
           SetRequestPost, ContinueDrain, ContinuePost, ParallelRegion,
           PausePost, PauseWait, PauseReopen, MpiWait, Destroy, Join,
           RequestFree, Go
  <2>3. CASE Helper
    BY <2>3
       DEF Helper, Hello, AwaitRequest, Enter, CheckRequest, TryDone, Poll,
           Release
  <2>4. CASE Finished /\ UNCHANGED vars
    BY <2>4 DEF vars
  <2> QED
    BY <2>2, <2>3, <2>4 DEF Next
<1> QED
  BY <1>1, Invariance, PTL DEF Spec, RequestStable

(* Once the helper has missed a round it never polls again.                *)
THEOREM MissedRoundsStayMissed == Spec => MissedRoundIsForever
<1>1. IInv /\ [Next]_vars => [Surplus > 0 => Surplus' > 0 /\ helper' # "poll"]_vars
  <2> SUFFICES ASSUME IInv, Next, Surplus > 0
               PROVE  Surplus' > 0 /\ helper' # "poll"
    BY DEF vars, sems
  <2> USE DEF IInv, TypeOK, TokensBinary, PollOwned, ControlInv, RequestInv,
              OneHolder, EveryRoundAnswered, Surplus, Pending, Unanswered,
              Right, Inside, Null, Req, Go, Wait, TryWait, Post, sems
  <2>1. CASE Main
    <3>1. CASE Create  BY <3>1 DEF Create
    <3>2. CASE MpiStart  BY <3>2 DEF MpiStart
    <3>3. CASE SetRequestWait  BY <3>3 DEF SetRequestWait
    <3>4. CASE SetRequestStore  BY <3>4 DEF SetRequestStore
    <3>5. CASE SetRequestPost  BY <3>5 DEF SetRequestPost
    <3>6. CASE ContinueDrain  BY <3>6 DEF ContinueDrain
    <3>7. CASE ContinuePost  BY <3>7 DEF ContinuePost
    <3>8. CASE ParallelRegion  BY <3>8 DEF ParallelRegion
    <3>9. CASE PausePost  BY <3>9 DEF PausePost
    <3>10. CASE PauseWait  BY <3>10 DEF PauseWait
    <3>11. CASE PauseReopen  BY <3>11 DEF PauseReopen
    <3>12. CASE MpiWait  BY <3>12 DEF MpiWait
    <3>13. CASE Destroy  BY <3>13 DEF Destroy
    <3>14. CASE Join  BY <3>14 DEF Join
    <3>15. CASE RequestFree  BY <3>15 DEF RequestFree
    <3> QED
      BY <2>1, <3>1, <3>2, <3>3, <3>4, <3>5, <3>6, <3>7, <3>8, <3>9, <3>10,
         <3>11, <3>12, <3>13, <3>14, <3>15 DEF Main
  <2>2. CASE Helper
    <3>1. CASE Hello  BY <3>1 DEF Hello
    <3>2. CASE AwaitRequest  BY <3>2 DEF AwaitRequest
    <3>3. CASE Enter  BY <3>3 DEF Enter
    <3>4. CASE CheckRequest  BY <3>4 DEF CheckRequest
    <3>5. CASE TryDone  BY <3>5 DEF TryDone
    <3>6. CASE Poll  BY <3>6 DEF Poll
    <3>7. CASE Release  BY <3>7 DEF Release
    <3> QED
      BY <2>2, <3>1, <3>2, <3>3, <3>4, <3>5, <3>6, <3>7 DEF Helper
  <2>3. CASE Finished /\ UNCHANGED vars
    BY <2>3 DEF vars, Finished
  <2> QED
    BY <2>1, <2>2, <2>3 DEF Next
<1> QED
  BY <1>1, Invariance, PTL DEF Spec, MissedRoundIsForever

(* Safety of the refinement: the helper polls only in the windows that the *)
(* benchmark opens, a window is closed only behind the last poll, and the  *)
(* helper stops outside of them.  (That windows close is left to TLC.)     *)
THEOREM ImplementsWindow == Spec => Window!Init /\ [][Window!Next]_(Window!vars)
<1>1. Init => Window!Init
  BY DEF Init, Window!Init, windowBar, helperBar
<1>2. IInv /\ [Next]_vars => [Window!Next]_(Window!vars)
  <2> SUFFICES ASSUME IInv, IInv', [Next]_vars PROVE [Window!Next]_(Window!vars)
    BY NextIInv
  <2> USE DEF windowBar, helperBar, Go
  <2>1. CASE ContinuePost
    <3>1. helper \notin {"poll", "done"} \/ caller = "destroy"
      BY <2>1 DEF ContinuePost, IInv, PollOwned, ControlInv, RequestInv
    <3>2. CASE caller = "destroy"
      BY <2>1, <3>2 DEF ContinuePost, Window!vars
    <3>3. CASE caller # "destroy"
      <4>1. windowBar = "closed" /\ windowBar' = "open"
        BY <2>1, <3>3 DEF ContinuePost
      <4>2. helperBar = "idle" /\ helperBar' = helperBar
        BY <2>1, <3>1, <3>3 DEF ContinuePost
      <4> QED
        BY <4>1, <4>2 DEF Window!Next, Window!Open
    <3> QED
      BY <3>2, <3>3
  <2>2. CASE PauseWait
    <3>1. helper \notin {"poll", "done"}
      BY <2>2 DEF PauseWait, Wait, IInv, TypeOK, OneHolder, Right, Inside
    <3>2. windowBar = "open" /\ windowBar' = "closed"
      BY <2>2 DEF PauseWait
    <3>3. helperBar = "idle" /\ helperBar' = helperBar
      BY <2>2, <3>1 DEF PauseWait
    <3> QED
      BY <3>2, <3>3 DEF Window!Next, Window!Close
  <2>3. CASE CheckRequest
    <3>1. CASE request = Null
      <4>1. helper' = "done" /\ helper = "check" /\ main' = main
        BY <2>3, <3>1 DEF CheckRequest
      <4>2. caller' = "destroy"
        BY <4>1 DEF IInv, ControlInv, RequestInv
      <4>3. main \notin {"parallel", "pause", "rejoin"}
        BY <4>1, <4>2 DEF IInv, ControlInv
      <4> QED
        BY <4>1, <4>3 DEF Window!Next, Window!Stop
    <3>2. CASE request # Null
      BY <2>3, <3>2 DEF CheckRequest, Window!vars
    <3> QED
      BY <3>1, <3>2
  <2>4. CASE TryDone
    <3>1. CASE signal_done > 0
      BY <2>4, <3>1 DEF TryDone, Window!vars
    <3>2. CASE ~(signal_done > 0)
      <4>1. helper = "try" /\ helper' = "poll" /\ main' = main
        BY <2>4, <3>2 DEF TryDone
      <4>2. main \in {"parallel", "pause", "rejoin"}
        BY <4>1 DEF IInv, PollOwned
      <4> QED
        BY <4>1, <4>2 DEF Window!Next, Window!BeginPoll
    <3> QED
      BY <3>1, <3>2
  <2>5. CASE Poll
    BY <2>5 DEF Poll, Window!Next, Window!EndPoll
  <2>6. CASE Hello \/ AwaitRequest \/ Enter \/ Release
    BY <2>6 DEF Hello, AwaitRequest, Enter, Release, Window!vars
  <2>7. CASE \/ MpiStart \/ SetRequestWait \/ SetRequestStore
             \/ SetRequestPost \/ ContinueDrain
    BY <2>7 DEF MpiStart, SetRequestWait, SetRequestStore, SetRequestPost,
                ContinueDrain, Window!vars
  <2>8. CASE \/ ParallelRegion \/ PausePost \/ PauseReopen \/ MpiWait
             \/ Destroy \/ Join \/ RequestFree
    BY <2>8 DEF ParallelRegion, PausePost, PauseReopen, MpiWait, Destroy,
                Join, RequestFree, Window!vars
  <2>9. CASE Create
    BY <2>9 DEF Create, IInv, ControlInv, Window!vars
  <2>10. CASE UNCHANGED vars
    BY <2>10 DEF vars, Window!vars
  <2> QED
    BY <2>1, <2>2, <2>3, <2>4, <2>5, <2>6, <2>7, <2>8, <2>9, <2>10
       DEF Next, Main, Helper
<1> QED
  BY <1>1, <1>2, Invariance, PTL DEF Spec
===============================================================================
