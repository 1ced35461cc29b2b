------------------------------ MODULE TimersProofs ------------------------------
(***************************************************************************)
(* What the timers guarantee for every number of iterations and all times. *)
(***************************************************************************)
EXTENDS Timers, TLAPS

\* The laws of products that the solver does not find by itself.
LEMMA Regroup ==
  ASSUME NEW a \in Int, NEW b \in Int, NEW c \in Int
  PROVE  a * (b * c) = (a * b) * c
OBVIOUS

LEMMA Monotone ==
  ASSUME NEW q \in Nat, NEW a \in Int, NEW b \in Int, a <= b
  PROVE  q * a <= q * b
OBVIOUS

LEMMA Additive ==
  ASSUME NEW q \in Int, NEW a \in Int, NEW b \in Int
  PROVE  q * (a + b) = q * a + q * b
OBVIOUS

\* The k-th part of Scale: the division leaves no rest.
LEMMA Part ==
  ASSUME NEW k \in 1 .. Iterations + 1
  PROVE  /\ Scale \div k \in Nat
         /\ k * (Scale \div k) = Scale
         /\ Scale \div k <= Scale
<1> DEFINE q == Scale \div k
<1>1. k \in Nat /\ k > 0 /\ Scale \in Nat /\ Scale % k = 0
  <2>1. \A m \in 1 .. Iterations + 1 : Scale % m = 0
    BY ScaleAssumption
  <2>2. Scale % k = 0
    BY <2>1, Zenon
  <2> QED
    BY <2>2, IterationsAssumption, ScaleAssumption
<1>2. q \in Int /\ Scale = k * q + (Scale % k)
  BY <1>1
<1>3. k * q = Scale
  BY <1>1, <1>2
<1> HIDE DEF q
<1>4. q >= 0
  <2> SUFFICES ASSUME q < 0 PROVE FALSE
    BY <1>2
  <2> QED
    BY <1>1, <1>2, <1>3
<1>5. k * q >= q
  BY <1>1, <1>2, <1>4
<1> QED
  BY <1>2, <1>3, <1>4, <1>5 DEF q

\* The k-th part of a duration: k of them are the duration, and a longer
\* duration has larger parts.
LEMMA ShareIsPart ==
  ASSUME NEW k \in 1 .. Iterations + 1, NEW d \in Nat
  PROVE  /\ Share(d, k) \in Nat
         /\ k * Share(d, k) = Scale * d
         /\ Share(d, k) <= Scale * d
<1> DEFINE q == Scale \div k
<1>1. q \in Nat /\ k * q = Scale /\ q <= Scale
  BY Part
<1>2. k \in Int /\ Scale \in Nat
  BY IterationsAssumption, ScaleAssumption
<1> HIDE DEF q
<1>3. q * d \in Nat
  BY <1>1
<1>4. k * (q * d) = (k * q) * d
  BY <1>1, <1>2, Regroup
<1>5. d * q <= d * Scale
  BY <1>1, <1>2, Monotone
<1>6. q * d <= Scale * d
  BY <1>1, <1>2, <1>5
<1> QED
  BY <1>1, <1>3, <1>4, <1>6 DEF Share, q

LEMMA ShareGrows ==
  ASSUME NEW k \in 1 .. Iterations + 1, NEW d \in Nat, NEW e \in Nat, d <= e
  PROVE  Share(d, k) <= Share(e, k)
<1>1. Scale \div k \in Nat
  BY Part
<1> QED
  BY <1>1, Monotone DEF Share

TimerRecord ==
  [running_since : Nat, sum : Nat, count : Nat, average : Nat,
   standard_deviation : Int]

\* What timer_stop leaves of a timer, and that it keeps the average between
\* mean and sum.
LEMMA StopTimer ==
  ASSUME NEW timer \in TimerRecord, NEW now \in Nat,
         timer.running_since <= now, timer.count <= Iterations
  PROVE  LET delta == now - timer.running_since
             stop == Stop(timer, now)
         IN  /\ stop \in TimerRecord
             /\ stop.running_since = timer.running_since
             /\ stop.count = timer.count + 1
             /\ stop.sum = timer.sum + delta
             /\ stop.average = timer.average + Share(delta, timer.count + 1)
             /\ Between(timer) => Between(stop)
<1> DEFINE delta == now - timer.running_since
           k == timer.count + 1
           stop == Stop(timer, now)
<1>1. delta \in Nat /\ k \in 1 .. Iterations + 1 /\ Scale \in Nat
  BY IterationsAssumption, ScaleAssumption DEF TimerRecord
<1>2. /\ Share(delta, k) \in Nat
      /\ k * Share(delta, k) = Scale * delta
      /\ Share(delta, k) <= Scale * delta
  BY <1>1, ShareIsPart
<1>3. (Scale * delta - timer.average)
        * (Scale * delta - (timer.average + Share(delta, k))) \in Int
  BY <1>1, <1>2 DEF TimerRecord
<1>4. /\ stop.running_since = timer.running_since
      /\ stop.count = k
      /\ stop.sum = timer.sum + delta
      /\ stop.average = timer.average + Share(delta, k)
  BY DEF Stop
<1>5. stop \in TimerRecord
  <2> DEFINE sd == (Scale * delta - timer.average)
                     * (Scale * delta - (timer.average + Share(delta, k)))
  <2>1. stop = [running_since |-> timer.running_since,
                sum |-> timer.sum + delta,
                count |-> k,
                average |-> timer.average + Share(delta, k),
                standard_deviation |-> timer.standard_deviation + sd]
    BY DEF Stop
  <2>2. sd \in Int
    BY <1>3
  <2> HIDE DEF sd, stop
  <2> QED
    BY <1>1, <1>2, <2>1, <2>2 DEF TimerRecord
<1>6. ASSUME Between(timer)
      PROVE  Between(stop)
  <2> DEFINE c == timer.count
             a == timer.average
             s == timer.sum
             x == Share(delta, k)
  <2>1. c \in Nat /\ a \in Nat /\ s \in Nat /\ x \in Nat /\ k = c + 1
    BY <1>2 DEF TimerRecord
  <2>2. c * a >= Scale * s /\ a <= Scale * s
    BY <1>6 DEF Between
  <2>3. k * x = Scale * delta /\ x <= Scale * delta
    BY <1>2
  <2>4. stop.count = k /\ stop.sum = s + delta /\ stop.average = a + x
    BY <1>4
  <2> HIDE DEF delta, k, stop, c, a, s, x
  <2>5. Scale * (s + delta) = Scale * s + Scale * delta
    BY <1>1, <2>1, Additive
  <2>6. k * (a + x) = k * a + k * x
    BY <2>1, Additive
  <2>7. k * a = c * a + a
    BY <2>1
  <2>8. c * a \in Int /\ Scale * s \in Int /\ Scale * delta \in Int
        /\ k * a \in Int /\ k * x \in Int
    BY <1>1, <2>1
  <2>9. k * (a + x) >= Scale * (s + delta)
    BY <2>1, <2>2, <2>3, <2>5, <2>6, <2>7, <2>8
  <2>10. a + x <= Scale * (s + delta)
    BY <2>1, <2>2, <2>3, <2>5, <2>8
  <2> QED
    BY <2>4, <2>9, <2>10 DEF Between
<1> QED
  BY <1>4, <1>5, <1>6

LEMMA TimersTyped ==
  ASSUME TypeOK, NEW t \in Timer
  PROVE  timers[t] \in TimerRecord
BY DEF TypeOK, TimerRecord

\* What timer_start changes.
LEMMA Starts ==
  ASSUME TypeOK, NEW t \in Timer, NEW now \in Nat, timers' = Started(timers, t, now)
  PROVE  /\ timers'[t] = [timers[t] EXCEPT !.running_since = now]
         /\ \A u \in Timer \ {t} : timers'[u] = timers[u]
         /\ DOMAIN timers' = Timer
         /\ timers' \in [Timer -> TimerRecord]
         /\ timers'[t].running_since = now
         /\ timers'[t].count = timers[t].count
         /\ timers'[t].sum = timers[t].sum
         /\ timers'[t].average = timers[t].average
<1>1. timers \in [Timer -> TimerRecord]
  BY DEF TypeOK, TimerRecord
<1>2. timers[t] \in TimerRecord
  BY <1>1
<1>3. timers' = [timers EXCEPT ![t] = [timers[t] EXCEPT !.running_since = now]]
  BY DEF Started
<1>4. [timers[t] EXCEPT !.running_since = now] \in TimerRecord
  BY <1>2 DEF TimerRecord
<1>5. timers'[t] = [timers[t] EXCEPT !.running_since = now]
  BY <1>1, <1>3
<1> QED
  BY <1>1, <1>2, <1>3, <1>4, <1>5 DEF TimerRecord

\* What timer_stop changes.
LEMMA Stops ==
  ASSUME TypeOK, NEW t \in Timer, NEW now \in Nat, clock <= now,
         timers[t].count <= Iterations,
         timers' = Stopped(timers, t, now)
  PROVE  LET delta == now - timers[t].running_since
         IN  /\ delta \in Nat
             /\ \A u \in Timer \ {t} : timers'[u] = timers[u]
             /\ timers' \in [Timer -> TimerRecord]
             /\ timers'[t].running_since = timers[t].running_since
             /\ timers'[t].count = timers[t].count + 1
             /\ timers'[t].sum = timers[t].sum + delta
             /\ timers'[t].average =
                  timers[t].average + Share(delta, timers[t].count + 1)
             /\ Between(timers[t]) => Between(timers'[t])
<1> DEFINE delta == now - timers[t].running_since
           stop == Stop(timers[t], now)
<1>1. timers \in [Timer -> TimerRecord] /\ timers[t] \in TimerRecord
  BY DEF TypeOK, TimerRecord
<1>2. timers[t].running_since <= now /\ delta \in Nat
  BY <1>1 DEF TypeOK, TimerRecord
<1>3. /\ stop \in TimerRecord
      /\ stop.running_since = timers[t].running_since
      /\ stop.count = timers[t].count + 1
      /\ stop.sum = timers[t].sum + delta
      /\ stop.average = timers[t].average + Share(delta, timers[t].count + 1)
      /\ Between(timers[t]) => Between(stop)
  BY <1>1, <1>2, StopTimer, Zenon
<1>4. timers' = [timers EXCEPT ![t] = stop]
  BY DEF Stopped
<1> HIDE DEF stop
<1>5. timers'[t] = stop /\ timers' \in [Timer -> TimerRecord]
  BY <1>1, <1>3, <1>4
<1>6. \A u \in Timer \ {t} : timers'[u] = timers[u]
  BY <1>1, <1>4
<1> QED
  BY <1>2, <1>3, <1>5, <1>6, Zenon

LEMMA InitIInv == Init => IInv
<1> SUFFICES ASSUME Init PROVE IInv
  OBVIOUS
<1>1. \A t \in Timer : timers[t] = TimerInit
  BY DEF Init
<1>2. TypeOK
  BY IterationsAssumption DEF Init, TypeOK, TimerInit
<1>3. W = TimerInit /\ L = TimerInit /\ T = TimerInit
  BY <1>1 DEF W, L, T, Timer
<1>4. Bounds
  BY <1>3, ScaleAssumption DEF Bounds, Between, TimerInit
<1>5. AtPc /\ Counts /\ PartInside /\ LocalInside /\ Kept
  BY <1>3 DEF Init, AtPc, Counts, PartInside, LocalInside, Kept, Inside, Over, Done, TimerInit
<1> QED
  BY <1>2, <1>4, <1>5 DEF IInv

\* What the steps need of the invariant before them.
LEMMA Numbers ==
  ASSUME IInv
  PROVE  /\ clock \in Nat /\ i \in Nat /\ iteration_count \in Nat
         /\ i <= iteration_count /\ iteration_count <= Iterations
         /\ W \in TimerRecord /\ L \in TimerRecord /\ T \in TimerRecord
         /\ W.running_since <= clock /\ L.running_since <= clock
         /\ T.running_since <= clock
         /\ Scale \in Nat /\ Iterations \in Nat
BY IterationsAssumption, ScaleAssumption
   DEF IInv, TypeOK, TimerRecord, W, L, T, Timer

\* The clock does not go back.
LEMMA Later ==
  ASSUME clock \in Nat, clock' \in Wtime
  PROVE  clock' \in Nat /\ clock <= clock'
BY MaxStepAssumption DEF Wtime

\* The parts of the type invariant together.
LEMMA Retyped ==
  ASSUME timers' \in [Timer -> TimerRecord], clock' \in Nat,
         \A t \in Timer : timers'[t].running_since <= clock',
         i' \in Nat, iteration_count' \in 0..Iterations, i' <= iteration_count',
         timed' \in BOOLEAN
  PROVE  TypeOK'
BY DEF TypeOK, TimerRecord

LEMMA StartTotalKeeps == IInv /\ StartTotal => IInv'
<1> SUFFICES ASSUME IInv, StartTotal PROVE IInv'
  OBVIOUS
<1> USE DEF StartTotal
<1>1. clock' \in Nat /\ clock <= clock'
  BY Numbers, Later
<1>2. /\ timers' \in [Timer -> TimerRecord]
      /\ W' = W /\ L' = L
      /\ T'.running_since = clock' /\ T'.count = T.count
      /\ T'.sum = T.sum /\ T'.average = T.average
  BY <1>1, Starts, "Total" \in Timer DEF IInv, W, L, T, Timer
<1>3. TypeOK'
  <2>1. \A t \in Timer : timers'[t].running_since <= clock'
    BY <1>1, <1>2, Numbers DEF W, L, T, Timer, Started, IInv, TypeOK
  <2> QED
    BY <1>1, <1>2, <2>1, Retyped DEF IInv, TypeOK
<1>4. Bounds'
  BY <1>2 DEF IInv, Bounds, Between
<1>5. AtPc' /\ Counts' /\ PartInside' /\ LocalInside' /\ Kept'
  BY <1>1, <1>2, Numbers
     DEF IInv, AtPc, Counts, PartInside, LocalInside, Kept, Inside, Over, Done, TimerRecord
<1> QED
  BY <1>3, <1>4, <1>5 DEF IInv

LEMMA StartIterationKeeps == IInv /\ StartIteration => IInv'
<1> SUFFICES ASSUME IInv, StartIteration PROVE IInv'
  OBVIOUS
<1> USE DEF StartIteration
<1>1. clock' \in Nat /\ clock <= clock'
  BY Numbers, Later
<1>2. /\ timers' \in [Timer -> TimerRecord]
      /\ W' = W /\ T' = T
      /\ L'.running_since = clock' /\ L'.count = L.count
      /\ L'.sum = L.sum /\ L'.average = L.average
  BY <1>1, Starts, "Iteration" \in Timer DEF IInv, W, L, T, Timer
<1>3. TypeOK'
  <2>1. \A t \in Timer : timers'[t].running_since <= clock'
    BY <1>1, <1>2, Numbers DEF W, L, T, Timer, Started, IInv, TypeOK
  <2> QED
    BY <1>1, <1>2, <2>1, Retyped DEF IInv, TypeOK
<1>4. Bounds'
  BY <1>2 DEF IInv, Bounds, Between
<1>5. AtPc' /\ Counts' /\ PartInside' /\ LocalInside' /\ Kept'
  BY <1>1, <1>2, Numbers
     DEF IInv, AtPc, Counts, PartInside, LocalInside, Kept, Inside, Over, Done, TimerRecord
<1> QED
  BY <1>3, <1>4, <1>5 DEF IInv

LEMMA StartStartToWaitKeeps == IInv /\ StartStartToWait => IInv'
<1> SUFFICES ASSUME IInv, StartStartToWait PROVE IInv'
  OBVIOUS
<1> USE DEF StartStartToWait
<1>1. clock' \in Nat /\ clock <= clock'
  BY Numbers, Later
<1>2. /\ timers' \in [Timer -> TimerRecord]
      /\ L' = L /\ T' = T
      /\ W'.running_since = clock' /\ W'.count = W.count
      /\ W'.sum = W.sum /\ W'.average = W.average
  BY <1>1, Starts, "IterationStartToWait" \in Timer DEF IInv, W, L, T, Timer
<1>3. TypeOK'
  <2>1. \A t \in Timer : timers'[t].running_since <= clock'
    BY <1>1, <1>2, Numbers DEF W, L, T, Timer, Started, IInv, TypeOK
  <2> QED
    BY <1>1, <1>2, <2>1, Retyped DEF IInv, TypeOK
<1>4. Bounds'
  BY <1>2 DEF IInv, Bounds, Between
<1>5. AtPc' /\ Counts' /\ PartInside' /\ LocalInside' /\ Kept'
  BY <1>1, <1>2, Numbers
     DEF IInv, AtPc, Counts, PartInside, LocalInside, Kept, Inside, Over, Done, TimerRecord
<1> QED
  BY <1>3, <1>4, <1>5 DEF IInv

\* The share of StartToWait is at most that of the iteration it is part of.
LEMMA StopStartToWaitKeeps == IInv /\ StopStartToWait => IInv'
<1> SUFFICES ASSUME IInv, StopStartToWait PROVE IInv'
  OBVIOUS
<1> USE DEF StopStartToWait
<1> DEFINE delta == clock' - W.running_since
<1>1. clock' \in Nat /\ clock <= clock'
  BY Numbers, Later
<1>2. /\ timed /\ i < iteration_count /\ L.count = i /\ W.count = i
      /\ W.count <= Iterations /\ L.running_since <= W.running_since
      /\ W.average <= L.average
  BY Numbers DEF IInv, Counts, PartInside, Inside
<1>3. /\ timers' \in [Timer -> TimerRecord]
      /\ L' = L /\ T' = T
      /\ delta \in Nat
      /\ W'.running_since = W.running_since /\ W'.count = W.count + 1
      /\ W'.sum = W.sum + delta
      /\ W'.average = W.average + Share(delta, W.count + 1)
      /\ Between(W) => Between(W')
  BY <1>1, <1>2, Stops, "IterationStartToWait" \in Timer DEF IInv, W, L, T, Timer
<1>4. TypeOK'
  <2>1. \A t \in Timer : timers'[t].running_since <= clock'
    BY <1>1, <1>3, Numbers DEF W, L, T, Timer, Stopped, IInv, TypeOK
  <2> QED
    BY <1>1, <1>3, <2>1, Retyped DEF IInv, TypeOK
<1>5. Bounds'
  BY <1>3 DEF IInv, Bounds, Between
<1>6. PartInside'
  <2> DEFINE whole == clock' - L.running_since
             k == W.count + 1
  <2>1. whole \in Nat /\ delta <= whole /\ k \in 1 .. Iterations + 1
    BY <1>1, <1>2, Numbers DEF TimerRecord
  <2>2. Share(delta, k) <= Share(whole, k) /\ Share(delta, k) \in Nat /\ Share(whole, k) \in Nat
    BY <1>3, <2>1, ShareGrows, ShareIsPart
  <2>3. W'.average <= L'.average + Share(whole, k)
    BY <1>2, <1>3, <2>2, Numbers DEF TimerRecord
  <2> QED
    BY <1>3, <2>3 DEF PartInside
<1>7. AtPc' /\ Counts' /\ LocalInside' /\ Kept'
  BY <1>1, <1>2, <1>3, Numbers
     DEF IInv, AtPc, Counts, LocalInside, Kept, Inside, Over, Done, TimerRecord
<1> QED
  BY <1>4, <1>5, <1>6, <1>7 DEF IInv

LEMMA StopIterationKeeps == IInv /\ StopIteration => IInv'
<1> SUFFICES ASSUME IInv, StopIteration PROVE IInv'
  OBVIOUS
<1> USE DEF StopIteration
<1> DEFINE delta == clock' - L.running_since
<1>1. clock' \in Nat /\ clock <= clock'
  BY Numbers, Later
<1>2. /\ timed /\ i < iteration_count /\ L.count = i /\ W.count = i + 1
      /\ L.count <= Iterations
      /\ W.average <= L.average + Share(clock - L.running_since, W.count)
      /\ T.running_since + L.sum <= L.running_since
  BY Numbers DEF IInv, Counts, PartInside, LocalInside, Inside
<1>3. /\ timers' \in [Timer -> TimerRecord]
      /\ W' = W /\ T' = T
      /\ delta \in Nat
      /\ L'.running_since = L.running_since /\ L'.count = L.count + 1
      /\ L'.sum = L.sum + delta
      /\ L'.average = L.average + Share(delta, L.count + 1)
      /\ Between(L) => Between(L')
  BY <1>1, <1>2, Stops, "Iteration" \in Timer DEF IInv, W, L, T, Timer
<1>4. TypeOK'
  <2>1. \A t \in Timer : timers'[t].running_since <= clock'
    BY <1>1, <1>3, Numbers DEF W, L, T, Timer, Stopped, IInv, TypeOK
  <2>2. i' \in Nat /\ i' <= iteration_count'
    BY <1>2, Numbers
  <2> QED
    BY <1>1, <1>3, <2>1, <2>2, Retyped DEF IInv, TypeOK
<1>5. Bounds'
  BY <1>3 DEF IInv, Bounds, Between
<1>6. PartInside'
  <2> DEFINE before == clock - L.running_since
             k == L.count + 1
  <2>1. before \in Nat /\ before <= delta /\ k \in 1 .. Iterations + 1
    BY <1>1, <1>2, Numbers DEF TimerRecord
  <2>2. Share(before, k) <= Share(delta, k) /\ Share(before, k) \in Nat /\ Share(delta, k) \in Nat
    BY <1>3, <2>1, ShareGrows, ShareIsPart
  <2>3. W'.average <= L'.average
    BY <1>2, <1>3, <2>2, Numbers DEF TimerRecord
  <2> QED
    BY <2>3 DEF PartInside
<1>7. LocalInside'
  BY <1>1, <1>2, <1>3, Numbers DEF LocalInside, Inside, Over, TimerRecord
<1>8. AtPc' /\ Counts' /\ Kept'
  BY <1>2, <1>3, Numbers
     DEF IInv, AtPc, Counts, Kept, Inside, Over, Done, TimerRecord
<1> QED
  BY <1>4, <1>5, <1>6, <1>7, <1>8 DEF IInv

LEMMA UntimedIterationKeeps == IInv /\ UntimedIteration => IInv'
<1> SUFFICES ASSUME IInv, UntimedIteration PROVE IInv'
  OBVIOUS
<1> USE DEF UntimedIteration
<1>1. clock' \in Nat /\ clock <= clock'
  BY Numbers, Later
<1>2. W' = W /\ L' = L /\ T' = T
  BY DEF W, L, T
<1>3. TypeOK'
  <2>1. i' \in Nat /\ i' <= iteration_count'
    BY Numbers
  <2>2. \A t \in Timer : timers'[t].running_since <= clock'
    BY <1>1, Numbers, TimersTyped DEF IInv, TypeOK, TimerRecord
  <2> QED
    BY <1>1, <2>1, <2>2 DEF IInv, TypeOK
<1>4. Bounds'
  BY <1>2 DEF IInv, Bounds, Between
<1>5. AtPc' /\ Counts' /\ PartInside' /\ LocalInside' /\ Kept'
  BY <1>1, <1>2, Numbers
     DEF IInv, AtPc, Counts, PartInside, LocalInside, Kept, Inside, Over, Done, TimerRecord
<1> QED
  BY <1>3, <1>4, <1>5 DEF IInv

LEMMA StopTotalKeeps == IInv /\ StopTotal => IInv'
<1> SUFFICES ASSUME IInv, StopTotal PROVE IInv'
  OBVIOUS
<1> USE DEF StopTotal
<1> DEFINE delta == clock' - T.running_since
<1>1. clock' \in Nat /\ clock <= clock'
  BY Numbers, Later
<1>2. T.count = 0 /\ T.count <= Iterations /\ T.running_since + L.sum <= clock
  BY Numbers DEF IInv, Counts, LocalInside, Over
<1>3. /\ timers' \in [Timer -> TimerRecord]
      /\ W' = W /\ L' = L
      /\ delta \in Nat
      /\ T'.running_since = T.running_since /\ T'.count = T.count + 1
      /\ T'.sum = T.sum + delta
      /\ Between(T) => Between(T')
  BY <1>1, <1>2, Stops, "Total" \in Timer DEF IInv, W, L, T, Timer
<1>4. TypeOK'
  <2>1. \A t \in Timer : timers'[t].running_since <= clock'
    BY <1>1, <1>3, Numbers DEF W, L, T, Timer, Stopped, IInv, TypeOK
  <2> QED
    BY <1>1, <1>3, <2>1, Retyped DEF IInv, TypeOK
<1>5. Bounds'
  BY <1>3 DEF IInv, Bounds, Between
<1>6. LocalInside'
  BY <1>1, <1>2, <1>3, Numbers DEF LocalInside, Inside, Over, TimerRecord
<1>7. AtPc' /\ Counts' /\ PartInside' /\ Kept'
  BY <1>1, <1>2, <1>3, Numbers
     DEF IInv, AtPc, Counts, PartInside, Kept, Inside, Over, Done, TimerRecord
<1> QED
  BY <1>4, <1>5, <1>6, <1>7 DEF IInv

LEMMA StoreKeeps == IInv /\ Store => IInv'
<1> SUFFICES ASSUME IInv, Store PROVE IInv'
  OBVIOUS
<1> USE DEF Store
<1>1. W' = W /\ L' = L /\ T' = T
  BY DEF W, L, T
<1>2. TypeOK' /\ Bounds' /\ Kept'
  BY <1>1 DEF IInv, TypeOK, Bounds, Between, Kept
<1>3. AtPc' /\ Counts' /\ PartInside' /\ LocalInside'
  BY <1>1 DEF IInv, AtPc, Counts, PartInside, LocalInside, Inside, Over
<1> QED
  BY <1>2, <1>3 DEF IInv

LEMMA NextKeeps == IInv /\ [Next]_vars => IInv'
<1> SUFFICES ASSUME IInv, [Next]_vars PROVE IInv'
  OBVIOUS
<1>1. CASE Step
  BY <1>1, StartTotalKeeps, StartIterationKeeps, StartStartToWaitKeeps,
     StopStartToWaitKeeps, StopIterationKeeps, UntimedIterationKeeps,
     StopTotalKeeps, StoreKeeps DEF Step
<1>2. CASE UNCHANGED vars
  BY <1>2 DEF vars, IInv, TypeOK, AtPc, Counts, Bounds, Between, PartInside,
              LocalInside, Kept, Inside, Over, Done, W, L, T
<1> QED
  BY <1>1, <1>2 DEF Next

(* The averages of the timers lie between the means and the sums of what   *)
(* they timed, and they are nested in each other as the code's calls are.  *)
THEOREM Invariance == Spec => []IInv
BY InitIInv, NextKeeps, PTL DEF Spec

(* Type correctness.                                                       *)
THEOREM TypeCorrect == Spec => []TypeOK
<1>1. IInv => TypeOK
  BY DEF IInv
<1> QED
  BY <1>1, Invariance, PTL

(* The columns of a row of the result file are consistent for any number   *)
(* of iterations: t_wait is not negative and t_local not above t_total.    *)
THEOREM ColumnsNested == Spec => []ColumnsAreNested
<1>1. IInv => ColumnsAreNested
  <2> SUFFICES ASSUME IInv, Done PROVE ColumnsAreNested
    BY DEF ColumnsAreNested
  <2>1. Timing("IterationStartToWait") = W.average /\ Timing("Iteration") = L.average
        /\ Timing("Total") = T.average
    BY DEF IInv, Kept, Timing, W, L, T, Timer
  <2>2. W.average <= L.average
    BY DEF IInv, PartInside, Done
  <2>3. T.count = 1 /\ L.sum <= T.sum
    BY DEF IInv, Counts, LocalInside, Over, Done
  <2>4. T.average >= Scale * T.sum /\ L.average <= Scale * L.sum
    BY <2>3, Numbers DEF IInv, Bounds, Between, TimerRecord
  <2>5. Scale * L.sum <= Scale * T.sum
    BY <2>3, Numbers, Monotone DEF TimerRecord
  <2>6. L.average <= T.average
    BY <2>4, <2>5, Numbers DEF TimerRecord
  <2> QED
    BY <2>1, <2>2, <2>6 DEF ColumnsAreNested
<1> QED
  BY <1>1, Invariance, PTL

(* No average is below the mean, and that of Total is exact, for any       *)
(* number of iterations of any length.                                     *)
THEOREM AveragesNeverUnderstate == Spec => []NeverUnderstates
<1>1. IInv => NeverUnderstates
  <2> SUFFICES ASSUME IInv, Done PROVE NeverUnderstates
    BY DEF NeverUnderstates
  <2>1. Timing("IterationStartToWait") = W.average /\ Timing("Iteration") = L.average
        /\ Timing("Total") = T.average
    BY DEF IInv, Kept, Timing, W, L, T, Timer
  <2>2. T.average = Scale * T.sum
    BY Numbers DEF IInv, Counts, Over, Done, Bounds, Between, TimerRecord
  <2>3. ASSUME timed
        PROVE  L.count = iteration_count /\ W.count = iteration_count
    BY <2>3 DEF IInv, Counts, Over, Done
  <2>4. ASSUME timed
        PROVE  /\ iteration_count * L.average >= Scale * L.sum
               /\ iteration_count * W.average >= Scale * W.sum
    BY <2>3, <2>4 DEF IInv, Bounds, Between
  <2> QED
    BY <2>1, <2>2, <2>4 DEF NeverUnderstates, W, L, T
<1> QED
  BY <1>1, Invariance, PTL
=================================================================================
