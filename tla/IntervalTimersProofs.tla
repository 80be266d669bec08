-------------------------- MODULE IntervalTimersProofs --------------------------
(***************************************************************************)
(* Proofs about IntervalTimers, for any delays, number of timers, number   *)
(* of exceptions and widths of the integers, as long as the clock is far   *)
(* from its end (TimersAssumption).                                        *)
(***************************************************************************)
EXTENDS IntervalTimers, TLAPS

Timer == [interval : 0..(IntervalWord - 1), start : Words, runOnce : BOOLEAN]

\* A cleared timer has lost its interval too: moving its start on by the
\* interval leaves it cleared.
Stopped == \A i \in DOMAIN timers : Cleared(timers[i]) => timers[i].interval = 0

\* The start of a live timer is in the past and on its schedule.
OnSchedule ==
  \A i \in DOMAIN timers : ~Cleared(timers[i]) =>
    /\ timers[i].start <= MaxTime
    /\ timers[i].start = born[i] + done[i] * timers[i].interval

\* The timer t was due when the pass began.
DueBy(t) == ~Cleared(t) => t.start + t.interval <= passTime

\* Those who wait in a pass were due when it began, and wait in order.
Due ==
  /\ \A e \in expired : DueBy(timers[e.id])
  /\ \A e \in expired : ~Cleared(timers[e.id]) =>
                          e.elapsed = Elapsed(timers[e.id], passTime)
  /\ running # 0 => DueBy(timers[running])

\* A timer that is not yet set was never executed.
Fresh == \A i \in Ids : i > lastId => done[i] = 0

IInv == TypeOK /\ PointersValid /\ Stopped /\ OnSchedule /\ Due /\ Fresh

-----------------------------------------------------------------------------
(* Arithmetic of the words, and what the updates do to one timer. *)

\* What the assumption says about the widths.
LEMMA Widths ==
  /\ Word \in Nat /\ IntervalWord \in Nat /\ MaxTime \in Nat /\ MaxTimers \in Nat
  /\ IntervalWord > 0 /\ Word > 0
  /\ MaxTime + IntervalWord < Word - 1
  /\ Never \in Words /\ Words \subseteq Nat
BY TimersAssumption DEF Never, Words

\* Reduction to a word.
LEMMA ModRange ==
  ASSUME NEW x \in Int
  PROVE  x % Word \in Words
BY Widths DEF Words

LEMMA ModSmall ==
  ASSUME NEW x \in Words
  PROVE  x % Word = x
BY Widths DEF Words

LEMMA ModNegative ==
  ASSUME NEW x \in Int, 0 - Word < x, x < 0
  PROVE  x % Word = x + Word
BY Widths

\* Clearing a timer.
LEMMA ResetTimer ==
  ASSUME NEW t \in Timer
  PROVE  /\ Reset(t) \in Timer /\ Cleared(Reset(t))
         /\ Reset(t).interval = 0 /\ Reset(t).runOnce = t.runOnce
<1>1. 0 \in 0..(IntervalWord - 1) /\ Never \in Words
  BY Widths
<1>2. Reset(t) \in Timer
  BY <1>1 DEF Timer, Reset
<1>3. Reset(t).interval = 0 /\ Reset(t).start = Never
  BY DEF Timer, Reset
<1>4. Reset(t).runOnce = t.runOnce
  BY DEF Timer, Reset
<1> QED
  BY <1>2, <1>3, <1>4 DEF Cleared

\* The expiration time of a live timer whose start is in the past.
LEMMA ExpTimeSum ==
  ASSUME NEW t \in Timer, t.start <= MaxTime
  PROVE  ExpTime(t) = t.start + t.interval /\ ExpTime(t) \in Words
<1>1. t.start + t.interval \in Words
  BY Widths DEF Timer, Words
<1> QED
  BY <1>1, ModSmall DEF ExpTime

\* Elapsed orders the overdue timers as their expiration times do.
LEMMA ElapsedOrder ==
  ASSUME NEW t \in Timer, t.start <= MaxTime,
         NEW p \in 0..MaxTime, t.start + t.interval <= p
  PROVE  Elapsed(t, p) = IF t.start + t.interval = p THEN 0
                         ELSE Word - (p - (t.start + t.interval))
<1> DEFINE x == t.start + t.interval
<1>1. x \in Nat /\ ExpTime(t) = x
  BY ExpTimeSum, Widths DEF Timer, Words
<1>2. CASE x = p
  <2>1. 0 \in Words /\ ExpTime(t) - p = 0
    BY <1>1, <1>2, Widths DEF Words
  <2> QED
    BY <2>1, <1>2, ModSmall DEF Elapsed
<1>3. CASE x # p
  <2>1. x - p \in Int /\ 0 - Word < x - p /\ x - p < 0
    BY <1>1, <1>3, Widths
  <2>2. (x - p) % Word = x - p + Word
    BY <2>1, ModNegative
  <2> QED
    BY <1>1, <2>2, <1>3, Widths DEF Elapsed
<1> QED
  BY <1>2, <1>3

LEMMA OneMore ==
  ASSUME NEW a \in Nat, NEW b \in Nat
  PROVE  (a + 1) * b = a * b + b
OBVIOUS

-----------------------------------------------------------------------------
(* The invariant holds at the start and every action keeps it. *)

\* There are no timers at the start.
LEMMA InitIInv == Init => IInv
<1> SUFFICES ASSUME Init PROVE IInv
  OBVIOUS
<1> USE Widths, TimersAssumption DEF Init
<1>1. DOMAIN timers = {}
  OBVIOUS
<1>2. TypeOK
  <2>1. timers \in [DOMAIN timers -> Timer]
    BY <1>1
  <2> QED
    BY <1>1, <2>1 DEF TypeOK, Timer, Ids
<1> QED
  BY <1>1, <1>2 DEF IInv, PointersValid, Stopped, OnSchedule, Due, Fresh, Ids

\* What the invariant says about a pair of an id and its timer.
LEMMA TimerAt ==
  ASSUME IInv, NEW i \in DOMAIN timers
  PROVE  timers[i] \in Timer /\ i \in Ids /\ i <= lastId /\ i # 0
BY Widths DEF IInv, TypeOK, Timer, Ids

\* The steps that do not touch the timers themselves.
LEMMA TickStep == IInv /\ Tick => IInv'
<1> SUFFICES ASSUME IInv, Tick PROVE IInv'
  OBVIOUS
<1> USE Widths DEF Tick
<1>1. TypeOK'
  BY DEF IInv, TypeOK
<1> QED
  BY <1>1 DEF IInv, PointersValid, Stopped, OnSchedule, Due, DueBy, Fresh

LEMMA StutterStep == IInv /\ UNCHANGED vars => IInv'
BY DEF IInv, vars, TypeOK, PointersValid, Stopped, OnSchedule, Due, DueBy, Fresh

\* A new timer starts now, is not in any pass and was never executed.
LEMMA AddStep ==
  ASSUME IInv, NEW ms \in Delays, NEW once \in BOOLEAN, AddIntervalTimer(ms, once)
  PROVE  IInv'
<1> USE Widths
<1> DEFINE new == lastId + 1
           added == [interval |-> ms % IntervalWord, start |-> now, runOnce |-> once]
<1>1. new \in Ids /\ new \notin DOMAIN timers /\ lastId' = new
  BY DEF AddIntervalTimer, IInv, TypeOK, Ids
<1>2. /\ DOMAIN timers' = DOMAIN timers \cup {new}
      /\ timers'[new] = added
      /\ \A i \in DOMAIN timers : timers'[i] = timers[i]
  BY <1>1 DEF AddIntervalTimer
<1>3. now \in Nat /\ now <= MaxTime
  BY DEF IInv, TypeOK
<1>4. added \in Timer /\ ~Cleared(added) /\ added.start = now /\ added.start \in Nat
  <2>1. ms % IntervalWord \in 0..(IntervalWord - 1)
    BY TimersAssumption
  <2>2. now \in Words /\ now # Never
    BY <1>3 DEF Words, Never
  <2> QED
    BY <2>1, <2>2, <1>3 DEF Timer, Cleared
<1>5. TypeOK'
  <2>1. timers' \in [DOMAIN timers' -> Timer]
    <3>1. \A i \in DOMAIN timers' : timers'[i] \in Timer
      BY <1>2, <1>4, TimerAt
    <3>2. timers' = [i \in DOMAIN timers' |-> timers'[i]]
      BY DEF AddIntervalTimer
    <3> QED
      BY <3>1, <3>2
  <2>2. DOMAIN timers' \subseteq 1..lastId' /\ lastId' \in 0..MaxTimers
    BY <1>1, <1>2 DEF IInv, TypeOK, Ids
  <2>3. born' \in [Ids -> 0..MaxTime]
    BY <1>1, <1>3 DEF AddIntervalTimer, IInv, TypeOK
  <2> QED
    BY <2>1, <2>2, <2>3 DEF AddIntervalTimer, IInv, TypeOK, Timer
<1>6. PointersValid'
  BY <1>2 DEF AddIntervalTimer, IInv, PointersValid
<1>7. Stopped'
  BY <1>2, <1>4 DEF IInv, Stopped
<1>8. OnSchedule'
  <2>1. born'[new] = now /\ done'[new] = 0 /\ done' = done
    BY <1>1 DEF AddIntervalTimer, IInv, TypeOK, Fresh, Ids
  <2>2. \A i \in DOMAIN timers : born'[i] = born[i]
    BY <1>1, TimerAt DEF AddIntervalTimer, IInv, TypeOK
  <2>3. added.interval \in Nat
    BY <1>4 DEF Timer
  <2>4. now = now + 0 * added.interval
    BY <2>3, <1>3
  <2> QED
    BY <1>2, <1>3, <1>4, <2>1, <2>2, <2>4 DEF IInv, OnSchedule
<1>9. Due'
  <2>1. \A e \in expired : e.id \in DOMAIN timers
    BY DEF IInv, PointersValid
  <2>2. running # 0 => running \in DOMAIN timers
    BY DEF IInv, PointersValid
  <2> QED
    BY <1>2, <2>1, <2>2 DEF AddIntervalTimer, IInv, Due, DueBy
<1>10. Fresh'
  BY <1>1 DEF AddIntervalTimer, IInv, Fresh, TypeOK, Ids
<1> QED
  BY <1>5, <1>6, <1>7, <1>8, <1>9, <1>10 DEF IInv

\* Clearing a timer leaves all others alone, and nothing is claimed of it.
LEMMA ClearStep ==
  ASSUME IInv, NEW c \in DOMAIN timers, ClearIntervalTimer(c)
  PROVE  IInv'
<1> USE Widths
<1>1. timers[c] \in Timer
  BY TimerAt
<1>2. /\ DOMAIN timers' = DOMAIN timers
      /\ timers'[c] = Reset(timers[c])
      /\ \A i \in DOMAIN timers \ {c} : timers'[i] = timers[i]
  BY DEF ClearIntervalTimer
<1>3. /\ timers'[c] \in Timer /\ Cleared(timers'[c]) /\ timers'[c].interval = 0
  BY <1>1, <1>2, ResetTimer
<1>4. TypeOK'
  <2>1. timers' \in [DOMAIN timers' -> Timer]
    <3>1. \A i \in DOMAIN timers' : timers'[i] \in Timer
      BY <1>2, <1>3, TimerAt
    <3>2. timers' = [i \in DOMAIN timers' |-> timers'[i]]
      BY DEF ClearIntervalTimer
    <3> QED
      BY <3>1, <3>2
  <2> QED
    BY <2>1, <1>2 DEF ClearIntervalTimer, IInv, TypeOK, Timer
<1>5. PointersValid'
  BY <1>2 DEF ClearIntervalTimer, IInv, PointersValid
<1>6. Stopped' /\ OnSchedule'
  BY <1>2, <1>3 DEF ClearIntervalTimer, IInv, Stopped, OnSchedule
<1>7. Due'
  <2>1. \A e \in expired : e.id \in DOMAIN timers
    BY DEF IInv, PointersValid
  <2>2. running # 0 => running \in DOMAIN timers
    BY DEF IInv, PointersValid
  <2> QED
    BY <1>2, <1>3, <2>1, <2>2 DEF ClearIntervalTimer, IInv, Due, DueBy
<1>8. Fresh'
  BY DEF ClearIntervalTimer, IInv, Fresh
<1> QED
  BY <1>4, <1>5, <1>6, <1>7, <1>8 DEF IInv

\* Without timers there is nothing to keep, and no pass holds a pointer.
LEMMA RemoveStep == IInv /\ RemoveAll => IInv'
<1> SUFFICES ASSUME IInv, RemoveAll PROVE IInv'
  OBVIOUS
<1> USE Widths DEF RemoveAll, Idle
<1>1. DOMAIN timers' = {}
  OBVIOUS
<1>2. TypeOK'
  <2>1. timers' \in [DOMAIN timers' -> Timer]
    BY <1>1
  <2> QED
    BY <1>1, <2>1 DEF IInv, TypeOK, Timer
<1> QED
  BY <1>1, <1>2 DEF IInv, PointersValid, Stopped, OnSchedule, Due, Fresh
\* A pass erases cleared timers and collects those that were due.
LEMMA ExecuteTimersStep == IInv /\ ExecuteTimers => IInv'
<1> SUFFICES ASSUME IInv, ExecuteTimers PROVE IInv'
  OBVIOUS
<1> USE Widths
<1> DEFINE live == {i \in DOMAIN timers : ~Cleared(timers[i])}
           late == {i \in live : Expired(timers[i], now)}
<1>1. /\ DOMAIN timers' = live
      /\ \A i \in live : timers'[i] = timers[i]
      /\ timers' = [i \in live |-> timers[i]]
  BY DEF ExecuteTimers
<1>2. expired' = {[elapsed |-> Elapsed(timers[i], now), id |-> i] : i \in late}
  BY DEF ExecuteTimers
<1>3. /\ \A e \in expired' : e.id \in late /\ e.elapsed = Elapsed(timers[e.id], now)
      /\ passTime' = now /\ running = 0 /\ running' = 0
  BY <1>2 DEF ExecuteTimers, Idle
<1>4. \A i \in live : /\ timers[i] \in Timer /\ i \in Ids /\ i <= lastId /\ i # 0
                      /\ timers[i].start <= MaxTime
  BY TimerAt DEF IInv, OnSchedule
<1>5. now \in Nat /\ now <= MaxTime
  BY DEF IInv, TypeOK
<1>6. \A i \in late : timers[i].start + timers[i].interval <= now
  BY <1>4, ExpTimeSum DEF Expired
<1>7. TypeOK'
  <2>1. timers' \in [DOMAIN timers' -> Timer]
    BY <1>1, <1>4
  <2>2. ASSUME NEW i \in late
        PROVE  [elapsed |-> Elapsed(timers[i], now), id |-> i] \in [elapsed : Words, id : Ids]
    <3>1. ExpTime(timers[i]) \in Int
      BY <1>4, ExpTimeSum DEF Words
    <3>2. Elapsed(timers[i], now) \in Words
      BY <3>1, <1>5, ModRange DEF Elapsed
    <3> QED
      BY <3>2, <1>4
  <2>3. expired' \subseteq [elapsed : Words, id : Ids]
    BY <1>2, <2>2
  <2> QED
    BY <2>1, <2>3, <1>1, <1>5 DEF ExecuteTimers, IInv, TypeOK, Timer
<1>8. PointersValid'
  <2>1. \A e, f \in expired' : e.id = f.id => e = f
    BY <1>2
  <2> QED
    BY <2>1, <1>1, <1>3, <1>4 DEF PointersValid
<1>9. Stopped' /\ OnSchedule'
  BY <1>1 DEF ExecuteTimers, IInv, Stopped, OnSchedule
<1>10. Due'
  BY <1>1, <1>3, <1>6 DEF Due, DueBy
<1>11. Fresh'
  BY DEF ExecuteTimers, IInv, Fresh
<1> QED
  BY <1>7, <1>8, <1>9, <1>10, <1>11 DEF IInv

\* Taking the next one out of a pass, be it to skip it, to run it or because
\* the pass is left, only shrinks what the pass holds.
LEMMA TakeStep ==
  ASSUME IInv, UNCHANGED <<now, timers, lastId, passTime, born, done>>,
         expired' \subseteq expired, throws' \in 0..MaxThrows,
         \/ running' = 0
         \/ \E e \in expired : running' = e.id /\ expired' = expired \ {e}
  PROVE  IInv'
<1> USE Widths
<1>1. \A e \in expired : e.id \in DOMAIN timers /\ e.id \in Ids
  BY TimerAt DEF IInv, PointersValid
<1>2. running' = 0 \/ (running' \in DOMAIN timers /\ running' \in Ids)
  BY <1>1
<1>3. TypeOK'
  <2>1. running' \in 0..MaxTimers
    BY <1>2 DEF Ids
  <2>2. expired' \subseteq [elapsed : Words, id : Ids]
    BY DEF IInv, TypeOK
  <2>3. UNCHANGED <<now, timers, lastId, passTime, born, done>>
    OBVIOUS
  <2> QED
    BY <2>1, <2>2, <2>3 DEF IInv, TypeOK
<1>4. PointersValid'
  <2>1. \A e \in expired' : e.id # running'
    BY <1>1 DEF IInv, PointersValid, Ids
  <2> QED
    BY <2>1, <1>1, <1>2 DEF IInv, PointersValid
<1>5. Stopped' /\ OnSchedule' /\ Fresh'
  BY DEF IInv, Stopped, OnSchedule, Fresh
<1>6. Due'
  BY DEF IInv, Due, DueBy
<1> QED
  BY <1>3, <1>4, <1>5, <1>6 DEF IInv

\* The start of the timer whose function returned moves on to a time that is
\* past, as the timer was due when the pass began; a timer that was cleared
\* meanwhile stays cleared.
LEMMA ExecutedStep == IInv /\ Executed => IInv'
<1> SUFFICES ASSUME IInv, Executed PROVE IInv'
  OBVIOUS
<1> USE Widths
<1> DEFINE t == timers[running]
           moved == Postpone(t)
           next == IF t.runOnce THEN Reset(t) ELSE moved
<1>1. running \in DOMAIN timers /\ running # 0
  BY DEF Executed, IInv, PointersValid
<1>2. t \in Timer /\ running \in Ids /\ t.interval \in Nat /\ t.start \in Nat
  BY <1>1, TimerAt DEF Timer, Words
<1>3. /\ DOMAIN timers' = DOMAIN timers
      /\ timers'[running] = next
      /\ \A i \in DOMAIN timers \ {running} : timers'[i] = timers[i]
      /\ timers' = [i \in DOMAIN timers' |-> timers'[i]]
  <2>1. timers' = [timers EXCEPT ![running] = next]
    BY DEF Executed
  <2> QED
    BY <2>1, <1>1
<1>4. /\ moved \in Timer /\ moved.interval = t.interval
      /\ moved.start = (t.start + t.interval) % Word
  <2>1. (t.start + t.interval) % Word \in Words
    BY <1>2, ModRange
  <2> QED
    BY <1>2, <2>1 DEF Timer, Postpone
<1>5. next \in Timer
  BY <1>2, <1>4, ResetTimer
<1>6. Cleared(t) => next.interval = 0 /\ Cleared(next)
  <2>1. ASSUME Cleared(t) PROVE moved.start = Never /\ moved.interval = 0
    <3>1. t.interval = 0 /\ t.start = Never
      BY <2>1, <1>1 DEF IInv, Stopped, Cleared
    <3>2. t.start + t.interval = Never
      BY <3>1, <1>2
    <3> QED
      BY <1>4, <3>1, <3>2, ModSmall
  <2> QED
    BY <2>1, <1>2, ResetTimer DEF Cleared
<1>7. ~Cleared(t) /\ ~t.runOnce =>
        /\ next.start = t.start + t.interval /\ next.interval = t.interval
        /\ t.start + t.interval <= passTime /\ passTime <= MaxTime
        /\ ~Cleared(next)
  <2> SUFFICES ASSUME ~Cleared(t), ~t.runOnce
               PROVE  /\ next.start = t.start + t.interval
                      /\ next.interval = t.interval
                      /\ t.start + t.interval <= passTime /\ passTime <= MaxTime
                      /\ ~Cleared(next)
    OBVIOUS
  <2>1. t.start + t.interval <= passTime /\ passTime <= MaxTime /\ passTime \in Nat
    BY <1>1 DEF IInv, Due, DueBy, TypeOK
  <2>2. t.start + t.interval \in Words /\ t.start + t.interval # Never
    BY <2>1, <1>2 DEF Words, Never
  <2>3. next.start = t.start + t.interval
    BY <2>2, <1>4, ModSmall
  <2> QED
    BY <2>1, <2>2, <2>3, <1>4 DEF Cleared
<1>8. t.runOnce => Cleared(next) /\ next.interval = 0
  BY <1>2, ResetTimer
<1>9. TypeOK'
  <2>1. \A i \in DOMAIN timers' : timers'[i] \in Timer
    BY <1>3, <1>5, TimerAt
  <2>2. timers' \in [DOMAIN timers' -> Timer]
    BY <2>1, <1>3
  <2>3. done' \in [Ids -> Nat]
    BY <1>2 DEF Executed, IInv, TypeOK
  <2>4. DOMAIN timers' \subseteq 1..lastId /\ running' = 0
    BY <1>3 DEF Executed, IInv, TypeOK
  <2> QED
    BY <2>2, <2>3, <2>4 DEF Executed, IInv, TypeOK, Timer
<1>10. PointersValid'
  <2>1. \A e \in expired : e.id \in DOMAIN timers /\ e.id # 0
    BY TimerAt DEF IInv, PointersValid
  <2> QED
    BY <2>1, <1>3 DEF Executed, IInv, PointersValid
<1>11. Stopped'
  BY <1>3, <1>6, <1>7, <1>8 DEF IInv, Stopped
<1>12. OnSchedule'
  <2>1. \A i \in DOMAIN timers \ {running} : done'[i] = done[i]
    BY <1>2, TimerAt DEF Executed, IInv, TypeOK
  <2>2. done[running] \in Nat /\ born[running] \in Nat /\ born' = born
    BY <1>2 DEF Executed, IInv, TypeOK
  <2>3. done'[running] = IF t.interval = 0 THEN done[running] ELSE done[running] + 1
    BY <1>2 DEF Executed, IInv, TypeOK
  <2>4. ASSUME ~Cleared(next)
        PROVE  /\ next.start <= MaxTime
               /\ next.start = born'[running] + done'[running] * next.interval
    <3>1. /\ next.start = t.start + t.interval /\ next.interval = t.interval
          /\ next.start <= MaxTime
      BY <2>4, <1>2, <1>6, <1>7, <1>8, <1>5 DEF Timer, Words, IInv, TypeOK
    <3>2. t.start = born[running] + done[running] * t.interval
      BY <2>4, <1>1, <1>6 DEF IInv, OnSchedule
    <3>3. (done[running] + 1) * t.interval = done[running] * t.interval + t.interval
      BY <2>2, <1>2, OneMore
    <3>4. CASE t.interval = 0
      BY <3>1, <3>2, <3>4, <2>2, <2>3, <1>2
    <3>5. CASE t.interval # 0
      <4>1. done'[running] = done[running] + 1
        BY <3>5, <2>3
      <4>2. done[running] * t.interval \in Nat
        BY <2>2, <1>2
      <4> QED
        BY <3>1, <3>2, <3>3, <4>1, <4>2, <2>2, <1>2
    <3> QED
      BY <3>1, <3>4, <3>5
  <2> QED
    BY <2>1, <2>2, <2>4, <1>3 DEF IInv, OnSchedule
<1>13. Due'
  <2>1. \A e \in expired : e.id \in DOMAIN timers \ {running}
    BY DEF IInv, PointersValid
  <2> QED
    BY <2>1, <1>3 DEF Executed, IInv, Due, DueBy
<1>14. Fresh'
  <2>1. running <= lastId /\ lastId \in Nat
    BY <1>1, TimerAt DEF IInv, TypeOK
  <2> QED
    BY <2>1, <1>2 DEF Executed, IInv, Fresh, TypeOK, Ids
<1> QED
  BY <1>9, <1>10, <1>11, <1>12, <1>13, <1>14 DEF IInv
\* Whatever the scripts and the clock do, the invariant is kept.
LEMMA NextStep == IInv /\ [Next]_vars => IInv'
<1> SUFFICES ASSUME IInv, [Next]_vars PROVE IInv'
  OBVIOUS
<1>1. CASE Tick
  BY <1>1, TickStep
<1>2. CASE \E ms \in Delays, runOnce \in BOOLEAN : AddIntervalTimer(ms, runOnce)
  BY <1>2, AddStep
<1>3. CASE \E i \in DOMAIN timers : ClearIntervalTimer(i)
  BY <1>3, ClearStep
<1>4. CASE RemoveAll
  BY <1>4, RemoveStep
<1>5. CASE ExecuteTimers
  BY <1>5, ExecuteTimersStep
<1>6. CASE Executed
  BY <1>6, ExecutedStep
<1>7. ASSUME NEW e \in expired, Skip(e) PROVE IInv'
  <2>1. throws' \in 0..MaxThrows
    BY <1>7 DEF Skip, IInv, TypeOK
  <2> QED
    BY <1>7, <2>1, TakeStep DEF Skip
<1>8. ASSUME NEW e \in expired, Execute(e) PROVE IInv'
  <2>1. throws' \in 0..MaxThrows
    BY <1>8 DEF Execute, IInv, TypeOK
  <2> QED
    BY <1>8, <2>1, TakeStep DEF Execute
<1>9. CASE Throw
  <2>1. throws' \in 0..MaxThrows
    BY <1>9, TimersAssumption DEF Throw, IInv, TypeOK
  <2> QED
    BY <1>9, <2>1, TakeStep DEF Throw
<1>10. CASE UNCHANGED vars
  BY <1>10, StutterStep
<1> QED
  BY <1>1, <1>2, <1>3, <1>4, <1>5, <1>6, <1>7, <1>8, <1>9, <1>10 DEF Next, PassNext

-----------------------------------------------------------------------------
\* The invariant of clock, timers and passes holds in every reachable state.
THEOREM InductiveInvariant == Spec => []IInv
BY InitIInv, NextStep, PTL DEF Spec

\* Type correctness: times stay words, stored intervals stay 32 bits wide.
THEOREM TypeCorrect == Spec => []TypeOK
<1>1. IInv => TypeOK
  BY DEF IInv
<1> QED
  BY InductiveInvariant, <1>1, PTL

\* No function a timer calls invalidates the pointers of the pass it runs in.
THEOREM PointersStayValid == Spec => []PointersValid
<1>1. IInv => PointersValid
  BY DEF IInv
<1> QED
  BY InductiveInvariant, <1>1, PTL

\* The kth execution of a timer is due k intervals after it was set.
THEOREM Punctual == Spec => []NoDrift
<1>1. IInv => NoDrift
  <2> SUFFICES ASSUME IInv, NEW i \in DOMAIN timers, ~Cleared(timers[i])
               PROVE  /\ timers[i].start = born[i] + done[i] * timers[i].interval
                      /\ i = running =>
                           passTime >= born[i] + (done[i] + 1) * timers[i].interval
    BY DEF NoDrift
  <2>1. timers[i] \in Timer /\ i \in Ids /\ i # 0
    BY TimerAt
  <2>2. timers[i].interval \in Nat /\ done[i] \in Nat /\ born[i] \in Nat /\ passTime \in Nat
    BY <2>1, Widths DEF Timer, IInv, TypeOK
  <2>3. timers[i].start = born[i] + done[i] * timers[i].interval
    BY DEF IInv, OnSchedule
  <2>4. ASSUME i = running
        PROVE  passTime >= born[i] + (done[i] + 1) * timers[i].interval
    <3>1. timers[i].start + timers[i].interval <= passTime
      BY <2>1, <2>4 DEF IInv, Due, DueBy
    <3>2. (done[i] + 1) * timers[i].interval = done[i] * timers[i].interval + timers[i].interval
      BY <2>2, OneMore
    <3>3. done[i] * timers[i].interval \in Nat
      BY <2>2
    <3> QED
      BY <2>2, <2>3, <3>1, <3>2, <3>3
  <2> QED
    BY <2>3, <2>4
<1> QED
  BY InductiveInvariant, <1>1, PTL

\* A cleared timer is never executed nor set again, also when it waits in a
\* pass or clears itself while it runs.
THEOREM ClearedStaysCleared == Spec => ClearedIsFinal
<1> DEFINE Final ==
      \A i \in DOMAIN timers :
        /\ Cleared(timers[i]) => /\ i \in DOMAIN timers' => Cleared(timers'[i])
                                 /\ running' = i => running = i
        /\ timers[i].runOnce /\ running = i /\ running' = 0 /\ throws' = throws
             => Cleared(timers'[i])
<1>1. IInv /\ [Next]_vars => [Final]_vars
  <2> SUFFICES ASSUME IInv, Next, NEW i \in DOMAIN timers
               PROVE  /\ Cleared(timers[i]) => /\ i \in DOMAIN timers' => Cleared(timers'[i])
                                               /\ running' = i => running = i
                      /\ timers[i].runOnce /\ running = i /\ running' = 0 /\ throws' = throws
                           => Cleared(timers'[i])
    OBVIOUS
  <2>1. timers[i] \in Timer /\ i \in Ids /\ i <= lastId /\ i # 0 /\ lastId \in Nat
    BY TimerAt DEF IInv, TypeOK
  <2>2. CASE Tick
    BY <2>1, <2>2 DEF Tick
  <2>3. CASE \E ms \in Delays, runOnce \in BOOLEAN : AddIntervalTimer(ms, runOnce)
    <3> PICK ms \in Delays, once \in BOOLEAN : AddIntervalTimer(ms, once)
      BY <2>3
    <3>1. timers'[i] = timers[i] /\ running' = running
      BY <2>1 DEF AddIntervalTimer
    <3> QED
      BY <2>1, <3>1
  <2>4. CASE \E c \in DOMAIN timers : ClearIntervalTimer(c)
    <3> PICK c \in DOMAIN timers : ClearIntervalTimer(c)
      BY <2>4
    <3>1. timers'[i] = (IF i = c THEN Reset(timers[i]) ELSE timers[i]) /\ running' = running
      BY DEF ClearIntervalTimer
    <3> QED
      BY <2>1, <3>1, ResetTimer
  <2>5. CASE RemoveAll
    BY <2>1, <2>5 DEF RemoveAll, Idle
  <2>6. CASE ExecuteTimers
    BY <2>1, <2>6 DEF ExecuteTimers, Idle
  <2>7. CASE Executed
    <3>1. /\ running' = 0
          /\ timers'[i] = IF i # running THEN timers[i]
                          ELSE IF timers[i].runOnce THEN Reset(timers[i])
                          ELSE Postpone(timers[i])
      BY <2>7 DEF Executed
    <3>2. Cleared(timers[i]) => Cleared(Postpone(timers[i]))
      <4>1. ASSUME Cleared(timers[i]) PROVE timers[i].start + timers[i].interval = Never
        BY <4>1, <2>1, Widths DEF IInv, Stopped, Cleared
      <4>2. Postpone(timers[i]).start = (timers[i].start + timers[i].interval) % Word
        BY <2>1 DEF Postpone, Timer
      <4> QED
        BY <4>1, <4>2, Widths, ModSmall DEF Cleared
    <3> QED
      BY <2>1, <3>1, <3>2, ResetTimer
  <2>8. CASE \E e \in expired : Skip(e) \/ Execute(e)
    BY <2>1, <2>8 DEF Skip, Execute
  <2>9. CASE Throw
    BY <2>1, <2>9 DEF Throw, IInv, TypeOK
  <2> QED
    BY <2>2, <2>3, <2>4, <2>5, <2>6, <2>7, <2>8, <2>9 DEF Next, PassNext
<1> QED
  BY InductiveInvariant, <1>1, PTL DEF Spec, ClearedIsFinal

\* Computed the wrong way round and without a sign, elapsed still orders the
\* overdue timers by the time they were due.
THEOREM OverdueOrder == Spec => OverdueInOrder
<1> DEFINE Ordered ==
      \A i \in DOMAIN timers : running = 0 /\ running' = i =>
        \A e \in expired' :
          LET other == timers[e.id]
          IN  ~Cleared(other) =>
                \/ ExpTime(timers[i]) <= ExpTime(other) /\ ExpTime(other) # passTime
                \/ ExpTime(timers[i]) = passTime
<1>1. IInv /\ [Next]_vars => [Ordered]_vars
  <2> SUFFICES ASSUME IInv, Next, NEW i \in DOMAIN timers, running = 0, running' = i,
                      NEW e \in expired', ~Cleared(timers[e.id])
               PROVE  \/ /\ ExpTime(timers[i]) <= ExpTime(timers[e.id])
                         /\ ExpTime(timers[e.id]) # passTime
                      \/ ExpTime(timers[i]) = passTime
    OBVIOUS
  <2>1. i # 0
    BY TimerAt
  <2>2. PICK f \in expired : Execute(f)
    BY <2>1 DEF Next, PassNext, Tick, AddIntervalTimer, ClearIntervalTimer, RemoveAll,
                ExecuteTimers, Executed, Skip, Throw
  <2>3. /\ f.id = i /\ IsNext(f) /\ ~Cleared(timers[i])
        /\ e \in expired \ {f}
    BY <2>2 DEF Execute
  <2>4. e.id \in DOMAIN timers /\ passTime \in 0..MaxTime
    BY <2>3 DEF IInv, PointersValid, TypeOK
  <2> DEFINE mine == timers[i].start + timers[i].interval
             others == timers[e.id].start + timers[e.id].interval
  <2>5. /\ timers[i] \in Timer /\ timers[i].start <= MaxTime
        /\ mine <= passTime /\ f.elapsed = Elapsed(timers[i], passTime)
    BY <2>3, TimerAt DEF IInv, OnSchedule, Due, DueBy
  <2>6. /\ timers[e.id] \in Timer /\ timers[e.id].start <= MaxTime
        /\ others <= passTime /\ e.elapsed = Elapsed(timers[e.id], passTime)
    BY <2>3, <2>4, TimerAt DEF IInv, OnSchedule, Due, DueBy
  <2>7. mine \in Nat /\ others \in Nat /\ ExpTime(timers[i]) = mine
        /\ ExpTime(timers[e.id]) = others
    BY <2>5, <2>6, ExpTimeSum, Widths DEF Timer, Words
  <2>8. f.elapsed = IF mine = passTime THEN 0 ELSE Word - (passTime - mine)
    BY <2>4, <2>5, ElapsedOrder
  <2>9. e.elapsed = IF others = passTime THEN 0 ELSE Word - (passTime - others)
    BY <2>4, <2>6, ElapsedOrder
  <2>10. f.elapsed <= e.elapsed
    <3>1. f.elapsed < e.elapsed \/ f.elapsed = e.elapsed
      BY <2>3 DEF IsNext
    <3> QED
      BY <3>1, <2>4, <2>7, <2>8, <2>9, Widths
  <2> HIDE DEF mine, others
  <2> QED
    BY <2>4, <2>5, <2>6, <2>7, <2>8, <2>9, <2>10, Widths
<1> QED
  BY InductiveInvariant, <1>1, PTL DEF Spec, OverdueInOrder
================================================================================
