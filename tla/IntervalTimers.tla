----------------------------- MODULE IntervalTimers -----------------------------
(***************************************************************************)
(* setInterval, setTimeout and clearInterval (libcore/Timers.cpp and the   *)
(* timers of libcore/movie_root.cpp).                                      *)
(*                                                                         *)
(* After each advance the player collects pointers to the expired timers   *)
(* and then executes them one after the other.  The functions they call    *)
(* set and clear timers, their own included, and may throw; the clock goes *)
(* on meanwhile.                                                           *)
(***************************************************************************)
EXTENDS Integers, FiniteSets

CONSTANTS
  Delays,         \* the intervals scripts ask for
  Word,           \* 2^64: unsigned long, the type of times
  IntervalWord,   \* 2^32: unsigned int, the type of the stored interval
  MaxTime,        \* bound on the clock
  MaxTimers,      \* bound on the timers set in a behaviour
  MaxThrows       \* bound on the functions that throw

ASSUME TimersAssumption ==
  /\ Delays \subseteq Nat
  /\ Word \in Nat /\ IntervalWord \in Nat \ {0} /\ MaxTime \in Nat
  /\ MaxTimers \in Nat /\ MaxThrows \in Nat
  \* The clock is far from its end.
  /\ 2 * (MaxTime + IntervalWord) < Word

Ids == 1..MaxTimers
Words == 0..(Word - 1)

VARIABLES
  now,       \* the clock of the VM
  timers,    \* _intervalTimers: from ids to [interval, start, runOnce]
  lastId,    \* _lastTimerId
  expired,   \* expiredTimers: the timers yet to be executed in this pass
  passTime,  \* the time the pass began with
  running,   \* the timer whose function runs, or 0
  throws,    \* how many functions threw
  born, done \* history: when a timer was set, and how often its start moved on

vars == <<now, timers, lastId, expired, passTime, running, throws, born, done>>

Init ==
  /\ now = 0
  /\ timers = << >> /\ lastId = 0
  /\ expired = {} /\ passTime = 0 /\ running = 0
  /\ throws = 0
  /\ born = [i \in Ids |-> 0] /\ done = [i \in Ids |-> 0]

Idle == expired = {} /\ running = 0

\* numeric_limits<unsigned long>::max() marks a cleared timer.
Never == Word - 1
Cleared(t) == t.start = Never
\* Mutant: the interval stays.
ResetKeeping(t) == [t EXCEPT !.start = Never]

Reset(t) == [t EXCEPT !.interval = 0, !.start = Never]
Postpone(t) == [t EXCEPT !.start = (t.start + t.interval) % Word]

ExpTime(t) == (t.start + t.interval) % Word
Expired(t, time) == ~Cleared(t) /\ time >= ExpTime(t)
\* Mutant: the time since the expiration.
ElapsedSince(t, time) == (time - ExpTime(t)) % Word

\* Timer::expired computes it the other way round, without a sign.
Elapsed(t, time) == (ExpTime(t) - time) % Word

-----------------------------------------------------------------------------
\* The clock goes on at any time.
Tick ==
  /\ now < MaxTime
  /\ now' = now + 1
  /\ UNCHANGED <<timers, lastId, expired, passTime, running, throws, born, done>>

\* Mutant: the interval is stored in full width.
AddIntervalTimerWide(ms, runOnce) ==
  /\ Idle \/ running # 0
  /\ lastId < MaxTimers
  /\ lastId' = lastId + 1
  /\ timers' = [i \in DOMAIN timers \cup {lastId'} |->
                  IF i = lastId'
                  THEN [interval |-> ms, start |-> now, runOnce |-> runOnce]
                  ELSE timers[i]]
  /\ born' = [born EXCEPT ![lastId'] = now]
  /\ UNCHANGED <<now, expired, passTime, running, throws, done>>

\* setInterval and setTimeout, by the function of a timer or by other code
\* between two passes; the Timer stores ms in an unsigned int.
AddIntervalTimer(ms, runOnce) ==
  /\ Idle \/ running # 0
  /\ lastId < MaxTimers
  /\ lastId' = lastId + 1
  /\ timers' = [i \in DOMAIN timers \cup {lastId'} |->
                  IF i = lastId'
                  THEN [interval |-> ms % IntervalWord, start |-> now, runOnce |-> runOnce]
                  ELSE timers[i]]
  /\ born' = [born EXCEPT ![lastId'] = now]
  /\ UNCHANGED <<now, expired, passTime, running, throws, done>>

\* Mutant: the timer is erased at once.
ClearIntervalTimerErasing(i) ==
  /\ Idle \/ running # 0
  /\ i \in DOMAIN timers
  /\ timers' = [j \in DOMAIN timers \ {i} |-> timers[j]]
  /\ UNCHANGED <<now, lastId, expired, passTime, running, throws, born, done>>

\* clearInterval only marks the timer.
ClearIntervalTimer(i) ==
  /\ Idle \/ running # 0
  /\ i \in DOMAIN timers
  /\ timers' = [timers EXCEPT ![i] = Reset(@)]
  /\ UNCHANGED <<now, lastId, expired, passTime, running, throws, born, done>>

\* Another movie is loaded into level 0, or the player is reset: all are gone.
RemoveAll ==
  /\ Idle
  /\ timers' = << >>
  /\ UNCHANGED <<now, lastId, expired, passTime, running, throws, born, done>>

\* Mutant: a timer must be met at its very time.
ExecuteTimersExact ==
  /\ Idle
  /\ LET live == {i \in DOMAIN timers : ~Cleared(timers[i])}
     IN  /\ timers' = [i \in live |-> timers[i]]
         /\ expired' = {[elapsed |-> Elapsed(timers[i], now), id |-> i] :
                          i \in {j \in live : ExpTime(timers[j]) = now}}
  /\ passTime' = now
  /\ UNCHANGED <<now, lastId, running, throws, born, done>>

\* executeTimers erases the cleared timers and collects the expired ones.
ExecuteTimers ==
  /\ Idle
  /\ LET live == {i \in DOMAIN timers : ~Cleared(timers[i])}
     IN  /\ timers' = [i \in live |-> timers[i]]
         /\ expired' = {[elapsed |-> Elapsed(timers[i], now), id |-> i] :
                          i \in {j \in live : Expired(timers[j], now)}}
  /\ passTime' = now
  /\ UNCHANGED <<now, lastId, running, throws, born, done>>

\* The multimap is walked by elapsed time, equal ones by age.
IsNext(e) ==
  /\ e \in expired
  /\ \A f \in expired \ {e} :
       e.elapsed < f.elapsed \/ (e.elapsed = f.elapsed /\ e.id < f.id)

\* executeAndReset does nothing if the timer was cleared since...
Skip(e) ==
  /\ running = 0 /\ IsNext(e)
  /\ Cleared(timers[e.id])
  /\ expired' = expired \ {e}
  /\ UNCHANGED <<now, timers, lastId, passTime, running, throws, born, done>>

\* ...else calls the function...
Execute(e) ==
  /\ running = 0 /\ IsNext(e)
  /\ ~Cleared(timers[e.id])
  /\ running' = e.id
  /\ expired' = expired \ {e}
  /\ UNCHANGED <<now, timers, lastId, passTime, throws, born, done>>

\* Mutant: the next interval begins now.
ExecutedDrifting ==
  /\ running # 0
  /\ timers' = [timers EXCEPT ![running] =
                  IF @.runOnce \/ Cleared(@) THEN Reset(@) ELSE [@ EXCEPT !.start = now]]
  /\ done' = [done EXCEPT ![running] = IF timers[running].interval = 0 THEN @ ELSE @ + 1]
  /\ running' = 0
  /\ UNCHANGED <<now, lastId, expired, passTime, throws, born>>

\* ...and clears the timer or moves its start on by the interval, even if the
\* function cleared it.
Executed ==
  /\ running # 0
  /\ timers' = [timers EXCEPT ![running] =
                  IF @.runOnce THEN Reset(@) ELSE Postpone(@)]
  /\ done' = [done EXCEPT ![running] = IF timers[running].interval = 0 THEN @ ELSE @ + 1]
  /\ running' = 0
  /\ UNCHANGED <<now, lastId, expired, passTime, throws, born>>

\* The function throws: the pass is left, and the timer keeps its start.
Throw ==
  /\ running # 0 /\ throws < MaxThrows
  /\ throws' = throws + 1
  /\ running' = 0 /\ expired' = {}
  /\ UNCHANGED <<now, timers, lastId, passTime, born, done>>

PassNext == Executed \/ \E e \in expired : Skip(e) \/ Execute(e)

Next ==
  \/ Tick
  \/ \E ms \in Delays, runOnce \in BOOLEAN : AddIntervalTimer(ms, runOnce)
  \/ \E i \in DOMAIN timers : ClearIntervalTimer(i)
  \/ RemoveAll \/ ExecuteTimers \/ PassNext \/ Throw

Spec == Init /\ [][Next]_vars

\* The player is advanced again and again, and a pass comes to its end.
Fairness == WF_vars(PassNext) /\ WF_vars(ExecuteTimers)

FairSpec == Spec /\ Fairness

-----------------------------------------------------------------------------
(* Properties. *)

\* Every variable keeps its type.
TypeOK ==
  /\ now \in 0..MaxTime /\ passTime \in 0..MaxTime
  /\ lastId \in 0..MaxTimers
  /\ DOMAIN timers \subseteq 1..lastId
  /\ timers \in [DOMAIN timers ->
                  [interval : 0..(IntervalWord - 1), start : Words, runOnce : BOOLEAN]]
  /\ expired \subseteq [elapsed : Words, id : Ids]
  /\ running \in 0..MaxTimers
  /\ throws \in 0..MaxThrows
  /\ born \in [Ids -> 0..MaxTime]
  /\ done \in [Ids -> Nat]

\* The pointers a pass holds stay good, whatever the functions add and clear,
\* and no timer comes twice in it.
PointersValid ==
  /\ {e.id : e \in expired} \cup ({running} \ {0}) \subseteq DOMAIN timers
  /\ \A e, f \in expired : e.id = f.id => e = f
  /\ \A e \in expired : e.id # running

\* A timer neither drifts nor runs early, however late a pass is: the kth
\* execution is due k intervals after the timer was set.
NoDrift ==
  \A i \in DOMAIN timers : ~Cleared(timers[i]) =>
    /\ timers[i].start = born[i] + done[i] * timers[i].interval
    /\ i = running => passTime >= born[i] + (done[i] + 1) * timers[i].interval

\* A timer that was cleared, be it by its own function, is never set nor
\* executed again, even if it waits in a pass; one that runs once ends cleared.
ClearedIsFinal ==
  [][ \A i \in DOMAIN timers :
        /\ Cleared(timers[i]) => /\ i \in DOMAIN timers' => Cleared(timers'[i])
                                 /\ running' = i => running = i
        /\ timers[i].runOnce /\ running = i /\ running' = 0 /\ throws' = throws
             => Cleared(timers'[i]) ]_vars

\* A pass goes through the overdue timers in the order in which they were due.
\* Those due at this very moment come before them.
OverdueInOrder ==
  [][ \A i \in DOMAIN timers : running = 0 /\ running' = i =>
        \A e \in expired' :
          LET other == timers[e.id]
          IN  ~Cleared(other) =>
                \/ ExpTime(timers[i]) <= ExpTime(other) /\ ExpTime(other) # passTime
                \/ ExpTime(timers[i]) = passTime ]_vars

\* A timer that has expired is executed, unless it is cleared.
ExpiredRuns ==
  \A i \in Ids :
    (i \in DOMAIN timers /\ Expired(timers[i], now))
      ~> (running = i \/ i \notin DOMAIN timers \/ Cleared(timers[i]))
================================================================================
