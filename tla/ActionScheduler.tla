---------------------------- MODULE ActionScheduler ----------------------------
(***************************************************************************)
(* What the action queues of a player promise: pieces of code wait until   *)
(* they are started; whatever starts is the oldest of those with the best  *)
(* (lowest) priority level.  Waiting code can also be dropped, all of it   *)
(* or the constructors of a clip that goes away.                           *)
(***************************************************************************)
EXTENDS Integers

CONSTANTS Levels, Construct, Targets, MaxPushes

VARIABLES
  pending,   \* the code waiting: records [n, level, target]
  pushed,    \* how many were ever pushed
  last       \* the one started last, if any

schedVars == <<pending, pushed, last>>

SchedInit == pending = {} /\ pushed = 0 /\ last = << >>

Submit(l, t) ==
  /\ pushed < MaxPushes
  /\ pushed' = pushed + 1
  /\ pending' = pending \cup {[n |-> pushed', level |-> l, target |-> t]}
  /\ UNCHANGED last

Before(c, d) == c.level < d.level \/ (c.level = d.level /\ c.n < d.n)

Start(c) ==
  /\ \A d \in pending \ {c} : Before(c, d)
  /\ pending' = pending \ {c}
  /\ last' = c
  /\ UNCHANGED pushed

DropAll == pending' = {} /\ UNCHANGED <<pushed, last>>

DropConstructors(t) ==
  /\ pending' = {c \in pending : c.level # Construct \/ c.target # t}
  /\ UNCHANGED <<pushed, last>>

SchedNext ==
  \/ \E l \in Levels, t \in Targets : Submit(l, t)
  \/ \E c \in pending : Start(c)
  \/ DropAll
  \/ \E t \in Targets : DropConstructors(t)

SchedSpec == SchedInit /\ [][SchedNext]_schedVars
================================================================================
