------------------------------ MODULE ActionQueue ------------------------------
(***************************************************************************)
(* The prioritised action queues of the player (libcore/movie_root.cpp)    *)
(* and their flushing at the end of script blocks (vm/ActionExec.cpp).     *)
(*                                                                         *)
(* One thread runs everything, but recursively: processActionQueue runs    *)
(* queued code, which pushes more code and, whenever a block or a function *)
(* of it ends, flushes the queues of higher priority, which runs code in   *)
(* turn.  `stack` holds the loops and handlers that are active, innermost  *)
(* last.  What code does is any sequence of pushes, flushes and, perhaps,  *)
(* an exception.                                                           *)
(***************************************************************************)
EXTENDS Integers, Sequences, FiniteSetsExt

CONSTANTS
  Targets,     \* the clips code belongs to
  MaxPushes    \* bound on the pieces of code pushed in a behaviour

ASSUME QueueAssumption == MaxPushes \in Nat

\* PRIORITY_INIT, PRIORITY_CONSTRUCT, PRIORITY_DOACTION and PRIORITY_SIZE.
Levels == 0..2
PriorityConstruct == 1
PrioritySize == 3

Codes == [n : 1..MaxPushes, level : Levels, target : Targets]

\* A loop or a handler that is active: whose, on which level, doing what.
Activations == [owner : {"top", "flush", "handler"}, level : 0..PrioritySize,
                state : {"scan", "code", "unwind"}]

VARIABLES
  queue,      \* _actionQueue
  level,      \* _processingActionLevel
  disabled,   \* _disableScripts
  stack,      \* the active loops and handlers: innermost last
  pushed,     \* history: how many pieces of code were pushed
  last        \* history: the one that was started last

vars == <<queue, level, disabled, stack, pushed, last>>

EmptyQueue == [l \in Levels |-> << >>]

Init ==
  /\ queue = EmptyQueue
  /\ level = PrioritySize
  /\ disabled = FALSE
  /\ stack = << >>
  /\ pushed = 0 /\ last = << >>

\* Mutant: one too many when there is nothing.
MinPopulatedBeyond(q) == Min({l \in Levels : q[l] # << >>} \cup {PrioritySize + 1})

\* minPopulatedPriorityQueue
MinPopulated(q) == Min({l \in Levels : q[l] # << >>} \cup {PrioritySize})

Idle == stack = << >>
Depth == Len(stack)
Top == stack[Depth]
Popped == SubSeq(stack, 1, Depth - 1)
InState(s) == ~Idle /\ Top.state = s
\* The innermost frame gets to another state.
Becoming(s) == [stack EXCEPT ![Depth].state = s]

\* The call of a loop: processActionQueue, or a flush made by the code below.
Calling(owner, q, below) ==
  Append(below, [owner |-> owner, level |-> MinPopulated(q), state |-> "scan"])

-----------------------------------------------------------------------------
(* What the timeline, natives and script code do. *)

\* pushAction, by running code or by the timeline between two pieces of it.
PushAction(l, t) ==
  /\ Idle \/ InState("code")
  /\ pushed < MaxPushes
  /\ pushed' = pushed + 1
  /\ queue' = [queue EXCEPT
                 ![l] = Append(@, [n |-> pushed', level |-> l, target |-> t])]
  /\ UNCHANGED <<level, disabled, stack, last>>

\* The one sequence that has the places of P in increasing order.
InOrder(P) ==
  {p \in [1..Cardinality(P) -> P] :
     /\ \A i, j \in DOMAIN p : i < j => p[i] < p[j]
     /\ \A x \in P : \E i \in DOMAIN p : p[i] = x}

\* A clip is unloaded that has no unload handler: its constructors are erased.
RemoveQueuedConstructor(t) ==
  /\ Idle \/ InState("code")
  /\ LET q == queue[PriorityConstruct]
     IN  \E kept \in InOrder({i \in DOMAIN q : q[i].target # t}) :
           queue' = [queue EXCEPT ![PriorityConstruct] =
                       [k \in DOMAIN kept |-> q[kept[k]]]]
  /\ UNCHANGED <<level, disabled, stack, pushed, last>>

\* A user event handler runs at once, outside the queues.
BeginHandler ==
  /\ Idle /\ ~disabled
  /\ stack' = << [owner |-> "handler", level |-> PrioritySize, state |-> "code"] >>
  /\ UNCHANGED <<queue, level, disabled, pushed, last>>

\* flushHigherPriorityActionQueues, called with the stack `below`.
FlushFrom(below) ==
  IF level >= PrioritySize THEN stack' = below /\ UNCHANGED queue
  ELSE IF disabled THEN stack' = below /\ queue' = EmptyQueue
  ELSE stack' = Calling("flush", queue, below) /\ UNCHANGED queue

\* A function or a block of the running code ends (cleanupAfterRun).
BlockEnds ==
  /\ InState("code")
  /\ FlushFrom(stack)
  /\ UNCHANGED <<level, disabled, pushed, last>>

\* Mutant: a level is emptied before the others are looked at.
CodeEndsInLevel ==
  /\ InState("code")
  /\ IF Top.owner = "handler" THEN stack' = Popped /\ UNCHANGED level
     ELSE LET next == IF queue[Top.level] # << >> THEN Top.level ELSE MinPopulated(queue)
          IN  /\ stack' = [stack EXCEPT ![Depth].level = next,
                                        ![Depth].state = "scan"]
              /\ level' = IF Top.owner = "top" THEN next ELSE level
  /\ UNCHANGED <<queue, disabled, pushed, last>>

\* Mutant: a flush does not loop.
CodeEndsOnce ==
  /\ InState("code")
  /\ IF Top.owner = "handler" THEN stack' = Popped /\ UNCHANGED level
     ELSE LET min == MinPopulated(queue)
          IN  /\ stack' = [stack EXCEPT
                             ![Depth].level = IF @ < min THEN min ELSE PrioritySize,
                             ![Depth].state = "scan"]
              /\ level' = IF Top.owner = "top" THEN min ELSE level
  /\ UNCHANGED <<queue, disabled, pushed, last>>

\* The running code ends.  Its loop looks for the best level there is now; the
\* outermost loop keeps it in _processingActionLevel.
CodeEnds ==
  /\ InState("code")
  /\ IF Top.owner = "handler" THEN stack' = Popped /\ UNCHANGED level
     ELSE LET min == MinPopulated(queue)
          IN  /\ stack' = [stack EXCEPT ![Depth].level = min,
                                        ![Depth].state = "scan"]
              /\ level' = IF Top.owner = "top" THEN min ELSE level
  /\ UNCHANGED <<queue, disabled, pushed, last>>

-----------------------------------------------------------------------------
(* The loops. *)

\* Mutant: disabled scripts keep their code.
ProcessActionQueueKeeping ==
  /\ Idle
  /\ IF disabled THEN UNCHANGED <<queue, level, stack>>
     ELSE /\ level' = MinPopulated(queue)
          /\ stack' = Calling("top", queue, stack)
          /\ UNCHANGED queue
  /\ UNCHANGED <<disabled, pushed, last>>

\* processActionQueue() drops everything if scripts are disabled.
ProcessActionQueue ==
  /\ Idle
  /\ IF disabled THEN queue' = EmptyQueue /\ UNCHANGED <<level, stack>>
     ELSE /\ level' = MinPopulated(queue)
          /\ stack' = Calling("top", queue, stack)
          /\ UNCHANGED queue
  /\ UNCHANGED <<disabled, pushed, last>>

\* It goes on while there is any level, a flush while there is one above that
\* of the outermost loop.
Bound(owner) == IF owner = "top" THEN PrioritySize ELSE level

\* The first piece of code of the level is taken out and executed...
Execute ==
  /\ InState("scan") /\ Top.level < Bound(Top.owner)
  /\ queue' = [queue EXCEPT ![Top.level] = Tail(@)]
  /\ last' = Head(queue[Top.level])
  /\ stack' = Becoming("code")
  /\ UNCHANGED <<level, disabled, pushed>>

\* ...until the loop returns.
LoopReturns ==
  /\ InState("scan") /\ Top.level >= Bound(Top.owner)
  /\ stack' = Popped
  /\ UNCHANGED <<queue, level, disabled, pushed, last>>

-----------------------------------------------------------------------------
(* Exceptions. *)

\* ActionLimitException: every block it leaves is cleaned up, which flushes.
HitLimit ==
  /\ InState("code")
  /\ FlushFrom(Becoming("unwind"))
  /\ UNCHANGED <<level, disabled, pushed, last>>

\* It leaves the loop, into the code that flushed; the block that did so does
\* not catch it, one around it does...
UnwindInner ==
  /\ InState("unwind") /\ Depth > 1
  /\ LET outer == [Popped EXCEPT ![Depth - 1].state = "unwind"]
     IN  FlushFrom(outer) \/ (stack' = outer /\ UNCHANGED queue)
  /\ UNCHANGED <<level, disabled, pushed, last>>

\* ...or for good: handleActionLimitHit disables scripts; who notifies key and
\* mouse listeners only drops what is queued.
UnwindOutermost ==
  /\ InState("unwind") /\ Depth = 1
  /\ stack' = << >>
  /\ disabled' = TRUE \/ (Top.owner = "handler" /\ UNCHANGED disabled)
  /\ queue' = EmptyQueue
  /\ UNCHANGED <<level, pushed, last>>

\* ActionParserException passes all blocks by; advance then clears the queues,
\* setRootMovie does not.
Malformed ==
  /\ InState("code")
  /\ stack' = << >>
  /\ queue' \in {EmptyQueue, queue}
  /\ UNCHANGED <<level, disabled, pushed, last>>

\* reset, before another root movie is played.
Reset ==
  /\ Idle
  /\ queue' = EmptyQueue
  /\ disabled' = FALSE
  /\ UNCHANGED <<level, stack, pushed, last>>

Next ==
  \/ \E l \in Levels, t \in Targets : PushAction(l, t)
  \/ \E t \in Targets : RemoveQueuedConstructor(t)
  \/ BeginHandler \/ BlockEnds \/ CodeEnds
  \/ ProcessActionQueue \/ Execute \/ LoopReturns
  \/ HitLimit \/ UnwindInner \/ UnwindOutermost \/ Malformed \/ Reset

Spec == Init /\ [][Next]_vars

\* The loops run, code ends (its time is limited), and the player is advanced
\* again and again, however often handlers run in between.
Fairness ==
  /\ WF_vars(Execute) /\ WF_vars(LoopReturns)
  /\ WF_vars(UnwindInner) /\ WF_vars(UnwindOutermost)
  /\ SF_vars(CodeEnds)
  /\ SF_vars(ProcessActionQueue)

FairSpec == Spec /\ Fairness

-----------------------------------------------------------------------------
(* Properties. *)

\* Every variable keeps its type.
TypeOK ==
  /\ queue \in [Levels -> Seq(Codes)]
  /\ level \in 0..PrioritySize
  /\ disabled \in BOOLEAN
  /\ stack \in Seq(Activations)
  /\ pushed \in 0..MaxPushes
  /\ last \in Codes \cup {<< >>}

ToPending == UNION {{queue[l][i] : i \in DOMAIN queue[l]} : l \in Levels}

Scheduler == INSTANCE ActionScheduler
  WITH Construct <- PriorityConstruct, pending <- ToPending

\* However deep loops are nested, the code that starts is the oldest of the best
\* priority, and none is lost but by an exception, a reset or disabled scripts.
ImplementsScheduler == Scheduler!SchedSpec

\* A loop that returns has left nothing undone above its bound: code resumes
\* behind a flush with all code of higher priority executed, and
\* processActionQueue returns with empty queues.
LoopReturnsDone ==
  [][InState("scan") /\ Len(stack') < Depth =>
       \A l \in Levels : l < Bound(Top.owner) => queue'[l] = << >>]_vars

\* Code that is pushed does not wait for ever, whatever is thrown.
NoneWaitsForEver ==
  \A k \in 1..MaxPushes :
    (\E c \in ToPending : c.n = k) ~> (\A c \in ToPending : c.n # k)

\* "Process action queues with higher priority then the priority of the action
\* queue currently being processed" (movie_root.h:609): what a flush executes
\* has a higher priority than the code that flushes.
FlushOnlyHigher ==
  \A i \in 2..Depth :
    stack[i].owner = "flush" /\ stack[i].state = "code"
      /\ stack[i - 1].owner # "handler" => stack[i].level < stack[i - 1].level
================================================================================
