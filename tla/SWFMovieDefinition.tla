-------------------------- MODULE SWFMovieDefinition --------------------------
(***************************************************************************)
(* A SWF movie that is parsed while it plays                               *)
(* (libcore/parser/SWFMovieDefinition.cpp, SWFParser.cpp).                 *)
(*                                                                         *)
(* The loading thread (read_all_swf) parses tags chunk by chunk: a control *)
(* tag is appended to the playlist of the frame being loaded, SHOWFRAME    *)
(* completes that frame.  The playing thread asks ensure_frame_loaded(n),  *)
(* which blocks on _frame_reached_condition until n frames are loaded or   *)
(* loading is over.  _frames_loaded and _waiting_for_frame are atomics     *)
(* used without _loadingCanceledMutex; each access is a step of its own.   *)
(*                                                                         *)
(* A tag is only counted, and where chunks and the stream end is free, so  *)
(* that truncated, malformed and over-long streams are all behaviours.     *)
(***************************************************************************)
EXTENDS Integers

CONSTANTS
  FrameCount,   \* m_frame_count, the number of frames the header advertises
  MaxFrames,    \* bound on the SHOWFRAME tags of the stream
  MaxTags       \* bound on the control tags of one frame

\* readHeader replaces an advertised count of 0 by 1.
ASSUME SWFAssumption == /\ FrameCount \in Nat \ {0}
                        /\ MaxFrames \in Nat
                        /\ MaxTags \in Nat

\* The largest value _frames_loaded can reach, and the frames one can ask for.
TopFrame == IF FrameCount > MaxFrames THEN FrameCount ELSE MaxFrames
Frames == 0..TopFrame

VARIABLES
  frames,     \* _frames_loaded
  playlist,   \* m_playlist: how many control tags each (0-based) frame has
  waiting,    \* _waiting_for_frame
  canceled,   \* _loadingCanceled
  loader,     \* where the loading thread is
  client,     \* where the playing thread is in ensure_frame_loaded
  want,       \* its argument
  refused,    \* the frames for which the answer was FALSE
  life        \* the definition itself: alive, being destroyed, destroyed

parsed     == <<frames, playlist>>
clientVars == <<waiting, client, want, refused>>
vars == <<parsed, canceled, loader, clientVars, life>>

Init ==
  /\ frames = 0
  /\ playlist = [f \in Frames |-> 0]
  /\ waiting = 0
  /\ canceled = FALSE
  /\ loader = "none"
  /\ client = "idle" /\ want = 0 /\ refused = {}
  /\ life = "alive"

\* The playing thread owns _loadingCanceledMutex between the evaluation of the
\* wait's predicate and the moment it is asleep.
MutexFree == client # "block"

\* _frame_reached_condition.notify_all()
Notified == IF client = "blocked" THEN "lock" ELSE client

-----------------------------------------------------------------------------
(* The loading thread. *)

\* completeLoad starts it; ensure_frame_loaded(0) then returns at once.
CompleteLoad ==
  /\ life = "alive" /\ loader = "none"
  /\ loader' = "head"
  /\ UNCHANGED <<parsed, canceled, clientVars, life>>

\* Mutant: the flag is not looked at.
CheckCanceledIgnored ==
  /\ loader = "head" /\ MutexFree
  /\ loader' = "parse"
  /\ UNCHANGED <<parsed, canceled, clientVars, life>>

\* The head of the loop: leave, telling nobody, if cancellation was requested.
CheckCanceled ==
  /\ loader = "head" /\ MutexFree
  /\ loader' = IF canceled THEN "done" ELSE "parse"
  /\ UNCHANGED <<parsed, canceled, clientVars, life>>

\* Mutant: the tag goes to the frame that was just completed.
AddControlTagBehind ==
  /\ loader = "parse"
  /\ frames - 1 \in Frames /\ playlist[frames - 1] < MaxTags
  /\ playlist' = [playlist EXCEPT ![frames - 1] = @ + 1]
  /\ UNCHANGED <<frames, canceled, loader, clientVars, life>>

\* A tag of the frame being loaded: addControlTag.
AddControlTag ==
  /\ loader = "parse"
  /\ frames \in Frames /\ playlist[frames] < MaxTags
  /\ playlist' = [playlist EXCEPT ![frames] = @ + 1]
  /\ UNCHANGED <<frames, canceled, loader, clientVars, life>>

\* Mutant: the frame is counted twice.
ShowFrameTwice ==
  /\ loader = "parse"
  /\ frames < MaxFrames
  /\ frames' = frames + 2
  /\ loader' = "shown"
  /\ UNCHANGED <<playlist, canceled, clientVars, life>>

\* SHOWFRAME: incrementLoadedFrames first counts the frame...
ShowFrame ==
  /\ loader = "parse"
  /\ frames < MaxFrames
  /\ frames' = frames + 1
  /\ loader' = "shown"
  /\ UNCHANGED <<playlist, canceled, clientVars, life>>

\* ...then, without the mutex, wakes the waiter if its frame is reached.
SignalFrame ==
  /\ loader = "shown"
  /\ client' = IF frames >= waiting THEN Notified ELSE client
  /\ loader' = "parse"
  /\ UNCHANGED <<parsed, canceled, waiting, want, refused, life>>

\* parser.read returned true: the chunk is used up and more is left...
ChunkDone ==
  /\ loader = "parse"
  /\ loader' = "head"
  /\ UNCHANGED <<parsed, canceled, clientVars, life>>

\* ...or parsing is over: END tag, nothing left, or a ParserException.
StopParsing ==
  /\ loader = "parse"
  /\ loader' = "finish"
  /\ UNCHANGED <<parsed, canceled, clientVars, life>>

\* Mutant: missing frames are not made up for.
PretendLoadedNot ==
  /\ loader = "finish"
  /\ loader' = "cancel"
  /\ UNCHANGED <<parsed, canceled, clientVars, life>>

\* "Pretending we loaded all advertised frames".
PretendLoaded ==
  /\ loader = "finish"
  /\ frames' = IF FrameCount > frames THEN FrameCount ELSE frames
  /\ loader' = "cancel"
  /\ UNCHANGED <<playlist, canceled, clientVars, life>>

\* Loading is over, said under the mutex...
SetCanceled ==
  /\ loader = "cancel" /\ MutexFree
  /\ canceled' = TRUE
  /\ loader' = "notify"
  /\ UNCHANGED <<parsed, clientVars, life>>

\* Mutant: the last notification is missing.
NotifyEndSilent ==
  /\ loader = "notify"
  /\ loader' = "done"
  /\ UNCHANGED <<parsed, canceled, clientVars, life>>

\* ...and the waiter, if any, is woken.
NotifyEnd ==
  /\ loader = "notify"
  /\ client' = Notified
  /\ loader' = "done"
  /\ UNCHANGED <<parsed, canceled, waiting, want, refused, life>>

LoaderNext ==
  \/ CheckCanceled \/ AddControlTag \/ ShowFrame \/ SignalFrame \/ ChunkDone
  \/ StopParsing \/ PretendLoaded \/ SetCanceled \/ NotifyEnd

-----------------------------------------------------------------------------
(* The playing thread in ensure_frame_loaded. *)

\* The call, by a thread that holds a reference to a loading definition.
Ensure(n) ==
  /\ client = "idle" /\ life = "alive" /\ loader # "none"
  /\ client' = "fast" /\ want' = n
  /\ UNCHANGED <<parsed, canceled, loader, waiting, refused, life>>

\* Without the mutex: return at once if the frame is there.
FastCheck ==
  /\ client = "fast"
  /\ client' = IF want <= frames THEN "true" ELSE "announce"
  /\ UNCHANGED <<parsed, canceled, loader, waiting, want, refused, life>>

Announce ==
  /\ client = "announce"
  /\ waiting' = want
  /\ client' = "lock"
  /\ UNCHANGED <<parsed, canceled, loader, want, refused, life>>

\* The predicate of the wait, under the mutex: answer, or go to sleep.
TestPredicate ==
  /\ client = "lock"
  /\ client' = IF want <= frames THEN "true"
               ELSE IF canceled THEN "false" ELSE "block"
  /\ refused' = IF client' = "false" THEN refused \cup {want} ELSE refused
  /\ UNCHANGED <<parsed, canceled, loader, waiting, want, life>>

\* Asleep, the mutex is released.
Block ==
  /\ client = "block"
  /\ client' = "blocked"
  /\ UNCHANGED <<parsed, canceled, loader, waiting, want, refused, life>>

\* A wakeup nobody asked for re-evaluates the predicate.
SpuriousWakeup ==
  /\ client = "blocked"
  /\ client' = "lock"
  /\ UNCHANGED <<parsed, canceled, loader, waiting, want, refused, life>>

ClientNext == FastCheck \/ Announce \/ TestPredicate \/ Block

\* The caller takes the answer.
Return ==
  /\ client \in {"true", "false"}
  /\ client' = "idle"
  /\ UNCHANGED <<parsed, canceled, loader, waiting, want, refused, life>>

-----------------------------------------------------------------------------
(* The end of the definition. *)

\* The last reference is dropped: the destructor requests cancellation...
Destroy ==
  /\ life = "alive" /\ client = "idle"
  /\ canceled' = TRUE
  /\ life' = "destroying"
  /\ UNCHANGED <<parsed, loader, clientVars>>

\* ...and ~SWFMovieLoader joins the thread if it was ever started.
JoinLoader ==
  /\ life = "destroying"
  /\ loader \in {"none", "done"}
  /\ life' = "destroyed"
  /\ UNCHANGED <<parsed, canceled, loader, clientVars>>

DestroyNext == Destroy \/ JoinLoader

Next ==
  \/ CompleteLoad \/ LoaderNext
  \/ \E n \in Frames : Ensure(n)
  \/ ClientNext \/ SpuriousWakeup \/ Return
  \/ DestroyNext

Spec == Init /\ [][Next]_vars

(***************************************************************************)
(* Fairness: both threads run, and a thread that keeps asking for the      *)
(* mutex gets it even if the other one keeps taking it.  That a stream     *)
(* ends (StopParsing is not put off for ever, chunk after chunk) is a      *)
(* premise of the properties that need it.                                 *)
(***************************************************************************)
Fairness ==
  /\ WF_vars(LoaderNext)
  /\ SF_vars(CheckCanceled) /\ SF_vars(SetCanceled)
  /\ WF_vars(ClientNext)
  /\ WF_vars(JoinLoader)

FairSpec == Spec /\ Fairness

-----------------------------------------------------------------------------
(* Properties. *)

\* Every variable keeps its type.
TypeOK ==
  /\ frames \in Frames
  /\ playlist \in [Frames -> 0..MaxTags]
  /\ waiting \in Frames
  /\ canceled \in BOOLEAN
  /\ loader \in {"none", "head", "parse", "shown", "finish", "cancel", "notify", "done"}
  /\ client \in {"idle", "fast", "announce", "lock", "block", "blocked", "true", "false"}
  /\ want \in Frames
  /\ refused \subseteq Frames
  /\ life \in {"alive", "destroying", "destroyed"}

\* ensure_frame_loaded answers FALSE only for a frame that never comes: the
\* frames the header promised are accounted for before loading is declared over.
RefusedNeverComes == \A n \in refused : frames < n /\ FrameCount < n

\* A loaded frame is final: no tag is added to its playlist any more and it is
\* never un-loaded, although the playing thread reads it without any lock.
LoadedIsFinal ==
  [][ /\ frames' >= frames
      /\ \A f \in Frames : f < frames => playlist'[f] = playlist[f] ]_vars

\* Nobody sleeps beside a loader that has left: whoever waits when loading
\* ends is woken, even one that tested the predicate before it ended.
NoSleeperAtEnd == client = "blocked" => loader # "done"

\* ensure_frame_loaded returns, however late the loader signals, provided the
\* stream ends.
EnsureReturns ==
  SF_vars(StopParsing) => ((client = "fast") ~> (client \in {"true", "false"}))

\* A canceled loading thread stops even if its stream never ends, so that the
\* destructor returns.
DestroyReturns == (life = "destroying") ~> (life = "destroyed")
================================================================================
