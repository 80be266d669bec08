-------------------------------- MODULE SWFMovie --------------------------------
(***************************************************************************)
(* A root movie that plays its timeline while its definition still loads   *)
(* (libcore/SWFMovie.cpp and the timeline of libcore/MovieClip.cpp),       *)
(* composed with the loading thread of SWFMovieDefinition.                 *)
(*                                                                         *)
(* The main thread constructs the movie, advances it once per tick and     *)
(* runs the goto and play actions; before it moves the playhead it asks    *)
(* ensure_frame_loaded.  It then executes the tags of whole frames, read   *)
(* from m_playlist without a lock: `todo` holds the frames being executed, *)
(* in order, and each stays there for as long as its tags are iterated.    *)
(***************************************************************************)
EXTENDS SWFMovieDefinition, Sequences

VARIABLES
  player,      \* where the main thread is
  target,      \* the argument of the goto_frame that is running
  current,     \* _currentFrame, 0-based
  playing,     \* _playState = PLAYSTATE_PLAY
  hasLooped,   \* _hasLooped
  flushed,     \* _flushedOrphanedTags
  todo         \* the frames whose tags are being executed, in order

playerVars == <<player, target, current, playing, hasLooped, flushed, todo>>
movieVars == <<vars, playerVars>>

MovieInit ==
  /\ Init
  /\ player = "new"
  /\ target = 0 /\ current = 0
  /\ playing = TRUE
  /\ hasLooped = FALSE /\ flushed = FALSE
  /\ todo = <<>>

\* Frames a to b, executed one after the other.
Span(a, b) == [i \in 1..(b - a + 1) |-> a + i - 1]

-----------------------------------------------------------------------------
\* SWFMovie::construct waits for the first frame, then MovieClip::construct
\* executes it; whether the frame ever came makes no difference.
Construct ==
  /\ player = "new"
  /\ Ensure(1)
  /\ player' = "construct"
  /\ UNCHANGED <<target, current, playing, hasLooped, flushed, todo>>

Constructed ==
  /\ player = "construct" /\ Return
  /\ player' = "tags" /\ todo' = <<0>>
  /\ UNCHANGED <<target, current, playing, hasLooped, flushed>>

\* Mutant: one frame too few is waited for.
AdvanceTooFew ==
  /\ player = "idle"
  /\ Ensure(IF current + 1 < FrameCount THEN current + 1 ELSE FrameCount)
  /\ player' = "advance"
  /\ UNCHANGED <<target, current, playing, hasLooped, flushed, todo>>

\* SWFMovie::advance waits for the frame after the current one, if any...
Advance ==
  /\ player = "idle"
  /\ Ensure(IF current + 2 < FrameCount THEN current + 2 ELSE FrameCount)
  /\ player' = "advance"
  /\ UNCHANGED <<target, current, playing, hasLooped, flushed, todo>>

\* ...then MovieClip::advance leaves if nothing is loaded or it is stopped...
AdvanceStopped ==
  /\ player = "advance" /\ Return
  /\ frames = 0 \/ ~playing
  /\ player' = "idle"
  /\ UNCHANGED <<target, current, playing, hasLooped, flushed, todo>>

\* Mutants: the loop condition is missing, off by one, or resets nothing.
IncrementFrameEndless ==
  /\ player = "advance" /\ Return
  /\ frames > 0 /\ playing
  /\ target' = current /\ current' = current + 1
  /\ player' = "incremented"
  /\ UNCHANGED <<playing, hasLooped, flushed, todo>>

IncrementFramePast ==
  /\ player = "advance" /\ Return
  /\ frames > 0 /\ playing
  /\ target' = current
  /\ IF current + 1 > frames
       THEN current' = 0 /\ hasLooped' = TRUE
       ELSE current' = current + 1 /\ UNCHANGED hasLooped
  /\ player' = "incremented"
  /\ UNCHANGED <<playing, flushed, todo>>

IncrementFrameSticks ==
  /\ player = "advance" /\ Return
  /\ frames > 0 /\ playing
  /\ target' = current
  /\ IF current + 1 >= frames
       THEN hasLooped' = TRUE /\ UNCHANGED current
       ELSE current' = current + 1 /\ UNCHANGED hasLooped
  /\ player' = "incremented"
  /\ UNCHANGED <<playing, flushed, todo>>

\* ...or moves on: increment_frame_and_check_for_loop.  The previous frame is
\* kept in target for the test that follows.
IncrementFrame ==
  /\ player = "advance" /\ Return
  /\ frames > 0 /\ playing
  /\ target' = current
  /\ IF current + 1 >= frames
       THEN current' = 0 /\ hasLooped' = TRUE
       ELSE current' = current + 1 /\ UNCHANGED hasLooped
  /\ player' = "incremented"
  /\ UNCHANGED <<playing, flushed, todo>>

\* Back at the first frame, the tags after the last SHOWFRAME are executed
\* (in a movie of one frame only once).  get_loaded_frames is read anew.
Orphans == current = 0 /\ hasLooped /\ (frames # 1 \/ ~flushed)

FlushOrphans ==
  /\ player = "incremented"
  /\ Orphans
  /\ flushed' = TRUE
  /\ player' = "orphans" /\ todo' = <<frames>>
  /\ UNCHANGED <<vars, target, current, playing, hasLooped>>

NoOrphans ==
  /\ player = "incremented"
  /\ ~Orphans
  /\ player' = "flushed"
  /\ UNCHANGED <<vars, target, current, playing, hasLooped, flushed, todo>>

OrphansDone ==
  /\ player = "orphans"
  /\ player' = "flushed" /\ todo' = <<>>
  /\ UNCHANGED <<vars, target, current, playing, hasLooped, flushed>>

\* The current frame's tags, unless the playhead did not move.  A loop goes
\* through restoreDisplayList(0), which executes frame 0 as well.
ExecuteCurrent ==
  /\ player = "flushed"
  /\ todo' = IF current # target THEN <<current>> ELSE <<>>
  /\ player' = "tags"
  /\ UNCHANGED <<vars, target, current, playing, hasLooped, flushed>>

\* The tags of the first frame of todo are through.
FrameExecuted ==
  /\ player = "tags"
  /\ IF todo = <<>>
       THEN player' = "idle" /\ UNCHANGED todo
       ELSE todo' = Tail(todo) /\ UNCHANGED player
  /\ UNCHANGED <<vars, target, current, playing, hasLooped, flushed>>

-----------------------------------------------------------------------------
\* ActionScript between two ticks: play() ...
Play ==
  /\ player = "idle"
  /\ playing' = TRUE
  /\ UNCHANGED <<vars, player, target, current, hasLooped, flushed, todo>>

\* ...and goto_frame(n), which stops the movie.  Past the last advertised frame
\* it waits for that one and only moves the playhead.
GotoPastEnd(n) ==
  /\ player = "idle"
  /\ n > FrameCount - 1
  /\ Ensure(FrameCount)
  /\ playing' = FALSE
  /\ player' = "gotoEnd"
  /\ UNCHANGED <<target, current, hasLooped, flushed, todo>>

GotoEndAnswered ==
  /\ player = "gotoEnd" /\ Return
  /\ current' = IF client = "true" THEN FrameCount - 1 ELSE current
  /\ player' = "idle"
  /\ UNCHANGED <<target, playing, hasLooped, flushed, todo>>

\* The frame one is at only stops; a loaded one is gone to at once...
GotoLoaded(n) ==
  /\ player = "idle"
  /\ n <= FrameCount - 1 /\ (n < frames \/ n = current)
  /\ playing' = FALSE
  /\ target' = n
  /\ player' = IF n = current THEN "idle" ELSE "goto"
  /\ UNCHANGED <<vars, current, hasLooped, flushed, todo>>

\* Mutant: the 0-based frame number is taken for the 1-based one.
GotoNotLoadedZeroBased(n) ==
  /\ player = "idle"
  /\ n <= FrameCount - 1 /\ n >= frames /\ n # current
  /\ Ensure(n)
  /\ playing' = FALSE
  /\ target' = n
  /\ player' = "gotoWait"
  /\ UNCHANGED <<current, hasLooped, flushed, todo>>

\* ...any other one is waited for, and given up if it never comes.
GotoNotLoaded(n) ==
  /\ player = "idle"
  /\ n <= FrameCount - 1 /\ n >= frames /\ n # current
  /\ Ensure(n + 1)
  /\ playing' = FALSE
  /\ target' = n
  /\ player' = "gotoWait"
  /\ UNCHANGED <<current, hasLooped, flushed, todo>>

GotoAnswered ==
  /\ player = "gotoWait" /\ Return
  /\ player' = IF client = "true" THEN "goto" ELSE "idle"
  /\ UNCHANGED <<target, current, playing, hasLooped, flushed, todo>>

\* Backwards the display list is rebuilt from frame 0; forwards the frames in
\* between are executed.
GotoMove ==
  /\ player = "goto"
  /\ todo' = IF target < current THEN Span(0, target) ELSE Span(current + 1, target)
  /\ current' = target
  /\ player' = "tags"
  /\ UNCHANGED <<vars, target, playing, hasLooped, flushed>>

-----------------------------------------------------------------------------
PlayerStep ==
  \/ Construct \/ Constructed
  \/ AdvanceStopped \/ IncrementFrame \/ FlushOrphans \/ NoOrphans
  \/ OrphansDone \/ ExecuteCurrent \/ FrameExecuted
  \/ GotoEndAnswered \/ GotoAnswered \/ GotoMove

Calls ==
  \/ Advance \/ Play
  \/ \E n \in Frames : GotoPastEnd(n) \/ GotoLoaded(n) \/ GotoNotLoaded(n)

Loading == CompleteLoad \/ LoaderNext \/ ClientNext \/ SpuriousWakeup

MovieNext == PlayerStep \/ Calls \/ (Loading /\ UNCHANGED playerVars)

MovieSpec == MovieInit /\ [][MovieNext]_movieVars

(***************************************************************************)
(* Fairness: that of the definition, and a main thread that goes on with   *)
(* what it has begun and keeps advancing the movie.                        *)
(***************************************************************************)
MovieFairness ==
  /\ WF_movieVars(CompleteLoad /\ UNCHANGED playerVars)
  /\ WF_movieVars(LoaderNext /\ UNCHANGED playerVars)
  /\ SF_movieVars(CheckCanceled /\ UNCHANGED playerVars)
  /\ SF_movieVars(SetCanceled /\ UNCHANGED playerVars)
  /\ SF_movieVars(StopParsing /\ UNCHANGED playerVars)
  /\ WF_movieVars(ClientNext /\ UNCHANGED playerVars)
  /\ WF_movieVars(PlayerStep)
  /\ SF_movieVars(Advance)

MovieFairSpec == MovieSpec /\ MovieFairness

-----------------------------------------------------------------------------
(* Properties. *)

\* Every variable of the playing side keeps its type.
PlayerTypeOK ==
  /\ player \in {"new", "construct", "idle", "advance", "incremented", "orphans",
                 "flushed", "tags", "gotoEnd", "gotoWait", "goto"}
  /\ target \in Frames /\ current \in Frames
  /\ playing \in BOOLEAN /\ hasLooped \in BOOLEAN /\ flushed \in BOOLEAN
  /\ todo \in Seq(Frames)

\* getPlaylist's assertion and the absence of a lock both rely on it: every
\* frame whose tags are executed, in its place or on the way of a goto, is
\* loaded, so the loader adds no tag to the playlist that is being iterated.
ExecutedFramesComplete ==
  player = "tags" => \A i \in DOMAIN todo : todo[i] < frames

\* Between ticks the playhead stands on a loaded frame, although it is moved
\* by several routes and the waits may be refused.
PlayheadLoaded == player \notin {"new", "construct"} => current < frames

\* The movie does not loop early: SWFMovie::advance waits far enough ahead that
\* the playhead wraps only when every advertised frame is loaded.
NoEarlyLoop == hasLooped => frames >= FrameCount

\* A playing movie of several frames leaves the frame it is at, even while it
\* is still loading.
Plays ==
  \A f \in Frames :
    (player = "idle" /\ playing /\ current = f /\ FrameCount > 1)
       ~> (current # f \/ ~playing)

\* "WARNING: we might be executing these while a parser is still pushing on it.
\* The _hasLooped is trying to avoid that." (MovieClip.cpp:925): the playlist of
\* orphaned tags is not executed while the loader can still add to it.
OrphansNotGrowing == player = "orphans" => ~(loader = "parse" /\ todo[1] = frames)
================================================================================
