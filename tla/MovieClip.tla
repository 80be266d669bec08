-------------------------------- MODULE MovieClip --------------------------------
(***************************************************************************)
(* A movie clip that plays its timeline while scripts, loads and its own   *)
(* removal change its display list (libcore/MovieClip.cpp, the clip's      *)
(* methods in asobj/MovieClip_as.cpp and the tick of movie_root.cpp).      *)
(*                                                                         *)
(* The host advances the movie once per tick: the timeline moves, finished *)
(* loads replace their target, the queued scripts and handlers run, and    *)
(* what was unloaded is destroyed.  The tags of a frame are executed one   *)
(* step at a time, and nothing else runs until they are done.              *)
(*                                                                         *)
(* An execution is followed until it goes astray: until an instance that   *)
(* is not unloaded enters the removed zone, or an unloaded one is moved,   *)
(* which the code's assertions exclude.                                    *)
(***************************************************************************)
EXTENDS DisplayList, Sequences, SequencesExt

CONSTANTS
  Timelines,     \* the timelines the clip may have: sequences of frames,
                 \* each a sequence of tags
  ScriptDepths,  \* the depths scripts ask for
  MaxScripts,    \* bound: operations of scripts and loads in the life of a clip
  Spare          \* bound: identities kept for the tags of a tick

Tags == [op : {"place", "move", "replace", "remove"}, depth : Int,
         kind : {"shape", "clip"}, handler : BOOLEAN, ratio : Nat \cup {NoRatio}]

\* Depths of tags are shifted into the static zone; shapes have no handlers.
ASSUME TimelinesAssumption ==
  \A tl \in Timelines :
    /\ tl \in Seq(Seq(Tags)) /\ tl # <<>>
    /\ \A f \in 1..Len(tl) : \A p \in 1..Len(tl[f]) :
         /\ tl[f][p].depth >= StaticOffset
         /\ tl[f][p].handler => tl[f][p].kind = "clip"
ASSUME ScriptDepthsAssumption == ScriptDepths \subseteq Int
ASSUME MaxScriptsAssumption == MaxScripts \in Nat
ASSUME SpareAssumption == Spare \in Nat

VARIABLES
  timeline,   \* the frames of the clip's definition
  clip,       \* the clip itself: "placed", "unloaded" or "destroyed"
  frame,      \* _currentFrame, counted from 1
  playing,    \* _playState = PLAYSTATE_PLAY
  phase,      \* where movie_root::advanceMovie is; "idle" between two ticks
  pos,        \* the next tag of `frame` to be executed, 0 when none is
  target,     \* the last frame whose tags are to be executed
  dest,       \* the list the tags work on
  scripts,    \* operations that scripts and loads may still do
  strayed     \* the execution has gone astray

tagVars == <<frame, pos, target, dest>>
vars == <<chr, owed, timeline, clip, frame, playing, phase, pos, target,
          dest, scripts, strayed>>

\* MovieClip::construct executes the first frame.
Init ==
  /\ timeline \in Timelines
  /\ chr = [c \in Chars |-> Nobody] /\ owed = {}
  /\ clip = "placed" /\ playing = TRUE
  /\ frame = 1 /\ pos = 1 /\ target = 1 /\ dest = "main"
  /\ phase = "idle" /\ scripts = MaxScripts
  /\ strayed = FALSE

\* Synchronous code: no tag is waiting to be executed.
Quiet == pos = 0 /\ ~strayed

-----------------------------------------------------------------------------
(* The tags.  A tag that finds nothing to work on does nothing.            *)

Instance(l, tag, ratio) ==
  [list |-> l, depth |-> tag.depth, kind |-> tag.kind, handler |-> tag.handler,
   dynamic |-> FALSE, scripted |-> FALSE, unloaded |-> FALSE, ratio |-> ratio]

Ratio(tag) == IF tag.ratio = NoRatio THEN 0 ELSE tag.ratio

AddDisplayObject(tag) ==
  /\ IF At(dest, tag.depth) = {}
       THEN Put(Instance(dest, tag, Ratio(tag)), {})
       ELSE UNCHANGED <<chr, owed>>
  /\ UNCHANGED strayed

\* An unloaded instance fails the assertion of moveDisplayObject.
MoveDisplayObject(tag) ==
  /\ SetRatio(dest, tag.depth, tag.ratio)
  /\ strayed' = \E c \in At(dest, tag.depth) : chr[c].unloaded

\* Only a shape is replaced.
ReplaceDisplayObject(tag) ==
  LET existing == At(dest, tag.depth)
  IN IF \E c \in existing : chr[c].kind = "clip"
       THEN MoveDisplayObject(tag)
       ELSE /\ IF existing = {}
                 THEN UNCHANGED <<chr, owed>>
                 ELSE Put(Instance(dest, tag, Ratio(tag)), existing)
            /\ UNCHANGED strayed

RemoveDisplayObject(tag) ==
  /\ Take(At(dest, tag.depth))
  /\ UNCHANGED strayed

\* PlaceObject2Tag::executeState and RemoveObjectTag::executeState.
ExecuteTag ==
  /\ ~strayed
  /\ pos \in 1..Len(timeline[frame])
  /\ LET tag == timeline[frame][pos]
     IN \/ tag.op = "place" /\ AddDisplayObject(tag)
        \/ tag.op = "move" /\ MoveDisplayObject(tag)
        \/ tag.op = "replace" /\ ReplaceDisplayObject(tag)
        \/ tag.op = "remove" /\ RemoveDisplayObject(tag)
  /\ pos' = pos + 1
  /\ UNCHANGED <<timeline, clip, frame, playing, phase, target, dest, scripts>>

FrameDone == ~strayed /\ pos > Len(timeline[frame])

\* The loops over the frames in restoreDisplayList and goto_frame.
NextFrame ==
  /\ FrameDone /\ frame < target
  /\ frame' = frame + 1 /\ pos' = 1
  /\ UNCHANGED <<chr, owed, timeline, clip, playing, phase, target, dest,
                 scripts, strayed>>

TagsDone ==
  /\ FrameDone /\ frame >= target /\ dest = "main"
  /\ pos' = 0
  /\ UNCHANGED <<chr, owed, timeline, clip, frame, playing, phase, target,
                 dest, scripts, strayed>>

\* The end of restoreDisplayList.
RestoreDone ==
  /\ FrameDone /\ frame >= target /\ dest = "tmp"
  /\ MergeDisplayList
  /\ pos' = 0 /\ dest' = "main"
  /\ UNCHANGED <<timeline, clip, frame, playing, phase, target, scripts,
                 strayed>>

\* Begin restoreDisplayList(t), from the first frame and on a list of its own.
Rewind(t) == frame' = 1 /\ pos' = 1 /\ target' = t /\ dest' = "tmp"

\* Begin executeFrameTags on the frames after the current one, up to t.
Forward(t) == frame' = frame + 1 /\ pos' = 1 /\ target' = t /\ UNCHANGED dest

-----------------------------------------------------------------------------
(* The tick.                                                               *)

\* MovieClip::advance; clips that are unloaded or stopped stay where they are.
Advance ==
  /\ Quiet /\ phase = "idle" /\ clip # "destroyed"
  /\ IF clip = "placed" /\ playing /\ Len(timeline) > 1
       THEN IF frame < Len(timeline) THEN Forward(frame + 1) ELSE Rewind(1)
       ELSE UNCHANGED tagVars
  /\ phase' = "load"
  /\ UNCHANGED <<chr, owed, timeline, clip, playing, scripts, strayed>>

\* processCompletedRequests has served them all.  The tick goes on although the
\* clip may be gone.
LoadsDone ==
  /\ Quiet /\ phase = "load"
  /\ phase' = "script"
  /\ UNCHANGED <<chr, owed, timeline, clip, frame, playing, pos, target,
                 dest, scripts, strayed>>

\* processActionQueue takes an UNLOAD handler from the queue and runs it, unless
\* its target is destroyed; key, mouse and timer events empty the queue between
\* two ticks as well.
RunUnload(c) ==
  /\ Quiet /\ phase \in {"idle", "script"} /\ c \in owed
  /\ owed' = owed \ {c}
  /\ UNCHANGED <<chr, timeline, clip, frame, playing, phase, pos, target,
                 dest, scripts, strayed>>

\* Mutants: an unloaded clip is destroyed before the handlers of its children
\* ran; its children are not destroyed at all.
CleanupEarly ==
  /\ Quiet /\ phase = "script" /\ (clip = "placed" => owed = {}) /\ clip # "destroyed"
  /\ IF clip = "placed"
       THEN RemoveUnloaded /\ UNCHANGED clip
       ELSE DestroyAll /\ clip' = "destroyed" /\ UNCHANGED owed
  /\ phase' = "idle"
  /\ UNCHANGED <<timeline, frame, playing, pos, target, dest, scripts, strayed>>

CleanupPlaced ==
  /\ Quiet /\ phase = "script" /\ owed = {} /\ clip # "destroyed"
  /\ IF clip = "placed" THEN RemoveUnloaded ELSE UNCHANGED <<chr, owed>>
  /\ phase' = "idle"
  /\ UNCHANGED <<timeline, clip, frame, playing, pos, target, dest, scripts, strayed>>

\* movie_root::cleanupDisplayList, once the action queue is empty.
Cleanup ==
  /\ Quiet /\ phase = "script" /\ owed = {} /\ clip # "destroyed"
  /\ IF clip = "placed"
       THEN RemoveUnloaded /\ UNCHANGED clip
       ELSE DestroyAll /\ clip' = "destroyed" /\ UNCHANGED owed
  /\ phase' = "idle"
  /\ UNCHANGED <<timeline, frame, playing, pos, target, dest, scripts, strayed>>

-----------------------------------------------------------------------------
(* What scripts and loads do to the clip.                                  *)

\* Bound: identities are left for n new instances, and between two ticks also
\* for the tags of the next one.
Room(n) ==
  Cardinality(Unused) >= n + (IF phase = "idle" THEN Spare ELSE 0)

Script ==
  /\ Quiet /\ clip # "destroyed" /\ scripts > 0
  /\ scripts' = scripts - 1
  /\ UNCHANGED <<timeline, phase>>

NewClip(d, handler, dynamic) ==
  [list |-> "main", depth |-> d, kind |-> "clip", handler |-> handler,
   dynamic |-> dynamic, scripted |-> FALSE, unloaded |-> FALSE, ratio |-> 0]

\* Mutant: what was at the depth stays in the list.
AttachBeside(d, handler) ==
  /\ Script /\ Room(1)
  /\ Put(NewClip(d, handler, TRUE), {})
  /\ strayed' = (d < StaticOffset)
  /\ UNCHANGED <<clip, playing, tagVars>>

\* attachMovie, createEmptyMovieClip and duplicateMovieClip.  The second does
\* not refuse a depth below the static zone.
Attach(d, handler) ==
  /\ Script /\ Room(1)
  /\ Put(NewClip(d, handler, TRUE), At("main", d))
  /\ strayed' = (d < StaticOffset)
  /\ UNCHANGED <<clip, playing, tagVars>>

\* removeMovieClip, only for depths that are not the timeline's.
RemoveMovieClip(c) ==
  /\ Script
  /\ c \in Listed("main") /\ chr[c].kind = "clip" /\ chr[c].depth >= 0
  /\ Take(At("main", chr[c].depth))
  /\ UNCHANGED <<clip, playing, tagVars, strayed>>

\* MovieClip.swapDepths; an unloaded clip in the removed zone stays there.
Swap(c, d) ==
  /\ Script
  /\ c \in Stage("main") /\ chr[c].kind = "clip" /\ chr[c].depth # d
  /\ SwapDepths(c, d)
  /\ UNCHANGED <<clip, playing, tagVars, strayed>>

\* A script sets _x, _rotation and the like, drags the clip, and so on.
TransformClip(c) ==
  /\ Script
  /\ c \in Listed("main") /\ chr[c].kind = "clip" /\ AcceptsAnimMoves(c)
  /\ Transform(c)
  /\ UNCHANGED <<clip, playing, tagVars, strayed>>

\* Mutant: a frame past the end becomes current as it is.
GotoAnywhere(t) ==
  /\ Script /\ Room(Spare)
  /\ playing' \in BOOLEAN
  /\ CASE t > Len(timeline) -> frame' = t /\ UNCHANGED <<pos, target, dest>>
       [] t = frame         -> UNCHANGED tagVars
       [] t < frame         -> Rewind(t)
       [] OTHER             -> Forward(t)
  /\ UNCHANGED <<chr, owed, clip, strayed>>

\* goto_frame: a frame past the end becomes current without being executed.
Goto(t) ==
  /\ Script /\ Room(Spare)
  /\ playing' \in BOOLEAN
  /\ CASE t > Len(timeline) -> /\ frame' = Len(timeline)
                               /\ UNCHANGED <<pos, target, dest>>
       [] t = frame         -> UNCHANGED tagVars
       [] t < frame         -> Rewind(t)
       [] OTHER             -> Forward(t)
  /\ UNCHANGED <<chr, owed, clip, strayed>>

\* A completed request replaces its target, which it finds by name, unloaded
\* ones included.  The new movie takes over the clip events.
LoadInto(c, handler) ==
  /\ Script /\ Room(1) /\ phase = "load"
  /\ c \in Listed("main") /\ chr[c].kind = "clip"
  /\ handler => chr[c].handler
  /\ Put(NewClip(chr[c].depth, handler, FALSE), At("main", chr[c].depth))
  /\ strayed' = (chr[c].depth < StaticOffset)
  /\ UNCHANGED <<clip, playing, tagVars>>

\* The clip itself is removed: a level is destroyed at once, whatever its
\* handlers; a child only if neither it nor a child of its own on stage has one,
\* whatever waits in the removed zone.  unload() has queued the handlers before.
Unload(handler, level) ==
  /\ Quiet /\ clip = "placed"
  /\ IF ~level /\ (handler \/ Survivors # {})
       THEN clip' = "unloaded" /\ UnloadAll
       ELSE clip' = "destroyed" /\ DestroyAll /\ owed' = Owing(Survivors)
  /\ UNCHANGED <<timeline, frame, playing, phase, pos, target, dest,
                 scripts, strayed>>

\* Another instance of a clip is placed, its children under the identities of
\* the first one's, none of which is queued any more; an execution that went
\* astray is given up and the program started again.
Restart ==
  /\ (clip = "destroyed" /\ owed = {}) \/ strayed
  /\ timeline' \in Timelines
  /\ DestroyAll /\ owed' = {}
  /\ clip' = "placed" /\ playing' = TRUE
  /\ frame' = 1 /\ pos' = 1 /\ target' = 1 /\ dest' = "main"
  /\ phase' = "idle" /\ scripts' = MaxScripts
  /\ strayed' = FALSE

-----------------------------------------------------------------------------
Tick == Advance \/ LoadsDone \/ Cleanup

Timeline == ExecuteTag \/ NextFrame \/ TagsDone \/ RestoreDone

Scripting ==
  \/ \E d \in ScriptDepths, h \in BOOLEAN : Attach(d, h)
  \/ \E c \in Chars : RemoveMovieClip(c) \/ TransformClip(c)
  \/ \E c \in Chars, d \in ScriptDepths : Swap(c, d)
  \/ \E t \in 1..(Len(timeline) + 1) : Goto(t)
  \/ \E c \in Chars, h \in BOOLEAN : LoadInto(c, h)

Next ==
  \/ Tick
  \/ Timeline
  \/ \E c \in Chars : RunUnload(c)
  \/ Scripting
  \/ \E h, level \in BOOLEAN : Unload(h, level)
  \/ Restart

Spec == Init /\ [][Next]_vars

\* The host advances the movie for ever, tags are executed to the end, and the
\* action queue is emptied.  Nothing obliges a script to do anything.
FairSpec ==
  /\ Spec
  /\ WF_vars(Tick)
  /\ WF_vars(Timeline)
  /\ \A c \in Chars : WF_vars(RunUnload(c))

-----------------------------------------------------------------------------
TypeOK ==
  /\ chr \in [Chars -> Instances] /\ owed \subseteq Chars
  /\ timeline \in Timelines
  /\ clip \in {"placed", "unloaded", "destroyed"}
  /\ frame \in 1..Len(timeline) /\ target \in 1..Len(timeline)
  /\ playing \in BOOLEAN
  /\ phase \in {"idle", "load", "script"}
  /\ pos \in 0..(Len(timeline[frame]) + 1)
  /\ dest \in Lists
  /\ scripts \in 0..MaxScripts
  /\ strayed \in BOOLEAN

\* No two instances on stage have the same depth, in either list.
DepthsUnique ==
  \A l \in Lists : \A c, e \in Stage(l) : chr[c].depth = chr[e].depth => c = e

\* Instances on stage are shown and advanced, so none is unloaded while the
\* clip is placed; a list that is being rebuilt never holds one.
StageLives ==
  /\ clip = "placed" => \A c \in Stage("main") : ~chr[c].unloaded
  /\ \A c \in Stage("tmp") : ~chr[c].unloaded

\* Only unloaded instances with a handler are in the removed zone.
ZoneUnloaded ==
  \A c \in Chars \ Unused : chr[c].depth < StaticOffset =>
     chr[c].unloaded /\ chr[c].handler

\* What DisplayList::testInvariant and the assertions of display() ask, however
\* tags, scripts, loads, rewinding and removals follow one another.
DepthsSound == ~strayed => DepthsUnique /\ StageLives /\ ZoneUnloaded

\* A queued UNLOAD handler is run, with its target unloaded but not destroyed:
\* QueuedEvent::execute would skip it.  So no step destroys, revives or reuses an
\* instance that is queued, and what leaves the queue was there to be run.  The
\* one exception: the clip itself is destroyed by its removal (Unload), with
\* children that are still queued.
HandlersHeard ==
  [][~strayed =>
       \A c \in owed \cup owed' :
         \/ c \in owed' /\ c \notin Unused' /\ chr'[c].unloaded   \* waits
         \/ c \notin owed' /\ chr'[c] = chr[c]                     \* was executed
         \/ clip' = "destroyed" /\ clip # "unloaded"               \* will be skipped
    ]_vars

\* What tags do at one depth, by their definition, from the first frame to t.
Nothing == [there |-> FALSE, kind |-> "shape", ratio |-> 0]
Effect(s, tag) ==
  LET ratio == IF tag.ratio = NoRatio THEN s.ratio ELSE tag.ratio
      new == [there |-> TRUE, kind |-> tag.kind, ratio |-> Ratio(tag)]
  IN CASE tag.op = "place" /\ ~s.there -> new
       [] tag.op = "replace" /\ s.there /\ s.kind = "shape" -> new
       [] tag.op \in {"move", "replace"} /\ s.there -> [s EXCEPT !.ratio = ratio]
       [] tag.op = "remove" -> Nothing
       [] OTHER -> s
Drawn(d, t) ==
  LET tags == FlattenSeq(SubSeq(timeline, 1, t))
  IN FoldLeft(Effect, Nothing, SelectSeq(tags, LAMBDA tag : tag.depth = d))

\* restoreDisplayList: after a rewind each depth of the static zone holds what
\* playing from the first frame to the target would have put there, or an old
\* clip with the same ratio, and nothing else: no instance a script created is
\* left there.  What scripts put above the static zone stays.
RestoreMatchesTimeline ==
  [][RestoreDone /\ ~strayed =>
       /\ \A d \in StaticOffset..(-1) :
            LET drawn == Drawn(d, frame)
                now == {c \in Chars : chr'[c].list = "main" /\ chr'[c].depth = d}
            IN /\ drawn.there <=> now # {}
               /\ \A c \in now :
                    /\ chr'[c].ratio = drawn.ratio /\ ~chr'[c].dynamic
                    /\ c \in At("tmp", d) => chr'[c].kind = drawn.kind
                    /\ c \in At("tmp", d) \/ (c \in At("main", d) /\ chr[c].kind = "clip")
       /\ \A c \in Stage("main") :
            chr[c].depth >= 0 /\ ~Drawn(chr[c].depth, frame).there => chr'[c] = chr[c]
    ]_vars

\* Whenever clips are unloaded, a moment comes when all of them have been
\* destroyed, wherever they were removed and whatever scripts do meanwhile.
UnloadedGo ==
  (\E c \in Chars : chr[c].unloaded) ~>
    (strayed \/ \A c \in Chars : ~chr[c].unloaded)
================================================================================
