# A TLA+ verification of Gnash

Gnash is a Flash player: it parses SWF movies while they play, runs their
scripts, loads further movies and media over the network, and renders the
result.  This directory models the parts of it in which several actors meet -
threads, nested script execution, timers and exceptions - in TLA+.  TLC checks
the models on small instances; for the ones marked *proved* TLAPS checks
theorems that hold for every value of the constants.

* [The system](#the-system)
* [What is modelled](#what-is-modelled), module by module
* [The runs](#the-runs), their bounds and what they show
* [Fairness](#fairness)
* [What is proved](#what-is-proved)
* [Disagreements found](#disagreements-found)
* [What is not modelled](#what-is-not-modelled-and-why) and [the plan](#plan)

Source paths are relative to the root of the repository (`src/` in
`PROJECT.json`).

## The system

A single *main thread* runs the GUI's event loop.  The GUI calls
`movie_root::advance` at the frame rate, and in one such advance the player

1. decides by the clock, or by the sound stream it follows, whether a frame is due;
2. if so, moves what is dragged, advances the live characters (each executes
   timeline tags and *queues* actions), answers finished load requests
   (`MovieLoader::processCompletedRequests`), processes the action queues,
   removes unloaded characters and collects garbage (`advanceMovie`);
3. in any case runs the advance callbacks (NetStream, connections) and the
   interval timers.

Keys and mouse events enter between advances.  Everything the main thread does
is sequential but *re-entrant*: script code run by any of these steps may push
actions, flush queues, set and clear timers, jump in the timeline and start
loads.  Beside it run

| thread | started by | shared with the main thread |
|---|---|---|
| movie loader | first `loadMovie` | list of requests, `_killed` |
| SWF loading thread, one per definition | `completeLoad` | playlists, `_frames_loaded`, `_loadingCanceled` |
| media parser, one per NetStream or sound | `startParserThread` | frame queues, cue points, position |
| load-variables thread, one per request | `loadVariables`, `LoadVars.load` | status and values |
| mixer of the sound library | first sound | sound instances, audio queue |

### Inventory

| component | state | operations | interacts with | hard because of |
|---|---|---|---|---|
| **Movie loader** (`libcore/MovieLoader.cpp`) | list of requests, completed flags, thread, kill flag | `loadMovie`, loader loop, `processCompletedRequests`, `clear` | player (levels, handlers), definitions | references used outside the lock, exceptions in handlers, re-entrant calls, shutdown |
| **SWF loading thread** (`libcore/parser/SWFMovieDefinition.cpp`) | frames loaded, playlists, dictionary, cancel flag | `completeLoad`, `read_all_swf`, `ensure_frame_loaded`, destructor | root movie, importers | waits for frames, lock-free counters, truncated streams |
| **Root movie playback** (`libcore/SWFMovie.cpp`, `MovieClip.cpp`) | play head, play state, loop flags | `construct`, `advance`, `gotoFrame` | loading thread, action queues | play head against a growing timeline |
| **Action queues** (`libcore/movie_root.cpp`, `vm/ActionExec.cpp`) | three queues, current level, scripts disabled | `pushAction`, `processActionQueue`, flush, `clear` | all script code | recursion, exceptions, priorities |
| **Interval timers** (`libcore/Timers.cpp`, `movie_root.cpp`) | map of timers, next id | set, clear, execute expired | script code, clock | changes while iterating, unsigned time |
| **Media parser** (`libmedia/MediaParser.cpp`, `FLVParser.cpp`) | queues of encoded frames, cue points, positions | parse tag, index, take frame, seek, stop | NetStream, Sound | two locks, seeks racing the parser, sleeping parser |
| **NetStream** (`libcore/asobj/NetStream_as.cpp`, `PlayHead.cpp`) | decoding state, play head, status slot, audio queue | `play`, `seek`, `pause`, `update`, audio fetch | media parser, mixer | buffering against parsing, play-head consumers |
| Sound handler (`libsound/`) | sounds, instances, plugged streams | play, stop, fetch, plug, unplug | mixer thread | locks around callbacks |
| **Display list** (`libcore/DisplayList.cpp`) | characters sorted by depth | place, replace, move, remove, swap, merge, unload | MovieClip, tags | removed zone, merge after a jump back |
| **Movie clips** and other characters (`MovieClip.cpp`, `DisplayObject.cpp`, `Button.cpp`, `TextField.cpp`) | construction, unload and destroy flags, live list | construct, advance, unload, destroy | display list, queues, collector | unload handlers, objects destroyed while referenced |
| Player shell (`movie_root.cpp`, `gui/`) | levels, focus, drag, key listeners, clock | advance, input events, reset | all of the above | order of one advance, errors leaving scripts |
| Load variables (`LoadVariablesThread.cpp`, `LoadableObject.cpp`) | status, values | start, poll, get, cancel | movie clips, LoadVars, XML | uninitialized status, repeated handling |
| Shared libraries (imports, `MovieLibrary`) | exports, cached definitions | import, export, cache | loading threads | timed polling |
| Local connections, shared objects, host interface, remoting | mailboxes, files, pipes | send, receive, flush | other processes | protocols with outside parties |
| Virtual machine, built-in classes, SWF tags, fonts, rendering, GUIs, base library, Cygnal server, tools | - | - | - | see `PROJECT.json` |

The components in bold are modelled, wholly or in part; what makes each of
them correct is stated by the [properties](#the-runs).  Of the others, those
worth a model are in the [plan](#plan).

## What is modelled

Everything a module leaves out is data: bytes of streams, what scripts compute,
how things are drawn.  What script code does is always *any* sequence of the
operations the module has.  Each access to a shared variable that is not
protected by a mutex is an action of its own; code under a mutex is one action
unless it waits inside.  `PROJECT.json` maps each definition to its lines.

### MovieLoader, MovieRequests

`MovieLoader` has the loader thread (`loader`: testing the flag, looking for
work, making a movie, waiting) and the main thread in
`processCompletedRequests` and `clear` (`main`).  Requests are numbers in the
order of the calls; `push_front` makes the largest number the first of the
list.  `loadMovie` may be called by the main thread at any point at which
script code runs, so also by a handler.  `clear` is split into the kill
(`Kill`), the join and the clearing of the list (`Join`).  The handler of a
request returns (`HandlingReturns`) or throws (`HandlingThrows`), in which case
the request stays in the list.  `dropped`, `attempts` and `thrown` are history.

`MovieRequests` says what that is all for: a request goes from *unissued* to
*pending*, *answered* and *handled*, or is dropped with all the others.
`ImplementsRequests` is the refinement, by the mapping `StatusOf`.

### SWFMovieDefinition

The loading thread of one definition (`loader`) and one thread in
`ensure_frame_loaded` (`client`).  The stream is free: each step of the parser
may find a control tag, a SHOWFRAME, the end of a chunk or the end of
everything, so truncated, malformed and over-long streams are included.  The
mutex is held by the client between its test of the predicate and its sleep
(`client = "block"`).  Counting a frame and signalling it are two steps, since
`incrementLoadedFrames` takes no lock.  `life` is the definition's own: the
destructor cancels, then joins.

### SWFMovie

Composes the above with the root movie that plays it: `construct`, `advance`,
`gotoFrame`, `play` and `stop`, with the flush of orphaned tags when the movie
loops.  The definition's actions are reused unchanged; a player step that calls
`ensure_frame_loaded` synchronises with `Ensure` and `Return`.  `todo` holds the
frames whose tag lists are being iterated, which is where the main thread reads
what the loading thread writes.

### MediaParser

The FLV parser's thread and the main thread.  A stream is a sequence of tags
with kind, time and key flag, positions are numbers of tags.  The parser decides
between parsing and indexing ahead (`indexOnly`), holds a frame in hand between
parsing and queueing it (`inflight`), and sleeps in two places.  The locks
`_qMutex` and `_streamMutex` are represented by who can be where between two
steps.  `since` and `taken` are history.  Reads of the queues that the code
makes without the lock may yield any answer.

### NetStream

Composes `MediaParser` with what plays the stream: `NetStream_as::update` and
its `PlayHead` on the main thread, and the mixer, which empties the audio queue
(`Fetch`).  `update` is split at each access to what belongs to the parser:
`step` says where in it the main thread is, from `Notify`
(`processStatusNotifications`) and `Test` to `Advance` and the jump to the
first key frame (`MayJump`, `Jump`).  The two decoding loops are
`RefreshVideo` to `MoreVideo` and `RefreshAudio` to `AudioTaken`.  The actions
of `MediaParser` are reused: a take by the main thread is `MediaParser`'s take,
`Seek` and `Close` start its handshakes, which `SeekDone` and `Closed` finish,
and `Play` makes a new parser and another choice of stream.

The playback clock is only running or not: when it runs, the head moves as far
as it likes (`Advance(k)`), which covers every relation between the clock and
the wall.  The status slot tells apart *none*, `playStop` and the others.
Scripts call between updates and in `onStatus` (the step *test*): pause,
unpause, seek with a valid and an invalid time, `setBufferTime`, close, and
play of a stream that exists or does not.

### DisplayList, MovieClip

`DisplayList` holds the operations on the sorted list, as operators that state
what becomes of the instances (`chr`) and of the queued UNLOAD handlers
(`owed`).  A list sorted by depth is a set of instances that each know their
depth and list: *main*, the one on display, or *tmp*, the one that a rewinding
clip builds from its tags before `mergeDisplayList` joins the two.  An instance
with a handler that is removed goes to the removed zone, depth *d* to
-32769 - *d*, and waits there until its handler was run and the end of the
tick; one without is destroyed.

`MovieClip` is the clip that owns the list.  The host's tick (`Tick`) advances
the timeline, answers loads, runs queued code (`RunUnload`) and destroys what
was unloaded (`Cleanup`).  A frame's tags are executed one by one (`Timeline`:
place, move, replace, remove; `NextFrame`; for a jump back `restoreDisplayList`
with the merge at its end, `RestoreDone`).  Scripts create, remove, swap and
transform clips and jump (`Scripting`); a finished load replaces its target
(`LoadInto`); the clip itself may be unloaded, with or without a handler or as
a level (`Unload`), after which another begins (`Restart`).

An execution is followed until it goes astray (`strayed`): until an instance
that is not unloaded is put into the removed zone, or an unloaded one is moved,
steps that the assertions of the code exclude and that scripts can nevertheless
bring about (see [below](#disagreements-found)).  When the whole clip is
destroyed its children go with it, handler or not, as `destroy` does; what they
have in the queue stays in `owed`, and is skipped when its turn comes.
How far frames are loaded is the business of `SWFMovie`, which has the same
play head without the display list.

### ActionQueue, ActionScheduler

`stack` holds the active loops: the outermost `processActionQueue`, the flushes
made by code that ends, and handlers.  Each has the level it works on and is
scanning, running code or unwinding an exception.  `level` is
`_processingActionLevel`.  `HitLimit` is an `ActionLimitException`, `Malformed`
an `ActionParserException`; each block it leaves flushes, as
`ActionExec::cleanupAfterRun` does.

`ActionScheduler` is the promise: code starts in the order of priority and,
within a priority, of age; it disappears only by being started or dropped.

### IntervalTimers

The map of timers, the pass that collects pointers to expired ones and runs them
(`expired`, `running`), and the functions they call, which add and clear timers
or throw.  Times are words of `Word` values with wrap-around; the stored
interval is narrower.  `born` and `done` are history.

## The runs

All passing runs use the fair specification, so that one run answers the safety
and the liveness questions of a module.  Deadlock is checked where the player
can always go on, and off where both threads may have ended.

| run | instance | distinct states | question |
|---|---|---|---|
| `movie_loader` | 3 requests, 1 exception per request | 5 thousand | Do the two threads share the list safely, is each request answered and handled once (plus once per exception), and are none left waiting? |
| `swf_loading` | header says 2 frames, stream has 0 to 3, 1 tag per frame | 12 thousand | Are the answers of `ensure_frame_loaded` right, are loaded frames final, does everybody wake up and the destructor return? |
| `swf_movie` | header says 3 frames, stream has 0 to 4 | 14 thousand | Does playback only execute complete frames, loop only when all are there, and keep moving? |
| `media_parser` | streams with audio and video, video out of order with equal times, audio alone; 2 seeks, also beyond the end | 166 thousand | Is no frame lost or repeated between seeks, is the index sound, do seeks wake the parser? |
| `net_stream` | streams with audio between video and with audio alone; 2 calls of scripts, at most 1 buffer queued for the mixer, buffer times 0 and 3 | 772 thousand | Does playback come to its end, with everything decoded, and is its stop told once, whatever scripts call beside the three threads? |
| `movie_clip` | 5 instances, 3 timelines, static zone -2..-1, depths -3, -1 and 0 for scripts, 3 operations of scripts and loads per clip | 1.4 million | Do depths stay unique, do instances wait for their queued handlers, does a rewind rebuild what the timeline says, is everything unloaded destroyed? |
| `action_queue` | 4 pieces of code, 3 priorities, 2 clips | 92 thousand | Do nested flushes, exceptions and resets keep to the scheduler, leave nothing behind and let no code wait for ever? |
| `interval_timers` | 3 timers, delays 2 and 4 with intervals cut at 4, 1 exception | 304 thousand | Do passes keep valid pointers, are timers on time, do cleared ones stay cleared and overdue ones run in order? |

The four other runs each show one [disagreement](#disagreements-found).

**Why the bounds are enough.**  Three requests allow one being loaded, one being
handled and one arriving; a second exception on the same request repeats the
first.  Two advertised frames against zero to three in the stream make it too
short, right and too long, and the third frame of `swf_movie` gives jumps a
frame in the middle.  The streams of `MCMediaParser` are the shapes that the
queues and the index tell apart (media absent, order of times, equal times, tags
without a frame), two seeks let the second arrive while the first is unheeded,
and the times sought are a first, an inner and a non-existent one.  Four pieces
of code nest three loops deep, one beyond what is needed for a flush within a
flush.  With three timers one runs, one waits in the pass and one is added; the
delay 4 is cut to 0 by the narrow interval, and passes can be three ticks late.
`net_stream` has no more positions than there are kinds of meeting between the
head and a frame: before it, at it, and past it; its two calls of scripts allow
each to find what the other left (a pause during a seek, a play after a close,
a new buffer time while the parser sleeps by the old one); an audio limit of 0
in place of 20 makes every second buffer an overrun.  `movie_clip` has one
depth at each end of the static zone, one outside it and one that scripts may
ask for beyond it (-3), so that each pair of zones meets; its timelines place,
move, replace and remove shapes and clips, with and without handlers, and use a
depth again; of five instances two are kept for tags (`Spare`), so that scripts
never stop a timeline, and three scripts suffice for a jump back over what a
swap and a removal have left.
Every action of every module fires in these runs, and every property is
violated by at least one small change to the code's definitions (the `mutants`
of `PROJECT.json`, found beside the definitions they replace).

**What the properties say**, beyond one type invariant per module:

* `ReferencesValid`, `LeavesList` - the reference that the loader and the
  iterator that the main thread hold outside the mutex always designate elements
  of the list, never the same one; elements leave it only completed, or by
  `clear` after the join.
* `HandledOnce`, `NoLostRequest`, `EventuallyHandled` - exactly once plus once
  per exception, and no sleeping over work.
* `RefusedNeverComes`, `EnsureReturns`, `DestroyReturns` - FALSE is answered
  only for frames that never come; a wait ends if the stream does, so nobody
  sleeps on a loader that has left; and cancellation ends it all.
* `LoadedIsFinal`, `ExecutedFramesComplete`, `PlayheadLoaded` - what the main
  thread reads without a lock is no longer written.  Two readers of playlists are
  outside: the flush of the orphans, and `call_frame_actions`
  (`MovieClip.cpp:607`), which is not modelled.
* `NoEarlyLoop`, `Plays` - the play head wraps only in a loaded movie, and
  moves on.
* `EachFrameOnce` - frames between seeks are taken, buffered or in hand, each in
  one place, whatever stale frame a seek leaves in the parser's hand.
* `IndexSound`, `SeekHeeded` - cue points lead where they should, no key frame
  is left out; the parser wakes for seeks.
* `StopsAtEnd`, `StopToldOnce` - playback stops only when the parser is at the
  end and each frame since the last seek was taken, although completion and the
  two queues are asked one after the other; playStop is set once, and only a
  script between two updates can overwrite it before it is heard.
* `PlaybackEnds` - what is played comes to its end: buffer, clock, the two
  consumers of the head, mixer and parser do not wait for one another in a ring.
  It names two exceptions, without either of which it fails: `Starved` and
  `Stranded` (see [below](#disagreements-found)).
* `DepthsSound` - what `DisplayList::testInvariant` and the assertions of
  `display` ask, however operations follow one another: no two instances on
  stage at one depth, none unloaded on display, and only unloaded ones in the
  removed zone.
* `HandlersHeard` - no step destroys, revives or reuses an instance whose UNLOAD
  handler is queued, so that the handler finds its target when it is run.  It
  names one exception, without which it fails: the removal that destroys the
  clip itself while children are queued (see [below](#disagreements-found)).
* `UnloadedGo` - what is unloaded is destroyed in the end, on stage, in the
  removed zone and in a clip that is unloaded itself.  The cleanup of a level's
  list and the scan of the live clips are one step, and a child has no list of
  its own: that the scan reaches every nested list is not shown.
* `RestoreMatchesTimeline` - after a jump back each depth of the static zone
  holds what its tags put there by a definition of their own (`Drawn`), or an
  old clip of the same ratio, also one that was swapped there, and what scripts
  put above it stays.
* `ImplementsScheduler`, `LoopReturnsDone`, `NoneWaitsForEver` - recursion and
  exceptions do not confuse the loops.
* `PointersValid`, `ClearedIsFinal`, `NoDrift`, `OverdueInOrder`, `ExpiredRuns` -
  passes survive what their functions do; the k-th execution is due k intervals
  after the timer was set; the unsigned and inverted `elapsed` still sorts
  overdue timers rightly.

## Fairness

Only what the program or the operating system guarantees is assumed:

* Threads run: weak fairness of the loader's, the parser's and the waiting
  client's steps, and of joins once the joined thread has ended.
* A thread that asks again and again for a mutex gets it although the other
  thread keeps taking it: strong fairness of the loading thread's two locked
  steps.
* The GUI advances the player again and again: fairness of the main thread's
  `Advance`, `StartProcessing`, `ProcessActionQueue`, `ExecuteTimers`.
* Handlers and script code end: `ActionExec` limits their time.  So the tick of
  `MovieClip`, the tags of a frame and queued handlers each go on (weak
  fairness of `Tick`, `Timeline`, `RunUnload`).
* `update` of a NetStream is a callback of each advance, gets the mutexes it
  asks for and finishes what it began (strong fairness of `UpdateStep`); the
  mixer fetches; a seek or close that waits for the parser ends when the parser
  answers.
* A clock that runs gets on: an update that again and again finds the head free
  to move moves it at some time (strong fairness of `Advance` with a positive
  step).

Nobody is obliged to call `loadMovie`, `clear`, to seek or to destroy anything,
and nothing promises a spurious wakeup.  That a stream ends is not assumed of
the definition: it is a premise of `EnsureReturns`, while `DestroyReturns` holds
without it.  `SWFMovie` assumes it, as playback of a stream that stalls stalls
too.  In `MediaParser` nothing takes frames by obligation, so that liveness
there is conditional on what the main thread did.  In `NetStream` the updates
take them, and no script has to call anything.

## What is proved

Eight modules hold theorems, one for each component.  Each shows an inductive
invariant: the initial states satisfy it, every step keeps it, and the theorems
follow from it.  Between them they prove every invariant and every action
property that the runs check, and both refinements, but for
`RestoreMatchesTimeline`, of which one half is proved.

**MovieLoaderProofs**, for any number of requests and exceptions.  The checked
invariants are not inductive alone: that erasing keeps the loader's reference
valid needs that the erased request is completed and the loader's is not; that
`clear` does needs that the thread was joined (`Joining`), and that a request is
not both dropped and listed (`DroppedGone`).  Theorems: `TypeCorrect`,
`ReferencesSafe`, `NoRequestLost`, `ExactlyOnce`, `OnlyCompletedLeave`, and
`Refinement` - every behaviour is one of `MovieRequests`.

**SWFMovieDefinitionProofs**, for any advertised count, stream length and number
of tags.  The argument is the order in which loading ends: frames are made up
(`FramesMadeUp`), then the flag is set under the mutex (`CanceledAtEnd`), then
the condition is notified (`Sleeping`).  Whoever sees the flag down under the
mutex will be notified; whoever sees it up sees the final count
(`RefusedAtEnd`).  Theorems: `TypeCorrect`, `RefusalIsRight`, `LoadedFramesFinal`, and
`EndWakesSleeper`: nobody sleeps on a loader that has left (`NoSleeperAtEnd`,
which in the run follows from `EnsureReturns`).

**SWFMovieProofs**, for any advertised count, stream length and number of tags,
on top of the last.  Each step of the movie is a step of the definition or
leaves it alone, hence `PlayedDefinition` (`MovieSpec => Spec`): whatever is
proved of the definition holds while it is played.  The invariant of the play
head says about which frame each wait asks (`Asked`) and what the answer was
worth (`Answered`): a movie asks for no frame beyond the header's count, the
loading thread makes up what the stream lacks, so no wait is refused, and a
frame once loaded stays so.  Theorems: `PlayerTypeCorrect`,
`ExecutesCompleteFrames`, `PlayheadAlwaysLoaded`, `NeverLoopsEarly`.  The first
bounds the play head by the larger of the header's count and the stream's
(`TopFrame`): in a stream that is longer than announced the head does pass the
header's count.

**MediaParserProofs**, for any set of streams, seek times and buffer times.
`EachFrameOnce` is not inductive for three reasons.  The buffers may hold
anything between an accepted seek and its heeding, but then the request is
pending (`SeekPending`).  A frame goes to the queue of its medium, behind the
last one that is not later, and the accounting must say that it is on no other
(`FramesSorted`).  And a main thread that has read the first frame of a queue
removes it in a later step: until then the mutex keeps the queue as it is
(`TakenStays`).  `Finished`: completion excludes a frame in hand.
`CuesAreFrames`: a seek lands on a frame.  Below it are lemmas on
`InsertAt`, `Tail` and injective sequences, and on least and greatest elements
of sets of numbers.  Theorems: `ParserInvariant`, `ParserTypeCorrect`,
`FramesDeliveredOnce`, `IndexComplete`.  The safety half of `SeekHeeded` is
`SeekNotSleptOver`: from the clearing of the buffers to the heeding of the seek
the parser neither sleeps nor is about to.  What could send it to sleep is a
full buffer, and `Awake` says why there is none: after the clearing one frame at
most comes in, the one in hand when the seek was made, and a buffer of one frame
has no length.  What is left to TLC is that a parser awake goes on.

**NetStreamProofs**, for any streams, limits and bounds, on top of the last:
`NetParserStep` shows that every step of playback is a step of `MediaParser`,
leaves the parser alone or makes a new one, so that `ParserIInv` holds
throughout (`PlayedFramesOnce`).  The rest of the invariant, `Playing`, says why
what `update` saw still holds when it acts upon it, although the parser runs
between any two of its steps: no seek or close happens within an update
(`Updating`), so what was complete is complete (`StillComplete`), and when both
queues were found empty after that, they stay empty (`Over`).  A stop sets the
slot and ends all later work (`StopTold`), and no update begins with a stop
untold (`SlotFree`).  The one delicate case is a script that seeks while it is
told of a status: its refresh runs within the notification, and must not find
the end.  It cannot, since a seek lands on a frame that nobody else takes
(`FrameSought`, `NotExhausted`).  Theorems: `NetInvariant`, `NetTypeCorrect`,
`StopsOnlyAtEnd`, `StopSaidOnce`, `PlayedFramesOnce`.

**ActionQueueProofs**, for any clips and number of pushes, and so any depth of
nesting.  Each queue holds its own level in the order of age (`QueueOrdered`);
only the innermost loop looks for code, the others wait for what they started
(`InnermostScans`); and the level it works on is the best there is
(`ScansBest`), although code, exceptions and flushes change the queues under
the outer ones.  From these each step is one of `ActionScheduler`'s or
stutters.  Theorems: `QueueInvariant`, `TypeCorrect`, `LoopsEndDone`,
`QueuesImplementScheduler`.

**IntervalTimersProofs**, for any delays, number of timers and exceptions, and
any widths such that the clock plus an interval stays below half a word
(`TimersAssumption`).  Needed besides the checked properties: a cleared timer
also has interval 0, so that moving its start on leaves it cleared (`Stopped`);
what waits in a pass was due when the pass began and carries the difference it
was sorted by (`Due`); a live timer's start is past (`OnSchedule`).  Theorems:
`TypeCorrect`, `PointersStayValid`, `Punctual`, `ClearedStaysCleared`,
`OverdueOrder`.

**MovieClipProofs**, for every set of timelines, every static offset and every
choice of depths that scripts ask for.  The lists are first treated as values:
`Sound(f, o)` says of any assignment of instances and any set of queued
handlers that depths on stage are unique, the temporary list has no unloaded
instance, the removed zone only unloaded ones with a handler, and queued
handlers belong to such; lemmas show that removing, adding, marking, forgetting,
swapping and joining two lists (`RemoveSound` ... `RelistSound`) keep it.  The
invariant is `Sound` of the current state, plus `Live` while the clip is placed,
until the execution strays (`Healthy`); once the clip is destroyed the queue may
hold what its children have left, and no tag is executed.  `Sound` is stronger
than what is checked in that an owed handler's clip has one: without it,
destroying the clips without handlers could not be shown to spare the owed.
`HandlersHeard` is an action property: the invariant after a step says that
whoever is queued waits, the lemmas on the steps (`TimelineWaits`,
`ScriptingWaits`) that nothing else left the queue, and for the steps on which
an execution strays they say both directly (`PutWaits`).  Theorems:
`TypeCorrect`, `DepthsAlwaysSound`, `HandlersAlwaysHeard`, and `RestoreMerges`,
the half of `RestoreMatchesTimeline` that is about the merge: at each depth of
the static zone exactly one instance is left if the rebuilt list has one, that
one or an old clip that the tags could have placed.

Assumptions are the named `ASSUME`s of the modules: types of the constants, a
header with at least one frame (`readHeader` replaces 0 by 1), the widths, the
bound `End` of the play head behind the times of all frames, and timelines whose
tags are in or above the static zone and give handlers to clips only (the loader
of tags shifts their depths by the offset).  TLC evaluates them in the runs.

Only model-checked: the liveness properties `EventuallyHandled`,
`EnsureReturns`, `DestroyReturns`, `Plays`, `SeekHeeded`, `NoneWaitsForEver`,
`ExpiredRuns`, `UnloadedGo` and `PlaybackEnds` (they need fairness and
`ENABLED`, beyond the prover; of `SeekHeeded` the safety half is proved), and of
`RestoreMatchesTimeline` that the rebuilt list is what the tags draw (its
reference is a fold over the tags, whose value for every timeline would need an
induction over sequences).

## Disagreements found

Four runs show the code departing from what it says of itself.

1. **`movie_loader_clear`** (`ClearReturns`).  The loader tests `_killed` before
   it takes `_requestsMutex` (`MovieLoader.cpp:67`) and does not test it again
   before it waits (`:96`).  If `clear` sets the flag and notifies in between,
   the loader sleeps for ever and `clear` never returns from the join.
2. **`swf_movie_orphans`** (`OrphansNotGrowing`).  `_hasLooped` is set as soon as
   the last advertised frame is there, so the playlist of orphaned tags is
   iterated while the loading thread may still append to it.
3. **`media_parser_stop`** (`StopReturns`).  The stop request is made without
   `_qMutex` and is lost between the parser's test and its wait; the destructor's
   join never returns.
4. **`action_queue_flush`** (`FlushOnlyHigher`).  A flush compares with
   `_processingActionLevel`, which belongs to the outermost loop: code that runs
   within a flush and flushes itself may execute code of its own or a lower
   priority, against `movie_root.h:609`.

Smaller divergences met on the way; those that can hurt are hazards in
`PROJECT.json`:

* *SWF loading.*  `incrementLoadedFrames` counts and notifies without the
  waiter's mutex, so that a waiter may miss the frame it waits for
  (`SWFMovieDefinition.cpp:544`, against the header at `:475`); a later frame or
  the end of loading wakes it, which `EnsureReturns` shows to be the worst.
  `importResources` never looks for progress again and gives up two seconds
  after it began.
* *Media parser.*  A refused seek drops the buffered frames; each in-order audio
  tag becomes a cue point instead of one every five seconds; a metadata tag met
  by the indexer and by the parser is stored twice; after
  `parsingCompleted` no frame is to be had, says its comment (`MediaParser.h:598`),
  but the buffers may still be full.
* *NetStream.*  `setBufferTime` does not wake a parser that sleeps by the old
  value, and a stream that is buffering takes nothing until the new one is
  reached: it never is (`Starved`).  `close` keeps `_availableConsumers`, so that
  a stream without audio, played after one with audio, waits for an audio
  consumer for ever (`Stranded`).  A refused seek while buffering resumes the
  clock.  The jump to the first key frame does not test what its comment says
  (`NetStream_as.cpp:1340`) and may move the head back, also in a pause.  Of two
  statuses set in one update the first is lost.  Audio that cannot be decoded is
  never flushed, and a stream without media never stops (outside the model).
* *Display lists.*  A load that completes for an unloaded target replaces it in
  the removed zone, from where the new movie can come back on stage;
  `createEmptyMovieClip` accepts any depth; both are steps that make an execution
  stray.  Removing a clip can lose UNLOAD handlers that are queued:
  `dropLevel` destroys a level whatever it owes, and a clip in whose list no
  instance *on stage* has a handler is destroyed at once, although one in its
  removed zone may still be queued (`DisplayList.cpp:487` starts above that zone,
  where `DisplayObject.h:776` promises true for "any child"); `QueuedEvent::execute`
  then skips the handler.  The merge keeps an old clip of the same ratio even if
  it was constructed after the target frame or swapped into its depth, which
  `MovieClip.h:687` excludes.  `swapDepths` looks at the parent of
  the clip where the parent of the target is meant (`MovieClip_as.cpp:622`).
  Unloaded instances are dropped from the lists of levels only, not of every
  sprite; lookups by name may find a removed instance before a placed one.
* *Scripts and timers.*  An exception leaves `_processingActionLevel` stale until
  the next loop; `Timer::expired` computes `elapsed` with the sign opposite to
  its documentation (`Timers.h:114`).

## What is not modelled, and why

* *Within the modelled components:* reading headers and the byte arithmetic of
  chunks, dictionaries, exports and imports; decoding of FLV tags, and the
  ffmpeg, gst and haiku parsers; how timers find their functions; decoders that
  fail, metadata events and the destructor of a NetStream; matrices, masks,
  buttons, construction events and the lists nested in a clip's children.
* *Planned:* load-variables requests, imports, the sound handler (next section).
* *Not planned:* the virtual machine's opcodes and the built-in classes are
  deterministic functions on a heap, exercised by the test suite in the
  thousands; the collector is correct if each class marks what it refers to,
  a fact about code text and not about states; parsing of tags, rendering,
  fonts, base library and GUI glue have no interleavings; the ActionScript 3
  machine is not built; Cygnal is a separate, unfinished program; `external/` is
  vendored.

## Plan

In order of importance; every module parameterised by `CONSTANTS` with a named
assumption, without `RECURSIVE` operators where theorems are wanted.

1. `LoadVariables`: status, cancellation and the poll of a clip; whether
   *completed* implies that the values are there although the status starts
   uninitialized.
2. Imports in `SWFMovieDefinition`: the timed wait for another loading thread.
3. The sound handler: the mixer's fetch against plug, unplug and stop, composed
   with `NetStream`, whose `Fetch` stands for it.
4. Nested display lists in `MovieClip`: a child's own list and the scan of the
   live characters that destroys what the levels' cleanup does not reach.
5. Proofs about the above as they are added, and of the refinement that
   `NetStream` suggests: a stream that is asked for frames, told where to seek
   and says once that it is over.
