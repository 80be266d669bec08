------------------------------ MODULE MediaParser ------------------------------
(***************************************************************************)
(* The media parser thread and its frame buffers                           *)
(* (libmedia/MediaParser.cpp and its FLV subclass FLVParser.cpp).          *)
(*                                                                         *)
(* The parser thread reads the stream tag by tag and queues audio and      *)
(* video frames; once the buffers hold more than _bufferTime it only       *)
(* indexes cue points ahead, and once that is done too, or parsing is      *)
(* complete, it sleeps on _parserThreadWakeup.  The main thread takes      *)
(* frames, seeks to cue points, changes _bufferTime and, in the end, stops *)
(* the thread.  _qMutex protects the queues, _streamMutex the position and *)
(* the index; a seek takes the second, then the first.                     *)
(*                                                                         *)
(* A position is the number of a tag of the stream, and a queued frame the *)
(* number of the tag it was parsed from.                                   *)
(***************************************************************************)
EXTENDS Integers, FiniteSetsExt, SequencesExt

CONSTANTS
  Streams,      \* the streams considered: sequences of [kind, time, key]
  SeekTimes,    \* the times the main thread seeks to
  BufferTimes,  \* the values it gives to _bufferTime
  MaxSeeks,     \* bound on the seeks of a behaviour
  CueDistance   \* the 5000 ms of indexAudioTag

\* Tags of another kind (metadata, empty, unknown) carry no frame.
Media == {"audio", "video"}
Tags == [kind : Media \cup {"other"}, time : Nat, key : BOOLEAN]

ASSUME ParserAssumption == /\ Streams \subseteq Seq(Tags)
                           /\ SeekTimes \subseteq Nat /\ BufferTimes \subseteq Nat
                           /\ MaxSeeks \in Nat /\ CueDistance \in Nat

VARIABLES
  stream,            \* _stream
  position,          \* _lastParsedPosition: the next tag to parse
  nextIndex,         \* _nextPosToIndex: the next tag to index
  cuePoints,         \* _cuePoints, from timestamp to position
  infos,             \* the media whose _audioInfo or _videoInfo is set
  parsingComplete, indexingCompleted, seekRequest,
  queue,             \* _audioFrames and _videoFrames
  bufferTime,
  kill,              \* _parserThreadKillRequested
  parser,            \* where the parser thread is
  indexOnly,         \* its argument of parseNextTag
  inflight,          \* the frame it is about to push, or 0
  main,              \* where the main thread is
  seeks,             \* how many times it sought
  since,             \* history: where the buffered run of tags starts; 0 from
                     \* an accepted seek until the parser heeds it
  taken              \* history: the frames taken of that run

index == <<nextIndex, cuePoints, indexingCompleted>>
parsed == <<stream, position, infos, parsingComplete>>
thread == <<parser, indexOnly, inflight>>
history == <<since, taken>>
vars == <<index, parsed, thread, history,
          seekRequest, queue, bufferTime, kill, main, seeks>>

Time(i) == stream[i].time

Init ==
  /\ stream \in Streams
  /\ position = 1 /\ nextIndex = 1
  /\ cuePoints = << >> /\ infos = {}
  /\ parsingComplete = FALSE /\ indexingCompleted = FALSE /\ seekRequest = FALSE
  /\ queue = [m \in Media |-> << >>]
  /\ bufferTime \in BufferTimes
  /\ kill = FALSE
  /\ parser = "loop" /\ indexOnly = FALSE /\ inflight = 0
  /\ main = "run" /\ seeks = 0
  /\ since = 1 /\ taken = {}

\* Who holds the mutexes between two steps: the parser keeps _qMutex from its
\* decision to sleep until it sleeps, the main thread while it takes a frame;
\* a seek keeps _streamMutex.
QMutexFree == parser \notin {"push block", "loop block"} /\ main \notin Media
StreamMutexFree == main # "seek"

\* _parserThreadWakeup.notify_all(): the thread goes on behind its wait.
Woken == CASE parser = "push wait" -> "again"
           [] parser = "loop wait" -> "loop"
           [] OTHER -> parser

\* The buffer length is that of the shorter of the buffers there are.
Span(q) == IF q = << >> THEN 0 ELSE Time(q[Len(q)]) - Time(q[1])
BufferLength == IF infos = {} THEN 0 ELSE Min({Span(queue[m]) : m \in infos})
BufferFull == BufferLength > bufferTime

\* The condition on which waitIfNeeded sleeps, without a second look at it.
MustWait == (parsingComplete \/ (BufferFull /\ indexingCompleted)) /\ ~kill

\* A frame goes behind the last one of the queue that is not later.
InsertSorted(q, i) ==
  InsertAt(q, Max({0} \cup {k \in DOMAIN q : Time(q[k]) <= Time(i)}) + 1, i)

-----------------------------------------------------------------------------
(* The parser thread. *)

\* parserLoop's test.
Loop ==
  /\ parser = "loop"
  /\ parser' = IF kill THEN "exited" ELSE "chunk"
  /\ UNCHANGED <<index, parsed, indexOnly, inflight, history,
                 seekRequest, queue, bufferTime, kill, main, seeks>>

\* parseNextChunk: index only if the buffer is full, which it reads from the
\* queues without _qMutex; beside a half-taken frame it may read anything.
ChooseMode ==
  /\ parser = "chunk"
  /\ IF main \in Media THEN indexOnly' \in BOOLEAN ELSE indexOnly' = BufferFull
  /\ parser' = "tag"
  /\ UNCHANGED <<index, parsed, inflight, history,
                 seekRequest, queue, bufferTime, kill, main, seeks>>

\* parseNextTag returns at once if it has nothing to do.
NothingToDo ==
  /\ parser = "tag" /\ StreamMutexFree
  /\ (indexOnly /\ indexingCompleted) \/ parsingComplete
  /\ parser' = "again"
  /\ UNCHANGED <<index, parsed, indexOnly, inflight, history,
                 seekRequest, queue, bufferTime, kill, main, seeks>>

\* Mutant: what a seek left behind stays queued.
HeedSeekKeeping ==
  /\ parser = "tag" /\ StreamMutexFree
  /\ ~(indexOnly /\ indexingCompleted) /\ ~parsingComplete
  /\ seekRequest' = FALSE
  /\ since' = IF seekRequest THEN position ELSE since
  /\ taken' = IF seekRequest THEN {} ELSE taken
  /\ UNCHANGED queue

\* Otherwise it first heeds a seek request, accepted or not: what is buffered
\* is dropped (clearBuffers).
HeedSeek ==
  /\ parser = "tag" /\ StreamMutexFree
  /\ ~(indexOnly /\ indexingCompleted) /\ ~parsingComplete
  /\ seekRequest => QMutexFree
  /\ seekRequest' = FALSE
  /\ queue' = IF seekRequest THEN [m \in Media |-> << >>] ELSE queue
  /\ since' = IF seekRequest THEN position ELSE since
  /\ taken' = IF seekRequest THEN {} ELSE taken

\* Then the end of the stream completes the indexing or the parsing...
EndOfStream ==
  /\ HeedSeek
  /\ (IF indexOnly THEN nextIndex ELSE position) > Len(stream)
  /\ IF indexOnly THEN indexingCompleted' = TRUE /\ UNCHANGED parsingComplete
                  ELSE parsingComplete' = TRUE /\ UNCHANGED indexingCompleted
  /\ parser' = "again"
  /\ UNCHANGED <<nextIndex, cuePoints, stream, position, infos, indexOnly,
                 inflight, bufferTime, kill, main, seeks>>

\* An audio tag is a cue point of a stream without video if no later cue point
\* is near; a video tag if it is a key frame.
IsCuePoint(i) ==
  IF stream[i].kind = "video" THEN stream[i].key
  ELSE /\ stream[i].kind = "audio" /\ "video" \notin infos
       /\ LET later == {t \in DOMAIN cuePoints : t >= Time(i)}
          IN  later = {} \/ Min(later) - Time(i) >= CueDistance

Indexed(i) ==
  IF IsCuePoint(i)
  THEN [t \in DOMAIN cuePoints \cup {Time(i)} |->
          IF t = Time(i) THEN i ELSE cuePoints[t]]
  ELSE cuePoints

\* ...or a tag is indexed ahead...
IndexTag ==
  /\ HeedSeek
  /\ indexOnly /\ nextIndex <= Len(stream)
  /\ cuePoints' = Indexed(nextIndex)
  /\ nextIndex' = nextIndex + 1
  /\ parser' = "again"
  /\ UNCHANGED <<parsed, indexingCompleted, indexOnly, inflight,
                 bufferTime, kill, main, seeks>>

\* Mutant: only tags looked at ahead are indexed.
ParseTagUnindexed ==
  /\ HeedSeek
  /\ ~indexOnly /\ position <= Len(stream)
  /\ LET kind == stream[position].kind
     IN  /\ infos' = infos \cup ({kind} \cap Media)
         /\ inflight' = IF kind \in Media THEN position ELSE 0
         /\ parser' = IF kind \in Media THEN "push" ELSE "again"
  /\ position' = position + 1
  /\ nextIndex' = Max({nextIndex, position + 1})
  /\ UNCHANGED <<cuePoints, stream, parsingComplete, indexingCompleted, indexOnly,
                 bufferTime, kill, main, seeks>>

\* ...or a tag is parsed, and indexed if that was not done ahead; the stream
\* mutex is released with the frame in hand.
ParseTag ==
  /\ HeedSeek
  /\ ~indexOnly /\ position <= Len(stream)
  /\ LET kind == stream[position].kind
     IN  /\ cuePoints' = IF position + 1 >= nextIndex THEN Indexed(position)
                                                      ELSE cuePoints
         /\ infos' = infos \cup ({kind} \cap Media)
         /\ inflight' = IF kind \in Media THEN position ELSE 0
         /\ parser' = IF kind \in Media THEN "push" ELSE "again"
  /\ position' = position + 1
  /\ nextIndex' = Max({nextIndex, position + 1})
  /\ UNCHANGED <<stream, parsingComplete, indexingCompleted, indexOnly,
                 bufferTime, kill, main, seeks>>

\* Mutant: the frame stays in hand.
PushCopy ==
  /\ parser = "push" /\ QMutexFree
  /\ queue' = [queue EXCEPT ![stream[inflight].kind] = InsertSorted(@, inflight)]
  /\ UNCHANGED <<index, parsed, indexOnly, inflight, history,
                 seekRequest, bufferTime, kill, main, seeks>>
  /\ parser' = IF MustWait' THEN "push block" ELSE "again"

\* pushEncodedAudioFrame and pushEncodedVideoFrame: queue it, and sleep if the
\* buffer is full or parsing complete.
Push ==
  /\ parser = "push" /\ QMutexFree
  /\ queue' = [queue EXCEPT ![stream[inflight].kind] = InsertSorted(@, inflight)]
  /\ inflight' = 0
  /\ UNCHANGED <<index, parsed, indexOnly, history,
                 seekRequest, bufferTime, kill, main, seeks>>
  /\ parser' = IF MustWait' THEN "push block" ELSE "again"

\* parserLoop, after its nap, asks once more whether to sleep.
Again ==
  /\ parser = "again" /\ QMutexFree
  /\ parser' = IF MustWait THEN "loop block" ELSE "loop"
  /\ UNCHANGED <<index, parsed, indexOnly, inflight, history,
                 seekRequest, queue, bufferTime, kill, main, seeks>>

\* Asleep, _qMutex is released.
Sleep ==
  /\ \/ parser = "push block" /\ parser' = "push wait"
     \/ parser = "loop block" /\ parser' = "loop wait"
  /\ UNCHANGED <<index, parsed, indexOnly, inflight, history,
                 seekRequest, queue, bufferTime, kill, main, seeks>>

SpuriousWakeup ==
  /\ Woken # parser
  /\ parser' = Woken
  /\ UNCHANGED <<index, parsed, indexOnly, inflight, history,
                 seekRequest, queue, bufferTime, kill, main, seeks>>

ParserNext ==
  \/ Loop \/ ChooseMode \/ NothingToDo \/ EndOfStream \/ IndexTag \/ ParseTag
  \/ Push \/ Again \/ Sleep

-----------------------------------------------------------------------------
(* The main thread. *)

\* nextAudioFrame and nextVideoFrame lock the queue and move its first frame
\* out (they return nothing, and wake nobody, if there is none)...
NextFrame(m) ==
  /\ main = "run" /\ QMutexFree
  /\ queue[m] # << >>
  /\ main' = m
  /\ UNCHANGED <<index, parsed, thread, history,
                 seekRequest, queue, bufferTime, kill, seeks>>

\* ...then remove its place and wake the parser.
FrameTaken ==
  /\ main \in Media
  /\ queue' = [queue EXCEPT ![main] = Tail(@)]
  /\ taken' = taken \cup {Head(queue[main])}
  /\ parser' = Woken
  /\ main' = "run"
  /\ UNCHANGED <<index, parsed, indexOnly, inflight, since,
                 seekRequest, bufferTime, kill, seeks>>

\* seek fails without a cue point at or behind the time, but has left its
\* request by then.
SeekRefused(t) ==
  /\ main = "run" /\ seeks < MaxSeeks
  /\ \A c \in DOMAIN cuePoints : c < t
  /\ seekRequest' = TRUE
  /\ seeks' = seeks + 1
  /\ UNCHANGED <<index, parsed, thread, history, queue, bufferTime, kill, main>>

\* Otherwise parsing goes on from the first one; with the stream mutex held...
SeekAccepted(t) ==
  /\ main = "run" /\ seeks < MaxSeeks
  /\ LET cues == {c \in DOMAIN cuePoints : c >= t}
     IN  cues # {} /\ position' = cuePoints[Min(cues)]
  /\ seekRequest' = TRUE
  /\ parsingComplete' = FALSE
  /\ since' = 0
  /\ seeks' = seeks + 1
  /\ main' = "seek"
  /\ UNCHANGED <<index, stream, infos, thread, taken, queue, bufferTime, kill>>

\* Mutant: the parser sleeps on.
ClearBuffersSilently ==
  /\ main = "seek" /\ QMutexFree
  /\ queue' = [m \in Media |-> << >>]
  /\ main' = "run"
  /\ UNCHANGED <<index, parsed, thread, history,
                 seekRequest, bufferTime, kill, seeks>>

\* ...the buffers are cleared and the parser is woken.
ClearBuffers ==
  /\ main = "seek" /\ QMutexFree
  /\ queue' = [m \in Media |-> << >>]
  /\ parser' = Woken
  /\ main' = "run"
  /\ UNCHANGED <<index, parsed, indexOnly, inflight, history,
                 seekRequest, bufferTime, kill, seeks>>

\* setBufferTime wakes nobody.
SetBufferTime(t) ==
  /\ main = "run" /\ bufferTime # t
  /\ bufferTime' = t
  /\ UNCHANGED <<index, parsed, thread, history,
                 seekRequest, queue, kill, main, seeks>>

\* stopParserThread sets the flag and wakes the parser, without _qMutex...
StopParser ==
  /\ main = "run"
  /\ kill' = TRUE
  /\ parser' = Woken
  /\ main' = "join"
  /\ UNCHANGED <<index, parsed, indexOnly, inflight, history,
                 seekRequest, queue, bufferTime, seeks>>

\* ...and joins it.
Join ==
  /\ main = "join" /\ parser = "exited"
  /\ main' = "stopped"
  /\ UNCHANGED <<index, parsed, thread, history,
                 seekRequest, queue, bufferTime, kill, seeks>>

MainNext ==
  \/ \E m \in Media : NextFrame(m)
  \/ \E t \in SeekTimes : SeekRefused(t) \/ SeekAccepted(t)
  \/ FrameTaken \/ ClearBuffers
  \/ \E t \in BufferTimes : SetBufferTime(t)
  \/ StopParser \/ Join

Next == ParserNext \/ SpuriousWakeup \/ MainNext

Spec == Init /\ [][Next]_vars

\* Both threads run, and the main thread finishes what it has begun; that it
\* takes frames, seeks or stops is up to the movie.
Fairness ==
  /\ WF_vars(ParserNext)
  /\ WF_vars(FrameTaken) /\ WF_vars(ClearBuffers) /\ WF_vars(Join)

FairSpec == Spec /\ Fairness

-----------------------------------------------------------------------------
(* Properties. *)

\* Every variable keeps its type.
TypeOK ==
  /\ stream \in Streams
  /\ position \in 1..(Len(stream) + 1) /\ nextIndex \in 1..(Len(stream) + 1)
  /\ DOMAIN cuePoints \subseteq Nat
  /\ \A t \in DOMAIN cuePoints : cuePoints[t] \in 1..Len(stream)
  /\ infos \subseteq Media
  /\ parsingComplete \in BOOLEAN /\ indexingCompleted \in BOOLEAN
  /\ seekRequest \in BOOLEAN /\ kill \in BOOLEAN /\ indexOnly \in BOOLEAN
  /\ queue \in [Media -> Seq(1..Len(stream))]
  /\ bufferTime \in BufferTimes
  /\ parser \in {"loop", "chunk", "tag", "push", "push block", "push wait",
                 "again", "loop block", "loop wait", "exited"}
  /\ inflight \in 0..Len(stream) /\ (inflight # 0 <=> parser = "push")
  /\ main \in Media \cup {"run", "seek", "join", "stopped"}
  /\ seeks \in 0..MaxSeeks
  /\ since \in 0..(Len(stream) + 1)
  /\ taken \subseteq 1..Len(stream)

Queued(m) == ToSet(queue[m])
InFlight == {inflight} \ {0}

\* From a seek that was heeded to the next one accepted each frame that was
\* parsed is taken, buffered or on its way, and in one of these places only;
\* one from before never comes back.
EachFrameOnce ==
  since # 0 =>
    /\ taken \cup Queued("audio") \cup Queued("video") \cup InFlight
         = {i \in since..(position - 1) : stream[i].kind \in Media}
    /\ \A m \in Media : /\ Len(queue[m]) = Cardinality(Queued(m))
                        /\ Queued(m) \cap taken = {}
                        /\ inflight \notin Queued(m) \cup taken

\* Indexing, ahead or along, leaves out no key frame, and a cue point leads to
\* a tag of its time; what is parsed is indexed.
IndexSound ==
  /\ \A i \in 1..(nextIndex - 1) :
       stream[i].kind = "video" /\ stream[i].key => Time(i) \in DOMAIN cuePoints
  /\ \A t \in DOMAIN cuePoints : cuePoints[t] < nextIndex /\ Time(cuePoints[t]) = t
  /\ position <= nextIndex

\* An accepted seek is heeded, even if the parser had slept at the end of the
\* stream or over full buffers.
SeekHeeded == (main = "seek") ~> (since # 0 \/ kill)

\* "to ensure the parser thread won't attempt to access destroyed structures"
\* (MediaParser.h:674): the destructor stops the thread and returns.
StopReturns == (main = "join") ~> (main = "stopped")
================================================================================
