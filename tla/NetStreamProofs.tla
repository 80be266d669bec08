---------------------------- MODULE NetStreamProofs ----------------------------
(***************************************************************************)
(* Proofs about NetStream, for any streams and any limits.                 *)
(*                                                                         *)
(* update() looks at the parser several times, with the parser running     *)
(* between the looks.  What it saw still holds when it acts upon it        *)
(* because, once parsing is complete, only a seek moves the position and   *)
(* only update() takes frames, and the script cannot seek within an        *)
(* update: this is what the invariant says, step by step.                  *)
(***************************************************************************)
EXTENDS NetStream, MediaParserProofs

\* Within an update the stream has a parser, and nobody seeks or closes it.
Updating == ~ScriptRuns => main \in Media \cup {"run"}

\* A frame is taken by the refresh that decodes it.
Taking ==
  /\ main = "audio" => step = "take audio"
  /\ main = "video" => step = "take video"

\* Audio is looked for only if the queue is not over its limit.
QueueLimited == step \in {"peek audio", "take audio"} => audioQueue <= AudioLimit

\* Parsing that was found complete still is when it matters.
StillComplete ==
  complete => parsingComplete /\ step \in {"buffer", "peek video", "peek audio"}

\* A stream that has stopped has nothing left, until the script seeks.
Over ==
  decoding = "stopped" /\ main \in Media \cup {"run"} =>
    parsingComplete /\ \A m \in Media : queue[m] = << >>

\* The rest of the update that stopped the stream leaves the status alone.
StopTold == ~ScriptRuns /\ decoding = "stopped" => status = "playStop"

Refreshing == {"video", "peek video", "take video", "more video"}

\* The refresh returns where it was called from.
Returns == after # "audio" => step \in Refreshing

\* No update begins with a stop that was not told, nor is the slot used twice
\* while the script hears of the last status.
SlotFree ==
  step \in {"test", "buffer"} \/ (step \in Refreshing /\ after = "test")
    => status # "playStop"

\* A script that seeks while it hears of a status lands on a frame, which is
\* there, or to come, until it is taken: that refresh does not find the end.
FrameSought ==
  after = "test" /\ step \in {"video", "peek video"} =>
    \/ since = 0 /\ FrameAt(stream, position)
    \/ since # 0 /\ ~seekRequest /\ taken = {} /\ FrameAt(stream, since)

Playing ==
  /\ Updating /\ Taking /\ QueueLimited /\ StillComplete /\ Over
  /\ StopTold /\ Returns /\ SlotFree /\ FrameSought

NetIInv == ParserIInv /\ NetTypeOK /\ Playing

-----------------------------------------------------------------------------
(* The parser beneath. *)

\* A parser that has just been made.
LEMMA NewParserStep ==
  ASSUME ParserIInv, NewParser, stream' \in Streams, bufferTime' = bufferTime,
         kill' \in BOOLEAN, seeks' = seeks,
         parser' \in ParserStates \ {"push"}, main' \in {"run", "stopped"}
  PROVE  ParserIInv'
<1>1. /\ position' = 1 /\ nextIndex' = 1 /\ cuePoints' = << >> /\ infos' = {}
      /\ parsingComplete' = FALSE /\ indexingCompleted' = FALSE /\ seekRequest' = FALSE
      /\ queue' = [m \in Media |-> << >>] /\ indexOnly' = FALSE /\ inflight' = 0
      /\ since' = 1 /\ taken' = {}
  BY DEF NewParser
<1>2. stream' \in Streams /\ Len(stream') \in Nat
  BY ParserAssumption
<1>3. /\ queue' \in [Media -> Seq(1..Len(stream'))]
      /\ \A m \in Media : ToSet(queue'[m]) = {} /\ IsInjective(queue'[m])
  BY <1>1, EmptyBuffers
<1>4. TypeOK'
  <2>1. 1 \in 1..(Len(stream') + 1) /\ 1 \in 0..(Len(stream') + 1) /\ 0 \in 0..Len(stream')
    BY <1>2
  <2>2. bufferTime' \in BufferTimes /\ seeks' \in 0..MaxSeeks
    BY DEF ParserIInv, TypeOK
  <2>3. DOMAIN << >> = {}
    OBVIOUS
  <2>4. QED
    BY <1>1, <1>2, <1>3, <2>1, <2>2, <2>3 DEF TypeOK, ParserStates
<1>5. SeekPending' /\ TakenStays'
  BY <1>1 DEF SeekPending, TakenStays, Media
<1>6. FramesSorted'
  BY <1>1, <1>3 DEF FramesSorted, Sorted
<1>7. FramesAccounted'
  <2>1. {i \in 1..(1 - 1) : (stream')[i].kind \in Media} = {}
    OBVIOUS
  <2>2. QED
    BY <1>1, <1>3, <2>1 DEF FramesAccounted, Accounted, Media
<1>8. IndexSound' /\ CuesAreFrames' /\ Finished'
  BY <1>1 DEF IndexSound, CuesAreFrames, Finished
<1>9. QED
  BY <1>4, <1>5, <1>6, <1>7, <1>8 DEF ParserIInv

\* Every step of playback is one of the parser's module, leaves it alone, or
\* makes a new parser.
LEMMA NetParserStep == ASSUME ParserIInv, [NetNext]_allVars PROVE ParserIInv'
<1>1. CASE [Next]_vars
  BY <1>1, ParserNextIInv
<1>2. CASE Parsing
  BY <1>1, <1>2 DEF Parsing, Next
<1>3. CASE UpdateStep
  <2>1. [Next]_vars
    BY <1>3 DEF UpdateStep, Notify, Test, WaitForBuffer, BufferReady, FirstPosition,
         RefreshVideo, PeekVideo, TakeVideo, VideoTaken, MoreVideo, RefreshAudio, Fill,
         NoMoreAudio, NextAudio, TakeAudio, AudioTaken, Advance, NoJump, MayJump, Jump,
         Next, MainNext, Media
  <2>2. QED
    BY <1>1, <2>1
<1>4. CASE Closed
  <2>1. parser' \in ParserStates \ {"push"} /\ main' = "stopped"
    BY <1>4 DEF Closed, ParserStates
  <2>2. stream' \in Streams /\ kill' \in BOOLEAN
    BY <1>4 DEF Closed, ParserIInv, TypeOK
  <2>3. QED
    BY <1>4, <2>1, <2>2, NewParserStep DEF Closed
<1>5. CASE Play
  <2>1. parser' \in ParserStates \ {"push"} /\ main' = "run" /\ kill' \in BOOLEAN
    BY <1>5 DEF Play, ParserStates
  <2>2. QED
    BY <1>5, <2>1, NewParserStep DEF Play
<1>6. CASE Script /\ ~Closed /\ ~Play
  <2>1. [Next]_vars
    BY <1>6 DEF Script, Pause, Unpause, SeekInvalid, Seek, SeekDone, BufferTimeSet, Close,
         PlayNotFound, Next, MainNext
  <2>2. QED
    BY <1>1, <2>1
<1>7. CASE Display \/ Fetch \/ UNCHANGED allVars
  <2>1. UNCHANGED vars
    BY <1>7 DEF Display, Fetch, allVars
  <2>2. QED
    BY <1>1, <2>1
<1>8. QED
  BY <1>2, <1>3, <1>4, <1>5, <1>6, <1>7 DEF NetNext

\* Beside update() the parser may finish and heed a seek, but what was found
\* complete stays so, and nobody takes a frame.
LEMMA ParserKeeps ==
  ASSUME ParserIInv, ParserNext
  PROVE  /\ UNCHANGED <<stream, main>>
         /\ parsingComplete => parsingComplete' /\ queue' = queue
         /\ since = 0 => \/ since' = 0 /\ position' = position
                         \/ since' = position /\ ~seekRequest' /\ taken' = {}
         /\ since # 0 /\ ~seekRequest => since' = since /\ taken' = taken /\ ~seekRequest'
<1>1. CASE Loop \/ ChooseMode \/ NothingToDo \/ Again \/ Sleep
  <2>1. UNCHANGED <<stream, main, parsingComplete, queue, since, position, taken,
                    seekRequest>>
    BY <1>1 DEF Loop, ChooseMode, NothingToDo, Again, Sleep, parsed, history
  <2>2. QED
    BY <2>1
<1>2. CASE EndOfStream \/ IndexTag \/ ParseTag
  <2>1. HeedSeek /\ UNCHANGED <<stream, main>>
    BY <1>2 DEF EndOfStream, IndexTag, ParseTag, parsed
  <2>2. since = 0 => seekRequest
    BY DEF ParserIInv, SeekPending
  <2>3. QED
    BY <2>1, <2>2 DEF HeedSeek
<1>3. CASE Push
  <2>1. ~parsingComplete
    BY <1>3 DEF Push, ParserIInv, TypeOK, Finished
  <2>2. QED
    BY <1>3, <2>1 DEF Push, index, parsed, history
<1>4. QED
  BY <1>1, <1>2, <1>3 DEF ParserNext

\* A frame at the front of a queue has a time the head may take.
LEMMA FrontTime ==
  ASSUME TypeOK
  PROVE  /\ \A i \in 1..Len(stream) : Time(i) \in 0..End
         /\ \A m \in Media : queue[m] # << >> => Time(queue[m][1]) \in 0..End
         /\ Frontmost \subseteq 0..End
<1>1. \A i \in 1..Len(stream) : Time(i) \in 0..End
  <2>1. \A i \in 1..Len(stream) : Time(i) \in Nat
    BY StreamType
  <2>2. \A i \in DOMAIN stream : stream[i].time < End
    BY NetStreamAssumption DEF TypeOK
  <2>3. \A i \in 1..Len(stream) : Time(i) < End
    BY <2>2, StreamType DEF Time
  <2>4. QED
    BY <2>1, <2>3, NetStreamAssumption
<1>2. ASSUME NEW m \in Media, queue[m] # << >>
      PROVE  Time(queue[m][1]) \in 0..End
  <2>1. queue[m] \in Seq(1..Len(stream))
    BY DEF TypeOK
  <2>2. queue[m][1] \in 1..Len(stream)
    BY <2>1, <1>2
  <2>3. QED
    BY <2>2, <1>1
<1>3. QED
  BY <1>1, <1>2 DEF Frontmost

\* The head that moves stays within its bound.
LEMMA HeadMoves ==
  ASSUME NetTypeOK, NEW k \in 0..MaxAdvance
  PROVE  Min({head + k, End}) \in 0..End
<1>1. {head + k, End} \in SUBSET Nat /\ {head + k, End} # {}
  <2>1. MaxAdvance \in Nat /\ End \in Nat
    BY NetStreamAssumption
  <2>2. head \in 0..End
    BY DEF NetTypeOK
  <2>3. head + k \in Nat
    BY <2>1, <2>2
  <2>4. QED
    BY <2>1, <2>3
<1>2. Min({head + k, End}) \in {head + k, End} /\ Min({head + k, End}) <= End
  BY <1>1, Smallest
<1>3. QED
  BY <1>1, <1>2, NetStreamAssumption

-----------------------------------------------------------------------------
(* Types. *)

\* The parts of the type invariant.
Modes ==
  /\ decoding \in {"buffering", "decoding", "stopped"}
  /\ status \in {"none", "playStop", "other"}
MediaSets == consumers \subseteq Media /\ consumed \subseteq Media /\ decoders \subseteq Media
Flags ==
  /\ playing \in BOOLEAN /\ clock \in BOOLEAN /\ image \in BOOLEAN
  /\ attached \in BOOLEAN /\ ticking \in BOOLEAN
  /\ complete \in BOOLEAN /\ got \in BOOLEAN
Places ==
  /\ step \in {"idle", "test", "buffer", "head", "video", "peek video", "take video",
               "more video", "audio", "fill", "peek audio", "take audio",
               "advance", "jump", "jumping"}
  /\ after \in {"audio", "idle", "test"}
Bounds ==
  /\ head \in 0..End /\ audioQueue \in 0..(AudioLimit + 1) /\ calls \in 0..MaxCalls

\* They make it up.
LEMMA TypeParts ==
  NetTypeOK <=> TypeOK /\ Modes /\ MediaSets /\ Flags /\ Places /\ Bounds
BY DEF NetTypeOK, Modes, MediaSets, Flags, Places, Bounds

LEMMA ModesStep == ASSUME Modes, [NetNext]_allVars PROVE Modes'
<1> USE DEF Modes
<1>1. CASE Parsing \/ UNCHANGED allVars
  BY <1>1 DEF Parsing, allVars, netVars
<1>2. CASE UpdateStep
  BY <1>2 DEF UpdateStep, Notify, Test, WaitForBuffer, BufferReady, FirstPosition,
       RefreshVideo, PeekVideo, TakeVideo, VideoTaken, MoreVideo, RefreshAudio, Fill,
       NoMoreAudio, NextAudio, TakeAudio, AudioTaken, Advance, NoJump, MayJump, Jump, Stops
<1>3. CASE Script \/ Display \/ Fetch
  BY <1>3 DEF Script, Pause, Unpause, SeekInvalid, Seek, SeekDone, BufferTimeSet, Close,
       Closed, Play, PlayNotFound, netVars, Display, Fetch
<1>4. QED
  BY <1>1, <1>2, <1>3 DEF NetNext

LEMMA MediaSetsStep == ASSUME MediaSets, [NetNext]_allVars PROVE MediaSets'
<1> USE DEF MediaSets
<1>1. CASE Parsing \/ UNCHANGED allVars
  BY <1>1 DEF Parsing, allVars, netVars, playhead
<1>2. CASE UpdateStep
  BY <1>2 DEF UpdateStep, Notify, Test, WaitForBuffer, BufferReady, FirstPosition,
       RefreshVideo, PeekVideo, TakeVideo, VideoTaken, MoreVideo, RefreshAudio, Fill,
       NoMoreAudio, NextAudio, TakeAudio, AudioTaken, Advance, NoJump, MayJump, Jump,
       playhead, SeekTo, Decodes, VideoDone, AudioDone, Media
<1>3. CASE Script \/ Display \/ Fetch
  BY <1>3 DEF Script, Pause, Unpause, SeekInvalid, Seek, SeekDone, BufferTimeSet, Close,
       Closed, Play, PlayNotFound, netVars, Display, Fetch, playhead, SeekTo
<1>4. QED
  BY <1>1, <1>2, <1>3 DEF NetNext

LEMMA FlagsStep == ASSUME Flags, TypeOK, [NetNext]_allVars PROVE Flags'
<1> USE DEF Flags
<1>1. parsingComplete \in BOOLEAN
  BY DEF TypeOK
<1>2. CASE Parsing \/ UNCHANGED allVars
  BY <1>2, Zenon DEF Parsing, allVars, netVars, playhead, audio, control
<1>3. CASE UpdateStep
  BY <1>1, <1>3, Zenon DEF UpdateStep, Notify, Test, WaitForBuffer, BufferReady,
       FirstPosition, RefreshVideo, PeekVideo, TakeVideo, VideoTaken, MoreVideo,
       RefreshAudio, Fill, NoMoreAudio, NextAudio, TakeAudio, AudioTaken, Advance,
       NoJump, MayJump, Jump, playhead, SeekTo, VideoDone, AudioDone, audio
<1>4. CASE Script \/ Display \/ Fetch
  BY <1>4, Zenon DEF Script, Pause, Unpause, SeekInvalid, Seek, SeekDone, BufferTimeSet,
       Close, Closed, Play, PlayNotFound, netVars, Display, Fetch, playhead, SeekTo,
       audio, control
<1>5. QED
  BY <1>2, <1>3, <1>4 DEF NetNext

LEMMA PlacesStep == ASSUME Places, Updating, [NetNext]_allVars PROVE Places'
<1> USE DEF Places
<1>1. CASE Parsing \/ UNCHANGED allVars
  BY <1>1 DEF Parsing, allVars, netVars, control
<1>2. CASE UpdateStep
  BY <1>2 DEF UpdateStep, Notify, Test, WaitForBuffer, BufferReady, FirstPosition,
       RefreshVideo, PeekVideo, TakeVideo, VideoTaken, MoreVideo, RefreshAudio, Fill,
       NoMoreAudio, NextAudio, TakeAudio, AudioTaken, Advance, NoJump, MayJump, Jump,
       VideoDone, AudioDone
<1>3. CASE SeekDone
  BY <1>3 DEF SeekDone, ClearBuffers, Updating, ScriptRuns, Media
<1>4. CASE (Script /\ ~SeekDone) \/ Display \/ Fetch
  BY <1>4 DEF Script, Pause, Unpause, SeekInvalid, Seek, BufferTimeSet, Close,
       Closed, Play, PlayNotFound, netVars, Display, Fetch, control
<1>5. QED
  BY <1>1, <1>2, <1>3, <1>4 DEF NetNext

\* The head moves to a frame or by the clock; audio is queued below the limit.
LEMMA BoundsStep ==
  ASSUME ParserIInv, NetTypeOK, Taking, QueueLimited, [NetNext]_allVars
  PROVE  Bounds'
<1>1. AudioLimit \in Nat /\ MaxCalls \in Nat /\ End \in Nat
  BY NetStreamAssumption
<1>2. head \in 0..End /\ audioQueue \in 0..(AudioLimit + 1) /\ calls \in 0..MaxCalls
  BY DEF NetTypeOK
<1>3. head' \in 0..End
  <2>1. /\ \A k \in 0..MaxAdvance : Min({head + k, End}) \in 0..End
        /\ 0 \in 0..End
    BY <1>1, HeadMoves
  <2>2. CASE FirstPosition
    <3>1. Frontmost # {} => Min(Frontmost) \in 0..End
      <4>1. Frontmost \subseteq 0..End
        BY FrontTime DEF ParserIInv
      <4>2. Frontmost \in SUBSET Nat
        BY <4>1
      <4>3. QED
        BY <4>1, <4>2, Smallest
    <3>2. QED
      BY <1>2, <2>2, <3>1 DEF FirstPosition, SeekTo, playhead
  <2>3. CASE Jump
    <3>1. queue["audio"] # << >> => Time(queue["audio"][1]) \in 0..End
      BY FrontTime DEF Media, ParserIInv
    <3>2. QED
      BY <1>2, <2>3, <3>1 DEF Jump, SeekTo, playhead
  <2>4. CASE SeekDone
    <3>1. Time(position) \in 0..End
      BY <2>4, FrontTime DEF SeekDone, ClearBuffers, ParserIInv, SeekPending, FrameAt
    <3>2. QED
      BY <2>4, <3>1 DEF SeekDone, SeekTo
  <2>5. CASE Parsing \/ UNCHANGED allVars
    BY <1>2, <2>5 DEF Parsing, allVars, netVars, playhead
  <2>6. CASE UpdateStep /\ ~FirstPosition /\ ~Jump
    BY <1>2, <2>1, <2>6 DEF UpdateStep, Notify, Test, WaitForBuffer, BufferReady,
         RefreshVideo, PeekVideo, TakeVideo, VideoTaken, MoreVideo, RefreshAudio, Fill,
         NoMoreAudio, NextAudio, TakeAudio, AudioTaken, Advance, NoJump, MayJump, playhead
  <2>7. CASE (Script /\ ~SeekDone) \/ Display \/ Fetch
    BY <1>2, <2>1, <2>7 DEF Script, Pause, Unpause, SeekInvalid, Seek, BufferTimeSet,
         Close, Closed, Play, PlayNotFound, netVars, Display, Fetch, playhead
  <2>8. QED
    BY <2>2, <2>3, <2>4, <2>5, <2>6, <2>7 DEF NetNext
<1>4. audioQueue' \in 0..(AudioLimit + 1)
  <2>1. CASE AudioTaken
    <3>1. audioQueue <= AudioLimit
      BY <2>1 DEF AudioTaken, Taking, QueueLimited
    <3>2. QED
      BY <1>1, <1>2, <2>1, <3>1 DEF AudioTaken
  <2>2. CASE Fetch
    BY <1>1, <1>2, <2>2 DEF Fetch
  <2>3. CASE SeekDone \/ Close
    BY <1>1, <2>3 DEF SeekDone, Close
  <2>4. CASE Parsing \/ UNCHANGED allVars
    BY <1>2, <2>4 DEF Parsing, allVars, netVars, audio
  <2>5. CASE UpdateStep /\ ~AudioTaken
    BY <1>2, <2>5 DEF UpdateStep, Notify, Test, WaitForBuffer, BufferReady, FirstPosition,
         RefreshVideo, PeekVideo, TakeVideo, VideoTaken, MoreVideo, RefreshAudio, Fill,
         NoMoreAudio, NextAudio, TakeAudio, Advance, NoJump, MayJump, Jump, audio
  <2>6. CASE (Script /\ ~SeekDone /\ ~Close) \/ Display
    BY <1>2, <2>6 DEF Script, Pause, Unpause, SeekInvalid, Seek, BufferTimeSet,
         Closed, Play, PlayNotFound, netVars, Display, audio
  <2>7. QED
    BY <2>1, <2>2, <2>3, <2>4, <2>5, <2>6 DEF NetNext
<1>5. calls' \in 0..MaxCalls
  <2>1. Call => calls' \in 0..MaxCalls
    <3>1. Call => calls < MaxCalls /\ calls' = calls + 1
      BY DEF Call
    <3>2. QED
      BY <1>1, <1>2, <3>1
  <2>2. CASE Parsing \/ UNCHANGED allVars
    BY <1>2, <2>2 DEF Parsing, allVars, netVars
  <2>3. CASE UpdateStep
    BY <1>2, <2>3 DEF UpdateStep, Notify, Test, WaitForBuffer, BufferReady, FirstPosition,
         RefreshVideo, PeekVideo, TakeVideo, VideoTaken, MoreVideo, RefreshAudio, Fill,
         NoMoreAudio, NextAudio, TakeAudio, AudioTaken, Advance, NoJump, MayJump, Jump
  <2>4. CASE Script \/ Display \/ Fetch
    BY <1>2, <2>1, <2>4 DEF Script, Pause, Unpause, SeekInvalid, Seek, SeekDone,
         BufferTimeSet, Close, Closed, Play, PlayNotFound, netVars, Display, Fetch
  <2>5. QED
    BY <2>2, <2>3, <2>4 DEF NetNext
<1>6. QED
  BY <1>3, <1>4, <1>5 DEF Bounds

\* Every variable of playback keeps its type.
LEMMA NetTypeStep == ASSUME NetIInv, [NetNext]_allVars PROVE NetTypeOK'
<1>1. ParserIInv' /\ TypeOK'
  BY NetParserStep DEF NetIInv, ParserIInv
<1>2. Modes /\ MediaSets /\ Flags /\ Places /\ TypeOK
  BY TypeParts DEF NetIInv
<1>3. Modes' /\ MediaSets' /\ Flags' /\ Places'
  BY <1>2, ModesStep, MediaSetsStep, FlagsStep, PlacesStep DEF NetIInv, Playing
<1>4. Bounds'
  BY BoundsStep DEF NetIInv, Playing
<1>5. TypeOK' /\ Modes' /\ MediaSets' /\ Flags' /\ Places' /\ Bounds'
  BY <1>1, <1>3, <1>4
<1>6. QED
  BY <1>5 DEF NetTypeOK, Modes, MediaSets, Flags, Places, Bounds

-----------------------------------------------------------------------------
(* What update() saw still holds. *)

\* update() goes on only with a parser, and the script waits for it.
LEMMA UpdatingStep == ASSUME ParserIInv, Updating, [NetNext]_allVars PROVE Updating'
<1> USE DEF Updating, ScriptRuns, Media
<1>1. CASE Parsing
  BY <1>1, ParserKeeps DEF Parsing, netVars, control
<1>2. CASE UpdateStep
  BY <1>2 DEF UpdateStep, Notify, Test, WaitForBuffer, BufferReady, FirstPosition,
       RefreshVideo, PeekVideo, TakeVideo, VideoTaken, MoreVideo, RefreshAudio, Fill,
       NoMoreAudio, NextAudio, TakeAudio, AudioTaken, Advance, NoJump, MayJump, Jump,
       HasParser, VideoDone, AudioDone, NextFrame, FrameTaken, vars
<1>3. CASE Script
  BY <1>3 DEF Script, Pause, Unpause, SeekInvalid, Seek, SeekDone, BufferTimeSet, Close,
       Closed, Play, PlayNotFound, Call, SetBufferTime, SeekRefused, ClearBuffers,
       netVars, control, vars
<1>4. CASE Display \/ Fetch \/ UNCHANGED allVars
  BY <1>4 DEF Display, Fetch, allVars, netVars, control, vars
<1>5. QED
  BY <1>1, <1>2, <1>3, <1>4 DEF NetNext

\* Only the two refreshes take frames.
LEMMA TakingStep == ASSUME ParserIInv, Taking, [NetNext]_allVars PROVE Taking'
<1> USE DEF Taking, Media
<1>1. CASE Parsing
  BY <1>1, ParserKeeps DEF Parsing, netVars, control
<1>2. CASE UpdateStep
  BY <1>2 DEF UpdateStep, Notify, Test, WaitForBuffer, BufferReady, FirstPosition,
       RefreshVideo, PeekVideo, TakeVideo, VideoTaken, MoreVideo, RefreshAudio, Fill,
       NoMoreAudio, NextAudio, TakeAudio, AudioTaken, Advance, NoJump, MayJump, Jump,
       HasParser, VideoDone, AudioDone, NextFrame, FrameTaken, vars
<1>3. CASE Script
  BY <1>3 DEF Script, Pause, Unpause, SeekInvalid, Seek, SeekDone, BufferTimeSet, Close,
       StopParser, SeekAccepted, Closed, Play, PlayNotFound, Call, SetBufferTime,
       SeekRefused, ClearBuffers, netVars, control, vars
<1>4. CASE Display \/ Fetch \/ UNCHANGED allVars
  BY <1>4 DEF Display, Fetch, allVars, netVars, control, vars
<1>5. QED
  BY <1>1, <1>2, <1>3, <1>4 DEF NetNext

\* The mixer only shortens the queue that fill found short enough.
LEMMA QueueLimitedStep ==
  ASSUME NetTypeOK, QueueLimited, [NetNext]_allVars PROVE QueueLimited'
<1>1. AudioLimit \in Nat /\ audioQueue \in 0..(AudioLimit + 1)
  BY NetStreamAssumption DEF NetTypeOK
<1>2. audioQueue > AudioLimit \/ audioQueue <= AudioLimit
  BY <1>1
<1>3. CASE Parsing \/ UNCHANGED allVars
  BY <1>3 DEF QueueLimited, Parsing, allVars, netVars, control, audio
<1>4. CASE Fill
  BY <1>2, <1>4 DEF QueueLimited, Fill, audio
<1>5. CASE TakeAudio \/ NextAudio
  BY <1>5 DEF QueueLimited, TakeAudio, NextAudio, AudioDone, audio
<1>6. CASE UpdateStep /\ ~Fill /\ ~TakeAudio /\ ~NextAudio
  <2>1. after \in {"audio", "idle", "test"}
    BY DEF NetTypeOK
  <2>2. step' \notin {"peek audio", "take audio"}
    BY <1>6, <2>1 DEF UpdateStep, Notify, Test, WaitForBuffer, BufferReady, FirstPosition,
         RefreshVideo, PeekVideo, TakeVideo, VideoTaken, MoreVideo, RefreshAudio,
         NoMoreAudio, AudioTaken, Advance, NoJump, MayJump, Jump, VideoDone, AudioDone
  <2>3. QED
    BY <2>2 DEF QueueLimited
<1>7. CASE Fetch
  <2>1. audioQueue <= AudioLimit => audioQueue' <= AudioLimit
    BY <1>1, <1>7 DEF Fetch
  <2>2. QED
    BY <1>7, <2>1 DEF QueueLimited, Fetch, control
<1>8. CASE Script \/ Display
  <2>1. audioQueue' = audioQueue \/ audioQueue' = 0
    BY <1>8 DEF Script, Pause, Unpause, SeekInvalid, Seek, SeekDone, BufferTimeSet,
         Close, Closed, Play, PlayNotFound, Display, netVars, audio
  <2>2. 0 <= AudioLimit
    BY <1>1
  <2>3. step' \in {"peek audio", "take audio"} => step' = step
    BY <1>8 DEF Script, Pause, Unpause, SeekInvalid, Seek, SeekDone, BufferTimeSet,
         Close, Closed, Play, PlayNotFound, Display, netVars, control
  <2>4. QED
    BY <2>1, <2>2, <2>3 DEF QueueLimited
<1>9. QED
  BY <1>3, <1>4, <1>5, <1>6, <1>7, <1>8 DEF NetNext

\* Only a seek, between updates, makes the parser go on.
LEMMA StillCompleteStep ==
  ASSUME ParserIInv, Updating, Taking, StillComplete, [NetNext]_allVars PROVE StillComplete'
<1> USE DEF StillComplete
<1>1. CASE Parsing
  BY <1>1, ParserKeeps DEF Parsing, netVars, control
<1>2. CASE UpdateStep
  <2>1. CASE WaitForBuffer \/ BufferReady \/ PeekVideo \/ NoMoreAudio \/ NextAudio
    <3>1. ~complete'
      BY <2>1 DEF WaitForBuffer, BufferReady, PeekVideo, NoMoreAudio, NextAudio
    <3>2. QED
      BY <3>1
  <2>2. CASE Test \/ RefreshVideo \/ Fill
    <3>1. UNCHANGED parsingComplete
      BY <2>2 DEF Test, RefreshVideo, Fill, vars, parsed
    <3>2. step \notin {"buffer", "peek video", "peek audio"}
      BY <2>2 DEF Test, RefreshVideo, Fill
    <3>3. complete' => complete' = parsingComplete
      BY <2>2, <3>2 DEF Test, RefreshVideo, Fill
    <3>4. complete' => step' \in {"buffer", "peek video", "peek audio"}
      BY <2>2, <3>2 DEF Test, RefreshVideo, Fill
    <3>5. QED
      BY <3>1, <3>3, <3>4
  <2>3. CASE Notify \/ FirstPosition \/ TakeVideo \/ VideoTaken \/ MoreVideo \/ RefreshAudio
             \/ TakeAudio \/ AudioTaken \/ (\E k \in 0..MaxAdvance : Advance(k))
             \/ NoJump \/ MayJump \/ Jump
    <3>1. UNCHANGED complete
      BY <2>3 DEF Notify, FirstPosition, TakeVideo, VideoTaken, MoreVideo, RefreshAudio,
           TakeAudio, AudioTaken, Advance, NoJump, MayJump, Jump
    <3>2. step \notin {"buffer", "peek video", "peek audio"}
      BY <2>3 DEF Notify, FirstPosition, TakeVideo, VideoTaken, MoreVideo, RefreshAudio,
           TakeAudio, AudioTaken, Advance, NoJump, MayJump, Jump, FrameTaken, Taking, Media
    <3>3. QED
      BY <3>1, <3>2
  <2>4. QED
    BY <1>2, <2>1, <2>2, <2>3 DEF UpdateStep
<1>3. CASE Script
  BY <1>3 DEF Script, Pause, Unpause, SeekInvalid, Seek, SeekDone, BufferTimeSet, Close,
       Closed, Play, PlayNotFound, Call, ClearBuffers, Updating, ScriptRuns, Media,
       SetBufferTime, SeekRefused, netVars, control, vars, parsed
<1>4. CASE Display \/ Fetch \/ UNCHANGED allVars
  BY <1>4 DEF Display, Fetch, allVars, netVars, control, vars, parsed
<1>5. QED
  BY <1>1, <1>2, <1>3, <1>4 DEF NetNext

\* Of completion and the two queues, looked at one by one, none changes again.
LEMMA OverStep ==
  ASSUME ParserIInv, StillComplete, Over, [NetNext]_allVars PROVE Over'
<1> USE DEF Over, Media
<1>1. CASE Parsing
  BY <1>1, ParserKeeps DEF Parsing, netVars
<1>2. CASE PeekVideo \/ NoMoreAudio
  BY <1>2 DEF PeekVideo, NoMoreAudio, Stops, Exhausted, StillComplete, vars, parsed
<1>3. CASE VideoTaken \/ AudioTaken
  BY <1>3 DEF VideoTaken, AudioTaken, FrameTaken, ParserIInv, TakenStays
<1>4. CASE UpdateStep /\ ~PeekVideo /\ ~NoMoreAudio /\ ~VideoTaken /\ ~AudioTaken
  <2>1. UNCHANGED <<parsingComplete, queue>>
    BY <1>4 DEF UpdateStep, Notify, Test, WaitForBuffer, BufferReady, FirstPosition,
         RefreshVideo, TakeVideo, MoreVideo, RefreshAudio, Fill, NextAudio, TakeAudio,
         Advance, NoJump, MayJump, Jump, NextFrame, vars, parsed
  <2>2. UNCHANGED main \/ main = "run"
    BY <1>4 DEF UpdateStep, Notify, Test, WaitForBuffer, BufferReady, FirstPosition,
         RefreshVideo, TakeVideo, MoreVideo, RefreshAudio, Fill, NextAudio, TakeAudio,
         Advance, NoJump, MayJump, Jump, NextFrame, vars
  <2>3. decoding' = "stopped" => decoding = "stopped"
    BY <1>4 DEF UpdateStep, Notify, Test, WaitForBuffer, BufferReady, FirstPosition,
         RefreshVideo, TakeVideo, MoreVideo, RefreshAudio, Fill, NextAudio, TakeAudio,
         Advance, NoJump, MayJump, Jump
  <2>4. QED
    BY <2>1, <2>2, <2>3
<1>5. CASE Script
  BY <1>5 DEF Script, Pause, Unpause, SeekInvalid, Seek, SeekDone, BufferTimeSet, Close,
       Closed, Play, PlayNotFound, Call, SetBufferTime, SeekRefused, SeekAccepted,
       StopParser, netVars, vars, parsed
<1>6. CASE Display \/ Fetch \/ UNCHANGED allVars
  BY <1>6 DEF Display, Fetch, allVars, netVars, vars, parsed
<1>7. QED
  BY <1>1, <1>2, <1>3, <1>4, <1>5, <1>6 DEF NetNext

\* Whoever stops says so, and an update begins only if not stopped.
LEMMA StopToldStep ==
  ASSUME Updating, Taking, StopTold, [NetNext]_allVars PROVE StopTold'
<1> USE DEF StopTold, ScriptRuns
<1>1. CASE Parsing \/ UNCHANGED allVars
  BY <1>1 DEF Parsing, allVars, netVars, control
<1>2. CASE UpdateStep
  <2>1. CASE Notify \/ Test \/ WaitForBuffer \/ BufferReady
    BY <2>1 DEF Notify, Test, WaitForBuffer, BufferReady
  <2>2. CASE PeekVideo \/ NoMoreAudio
    BY <2>2 DEF PeekVideo, NoMoreAudio, Stops
  <2>3. CASE FirstPosition \/ RefreshVideo \/ TakeVideo \/ VideoTaken \/ MoreVideo
             \/ RefreshAudio \/ Fill \/ NextAudio \/ TakeAudio \/ AudioTaken
             \/ (\E k \in 0..MaxAdvance : Advance(k)) \/ NoJump \/ MayJump \/ Jump
    <3>1. UNCHANGED <<decoding, status>>
      BY <2>3 DEF FirstPosition, RefreshVideo, TakeVideo, VideoTaken, MoreVideo,
           RefreshAudio, Fill, NextAudio, TakeAudio, AudioTaken, Advance, NoJump, MayJump,
           Jump
    <3>2. step \notin {"idle", "test"}
      BY <2>3 DEF FirstPosition, RefreshVideo, TakeVideo, VideoTaken, MoreVideo,
           RefreshAudio, Fill, NextAudio, TakeAudio, AudioTaken, Advance, NoJump, MayJump,
           Jump, FrameTaken, Taking, Media
    <3>3. QED
      BY <3>1, <3>2
  <2>4. QED
    BY <1>2, <2>1, <2>2, <2>3 DEF UpdateStep
<1>3. CASE Script \/ Display \/ Fetch
  BY <1>3 DEF Script, Pause, Unpause, SeekInvalid, Seek, SeekDone, BufferTimeSet, Close,
       Closed, Play, PlayNotFound, Call, Updating, Media, Display, Fetch, netVars, control
<1>4. QED
  BY <1>1, <1>2, <1>3 DEF NetNext

\* The refresh sets its return back.
LEMMA ReturnsStep == ASSUME Taking, Returns, [NetNext]_allVars PROVE Returns'
<1> USE DEF Returns, Refreshing
<1>1. CASE Parsing \/ UNCHANGED allVars
  BY <1>1 DEF Parsing, allVars, netVars, control
<1>2. CASE UpdateStep
  <2>1. CASE WaitForBuffer \/ RefreshVideo \/ PeekVideo \/ TakeVideo \/ VideoTaken \/ MoreVideo
    BY <2>1 DEF WaitForBuffer, RefreshVideo, PeekVideo, TakeVideo, VideoTaken, MoreVideo,
         VideoDone
  <2>2. CASE Notify \/ Test \/ BufferReady \/ FirstPosition \/ RefreshAudio \/ Fill
             \/ NoMoreAudio \/ NextAudio \/ TakeAudio \/ AudioTaken
             \/ (\E k \in 0..MaxAdvance : Advance(k)) \/ NoJump \/ MayJump \/ Jump
    <3>1. UNCHANGED after
      BY <2>2 DEF Notify, Test, BufferReady, FirstPosition, RefreshAudio, Fill,
           NoMoreAudio, NextAudio, TakeAudio, AudioTaken, Advance, NoJump, MayJump, Jump
    <3>2. step \notin Refreshing
      BY <2>2 DEF Notify, Test, BufferReady, FirstPosition, RefreshAudio, Fill,
           NoMoreAudio, NextAudio, TakeAudio, AudioTaken, Advance, NoJump, MayJump, Jump,
           FrameTaken, Taking
    <3>3. QED
      BY <3>1, <3>2
  <2>3. QED
    BY <1>2, <2>1, <2>2 DEF UpdateStep
<1>3. CASE Script \/ Display \/ Fetch
  BY <1>3 DEF Script, Pause, Unpause, SeekInvalid, Seek, SeekDone, BufferTimeSet, Close,
       Closed, Play, PlayNotFound, Display, Fetch, netVars, control
<1>4. QED
  BY <1>1, <1>2, <1>3 DEF NetNext

\* A place is not 0, and not behind the last.
LEMMA PlaceInStream ==
  ASSUME TypeOK, NEW p, FrameAt(stream, p)
  PROVE  p # 0 /\ (position = Len(stream) + 1 => p \in p..(position - 1))
<1>1. PICK l \in Nat : l = Len(stream)
  BY StreamType
<1>2. p \in 1..l
  BY <1>1 DEF FrameAt
<1>3. p # 0 /\ (position = l + 1 => p \in p..(position - 1))
  BY <1>2
<1>4. QED
  BY <1>1, <1>3

\* An empty queue holds no frame.
LEMMA NothingQueued == ToSet(<< >>) = {}
BY DEF ToSet

\* A refresh for a script that sought does not find the end of the stream.
LEMMA NotExhausted ==
  ASSUME ParserIInv, StillComplete, FrameSought, after = "test", step = "peek video"
  PROVE  ~Exhausted
<1> SUFFICES ASSUME Exhausted PROVE FALSE
  OBVIOUS
<1>1. parsingComplete /\ queue["audio"] = << >> /\ queue["video"] = << >>
  BY DEF Exhausted, StillComplete, Media
<1>2. since # 0 /\ position = Len(stream) + 1 /\ inflight = 0
  BY <1>1 DEF ParserIInv, Finished
<1>3. taken = {} /\ FrameAt(stream, since)
  BY <1>2 DEF FrameSought
<1>4. {i \in since..(position - 1) : stream[i].kind \in Media} = {}
  <2>1. taken \cup ToSet(queue["audio"]) \cup ToSet(queue["video"]) \cup ({inflight} \ {0})
          = {i \in since..(position - 1) : stream[i].kind \in Media}
    BY <1>2 DEF ParserIInv, FramesAccounted, Accounted
  <2>2. ToSet(<< >>) = {}
    BY NothingQueued
  <2>3. QED
    BY <1>1, <1>2, <1>3, <2>1, <2>2
<1>5. since \in since..(position - 1)
  BY <1>2, <1>3, PlaceInStream DEF ParserIInv
<1>6. QED
  BY <1>3, <1>4, <1>5 DEF FrameAt

\* The one slot is used for a stop only after the update has looked at it.
LEMMA SlotFreeStep ==
  ASSUME ParserIInv, Places, Taking, StillComplete, Returns, FrameSought, SlotFree,
         [NetNext]_allVars
  PROVE  SlotFree'
<1> USE DEF SlotFree, Refreshing
<1>1. CASE Parsing \/ UNCHANGED allVars
  BY <1>1 DEF Parsing, allVars, netVars, control
<1>2. CASE PeekVideo
  <2>1. CASE after = "test"
    <3>1. UNCHANGED status
      BY <1>2, <2>1, NotExhausted DEF PeekVideo
    <3>2. QED
      BY <1>2, <2>1, <3>1 DEF PeekVideo
  <2>2. CASE after # "test"
    <3>1. ~(step' \in {"test", "buffer"} \/ (step' \in Refreshing /\ after' = "test"))
      BY <1>2, <2>2 DEF PeekVideo, VideoDone, Places
    <3>2. QED
      BY <3>1
  <2>3. QED
    BY <2>1, <2>2
<1>3. CASE UpdateStep /\ ~PeekVideo
  <2>1. CASE Notify \/ Test
    BY <2>1 DEF Notify, Test, Returns
  <2>2. CASE WaitForBuffer \/ BufferReady \/ FirstPosition
    BY <2>2 DEF WaitForBuffer, BufferReady, FirstPosition, Returns
  <2>3. CASE RefreshVideo \/ TakeVideo \/ VideoTaken \/ MoreVideo
    BY <2>3 DEF RefreshVideo, TakeVideo, VideoTaken, MoreVideo, VideoDone, FrameTaken,
         Taking, Places
  <2>4. CASE RefreshAudio \/ Fill \/ NoMoreAudio \/ NextAudio \/ TakeAudio \/ AudioTaken
             \/ (\E k \in 0..MaxAdvance : Advance(k)) \/ NoJump \/ MayJump \/ Jump
    <3>1. step' \notin {"test", "buffer"} \cup Refreshing
      BY <2>4 DEF RefreshAudio, Fill, NoMoreAudio, NextAudio, TakeAudio, AudioTaken,
           Advance, NoJump, MayJump, Jump, AudioDone
    <3>2. QED
      BY <3>1
  <2>5. QED
    BY <1>3, <2>1, <2>2, <2>3, <2>4 DEF UpdateStep
<1>4. CASE Script \/ Display \/ Fetch
  BY <1>4 DEF Script, Pause, Unpause, SeekInvalid, Seek, SeekDone, BufferTimeSet, Close,
       Closed, Play, PlayNotFound, Display, Fetch, netVars, control
<1>5. QED
  BY <1>1, <1>2, <1>3, <1>4 DEF NetNext

\* What a seek led to is not taken by anyone else.
LEMMA FrameSoughtStep ==
  ASSUME ParserIInv, Updating, Returns, FrameSought, [NetNext]_allVars
  PROVE  FrameSought'
<1> USE DEF FrameSought
<1>1. CASE Parsing
  <2>1. UNCHANGED <<after, step, stream>>
    BY <1>1, ParserKeeps DEF Parsing, netVars, control
  <2>2. FrameAt(stream, position) => position # 0
    BY PlaceInStream DEF ParserIInv
  <2>3. QED
    BY <1>1, <2>1, <2>2, ParserKeeps DEF Parsing
<1>2. CASE UpdateStep
  <2>1. CASE RefreshVideo
    BY <2>1 DEF RefreshVideo, vars, parsed, history
  <2>2. CASE UpdateStep /\ ~RefreshVideo
    <3>1. ~(after' = "test" /\ step' \in {"video", "peek video"})
      BY <2>2 DEF UpdateStep, Notify, Test, WaitForBuffer, BufferReady, FirstPosition,
           PeekVideo, TakeVideo, VideoTaken, MoreVideo, RefreshAudio, Fill, NoMoreAudio,
           NextAudio, TakeAudio, AudioTaken, Advance, NoJump, MayJump, Jump, VideoDone,
           AudioDone, Returns, Refreshing
    <3>2. QED
      BY <3>1
  <2>3. QED
    BY <1>2, <2>1, <2>2
<1>3. CASE SeekDone
  <2>1. since = 0 /\ FrameAt(stream, position)
    BY <1>3 DEF SeekDone, ClearBuffers, ParserIInv, SeekPending
  <2>2. UNCHANGED <<stream, position, since>>
    BY <1>3 DEF SeekDone, ClearBuffers, parsed, history
  <2>3. QED
    BY <2>1, <2>2
<1>4. CASE Script /\ ~SeekDone
  <2>1. ScriptRuns /\ UNCHANGED <<step, after>>
    BY <1>4 DEF Script, Pause, Unpause, SeekInvalid, Seek, BufferTimeSet, Close, Closed,
         Play, PlayNotFound, Call, Updating, Media, netVars, control
  <2>2. QED
    BY <2>1 DEF ScriptRuns
<1>5. CASE Display \/ Fetch \/ UNCHANGED allVars
  BY <1>5 DEF Display, Fetch, allVars, netVars, control, vars, parsed, history
<1>6. QED
  BY <1>1, <1>2, <1>3, <1>4, <1>5 DEF NetNext

-----------------------------------------------------------------------------
(* Theorems. *)

\* The invariant holds at first, ...
LEMMA NetInitIInv == NetInit => NetIInv
<1> SUFFICES ASSUME NetInit PROVE NetIInv
  OBVIOUS
<1> USE DEF NetInit
<1>1. ParserIInv /\ TypeOK /\ main = "run"
  BY ParserInitIInv DEF ParserIInv, Init
<1>2. Modes /\ MediaSets /\ Places
  BY DEF Modes, MediaSets, Places
<1>3. Flags
  BY Zenon DEF Flags
<1>4. Bounds
  BY NetStreamAssumption DEF Bounds
<1>5. Playing
  BY <1>1 DEF Playing, Updating, Taking, QueueLimited, StillComplete, Over, StopTold,
       Returns, SlotFree, FrameSought, ScriptRuns
<1>6. QED
  BY <1>1, <1>2, <1>3, <1>4, <1>5, TypeParts DEF NetIInv

\* ... and every step keeps it.
LEMMA NetNextIInv == NetIInv /\ [NetNext]_allVars => NetIInv'
<1> SUFFICES ASSUME NetIInv, [NetNext]_allVars PROVE NetIInv'
  OBVIOUS
<1>1. ParserIInv' /\ NetTypeOK'
  BY NetParserStep, NetTypeStep DEF NetIInv
<1>2. Playing'
  BY UpdatingStep, TakingStep, QueueLimitedStep, StillCompleteStep, OverStep, StopToldStep,
     ReturnsStep, SlotFreeStep, FrameSoughtStep, TypeParts DEF NetIInv, Playing
<1>3. QED
  BY <1>1, <1>2 DEF NetIInv

\* The parser accounts for its frames, and update() acts on what is still so.
THEOREM NetInvariant == NetSpec => []NetIInv
<1>1. NetInit => NetIInv
  BY NetInitIInv
<1>2. NetIInv /\ [NetNext]_allVars => NetIInv'
  BY NetNextIInv
<1>3. QED
  BY <1>1, <1>2, PTL DEF NetSpec

\* Every variable keeps its type: the head stays within the stream, and the
\* audio queue holds one buffer more than its limit at most.
THEOREM NetTypeCorrect == NetSpec => []NetTypeOK
<1>1. NetIInv => NetTypeOK
  BY DEF NetIInv
<1>2. QED
  BY <1>1, NetInvariant, PTL

\* A stream stops when the parser is at its end and every frame since the last
\* seek was taken to be decoded.
THEOREM StopsOnlyAtEnd == NetSpec => []StopsAtEnd
<1>1. NetIInv => StopsAtEnd
  <2> SUFFICES ASSUME NetIInv, decoding = "stopped", main = "run"
               PROVE  /\ since # 0 /\ position = Len(stream) + 1
                      /\ taken = {i \in since..Len(stream) : stream[i].kind \in Media}
    BY DEF StopsAtEnd
  <2>1. parsingComplete /\ queue["audio"] = << >> /\ queue["video"] = << >>
    BY DEF NetIInv, Playing, Over, Media
  <2>2. since # 0 /\ position = Len(stream) + 1 /\ inflight = 0
    BY <2>1 DEF NetIInv, ParserIInv, Finished
  <2>3. taken \cup ToSet(queue["audio"]) \cup ToSet(queue["video"]) \cup ({inflight} \ {0})
          = {i \in since..(position - 1) : stream[i].kind \in Media}
    BY <2>2 DEF NetIInv, ParserIInv, FramesAccounted, Accounted
  <2>4. ToSet(<< >>) = {} /\ {inflight} \ {0} = {}
    BY <2>2, NothingQueued
  <2>5. position - 1 = Len(stream)
    BY <2>2, StreamType DEF NetIInv, ParserIInv
  <2>6. taken = {i \in since..(position - 1) : stream[i].kind \in Media}
    BY <2>1, <2>3, <2>4
  <2>7. QED
    BY <2>2, <2>5, <2>6
<1>2. QED
  BY <1>1, NetInvariant, PTL

\* NetStream.Play.Stop is said once, and heard unless the script itself asks
\* for something else.
THEOREM StopSaidOnce == NetSpec => StopToldOnce
<1> DEFINE Once == /\ status # "playStop" /\ status' = "playStop" => decoding # "stopped"
                   /\ status = "playStop" /\ status' # "playStop" => ScriptRuns
<1>1. NetIInv /\ [NetNext]_allVars => [Once]_allVars
  <2> SUFFICES ASSUME NetIInv, NetNext PROVE Once
    OBVIOUS
  <2>1. StopTold /\ SlotFree /\ Updating
    BY DEF NetIInv, Playing
  <2>2. CASE UpdateStep
    <3>1. CASE PeekVideo \/ NoMoreAudio
      BY <2>1, <3>1 DEF PeekVideo, NoMoreAudio, Stops, StopTold, ScriptRuns
    <3>2. CASE Notify \/ WaitForBuffer \/ BufferReady
      BY <2>1, <3>2 DEF Notify, WaitForBuffer, BufferReady, SlotFree, ScriptRuns
    <3>3. CASE UpdateStep /\ ~(PeekVideo \/ NoMoreAudio \/ Notify \/ WaitForBuffer
                               \/ BufferReady)
      BY <3>3 DEF UpdateStep, Test, FirstPosition, RefreshVideo, TakeVideo, VideoTaken,
           MoreVideo, RefreshAudio, Fill, NextAudio, TakeAudio, AudioTaken, Advance,
           NoJump, MayJump, Jump
    <3>4. QED
      BY <2>2, <3>1, <3>2, <3>3
  <2>3. CASE Parsing \/ Script \/ Display \/ Fetch
    BY <2>1, <2>3 DEF Parsing, Script, Pause, Unpause, SeekInvalid, Seek, SeekDone,
         BufferTimeSet, Close, Closed, Play, PlayNotFound, Call, Display, Fetch, netVars
  <2>4. QED
    BY <2>2, <2>3 DEF NetNext
<1>2. QED
  BY <1>1, NetInvariant, PTL DEF NetSpec, StopToldOnce

\* Whatever playback asks of it, and from one stream to the next, the parser
\* delivers each frame once and its index leads to frames of their time.
THEOREM PlayedFramesOnce == NetSpec => []EachFrameOnce /\ []IndexSound
<1>1. NetIInv => EachFrameOnce /\ IndexSound
  BY AccountedOnce DEF NetIInv, ParserIInv
<1>2. QED
  BY <1>1, NetInvariant, PTL
================================================================================
