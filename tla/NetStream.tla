------------------------------- MODULE NetStream -------------------------------
(***************************************************************************)
(* Playback of a stream (libcore/asobj/NetStream_as.cpp and PlayHead.cpp)  *)
(* by the media parser of MediaParser.                                     *)
(*                                                                         *)
(* update(), called between two ticks of the player, notifies the script   *)
(* of one status, compares the buffer with _bufferTime, decodes what is    *)
(* due at the play head and moves the head by the playback clock, once all *)
(* its consumers are through with the position.  Decoded audio goes to a   *)
(* queue that the mixer thread drains.  Beside it the script pauses,       *)
(* seeks, closes and calls, between updates or in onStatus.                *)
(*                                                                         *)
(* A step of update() reads what belongs to the parser thread once.  The   *)
(* clock is only running or not: when the head moves, it moves as far as   *)
(* it likes, to at most End.                                               *)
(***************************************************************************)
EXTENDS MediaParser

CONSTANTS
  End,          \* bound on the head: a time behind every frame
  AudioLimit,   \* bufferLimit, the 20 of pushDecodedAudioFrames
  Ahead,        \* msecsPerAdvance: audio is decoded that much ahead
  MaxAdvance,   \* bound on the time between two updates
  MaxCalls      \* bound on the calls of the script

ASSUME NetStreamAssumption ==
  /\ End \in Nat /\ \A s \in Streams : \A i \in DOMAIN s : s[i].time < End
  /\ {AudioLimit, Ahead, MaxAdvance, MaxCalls} \subseteq Nat

VARIABLES
  decoding,    \* _decoding_state
  status,      \* _statusCode, told apart as far as playStop
  head,        \* _playHead: its _position,
  playing,     \*   whether its _state is PLAY_PLAYING,
  consumers,   \*   _availableConsumers
  consumed,    \*   and _positionConsumers
  clock,       \* whether _playbackClock runs
  decoders,    \* the media whose _audioDecoder or _videoDecoder exists
  image,       \* whether _imageframe holds a frame to be displayed
  audioQueue,  \* the length of _audioQueue
  attached,    \* whether _auxStreamer is plugged into the mixer
  ticking,     \* whether update() is a callback of the player
  step,        \* where the main thread is in update()
  after,       \* the step that follows refreshVideoFrame()
  complete,    \* what parsingCompleted() answered
  got,         \* the variable consumed of pushDecodedAudioFrames
  calls        \* how many calls the script made

playhead == <<head, playing, consumers, consumed>>
audio == <<audioQueue, attached>>
control == <<step, after, complete, got>>
netVars == <<decoding, status, playhead, clock, decoders, image, audio,
             ticking, control, calls>>
allVars == <<vars, netVars>>

\* play() has just returned for the first time; no decoder was ever needed.
NetInit ==
  /\ Init
  /\ decoding = "buffering" /\ status = "other"
  /\ head = 0 /\ playing = TRUE /\ consumers = {} /\ consumed = {}
  /\ clock = FALSE /\ decoders = {} /\ image = FALSE
  /\ audioQueue = 0 /\ attached = TRUE /\ ticking = TRUE
  /\ step = "idle" /\ after = "audio" /\ complete = FALSE /\ got = FALSE
  /\ calls = 0

\* The parser exists unless the stream was closed.
HasParser == main # "stopped"

Frontmost == {Time(queue[m][1]) : m \in {n \in Media : queue[n] # << >>}}

-----------------------------------------------------------------------------
(* update(): the status and the buffer. *)

\* processStatusNotifications: the slot is emptied; its status goes to onStatus.
Notify ==
  /\ step = "idle" /\ ticking /\ main \in {"run", "stopped"}
  /\ status' = "none"
  /\ step' = "test"
  /\ UNCHANGED <<vars, decoding, playhead, clock, decoders, image, audio,
                 ticking, after, complete, got, calls>>

\* Mutant: a stopped stream is updated all the same.
TestWhenStopped ==
  /\ step = "test" /\ main \in {"run", "stopped"}
  /\ IF HasParser
       THEN step' = "buffer" /\ complete' = parsingComplete
       ELSE step' = "idle" /\ UNCHANGED complete
  /\ UNCHANGED <<vars, decoding, status, playhead, clock, decoders, image, audio,
                 ticking, after, got, calls>>

\* Nothing to do without a parser or when stopped.
Test ==
  /\ step = "test" /\ main \in {"run", "stopped"}
  /\ IF HasParser /\ decoding # "stopped"
       THEN step' = "buffer" /\ complete' = parsingComplete
       ELSE step' = "idle" /\ UNCHANGED complete
  /\ UNCHANGED <<vars, decoding, status, playhead, clock, decoders, image, audio,
                 ticking, after, got, calls>>

\* Decoding an empty buffer becomes buffering while there is more to parse.
RunsDry == decoding = "decoding" /\ BufferLength = 0 /\ ~complete
Buffers == decoding = "buffering" \/ RunsDry

\* Mutant: what is left at the end of the stream is too little.
BufferShortAtEnd == Buffers /\ BufferLength < bufferTime

BufferShort == Buffers /\ BufferLength < bufferTime /\ ~complete

\* A buffer below _bufferTime is waited for, with the clock stopped if it ran
\* dry; only the first image is wanted nevertheless.
WaitForBuffer ==
  /\ step = "buffer" /\ QMutexFree
  /\ BufferShort
  /\ decoding' = "buffering"
  /\ IF RunsDry THEN status' = "other" /\ clock' = FALSE
                ELSE UNCHANGED <<status, clock>>
  /\ IF ~image /\ playing THEN step' = "video" /\ after' = "idle"
                          ELSE step' = "idle" /\ UNCHANGED after
  /\ complete' = FALSE
  /\ UNCHANGED <<vars, playhead, decoders, image, audio,
                 ticking, got, calls>>

\* Otherwise the clock is resumed and playback goes on.
BufferReady ==
  /\ step = "buffer" /\ QMutexFree
  /\ ~BufferShort
  /\ IF Buffers THEN decoding' = "decoding" /\ status' = "other" /\ clock' = TRUE
                ELSE UNCHANGED <<decoding, status, clock>>
  /\ step' = IF head = 0 THEN "head" ELSE "video"
  /\ complete' = FALSE
  /\ UNCHANGED <<vars, playhead, decoders, image, audio,
                 ticking, after, got, calls>>

\* PlayHead::seekTo
SeekTo(t) == head' = t /\ consumed' = {} /\ UNCHANGED <<playing, consumers>>

\* A head at 0 is one to be set to the first frame there is.
FirstPosition ==
  /\ step = "head" /\ QMutexFree
  /\ IF Frontmost # {} THEN SeekTo(Min(Frontmost)) ELSE UNCHANGED playhead
  /\ step' = "video"
  /\ UNCHANGED <<vars, decoding, status, clock, decoders, image, audio,
                 ticking, after, complete, got, calls>>

-----------------------------------------------------------------------------
(* refreshVideoFrame(after # "audio") *)

\* A decoder, and with it a consumer, is made when the parser met the medium.
Decodes(m) ==
  /\ decoders' = decoders \cup ({m} \cap infos)
  /\ consumers' = consumers \cup ({m} \cap infos)

\* Nothing is done without a decoder, for a position that was done or, but on
\* request, when paused.
RefreshVideo ==
  /\ step = "video" /\ main = "run"
  /\ Decodes("video")
  /\ IF \/ "video" \notin decoders' \/ "video" \in consumed
        \/ ~playing /\ after = "audio"
       THEN step' = after /\ after' = "audio" /\ UNCHANGED complete
       ELSE step' = "peek video" /\ complete' = parsingComplete /\ UNCHANGED after
  /\ UNCHANGED <<vars, decoding, status, head, playing, consumed, clock, image, audio,
                 ticking, got, calls>>

\* The position is done with, whether it had a frame or not.
VideoDone ==
  step' = after /\ after' = "audio" /\ consumed' = consumed \cup {"video"}

Stops == decoding' = "stopped" /\ status' = "playStop"
Exhausted == complete /\ \A m \in Media : queue[m] = << >>

\* getDecodedVideoFrame: a frame is due, or there is none, for now or for ever.
\* That no time stamp is next and that both queues are empty are two locked reads,
\* taken as one: the parser adds nothing once it has completed.
PeekVideo ==
  /\ step = "peek video" /\ QMutexFree
  /\ IF queue["video"] # << >> /\ Time(queue["video"][1]) <= head
       THEN step' = "take video" /\ UNCHANGED <<decoding, status, consumed, after>>
       ELSE /\ VideoDone
            /\ IF Exhausted THEN Stops ELSE UNCHANGED <<decoding, status>>
  /\ complete' = FALSE
  /\ UNCHANGED <<vars, head, playing, consumers, clock, decoders, image, audio,
                 ticking, got, calls>>

\* The frames due are decoded, the last of them becoming the image.  The parser
\* may have dropped them since.
TakeVideo ==
  /\ step = "take video"
  /\ IF queue["video"] # << >>
       THEN NextFrame("video") /\ UNCHANGED <<step, consumed, after>>
       ELSE QMutexFree /\ main = "run" /\ VideoDone /\ UNCHANGED vars
  /\ UNCHANGED <<decoding, status, head, playing, consumers, clock, decoders, image,
                 audio, ticking, complete, got, calls>>

VideoTaken ==
  /\ main = "video" /\ FrameTaken
  /\ image' = TRUE
  /\ step' = "more video"
  /\ UNCHANGED <<decoding, status, playhead, clock, decoders, audio,
                 ticking, after, complete, got, calls>>

MoreVideo ==
  /\ step = "more video" /\ QMutexFree
  /\ IF queue["video"] # << >> /\ Time(queue["video"][1]) <= head
       THEN step' = "take video" /\ UNCHANGED <<consumed, after>>
       ELSE VideoDone
  /\ UNCHANGED <<vars, decoding, status, head, playing, consumers, clock, decoders, image,
                 audio, ticking, complete, got, calls>>

-----------------------------------------------------------------------------
(* refreshAudioBuffer() *)

RefreshAudio ==
  /\ step = "audio" /\ main = "run"
  /\ IF ~playing \/ "audio" \in consumed
       THEN step' = "advance" /\ UNCHANGED <<decoders, consumers>>
       ELSE /\ Decodes("audio")
            /\ step' = IF "audio" \in decoders' THEN "fill" ELSE "advance"
  /\ UNCHANGED <<vars, decoding, status, head, playing, consumed, clock, image, audio,
                 ticking, after, complete, got, calls>>

\* Mutant: the queue is filled without limit.
FillUnlimited ==
  /\ step = "fill"
  /\ step' = "peek audio" /\ complete' = parsingComplete
  /\ UNCHANGED <<vars, decoding, status, playhead, clock, decoders, image, audio,
                 ticking, after, got, calls>>

\* An overrun of the queue stops the clock, until the mixer has caught up.
Fill ==
  /\ step = "fill"
  /\ IF audioQueue > AudioLimit
       THEN step' = "advance" /\ clock' = FALSE /\ got' = FALSE /\ UNCHANGED complete
       ELSE step' = "peek audio" /\ complete' = parsingComplete /\ UNCHANGED <<clock, got>>
  /\ UNCHANGED <<vars, decoding, status, playhead, decoders, image, audio,
                 ticking, after, calls>>

\* Audio of this position that is done resumes the clock.
AudioDone(done) ==
  /\ step' = "advance" /\ got' = FALSE
  /\ IF done THEN clock' = TRUE /\ consumed' = consumed \cup {"audio"}
             ELSE UNCHANGED <<clock, consumed>>

\* Mutant: the end of one medium is taken for that of the stream.
AudioEndsAll ==
  /\ step = "peek audio" /\ QMutexFree
  /\ queue["audio"] = << >>
  /\ AudioDone(got \/ complete)
  /\ IF complete THEN Stops ELSE UNCHANGED <<decoding, status>>
  /\ complete' = FALSE
  /\ UNCHANGED <<vars, head, playing, consumers, decoders, image, audio,
                 ticking, after, calls>>

\* The next frame is wanted if it is due, or nearly so; the position is done
\* with if it is not due yet or never comes.
NoMoreAudio ==
  /\ step = "peek audio" /\ QMutexFree
  /\ queue["audio"] = << >>
  /\ AudioDone(got \/ complete)
  /\ IF Exhausted THEN Stops ELSE UNCHANGED <<decoding, status>>
  /\ complete' = FALSE
  /\ UNCHANGED <<vars, head, playing, consumers, decoders, image, audio,
                 ticking, after, calls>>

NextAudio ==
  /\ step = "peek audio" /\ QMutexFree
  /\ queue["audio"] # << >>
  /\ LET next == Time(queue["audio"][1])
     IN  IF next > head + Ahead
           THEN AudioDone(TRUE)
           ELSE /\ step' = "take audio" /\ got' = (got \/ next > head)
                /\ UNCHANGED <<clock, consumed>>
  /\ complete' = FALSE
  /\ UNCHANGED <<vars, decoding, status, head, playing, consumers, decoders, image, audio,
                 ticking, after, calls>>

TakeAudio ==
  /\ step = "take audio"
  /\ IF queue["audio"] # << >>
       THEN NextFrame("audio") /\ UNCHANGED <<step, clock, consumed, got>>
       ELSE QMutexFree /\ main = "run" /\ AudioDone(got) /\ UNCHANGED vars
  /\ UNCHANGED <<decoding, status, head, playing, consumers, decoders, image,
                 audio, ticking, after, complete, calls>>

\* Decoded, it is queued, if there is a mixer to drain the queue.
AudioTaken ==
  /\ main = "audio" /\ FrameTaken
  /\ audioQueue' = IF attached THEN audioQueue + 1 ELSE audioQueue
  /\ step' = "fill"
  /\ UNCHANGED <<decoding, status, playhead, clock, decoders, image, attached,
                 ticking, after, complete, got, calls>>

-----------------------------------------------------------------------------
(* update(): the play head *)

\* advanceIfConsumed: by the time k of the clock, if all consumers are through.
Advance(k) ==
  /\ step = "advance" /\ (k > 0 => clock)
  /\ IF consumers \subseteq consumed
       THEN head' = Min({head + k, End}) /\ consumed' = {}
       ELSE UNCHANGED <<head, consumed>>
  /\ step' = "jump"
  /\ UNCHANGED <<vars, decoding, status, playing, consumers, clock, decoders, image,
                 audio, ticking, after, complete, got, calls>>

\* Without video and with the audio queue empty the head jumps to the next
\* audio frame (bug #26687).
NoJump ==
  /\ step = "jump"
  /\ "video" \in infos \/ audioQueue > 0
  /\ step' = "idle"
  /\ UNCHANGED <<vars, decoding, status, playhead, clock, decoders, image, audio,
                 ticking, after, complete, got, calls>>

MayJump ==
  /\ step = "jump"
  /\ "video" \notin infos /\ audioQueue = 0
  /\ step' = "jumping"
  /\ UNCHANGED <<vars, decoding, status, playhead, clock, decoders, image, audio,
                 ticking, after, complete, got, calls>>

Jump ==
  /\ step = "jumping" /\ QMutexFree
  /\ IF queue["audio"] # << >> THEN SeekTo(Time(queue["audio"][1]))
                               ELSE UNCHANGED playhead
  /\ step' = "idle"
  /\ UNCHANGED <<vars, decoding, status, clock, decoders, image, audio,
                 ticking, after, complete, got, calls>>

UpdateStep ==
  \/ Notify \/ Test \/ WaitForBuffer \/ BufferReady \/ FirstPosition
  \/ RefreshVideo \/ PeekVideo \/ TakeVideo \/ VideoTaken \/ MoreVideo
  \/ RefreshAudio \/ Fill \/ NoMoreAudio \/ NextAudio \/ TakeAudio \/ AudioTaken
  \/ (\E k \in 0..MaxAdvance : Advance(k)) \/ NoJump \/ MayJump \/ Jump

-----------------------------------------------------------------------------
(* The script: between updates, or called by onStatus. *)

ScriptRuns == step \in {"idle", "test"}
Call == ScriptRuns /\ calls < MaxCalls /\ calls' = calls + 1

\* pausePlayback and unpausePlayback unplug and plug the mixer.  Setting the
\* state of the head does not touch its clock.
Pause ==
  /\ Call /\ main \in {"run", "stopped"}
  /\ playing
  /\ playing' = FALSE /\ attached' = FALSE
  /\ UNCHANGED <<vars, decoding, status, head, consumers, consumed, clock, decoders,
                 image, audioQueue, ticking, control>>

Unpause ==
  /\ Call /\ main \in {"run", "stopped"}
  /\ ~playing
  /\ playing' = TRUE /\ attached' = TRUE
  /\ UNCHANGED <<vars, decoding, status, head, consumers, consumed, clock, decoders,
                 image, audioQueue, ticking, control>>

\* seek(): a time the parser refuses leaves the clock running...
SeekInvalid(t) ==
  /\ Call /\ SeekRefused(t)
  /\ status' = "other" /\ clock' = TRUE
  /\ UNCHANGED <<decoding, playhead, decoders, image, audio, ticking, control>>

\* ...one that it accepts stops it; then the buffers are empty, the head is
\* moved, and a frame is looked for at once.
Seek(t) ==
  /\ Call /\ SeekAccepted(t)
  /\ clock' = FALSE
  /\ UNCHANGED <<decoding, status, playhead, decoders, image, audio,
                 ticking, control>>

SeekDone ==
  /\ ClearBuffers
  /\ audioQueue' = 0
  /\ SeekTo(Time(position))
  /\ decoding' = "buffering"
  /\ step' = "video" /\ after' = step
  /\ UNCHANGED <<status, clock, decoders, image, attached, ticking, complete, got, calls>>

\* setBufferTime sets the stream's and the parser's alike.
BufferTimeSet(t) ==
  /\ Call /\ SetBufferTime(t)
  /\ UNCHANGED <<decoding, status, playhead, clock, decoders, image, audio,
                 ticking, control>>

NewParser ==
  /\ position' = 1 /\ nextIndex' = 1
  /\ cuePoints' = << >> /\ infos' = {}
  /\ parsingComplete' = FALSE /\ indexingCompleted' = FALSE /\ seekRequest' = FALSE
  /\ queue' = [m \in Media |-> << >>]
  /\ indexOnly' = FALSE /\ inflight' = 0
  /\ since' = 1 /\ taken' = {}

\* close() resets everything but the consumers of the head and the state of
\* decoding; it waits for the parser thread.
Close ==
  /\ Call
  /\ IF HasParser THEN StopParser ELSE UNCHANGED vars
  /\ audioQueue' = 0 /\ attached' = FALSE
  /\ decoders' = {} /\ image' = FALSE /\ ticking' = FALSE
  /\ UNCHANGED <<decoding, status, playhead, clock, control>>

\* What the parser had is gone with it.
Closed ==
  /\ main = "join" /\ parser = "exited"
  /\ main' = "stopped"
  /\ NewParser
  /\ UNCHANGED <<stream, bufferTime, kill, parser, seeks, netVars>>

\* play() of a closed stream (it closes first) makes a new parser...  Its thread
\* runs before setBufferTime, which is taken as one step with its start.
Play ==
  /\ Call /\ main = "stopped"
  /\ stream' \in Streams
  /\ NewParser /\ kill' = FALSE /\ parser' = "loop" /\ main' = "run"
  /\ decoding' = "buffering" /\ clock' = FALSE /\ status' = "other"
  /\ head' = 0 /\ consumed' = {} /\ playing' = TRUE
  /\ attached' = TRUE /\ ticking' = TRUE
  /\ UNCHANGED <<bufferTime, seeks, consumers, decoders, image, audioQueue, control>>

\* ...or finds no stream, which it says at the next update.
PlayNotFound ==
  /\ Call /\ main = "stopped"
  /\ attached' = FALSE /\ ticking' = TRUE /\ status' = "other"
  /\ UNCHANGED <<vars, decoding, playhead, clock, decoders, image, audioQueue,
                 control>>

Script ==
  \/ Pause \/ Unpause
  \/ \E t \in SeekTimes : SeekInvalid(t) \/ Seek(t)
  \/ SeekDone
  \/ \E t \in BufferTimes : BufferTimeSet(t)
  \/ Close \/ Closed \/ Play \/ PlayNotFound

\* get_video: the renderer takes the image.
Display ==
  /\ step = "idle" /\ main \in {"run", "stopped"}
  /\ image
  /\ image' = FALSE
  /\ UNCHANGED <<vars, decoding, status, playhead, clock, decoders, audio,
                 ticking, control, calls>>

\* The mixer thread: fetch() uses up what is first in the queue.
Fetch ==
  /\ attached /\ audioQueue > 0
  /\ audioQueue' = audioQueue - 1
  /\ UNCHANGED <<vars, decoding, status, playhead, clock, decoders, image, attached,
                 ticking, control, calls>>

Parsing == ParserNext /\ UNCHANGED netVars

\* The wakeups nobody asked for are left to MediaParser.
NetNext ==
  \/ Parsing \/ UpdateStep \/ Script \/ Display \/ Fetch

NetSpec == NetInit /\ [][NetNext]_allVars

\* The parser and the mixer run; the player calls update() again and again, gets
\* the mutex it asks for and finishes what it has begun; and the clock, where
\* it runs, gets on.  Scripts are not obliged to anything.
NetFairness ==
  /\ WF_allVars(Parsing) /\ WF_allVars(Fetch)
  /\ SF_allVars(UpdateStep)
  /\ SF_allVars(\E k \in 1..MaxAdvance : Advance(k))
  /\ WF_allVars(SeekDone) /\ WF_allVars(Closed)

NetFairSpec == NetSpec /\ NetFairness

-----------------------------------------------------------------------------
(* Properties. *)

\* Every variable keeps its type; the audio queue holds at most one buffer more
\* than its limit.
NetTypeOK ==
  /\ TypeOK
  /\ decoding \in {"buffering", "decoding", "stopped"}
  /\ status \in {"none", "playStop", "other"}
  /\ head \in 0..End
  /\ consumers \subseteq Media /\ consumed \subseteq Media /\ decoders \subseteq Media
  /\ playing \in BOOLEAN /\ clock \in BOOLEAN /\ image \in BOOLEAN
  /\ attached \in BOOLEAN /\ ticking \in BOOLEAN
  /\ complete \in BOOLEAN /\ got \in BOOLEAN
  /\ audioQueue \in 0..(AudioLimit + 1)
  /\ step \in {"idle", "test", "buffer", "head", "video", "peek video", "take video",
               "more video", "audio", "fill", "peek audio", "take audio",
               "advance", "jump", "jumping"}
  /\ after \in {"audio", "idle", "test"}
  /\ calls \in 0..MaxCalls

\* Playback is over only when the parser has reached the end of the stream and
\* each frame since the last seek was taken to be decoded, although completion
\* and the two queues are looked at one after the other beside the parser.
StopsAtEnd ==
  decoding = "stopped" /\ main = "run" =>
    /\ since # 0 /\ position = Len(stream) + 1
    /\ taken = {i \in since..Len(stream) : stream[i].kind \in Media}

\* NetStream.Play.Stop is said once, and only a call of the script between two
\* updates can take its place in the one slot there is before it is heard.
StopToldOnce ==
  [][ /\ status # "playStop" /\ status' = "playStop" => decoding # "stopped"
      /\ status = "playStop" /\ status' # "playStop" => ScriptRuns ]_allVars

\* What keeps a stream from ending: setBufferTime was raised above what a
\* sleeping parser keeps, or an earlier stream left a consumer to the head
\* whose medium this one has not shown.
Starved ==
  Woken # parser /\ ~parsingComplete /\ decoding = "buffering" /\ BufferLength < bufferTime
Stranded == ~(consumers \subseteq infos)

\* Otherwise what is played comes to its end: buffering, decoding, the clock,
\* both consumers, the mixer and the parser do not wait for one another.
PlaybackEnds ==
  (main = "run" /\ playing /\ decoding # "stopped")
    ~> (decoding = "stopped" \/ ~playing \/ main \in {"join", "stopped"}
        \/ Starved \/ Stranded)
================================================================================
