----------------------------- MODULE SWFMovieProofs -----------------------------
(***************************************************************************)
(* Proofs about SWFMovie, for any number of frames advertised, of frames   *)
(* in the stream and of tags in a frame.                                   *)
(*                                                                         *)
(* Composed with its definition the movie keeps the definition's inductive *)
(* invariant, which says what the answers of ensure_frame_loaded are       *)
(* worth.  That of the playhead adds which frame each wait asks for: a     *)
(* movie never asks for more than the header advertises, so that it is     *)
(* never refused, and what it has waited for stays loaded.                 *)
(***************************************************************************)
EXTENDS SWFMovie, SWFMovieDefinitionProofs

\* The thread that waits has been answered about the frame it wanted.
Answered ==
  /\ client = "true" => want <= frames
  /\ client = "false" => want \in refused

\* What the main thread waits for, or has just got an answer about.
Asked ==
  /\ player = "construct" => want = 1
  /\ player = "advance" =>
       want = IF current + 2 < FrameCount THEN current + 2 ELSE FrameCount
  /\ player = "gotoEnd" => want = FrameCount
  /\ player = "gotoWait" => want = target + 1 /\ target <= FrameCount - 1

\* The head stands at the first frame before anything is executed, and a goto
\* moves to a loaded frame.
HeadReady ==
  /\ player \in {"new", "construct"} => current = 0
  /\ player = "goto" => target < frames

MovieIInv ==
  /\ IInv
  /\ PlayerTypeOK
  /\ Answered
  /\ Asked
  /\ HeadReady
  /\ ExecutedFramesComplete
  /\ PlayheadLoaded
  /\ NoEarlyLoop

-----------------------------------------------------------------------------
(* The definition within the movie. *)

\* What a movie waits for is a frame of the header.
LEMMA WaitsAreFrames ==
  ASSUME PlayerTypeOK
  PROVE  /\ 1 \in Frames /\ FrameCount \in Frames
         /\ (IF current + 2 < FrameCount THEN current + 2 ELSE FrameCount) \in Frames
         /\ \A n \in Frames : n <= FrameCount - 1 => n + 1 \in Frames
<1> USE FramesAreNumbers, SWFAssumption
<1>1. current \in Nat /\ FrameCount <= TopFrame
  BY DEF PlayerTypeOK
<1> QED
  BY <1>1

\* Each step of the movie is one of the definition's, or leaves it alone.
LEMMA MovieStep == PlayerTypeOK /\ [MovieNext]_movieVars => [Next]_vars
<1> SUFFICES ASSUME PlayerTypeOK, [MovieNext]_movieVars PROVE [Next]_vars
  OBVIOUS
<1>1. ASSUME NEW n \in Frames, Ensure(n) PROVE Next
  BY <1>1 DEF Next
<1>2. ASSUME Return PROVE Next
  BY <1>2 DEF Next
<1>3. CASE PlayerStep
  <2>1. CASE Construct
    BY <1>1, <2>1, WaitsAreFrames DEF Construct
  <2>2. CASE Constructed \/ AdvanceStopped \/ IncrementFrame \/ GotoEndAnswered
               \/ GotoAnswered
    BY <1>2, <2>2 DEF Constructed, AdvanceStopped, IncrementFrame, GotoEndAnswered,
                      GotoAnswered
  <2>3. CASE FlushOrphans \/ NoOrphans \/ OrphansDone \/ ExecuteCurrent
               \/ FrameExecuted \/ GotoMove
    BY <2>3 DEF FlushOrphans, NoOrphans, OrphansDone, ExecuteCurrent,
                FrameExecuted, GotoMove
  <2> QED
    BY <1>3, <2>1, <2>2, <2>3 DEF PlayerStep
<1>4. CASE Calls
  <2>1. CASE Advance
    BY <1>1, <2>1, WaitsAreFrames DEF Advance
  <2>2. CASE Play
    BY <2>2 DEF Play
  <2>3. ASSUME NEW n \in Frames, GotoPastEnd(n) PROVE Next
    BY <1>1, <2>3, WaitsAreFrames DEF GotoPastEnd
  <2>4. ASSUME NEW n \in Frames, GotoLoaded(n) PROVE UNCHANGED vars
    BY <2>4 DEF GotoLoaded
  <2>5. ASSUME NEW n \in Frames, GotoNotLoaded(n) PROVE Next
    BY <1>1, <2>5, WaitsAreFrames DEF GotoNotLoaded
  <2> QED
    BY <1>4, <2>1, <2>2, <2>3, <2>4, <2>5 DEF Calls
<1>5. CASE Loading
  BY <1>5 DEF Loading, Next
<1>6. CASE UNCHANGED movieVars
  BY <1>6 DEF movieVars
<1> QED
  BY <1>3, <1>4, <1>5, <1>6 DEF MovieNext

\* Frames stay loaded and refusals stay pronounced; an answer is about the frame
\* that was asked for, and nothing else is asked for in between.
LEMMA DefinitionSteps ==
  ASSUME IInv, Answered, [Next]_vars
  PROVE  /\ frames' >= frames /\ frames' \in Frames
         /\ refused \subseteq refused'
         /\ Answered'
         /\ want' # want => \E n \in Frames : Ensure(n)
<1> USE FramesAreNumbers, SWFAssumption DEF IInv, TypeOK, Answered
<1>1. ASSUME NEW n \in Frames, Ensure(n)
      PROVE  UNCHANGED <<frames, refused>> /\ client' = "fast"
  BY <1>1 DEF Ensure, parsed
<1>2. CASE LoaderNext
  <2>1. UNCHANGED <<want, refused>> /\ (client' = client \/ client' = "lock")
    BY <1>2 DEF LoaderNext, CheckCanceled, AddControlTag, ShowFrame, SignalFrame,
       ChunkDone, StopParsing, PretendLoaded, SetCanceled, NotifyEnd, Notified,
       clientVars
  <2>2. frames' >= frames /\ frames' \in Frames
    BY <1>2 DEF LoaderNext, CheckCanceled, AddControlTag, ShowFrame, SignalFrame,
       ChunkDone, StopParsing, PretendLoaded, SetCanceled, NotifyEnd, parsed
  <2> QED
    BY <2>1, <2>2
<1>3. CASE ClientNext \/ SpuriousWakeup \/ Return
  BY <1>3 DEF ClientNext, FastCheck, Announce, TestPredicate, Block,
     SpuriousWakeup, Return, parsed
<1>4. CASE CompleteLoad \/ DestroyNext
  BY <1>4 DEF CompleteLoad, DestroyNext, Destroy, JoinLoader, parsed, clientVars
<1>5. CASE UNCHANGED vars
  BY <1>5 DEF vars, parsed, clientVars
<1> QED
  BY <1>1, <1>2, <1>3, <1>4, <1>5 DEF Next

\* A movie that got an answer had its frame: it only asks for frames of the
\* header, and those are never refused.
LEMMA AnswerIsYes ==
  ASSUME IInv, Answered, Return, want <= FrameCount
  PROVE  want <= frames
<1> USE FramesAreNumbers, SWFAssumption DEF IInv, TypeOK
<1>1. CASE client = "true"
  BY <1>1 DEF Answered
<1>2. CASE client = "false"
  <2>1. FrameCount < want
    BY <1>2 DEF Answered, RefusedAtEnd
  <2> QED
    BY <2>1
<1> QED
  BY <1>1, <1>2 DEF Return

-----------------------------------------------------------------------------
(* The play head. *)

\* The frames from a to b are b - a + 1 frames, each between the two.
LEMMA SpanFrames ==
  ASSUME NEW a \in Nat, NEW b \in Frames, a <= b + 1
  PROVE  /\ Span(a, b) \in Seq(Frames)
         /\ \A i \in DOMAIN Span(a, b) : Span(a, b)[i] <= b
<1> USE FramesAreNumbers
<1>1. b - a + 1 \in Nat
  OBVIOUS
<1>2. \A i \in 1..(b - a + 1) : a + i - 1 \in Frames /\ a + i - 1 <= b
  OBVIOUS
<1>3. Span(a, b) \in [1..(b - a + 1) -> Frames]
  BY <1>2 DEF Span
<1>4. Span(a, b) \in Seq(Frames)
  BY <1>1, <1>3
<1> QED
  BY <1>2, <1>4 DEF Span

\* What is left of a list of frames was in it.
LEMMA TailFrames ==
  ASSUME NEW s \in Seq(Frames), s # <<>>
  PROVE  /\ Tail(s) \in Seq(Frames)
         /\ \A i \in DOMAIN Tail(s) : i + 1 \in DOMAIN s /\ Tail(s)[i] = s[i + 1]
  OBVIOUS

\* The play head's part of the invariant.
PlayheadInv ==
  /\ PlayerTypeOK
  /\ Asked
  /\ HeadReady
  /\ ExecutedFramesComplete
  /\ PlayheadLoaded
  /\ NoEarlyLoop

\* The first frame is there when the movie has been constructed.
LEMMA ConstructStep ==
  ASSUME MovieIInv, Construct \/ Constructed, frames' >= frames, frames' \in Frames
  PROVE  PlayheadInv'
<1> USE FramesAreNumbers, SWFAssumption
    DEF MovieIInv, PlayheadInv, PlayerTypeOK, Asked, HeadReady,
        ExecutedFramesComplete, PlayheadLoaded, NoEarlyLoop
<1>0. frames \in Frames
  BY DEF IInv, TypeOK
<1>1. CASE Construct
  <2>8. PlayerTypeOK'
    BY <1>1 DEF Construct, Ensure
  <2>9. Asked' /\ HeadReady' /\ ExecutedFramesComplete' /\ PlayheadLoaded' /\ NoEarlyLoop'
    BY <1>0, <1>1 DEF Construct, Ensure
  <2> QED
    BY <2>8, <2>9
<1>2. CASE Constructed
  <2>1. 1 <= frames
    BY <1>2, AnswerIsYes DEF Constructed
  <2>8. PlayerTypeOK'
    BY <1>2, <2>1 DEF Constructed
  <2>2. current = 0
    BY <1>2 DEF Constructed
  <2>9. Asked' /\ HeadReady' /\ ExecutedFramesComplete' /\ PlayheadLoaded' /\ NoEarlyLoop'
    BY <1>0, <1>2, <2>1, <2>2 DEF Constructed
  <2> QED
    BY <2>8, <2>9
<1> QED
  BY <1>1, <1>2

\* The play head moves to a frame that was waited for and wraps only at the end.
LEMMA AdvanceStep ==
  ASSUME MovieIInv, frames' >= frames, frames' \in Frames,
         Advance \/ AdvanceStopped \/ IncrementFrame
  PROVE  PlayheadInv'
<1> USE FramesAreNumbers, SWFAssumption
    DEF MovieIInv, PlayheadInv, PlayerTypeOK, Asked, HeadReady,
        ExecutedFramesComplete, PlayheadLoaded, NoEarlyLoop
<1>1. frames \in Frames
  BY DEF IInv, TypeOK
<1>2. CASE Advance
  BY <1>1, <1>2 DEF Advance, Ensure
<1>3. CASE AdvanceStopped
  BY <1>1, <1>3 DEF AdvanceStopped
<1>4. CASE IncrementFrame
  <2>1. current + 1 >= frames => frames >= FrameCount
    <3>1. want <= frames
      BY <1>4, AnswerIsYes DEF IncrementFrame
    <3> QED
      BY <1>1, <1>4, <3>1 DEF IncrementFrame
  <2>2. current + 1 < frames => current + 1 \in Frames
    <3>1. current \in Nat /\ frames \in Nat /\ frames <= TopFrame
      BY <1>1
    <3> QED
      BY <3>1
  <2>3. 0 \in Frames
    OBVIOUS
  <2>8. PlayerTypeOK'
    <3>1. current' \in Frames /\ target' \in Frames
      BY <1>1, <1>4, <2>2, <2>3 DEF IncrementFrame
    <3>2. hasLooped' \in BOOLEAN
      BY <1>4 DEF IncrementFrame
    <3> QED
      BY <1>4, <3>1, <3>2 DEF IncrementFrame
  <2>9. Asked' /\ HeadReady' /\ ExecutedFramesComplete' /\ PlayheadLoaded' /\ NoEarlyLoop'
    BY <1>1, <1>4, <2>1, <2>2 DEF IncrementFrame
  <2> QED
    BY <2>8, <2>9
<1> QED
  BY <1>2, <1>3, <1>4

\* The tags of a frame, and those behind the last frame, are executed.
LEMMA TagsStep ==
  ASSUME MovieIInv, frames' >= frames, frames' \in Frames,
         FlushOrphans \/ NoOrphans \/ OrphansDone \/ ExecuteCurrent \/ FrameExecuted
  PROVE  PlayheadInv'
<1> USE FramesAreNumbers, SWFAssumption
    DEF MovieIInv, PlayheadInv, PlayerTypeOK, Asked, HeadReady,
        ExecutedFramesComplete, PlayheadLoaded, NoEarlyLoop
<1>1. frames \in Frames
  BY DEF IInv, TypeOK
<1>2. CASE FlushOrphans \/ NoOrphans \/ OrphansDone
  <2>7. todo' \in {todo, <<frames>>, <<>>}
    BY <1>2 DEF FlushOrphans, NoOrphans, OrphansDone
  <2>8. PlayerTypeOK'
    <3>1. todo' \in Seq(Frames)
      <4>1. <<frames>> \in Seq(Frames) /\ <<>> \in Seq(Frames)
        BY <1>1
      <4> QED
        BY <2>7, <4>1
    <3>2. flushed' \in BOOLEAN
      BY <1>2 DEF FlushOrphans, NoOrphans, OrphansDone
    <3> QED
      BY <1>2, <3>1, <3>2 DEF FlushOrphans, NoOrphans, OrphansDone
  <2>9. Asked' /\ HeadReady' /\ ExecutedFramesComplete' /\ PlayheadLoaded' /\ NoEarlyLoop'
    BY <1>1, <1>2 DEF FlushOrphans, NoOrphans, OrphansDone
  <2> QED
    BY <2>8, <2>9
<1>3. CASE ExecuteCurrent
  BY <1>1, <1>3 DEF ExecuteCurrent
<1>4. CASE FrameExecuted
  <2>1. CASE todo = <<>>
    BY <1>1, <1>4, <2>1 DEF FrameExecuted
  <2>2. CASE todo # <<>>
    <3>1. todo' \in Seq(Frames) /\ \A i \in DOMAIN todo' : todo'[i] < frames
      BY <1>1, <1>4, <2>2, TailFrames DEF FrameExecuted
    <3>2. PlayerTypeOK'
      BY <1>1, <1>4, <2>2, <3>1 DEF FrameExecuted
    <3>3. Asked' /\ HeadReady' /\ PlayheadLoaded' /\ NoEarlyLoop'
      BY <1>1, <1>4, <2>2, <3>1 DEF FrameExecuted
    <3>4. ExecutedFramesComplete'
      <4>1. \A i \in DOMAIN todo' : todo'[i] \in Frames
        BY <3>1
      <4> QED
        BY <1>1, <3>1, <4>1
    <3> QED
      BY <3>2, <3>3, <3>4
  <2> QED
    BY <2>1, <2>2
<1> QED
  BY <1>2, <1>3, <1>4

\* A goto waits for its frame, or finds it loaded, before it moves.
LEMMA GotoStep ==
  ASSUME MovieIInv, frames' >= frames, frames' \in Frames, NEW n \in Frames,
         \/ GotoPastEnd(n) \/ GotoEndAnswered \/ GotoLoaded(n)
         \/ GotoNotLoaded(n) \/ GotoAnswered \/ GotoMove
  PROVE  PlayheadInv'
<1> USE FramesAreNumbers, SWFAssumption
    DEF MovieIInv, PlayheadInv, PlayerTypeOK, Asked, HeadReady,
        ExecutedFramesComplete, PlayheadLoaded, NoEarlyLoop
<1>1. frames \in Frames
  BY DEF IInv, TypeOK
<1>2. CASE GotoPastEnd(n)
  <2>8. PlayerTypeOK'
    BY <1>1, <1>2 DEF GotoPastEnd, Ensure
  <2>9. Asked' /\ HeadReady' /\ ExecutedFramesComplete' /\ PlayheadLoaded' /\ NoEarlyLoop'
    BY <1>1, <1>2 DEF GotoPastEnd, Ensure
  <2> QED
    BY <2>8, <2>9
<1>3. CASE GotoEndAnswered
  <2>1. FrameCount <= frames /\ FrameCount - 1 \in Frames
    BY <1>3, AnswerIsYes DEF GotoEndAnswered
  <2> QED
    BY <1>1, <1>3, <2>1 DEF GotoEndAnswered
<1>4. CASE GotoLoaded(n)
  <2>8. PlayerTypeOK'
    BY <1>1, <1>4 DEF GotoLoaded
  <2>9. Asked' /\ HeadReady' /\ ExecutedFramesComplete' /\ PlayheadLoaded' /\ NoEarlyLoop'
    BY <1>1, <1>4 DEF GotoLoaded
  <2> QED
    BY <2>8, <2>9
<1>5. CASE GotoNotLoaded(n)
  <2>8. PlayerTypeOK'
    BY <1>1, <1>5 DEF GotoNotLoaded, Ensure
  <2>9. Asked' /\ HeadReady' /\ ExecutedFramesComplete' /\ PlayheadLoaded' /\ NoEarlyLoop'
    BY <1>1, <1>5 DEF GotoNotLoaded, Ensure
  <2> QED
    BY <2>8, <2>9
<1>6. CASE GotoAnswered
  <2>1. target < frames
    BY <1>1, <1>6, AnswerIsYes DEF GotoAnswered
  <2> QED
    BY <1>1, <1>6, <2>1 DEF GotoAnswered
<1>7. CASE GotoMove
  <2>1. todo' \in Seq(Frames) /\ \A i \in DOMAIN todo' : todo'[i] <= target
    <3>1. CASE target < current
      BY <1>7, <3>1, SpanFrames DEF GotoMove
    <3>2. CASE ~(target < current)
      <4>1. current + 1 \in Nat /\ target \in Frames /\ current + 1 <= target + 1
        BY <3>2
      <4> QED
        BY <1>7, <3>2, <4>1, SpanFrames DEF GotoMove
    <3> QED
      BY <3>1, <3>2
  <2>2. \A i \in DOMAIN todo' : todo'[i] \in Frames
    BY <2>1
  <2> QED
    BY <1>1, <1>7, <2>1, <2>2 DEF GotoMove
<1> QED
  BY <1>2, <1>3, <1>4, <1>5, <1>6, <1>7

\* While the definition loads and the main thread waits, the play head stands.
LEMMA LoadingStep ==
  ASSUME MovieIInv, frames' >= frames, frames' \in Frames,
         \/ Loading /\ UNCHANGED playerVars /\ want' = want
         \/ Play
         \/ UNCHANGED movieVars
  PROVE  PlayheadInv'
<1> USE FramesAreNumbers, SWFAssumption
    DEF MovieIInv, PlayheadInv, PlayerTypeOK, Asked, HeadReady,
        ExecutedFramesComplete, PlayheadLoaded, NoEarlyLoop
<1>1. frames \in Frames
  BY DEF IInv, TypeOK
<1>2. CASE UNCHANGED playerVars /\ want' = want
  BY <1>1, <1>2 DEF playerVars
<1>3. CASE Play
  BY <1>1, <1>3 DEF Play, vars, clientVars
<1>4. CASE UNCHANGED movieVars
  BY <1>2, <1>4 DEF movieVars, vars, clientVars
<1> QED
  BY <1>2, <1>3, <1>4

-----------------------------------------------------------------------------
(* The results. *)

LEMMA MovieInitIInv == MovieInit => MovieIInv
<1> SUFFICES ASSUME MovieInit PROVE MovieIInv
  OBVIOUS
<1>1. IInv
  BY InitIInv DEF MovieInit
<1>2. PlayerTypeOK
  <2>1. 0 \in Frames /\ <<>> \in Seq(Frames)
    BY FramesAreNumbers
  <2> QED
    BY <2>1 DEF MovieInit, PlayerTypeOK
<1>3. Answered /\ Asked
  BY DEF MovieInit, Init, Answered, Asked
<1>4. HeadReady /\ ExecutedFramesComplete /\ PlayheadLoaded /\ NoEarlyLoop
  BY DEF MovieInit, HeadReady, ExecutedFramesComplete, PlayheadLoaded, NoEarlyLoop
<1> QED
  BY <1>1, <1>2, <1>3, <1>4 DEF MovieIInv

LEMMA MovieNextIInv == MovieIInv /\ [MovieNext]_movieVars => MovieIInv'
<1> SUFFICES ASSUME MovieIInv, [MovieNext]_movieVars PROVE MovieIInv'
  OBVIOUS
<1>1. [Next]_vars
  BY MovieStep DEF MovieIInv
<1>2. IInv'
  BY <1>1, NextIInv DEF MovieIInv
<1>3. frames' >= frames /\ frames' \in Frames /\ Answered'
  BY <1>1, DefinitionSteps DEF MovieIInv
<1>4. PlayheadInv'
  <2>1. ASSUME NEW n \in Frames, GotoPastEnd(n) \/ GotoLoaded(n) \/ GotoNotLoaded(n)
        PROVE  PlayheadInv'
    BY <1>3, <2>1, GotoStep
  <2>2. CASE GotoEndAnswered \/ GotoAnswered \/ GotoMove
    <3>1. 0 \in Frames
      BY FramesAreNumbers
    <3> QED
      BY <1>3, <2>2, <3>1, GotoStep
  <2>3. CASE Construct \/ Constructed
    BY <1>3, <2>3, ConstructStep
  <2>4. CASE Advance \/ AdvanceStopped \/ IncrementFrame
    BY <1>3, <2>4, AdvanceStep
  <2>5. CASE FlushOrphans \/ NoOrphans \/ OrphansDone \/ ExecuteCurrent \/ FrameExecuted
    BY <1>3, <2>5, TagsStep
  <2>6. CASE Loading /\ UNCHANGED playerVars
    <3>1. want' = want
      BY <2>6 DEF Loading, CompleteLoad, LoaderNext, CheckCanceled, AddControlTag,
         ShowFrame, SignalFrame, ChunkDone, StopParsing, PretendLoaded, SetCanceled,
         NotifyEnd, ClientNext, FastCheck, Announce, TestPredicate, Block,
         SpuriousWakeup, clientVars
    <3> QED
      BY <1>3, <2>6, <3>1, LoadingStep
  <2>7. CASE Play \/ UNCHANGED movieVars
    BY <1>3, <2>7, LoadingStep
  <2> QED
    BY <2>1, <2>2, <2>3, <2>4, <2>5, <2>6, <2>7 DEF MovieNext, PlayerStep, Calls
<1> QED
  BY <1>2, <1>3, <1>4 DEF MovieIInv, PlayheadInv

\* The invariant of movie and definition holds in every reachable state.
THEOREM MovieInvariant == MovieSpec => []MovieIInv
<1> QED
  BY MovieInitIInv, MovieNextIInv, PTL DEF MovieSpec

\* A definition that is played behaves as a definition: whatever was proved of
\* SWFMovieDefinition holds of it within the movie.
THEOREM PlayedDefinition == MovieSpec => Spec
<1>1. MovieInit => Init
  BY DEF MovieInit
<1>2. MovieIInv /\ [MovieNext]_movieVars => [Next]_vars
  BY MovieStep DEF MovieIInv
<1> QED
  BY <1>1, <1>2, MovieInvariant, PTL DEF MovieSpec, Spec

\* The play head and the frames to be executed are frames that the header or the
\* stream has: where the stream has more, the head may pass the header's count.
THEOREM PlayerTypeCorrect == MovieSpec => []PlayerTypeOK
<1>1. MovieIInv => PlayerTypeOK
  BY DEF MovieIInv
<1> QED
  BY <1>1, MovieInvariant, PTL

\* No tag list is executed that the loading thread could still add to: every
\* frame on the way of a jump is loaded (the assertion of getPlaylist).
THEOREM ExecutesCompleteFrames == MovieSpec => []ExecutedFramesComplete
<1>1. MovieIInv => ExecutedFramesComplete
  BY DEF MovieIInv
<1> QED
  BY <1>1, MovieInvariant, PTL

\* Once constructed the play head stands on a loaded frame.
THEOREM PlayheadAlwaysLoaded == MovieSpec => []PlayheadLoaded
<1>1. MovieIInv => PlayheadLoaded
  BY DEF MovieIInv
<1> QED
  BY <1>1, MovieInvariant, PTL

\* A movie that has looped has all the frames its header advertises.
THEOREM NeverLoopsEarly == MovieSpec => []NoEarlyLoop
<1>1. MovieIInv => NoEarlyLoop
  BY DEF MovieIInv
<1> QED
  BY <1>1, MovieInvariant, PTL
=================================================================================
