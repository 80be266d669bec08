------------------------ MODULE SWFMovieDefinitionProofs ------------------------
(***************************************************************************)
(* Proofs about SWFMovieDefinition, for any number of frames and tags.     *)
(*                                                                         *)
(* What makes the answers of ensure_frame_loaded right is the order in     *)
(* which the loading thread ends: it makes up for the missing frames, sets *)
(* _loadingCanceled under the mutex, then notifies.  The inductive         *)
(* invariant says what each of the two threads may conclude meanwhile.     *)
(***************************************************************************)
EXTENDS SWFMovieDefinition, TLAPS

\* While the definition lives only the end of loading sets _loadingCanceled,
\* and it is set before the last notification.
CanceledAtEnd ==
  /\ canceled /\ life = "alive" => loader \in {"notify", "done"}
  /\ loader \in {"notify", "done"} => canceled

\* From the making up on, all advertised frames count as loaded.
FramesMadeUp ==
  /\ loader \in {"cancel", "notify"} => FrameCount <= frames
  /\ loader = "done" /\ life = "alive" => FrameCount <= frames

\* A thread inside ensure_frame_loaded keeps the definition alive, falls asleep
\* only before the end is declared, and sleeps on only until it is notified.
Sleeping ==
  /\ client # "idle" => life = "alive" /\ loader # "none"
  /\ client = "block" => ~canceled
  /\ client = "blocked" => ~canceled \/ loader = "notify"

\* FALSE is answered after the last frame was counted.
RefusedAtEnd ==
  \A n \in refused : /\ frames < n /\ FrameCount < n
                     /\ canceled /\ loader \in {"notify", "done"}

IInv ==
  /\ TypeOK
  /\ CanceledAtEnd
  /\ FramesMadeUp
  /\ Sleeping
  /\ RefusedAtEnd

-----------------------------------------------------------------------------
\* The frames are the naturals up to TopFrame.
LEMMA FramesAreNumbers ==
  /\ TopFrame \in Nat /\ FrameCount \in Frames /\ MaxFrames \in Frames
  /\ \A n : n \in Frames <=> n \in Nat /\ n <= TopFrame
BY SWFAssumption DEF TopFrame, Frames

\* The definition as it is before completeLoad satisfies the invariant.
LEMMA InitIInv == Init => IInv
<1> SUFFICES ASSUME Init PROVE IInv
  OBVIOUS
<1> USE FramesAreNumbers, SWFAssumption DEF Init
<1>1. TypeOK
  <2>1. 0 \in Frames /\ 0 \in 0..MaxTags
    OBVIOUS
  <2> QED
    BY <2>1 DEF TypeOK
<1> QED
  BY <1>1 DEF IInv, CanceledAtEnd, FramesMadeUp, Sleeping, RefusedAtEnd

\* Every step keeps every variable's type; the count of frames never leaves
\* what the header and the stream allow.
LEMMA NextTypeOK == IInv /\ [Next]_vars => TypeOK'
<1> SUFFICES ASSUME IInv, [Next]_vars PROVE TypeOK'
  OBVIOUS
<1> USE FramesAreNumbers, SWFAssumption DEF IInv, TypeOK
<1>1. CASE CompleteLoad
  BY <1>1 DEF CompleteLoad, parsed, clientVars
<1>2. CASE CheckCanceled
  BY <1>2 DEF CheckCanceled, MutexFree, parsed, clientVars
<1>3. CASE AddControlTag
  BY <1>3 DEF AddControlTag, clientVars
<1>4. CASE ShowFrame
  BY <1>4 DEF ShowFrame, clientVars
<1>5. CASE SignalFrame
  BY <1>5 DEF SignalFrame, Notified, parsed
<1>6. CASE ChunkDone
  BY <1>6 DEF ChunkDone, parsed, clientVars
<1>7. CASE StopParsing
  BY <1>7 DEF StopParsing, parsed, clientVars
<1>8. CASE PretendLoaded
  BY <1>8 DEF PretendLoaded, clientVars
<1>9. CASE SetCanceled
  BY <1>9 DEF SetCanceled, MutexFree, parsed, clientVars
<1>10. CASE NotifyEnd
  BY <1>10 DEF NotifyEnd, Notified, parsed
<1>11. CASE \E n \in Frames : Ensure(n)
  BY <1>11 DEF Ensure, parsed
<1>12. CASE FastCheck
  BY <1>12 DEF FastCheck, parsed
<1>13. CASE Announce
  BY <1>13 DEF Announce, parsed
<1>14. CASE TestPredicate
  BY <1>14 DEF TestPredicate, parsed
<1>15. CASE Block
  BY <1>15 DEF Block, parsed
<1>16. CASE SpuriousWakeup
  BY <1>16 DEF SpuriousWakeup, parsed
<1>17. CASE Return
  BY <1>17 DEF Return, parsed
<1>18. CASE Destroy
  BY <1>18 DEF Destroy, parsed, clientVars
<1>19. CASE JoinLoader
  BY <1>19 DEF JoinLoader, parsed, clientVars
<1>20. CASE UNCHANGED vars
  BY <1>20 DEF vars, parsed, clientVars
<1> QED
  BY <1>1, <1>2, <1>3, <1>4, <1>5, <1>6, <1>7, <1>8, <1>9, <1>10, <1>11,
     <1>12, <1>13, <1>14, <1>15, <1>16, <1>17, <1>18, <1>19, <1>20
     DEF Next, LoaderNext, ClientNext, DestroyNext

\* Nobody but the loading thread, at its end, and the destructor cancels.
LEMMA NextCanceled == IInv /\ [Next]_vars => CanceledAtEnd'
<1> SUFFICES ASSUME IInv, [Next]_vars PROVE CanceledAtEnd'
  OBVIOUS
<1> USE FramesAreNumbers, SWFAssumption DEF IInv, TypeOK, CanceledAtEnd, Sleeping
<1>1. CASE CompleteLoad
  BY <1>1 DEF CompleteLoad, parsed, clientVars
<1>2. CASE CheckCanceled
  BY <1>2 DEF CheckCanceled, MutexFree, parsed, clientVars
<1>3. CASE AddControlTag
  BY <1>3 DEF AddControlTag, clientVars
<1>4. CASE ShowFrame
  BY <1>4 DEF ShowFrame, clientVars
<1>5. CASE SignalFrame
  BY <1>5 DEF SignalFrame, Notified, parsed
<1>6. CASE ChunkDone
  BY <1>6 DEF ChunkDone, parsed, clientVars
<1>7. CASE StopParsing
  BY <1>7 DEF StopParsing, parsed, clientVars
<1>8. CASE PretendLoaded
  BY <1>8 DEF PretendLoaded, clientVars
<1>9. CASE SetCanceled
  BY <1>9 DEF SetCanceled, MutexFree, parsed, clientVars
<1>10. CASE NotifyEnd
  BY <1>10 DEF NotifyEnd, Notified, parsed
<1>11. CASE \E n \in Frames : Ensure(n)
  BY <1>11 DEF Ensure, parsed
<1>12. CASE FastCheck
  BY <1>12 DEF FastCheck, parsed
<1>13. CASE Announce
  BY <1>13 DEF Announce, parsed
<1>14. CASE TestPredicate
  BY <1>14 DEF TestPredicate, parsed
<1>15. CASE Block
  BY <1>15 DEF Block, parsed
<1>16. CASE SpuriousWakeup
  BY <1>16 DEF SpuriousWakeup, parsed
<1>17. CASE Return
  BY <1>17 DEF Return, parsed
<1>18. CASE Destroy
  BY <1>18 DEF Destroy, parsed, clientVars
<1>19. CASE JoinLoader
  BY <1>19 DEF JoinLoader, parsed, clientVars
<1>20. CASE UNCHANGED vars
  BY <1>20 DEF vars, parsed, clientVars
<1> QED
  BY <1>1, <1>2, <1>3, <1>4, <1>5, <1>6, <1>7, <1>8, <1>9, <1>10, <1>11,
     <1>12, <1>13, <1>14, <1>15, <1>16, <1>17, <1>18, <1>19, <1>20
     DEF Next, LoaderNext, ClientNext, DestroyNext

\* The number of frames only grows, and the end is declared after the making up.
LEMMA NextMadeUp == IInv /\ [Next]_vars => FramesMadeUp'
<1> SUFFICES ASSUME IInv, [Next]_vars PROVE FramesMadeUp'
  OBVIOUS
<1> USE FramesAreNumbers, SWFAssumption DEF IInv, TypeOK, CanceledAtEnd, FramesMadeUp
<1>1. CASE CompleteLoad
  BY <1>1 DEF CompleteLoad, parsed, clientVars
<1>2. CASE CheckCanceled
  BY <1>2 DEF CheckCanceled, MutexFree, parsed, clientVars
<1>3. CASE AddControlTag
  BY <1>3 DEF AddControlTag, clientVars
<1>4. CASE ShowFrame
  BY <1>4 DEF ShowFrame, clientVars
<1>5. CASE SignalFrame
  BY <1>5 DEF SignalFrame, Notified, parsed
<1>6. CASE ChunkDone
  BY <1>6 DEF ChunkDone, parsed, clientVars
<1>7. CASE StopParsing
  BY <1>7 DEF StopParsing, parsed, clientVars
<1>8. CASE PretendLoaded
  BY <1>8 DEF PretendLoaded, clientVars
<1>9. CASE SetCanceled
  BY <1>9 DEF SetCanceled, MutexFree, parsed, clientVars
<1>10. CASE NotifyEnd
  BY <1>10 DEF NotifyEnd, Notified, parsed
<1>11. CASE \E n \in Frames : Ensure(n)
  BY <1>11 DEF Ensure, parsed
<1>12. CASE FastCheck
  BY <1>12 DEF FastCheck, parsed
<1>13. CASE Announce
  BY <1>13 DEF Announce, parsed
<1>14. CASE TestPredicate
  BY <1>14 DEF TestPredicate, parsed
<1>15. CASE Block
  BY <1>15 DEF Block, parsed
<1>16. CASE SpuriousWakeup
  BY <1>16 DEF SpuriousWakeup, parsed
<1>17. CASE Return
  BY <1>17 DEF Return, parsed
<1>18. CASE Destroy
  BY <1>18 DEF Destroy, parsed, clientVars
<1>19. CASE JoinLoader
  BY <1>19 DEF JoinLoader, parsed, clientVars
<1>20. CASE UNCHANGED vars
  BY <1>20 DEF vars, parsed, clientVars
<1> QED
  BY <1>1, <1>2, <1>3, <1>4, <1>5, <1>6, <1>7, <1>8, <1>9, <1>10, <1>11,
     <1>12, <1>13, <1>14, <1>15, <1>16, <1>17, <1>18, <1>19, <1>20
     DEF Next, LoaderNext, ClientNext, DestroyNext

\* The mutex keeps the flag down between the test of the predicate and the
\* sleep, and the last notification finds whoever fell asleep before.
LEMMA NextSleeping == IInv /\ [Next]_vars => Sleeping'
<1> SUFFICES ASSUME IInv, [Next]_vars PROVE Sleeping'
  OBVIOUS
<1> USE FramesAreNumbers, SWFAssumption DEF IInv, TypeOK, CanceledAtEnd, Sleeping
<1>1. CASE CompleteLoad
  BY <1>1 DEF CompleteLoad, parsed, clientVars
<1>2. CASE CheckCanceled
  BY <1>2 DEF CheckCanceled, MutexFree, parsed, clientVars
<1>3. CASE AddControlTag
  BY <1>3 DEF AddControlTag, clientVars
<1>4. CASE ShowFrame
  BY <1>4 DEF ShowFrame, clientVars
<1>5. CASE SignalFrame
  BY <1>5 DEF SignalFrame, Notified, parsed
<1>6. CASE ChunkDone
  BY <1>6 DEF ChunkDone, parsed, clientVars
<1>7. CASE StopParsing
  BY <1>7 DEF StopParsing, parsed, clientVars
<1>8. CASE PretendLoaded
  BY <1>8 DEF PretendLoaded, clientVars
<1>9. CASE SetCanceled
  BY <1>9 DEF SetCanceled, MutexFree, parsed, clientVars
<1>10. CASE NotifyEnd
  BY <1>10 DEF NotifyEnd, Notified, parsed
<1>11. CASE \E n \in Frames : Ensure(n)
  BY <1>11 DEF Ensure, parsed
<1>12. CASE FastCheck
  BY <1>12 DEF FastCheck, parsed
<1>13. CASE Announce
  BY <1>13 DEF Announce, parsed
<1>14. CASE TestPredicate
  BY <1>14 DEF TestPredicate, parsed
<1>15. CASE Block
  BY <1>15 DEF Block, parsed
<1>16. CASE SpuriousWakeup
  BY <1>16 DEF SpuriousWakeup, parsed
<1>17. CASE Return
  BY <1>17 DEF Return, parsed
<1>18. CASE Destroy
  BY <1>18 DEF Destroy, parsed, clientVars
<1>19. CASE JoinLoader
  BY <1>19 DEF JoinLoader, parsed, clientVars
<1>20. CASE UNCHANGED vars
  BY <1>20 DEF vars, parsed, clientVars
<1> QED
  BY <1>1, <1>2, <1>3, <1>4, <1>5, <1>6, <1>7, <1>8, <1>9, <1>10, <1>11,
     <1>12, <1>13, <1>14, <1>15, <1>16, <1>17, <1>18, <1>19, <1>20
     DEF Next, LoaderNext, ClientNext, DestroyNext

\* A refusal is pronounced when the frames are all counted.
LEMMA NextRefused == IInv /\ [Next]_vars => RefusedAtEnd'
<1> SUFFICES ASSUME IInv, [Next]_vars PROVE RefusedAtEnd'
  OBVIOUS
<1> USE FramesAreNumbers, SWFAssumption DEF IInv, TypeOK, CanceledAtEnd, FramesMadeUp, Sleeping, RefusedAtEnd
<1>1. CASE CompleteLoad
  BY <1>1 DEF CompleteLoad, parsed, clientVars
<1>2. CASE CheckCanceled
  BY <1>2 DEF CheckCanceled, MutexFree, parsed, clientVars
<1>3. CASE AddControlTag
  BY <1>3 DEF AddControlTag, clientVars
<1>4. CASE ShowFrame
  BY <1>4 DEF ShowFrame, clientVars
<1>5. CASE SignalFrame
  BY <1>5 DEF SignalFrame, Notified, parsed
<1>6. CASE ChunkDone
  BY <1>6 DEF ChunkDone, parsed, clientVars
<1>7. CASE StopParsing
  BY <1>7 DEF StopParsing, parsed, clientVars
<1>8. CASE PretendLoaded
  BY <1>8 DEF PretendLoaded, clientVars
<1>9. CASE SetCanceled
  BY <1>9 DEF SetCanceled, MutexFree, parsed, clientVars
<1>10. CASE NotifyEnd
  BY <1>10 DEF NotifyEnd, Notified, parsed
<1>11. CASE \E n \in Frames : Ensure(n)
  <2> PICK n \in Frames : Ensure(n)
    BY <1>11
  <2>1. UNCHANGED <<frames, refused, canceled, loader>>
    BY DEF Ensure, parsed
  <2> QED
    BY <2>1
<1>12. CASE FastCheck
  BY <1>12 DEF FastCheck, parsed
<1>13. CASE Announce
  BY <1>13 DEF Announce, parsed
<1>14. CASE TestPredicate
  BY <1>14 DEF TestPredicate, parsed
<1>15. CASE Block
  BY <1>15 DEF Block, parsed
<1>16. CASE SpuriousWakeup
  BY <1>16 DEF SpuriousWakeup, parsed
<1>17. CASE Return
  BY <1>17 DEF Return, parsed
<1>18. CASE Destroy
  BY <1>18 DEF Destroy, parsed, clientVars
<1>19. CASE JoinLoader
  BY <1>19 DEF JoinLoader, parsed, clientVars
<1>20. CASE UNCHANGED vars
  BY <1>20 DEF vars, parsed, clientVars
<1> QED
  BY <1>1, <1>2, <1>3, <1>4, <1>5, <1>6, <1>7, <1>8, <1>9, <1>10, <1>11,
     <1>12, <1>13, <1>14, <1>15, <1>16, <1>17, <1>18, <1>19, <1>20
     DEF Next, LoaderNext, ClientNext, DestroyNext

-----------------------------------------------------------------------------
\* Every step of the definition and of its two threads keeps the invariant.
LEMMA NextIInv == IInv /\ [Next]_vars => IInv'
  BY NextTypeOK, NextCanceled, NextMadeUp, NextSleeping, NextRefused DEF IInv

\* The invariant of the two threads holds in every reachable state.
THEOREM InductiveInvariant == Spec => []IInv
<1> QED
  BY InitIInv, NextIInv, PTL DEF Spec

\* Type correctness of the definition and of its two threads.
THEOREM TypeCorrect == Spec => []TypeOK
<1>1. IInv => TypeOK
  BY DEF IInv
<1> QED
  BY InductiveInvariant, <1>1, PTL

\* ensure_frame_loaded answers FALSE only for frames that never come.
THEOREM RefusalIsRight == Spec => []RefusedNeverComes
<1>1. IInv => RefusedNeverComes
  BY DEF IInv, RefusedAtEnd, RefusedNeverComes
<1> QED
  BY InductiveInvariant, <1>1, PTL

\* When the loading thread has left, nobody sleeps on the condition any more.
THEOREM EndWakesSleeper == Spec => []NoSleeperAtEnd
<1>1. IInv => NoSleeperAtEnd
  BY DEF IInv, CanceledAtEnd, Sleeping, NoSleeperAtEnd
<1> QED
  BY InductiveInvariant, <1>1, PTL

\* No step adds a tag to a loaded frame, nor un-loads a frame.
THEOREM LoadedFramesFinal == Spec => LoadedIsFinal
<1> DEFINE Kept == /\ frames' >= frames
                   /\ \A f \in Frames : f < frames => playlist'[f] = playlist[f]
<1>1. IInv /\ [Next]_vars => [Kept]_vars
  <2> SUFFICES ASSUME IInv, Next PROVE Kept
    OBVIOUS
  <2> USE FramesAreNumbers, SWFAssumption DEF IInv, TypeOK
  <2>1. CASE AddControlTag
    BY <2>1 DEF AddControlTag
  <2>2. CASE ShowFrame
    BY <2>2 DEF ShowFrame
  <2>3. CASE PretendLoaded
    BY <2>3 DEF PretendLoaded
  <2>4. CASE ~(AddControlTag \/ ShowFrame \/ PretendLoaded)
    <3>1. UNCHANGED parsed
      BY <2>4 DEF Next, LoaderNext, ClientNext, DestroyNext, CompleteLoad, CheckCanceled,
                  SignalFrame, ChunkDone, StopParsing, SetCanceled, NotifyEnd, Ensure,
                  FastCheck, Announce, TestPredicate, Block, SpuriousWakeup, Return,
                  Destroy, JoinLoader
    <3> QED
      BY <3>1 DEF parsed
  <2> QED
    BY <2>1, <2>2, <2>3, <2>4
<1> QED
  BY InductiveInvariant, <1>1, PTL DEF Spec, LoadedIsFinal
================================================================================
