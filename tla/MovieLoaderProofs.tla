--------------------------- MODULE MovieLoaderProofs ---------------------------
(***************************************************************************)
(* Proofs about MovieLoader, for any number of requests and exceptions.    *)
(*                                                                         *)
(* The inductive invariant adds to the checked invariants what clear()     *)
(* establishes: a request is never both dropped and in the list, and while *)
(* the main thread joins, the flag is up and there is a thread to join.    *)
(***************************************************************************)
EXTENDS MovieLoader, TLAPS

DroppedGone == dropped \cap requests = {}
Joining == main = "join" => killed /\ loader # "none"

IInv ==
  /\ TypeOK
  /\ ReferencesValid
  /\ NoLostRequest
  /\ HandledOnce
  /\ DroppedGone
  /\ Joining

-----------------------------------------------------------------------------
\* The typing of the constants and of the sets of request numbers.
LEMMA RequestsAreNumbers == Requests \subseteq Nat /\ None \notin Requests
BY MovieLoaderAssumption DEF Requests, None

\* The constructor's state satisfies the inductive invariant.
LEMMA InitIInv == Init => IInv
<1> SUFFICES ASSUME Init PROVE IInv
  OBVIOUS
<1> USE MovieLoaderAssumption DEF Init
<1>1. TypeOK
  <2>1. attempts \in [Requests -> Nat] /\ thrown \in [Requests -> 0..MaxThrows]
    OBVIOUS
  <2>2. issued \in 0..MaxRequests
    OBVIOUS
  <2>3. /\ requests \subseteq 1..issued /\ completed \subseteq 1..issued
        /\ dropped \subseteq 1..issued
    OBVIOUS
  <2>4. killed \in BOOLEAN
    OBVIOUS
  <2> QED
    BY <2>1, <2>2, <2>3, <2>4 DEF TypeOK, Requests, None
<1>2. HandledOnce
  BY DEF HandledOnce, Handled, InHandling
<1> QED
  BY <1>1, <1>2 DEF IInv, ReferencesValid, NoLostRequest, DroppedGone, Joining

\* Every step of either thread keeps every variable's type.
LEMMA NextTypeOK == IInv /\ [Next]_vars => TypeOK'
<1> SUFFICES ASSUME IInv, [Next]_vars PROVE TypeOK'
  OBVIOUS
<1> USE MovieLoaderAssumption DEF IInv, TypeOK, Requests, None
<1>1. CASE CheckKilled
  BY <1>1 DEF CheckKilled, listVars, mainVars, history
<1>2. CASE PickRequest
  BY <1>2 DEF PickRequest, listVars, mainVars, history
<1>3. CASE Sleep
  BY <1>3 DEF Sleep, listVars, mainVars, history
<1>4. CASE SpuriousWakeup
  BY <1>4 DEF SpuriousWakeup, listVars, mainVars, history
<1>5. CASE CompleteRequest
  BY <1>5 DEF CompleteRequest, ReferencesValid, Pending, mainVars, history
<1>6. CASE LoadMovie
  <2>1. issued' \in 0..MaxRequests /\ issued' = issued + 1
    BY <1>6 DEF LoadMovie
  <2>2. requests' \subseteq 1..issued'
    BY <1>6, <2>1 DEF LoadMovie
  <2>3. completed' \subseteq 1..issued' /\ dropped' \subseteq 1..issued'
    BY <1>6, <2>1 DEF LoadMovie, history
  <2> QED
    BY <1>6, <2>1, <2>2, <2>3 DEF LoadMovie, Notified, mainVars, history
<1>7. CASE StartProcessing
  BY <1>7 DEF StartProcessing, listVars, loaderVars, history
<1>8. CASE FindCompleted
  BY <1>8 DEF FindCompleted, listVars, loaderVars
<1>9. CASE NoneCompleted
  BY <1>9 DEF NoneCompleted, listVars, loaderVars, history
<1>10. CASE HandlingReturns
  BY <1>10 DEF HandlingReturns, listVars, loaderVars, history
<1>11. CASE HandlingThrows
  BY <1>11 DEF HandlingThrows, listVars, loaderVars, ReferencesValid, Completed
<1>12. CASE EraseRequest
  BY <1>12 DEF EraseRequest, loaderVars, history
<1>13. CASE Kill
  BY <1>13 DEF Kill, Notified, listVars, history
<1>14. CASE Join
  BY <1>14 DEF Join
<1>15. CASE ClearIdle
  BY <1>15 DEF ClearIdle, loaderVars, mainVars
<1>16. CASE UNCHANGED vars
  BY <1>16 DEF vars, listVars, loaderVars, mainVars, history
<1> QED
  BY <1>1, <1>2, <1>3, <1>4, <1>5, <1>6, <1>7, <1>8, <1>9, <1>10, <1>11,
     <1>12, <1>13, <1>14, <1>15, <1>16 DEF Next

\* The loader's reference and the main thread's iterator survive every step:
\* only completed requests are erased, and nobody clears while the loader runs.
LEMMA NextReferences == IInv /\ [Next]_vars => ReferencesValid'
<1> SUFFICES ASSUME IInv, [Next]_vars PROVE ReferencesValid'
  OBVIOUS
<1> USE MovieLoaderAssumption
    DEF IInv, TypeOK, ReferencesValid, Pending, Completed, Requests, None
<1>1. CASE CheckKilled
  BY <1>1 DEF CheckKilled, listVars, mainVars, history
<1>2. CASE PickRequest
  BY <1>2 DEF PickRequest, FirstPending, listVars, mainVars, history
<1>3. CASE Sleep
  BY <1>3 DEF Sleep, listVars, mainVars, history
<1>4. CASE SpuriousWakeup
  BY <1>4 DEF SpuriousWakeup, listVars, mainVars, history
<1>5. CASE CompleteRequest
  BY <1>5 DEF CompleteRequest, mainVars, history
<1>6. CASE LoadMovie
  BY <1>6 DEF LoadMovie, Notified, mainVars, history
<1>7. CASE StartProcessing
  BY <1>7 DEF StartProcessing, listVars, loaderVars, history
<1>8. CASE FindCompleted
  BY <1>8 DEF FindCompleted, FirstCompleted, listVars, loaderVars
<1>9. CASE NoneCompleted
  BY <1>9 DEF NoneCompleted, listVars, loaderVars, history
<1>10. CASE HandlingReturns
  BY <1>10 DEF HandlingReturns, listVars, loaderVars, history
<1>11. CASE HandlingThrows
  BY <1>11 DEF HandlingThrows, listVars, loaderVars
<1>12. CASE EraseRequest
  BY <1>12 DEF EraseRequest, loaderVars, history
<1>13. CASE Kill
  BY <1>13 DEF Kill, Notified, listVars, history
<1>14. CASE Join
  BY <1>14 DEF Join
<1>15. CASE ClearIdle
  BY <1>15 DEF ClearIdle, loaderVars, mainVars
<1>16. CASE UNCHANGED vars
  BY <1>16 DEF vars, listVars, loaderVars, mainVars, history
<1> QED
  BY <1>1, <1>2, <1>3, <1>4, <1>5, <1>6, <1>7, <1>8, <1>9, <1>10, <1>11,
     <1>12, <1>13, <1>14, <1>15, <1>16 DEF Next
\* The loader goes to sleep only without work, and new work wakes it up.
LEMMA NextNoLost == IInv /\ [Next]_vars => NoLostRequest'
<1> SUFFICES ASSUME IInv, [Next]_vars PROVE NoLostRequest'
  OBVIOUS
<1> USE MovieLoaderAssumption
    DEF IInv, TypeOK, NoLostRequest, ReferencesValid, Pending, Requests, None
<1>1. CASE CheckKilled
  BY <1>1 DEF CheckKilled, listVars, mainVars, history
<1>2. CASE PickRequest
  BY <1>2 DEF PickRequest, listVars, mainVars, history
<1>3. CASE Sleep
  BY <1>3 DEF Sleep, listVars, mainVars, history
<1>4. CASE SpuriousWakeup
  BY <1>4 DEF SpuriousWakeup, listVars, mainVars, history
<1>5. CASE CompleteRequest
  BY <1>5 DEF CompleteRequest, mainVars, history
<1>6. CASE LoadMovie
  BY <1>6 DEF LoadMovie, Notified, mainVars, history
<1>7. CASE StartProcessing
  BY <1>7 DEF StartProcessing, listVars, loaderVars, history
<1>8. CASE FindCompleted
  BY <1>8 DEF FindCompleted, FirstCompleted, listVars, loaderVars
<1>9. CASE NoneCompleted
  BY <1>9 DEF NoneCompleted, listVars, loaderVars, history
<1>10. CASE HandlingReturns
  BY <1>10 DEF HandlingReturns, listVars, loaderVars, history
<1>11. CASE HandlingThrows
  BY <1>11 DEF HandlingThrows, listVars, loaderVars
<1>12. CASE EraseRequest
  BY <1>12 DEF EraseRequest, loaderVars, history
<1>13. CASE Kill
  BY <1>13 DEF Kill, Notified, listVars, history
<1>14. CASE Join
  BY <1>14 DEF Join
<1>15. CASE ClearIdle
  BY <1>15 DEF ClearIdle, loaderVars, mainVars
<1>16. CASE UNCHANGED vars
  BY <1>16 DEF vars, listVars, loaderVars, mainVars, history
<1> QED
  BY <1>1, <1>2, <1>3, <1>4, <1>5, <1>6, <1>7, <1>8, <1>9, <1>10, <1>11,
     <1>12, <1>13, <1>14, <1>15, <1>16 DEF Next

\* An attempt is paid for by an exception or by the request leaving the list.
LEMMA NextHandledOnce == IInv /\ [Next]_vars => HandledOnce'
<1> SUFFICES ASSUME IInv, [Next]_vars PROVE HandledOnce'
  OBVIOUS
<1> USE MovieLoaderAssumption
    DEF IInv, TypeOK, HandledOnce, Handled, InHandling, ReferencesValid,
        Completed, DroppedGone, NoLostRequest, Joining, Requests, None
<1>1. CASE CheckKilled
  BY <1>1 DEF CheckKilled, listVars, mainVars, history
<1>2. CASE PickRequest
  BY <1>2 DEF PickRequest, listVars, mainVars, history
<1>3. CASE Sleep
  BY <1>3 DEF Sleep, listVars, mainVars, history
<1>4. CASE SpuriousWakeup
  BY <1>4 DEF SpuriousWakeup, listVars, mainVars, history
<1>5. CASE CompleteRequest
  BY <1>5 DEF CompleteRequest, mainVars, history
<1>6. CASE LoadMovie
  BY <1>6 DEF LoadMovie, Notified, mainVars, history
<1>7. CASE StartProcessing
  BY <1>7 DEF StartProcessing, listVars, loaderVars, history
<1>8. CASE FindCompleted
  BY <1>8 DEF FindCompleted, FirstCompleted, listVars, loaderVars
<1>9. CASE NoneCompleted
  BY <1>9 DEF NoneCompleted, listVars, loaderVars, history
<1>10. CASE HandlingReturns
  BY <1>10 DEF HandlingReturns, listVars, loaderVars, history
<1>11. CASE HandlingThrows
  BY <1>11 DEF HandlingThrows, listVars, loaderVars
<1>12. CASE EraseRequest
  BY <1>12 DEF EraseRequest, loaderVars, history
<1>13. CASE Kill
  BY <1>13 DEF Kill, Notified, listVars, history
<1>14. CASE Join
  BY <1>14 DEF Join
<1>15. CASE ClearIdle
  BY <1>15 DEF ClearIdle, loaderVars, mainVars
<1>16. CASE UNCHANGED vars
  BY <1>16 DEF vars, listVars, loaderVars, mainVars, history
<1> QED
  BY <1>1, <1>2, <1>3, <1>4, <1>5, <1>6, <1>7, <1>8, <1>9, <1>10, <1>11,
     <1>12, <1>13, <1>14, <1>15, <1>16 DEF Next

\* What clear() relies on is not disturbed.
LEMMA NextClearing == IInv /\ [Next]_vars => (DroppedGone /\ Joining)'
<1> SUFFICES ASSUME IInv, [Next]_vars PROVE (DroppedGone /\ Joining)'
  OBVIOUS
<1> USE MovieLoaderAssumption
    DEF IInv, TypeOK, NoLostRequest, DroppedGone, Joining, Requests, None
<1>1. CASE CheckKilled
  BY <1>1 DEF CheckKilled, listVars, mainVars, history
<1>2. CASE PickRequest
  BY <1>2 DEF PickRequest, listVars, mainVars, history
<1>3. CASE Sleep
  BY <1>3 DEF Sleep, listVars, mainVars, history
<1>4. CASE SpuriousWakeup
  BY <1>4 DEF SpuriousWakeup, listVars, mainVars, history
<1>5. CASE CompleteRequest
  BY <1>5 DEF CompleteRequest, mainVars, history
<1>6. CASE LoadMovie
  BY <1>6 DEF LoadMovie, Notified, mainVars, history
<1>7. CASE StartProcessing
  BY <1>7 DEF StartProcessing, listVars, loaderVars, history
<1>8. CASE FindCompleted
  BY <1>8 DEF FindCompleted, FirstCompleted, listVars, loaderVars
<1>9. CASE NoneCompleted
  BY <1>9 DEF NoneCompleted, listVars, loaderVars, history
<1>10. CASE HandlingReturns
  BY <1>10 DEF HandlingReturns, listVars, loaderVars, history
<1>11. CASE HandlingThrows
  BY <1>11 DEF HandlingThrows, listVars, loaderVars
<1>12. CASE EraseRequest
  BY <1>12 DEF EraseRequest, loaderVars, history
<1>13. CASE Kill
  BY <1>13 DEF Kill, Notified, listVars, history
<1>14. CASE Join
  BY <1>14 DEF Join
<1>15. CASE ClearIdle
  BY <1>15 DEF ClearIdle, loaderVars, mainVars
<1>16. CASE UNCHANGED vars
  BY <1>16 DEF vars, listVars, loaderVars, mainVars, history
<1> QED
  BY <1>1, <1>2, <1>3, <1>4, <1>5, <1>6, <1>7, <1>8, <1>9, <1>10, <1>11,
     <1>12, <1>13, <1>14, <1>15, <1>16 DEF Next

\* The inductive invariant holds of every behaviour.
THEOREM InductiveInvariant == Spec => []IInv
<1>1. IInv /\ [Next]_vars => IInv'
  BY NextTypeOK, NextReferences, NextNoLost, NextHandledOnce, NextClearing DEF IInv
<1> QED
  BY InitIInv, <1>1, PTL DEF Spec

\* Every variable of the loader keeps its type.
THEOREM TypeCorrect == Spec => []TypeOK
BY InductiveInvariant, PTL DEF IInv

\* Neither thread ever uses an element that left the list, or the other's.
THEOREM ReferencesSafe == Spec => []ReferencesValid
BY InductiveInvariant, PTL DEF IInv

\* The loader never sleeps beside work, and no request is left without thread.
THEOREM NoRequestLost == Spec => []NoLostRequest
BY InductiveInvariant, PTL DEF IInv

\* Each request is handled exactly once, but for exceptions.
THEOREM ExactlyOnce == Spec => []HandledOnce
BY InductiveInvariant, PTL DEF IInv

\* Requests leave the list completed, or dropped by clear() after the join.
THEOREM OnlyCompletedLeave == Spec => LeavesList
<1>1. IInv /\ [Next]_vars => [\A r \in requests \ requests' :
                                      \/ r \in completed
                                      \/ loader' = "none" /\ killed]_vars
  <2> SUFFICES ASSUME IInv, Next, NEW r \in requests \ requests'
                  PROVE  r \in completed \/ (loader' = "none" /\ killed)
    OBVIOUS
  <2>1. CASE EraseRequest
    BY <2>1 DEF EraseRequest, IInv, ReferencesValid, Completed
  <2>2. CASE Join
    BY <2>2 DEF Join, IInv, Joining
  <2>3. CASE ClearIdle
    BY <2>3 DEF ClearIdle, IInv, NoLostRequest
  <2>4. CASE LoadMovie
    BY <2>4 DEF LoadMovie
  <2>5. ASSUME ~EraseRequest, ~Join, ~ClearIdle, ~LoadMovie PROVE requests' = requests
    BY <2>5 DEF Next, CheckKilled, PickRequest, Sleep, SpuriousWakeup,
                CompleteRequest, StartProcessing, FindCompleted, NoneCompleted,
                HandlingReturns, HandlingThrows, Kill, listVars
  <2> QED
    BY <2>1, <2>2, <2>3, <2>4, <2>5
<1> QED
  BY InductiveInvariant, <1>1, PTL DEF Spec, LeavesList
-----------------------------------------------------------------------------
(* The refinement of MovieRequests. *)

\* At the start no request is issued, above and below.
LEMMA StatusStart == Init => Abstract!Init
BY DEF Init, Abstract!Init, StatusOf, Requests, Abstract!Requests

\* The steps that touch neither the list nor the flags are invisible above.
LEMMA Invisible ==
  ASSUME UNCHANGED <<listVars, dropped>>
  PROVE  UNCHANGED [r \in Requests |-> StatusOf(r)]
BY DEF listVars, StatusOf

\* Every step of the two threads is a step of MovieRequests or invisible.
LEMMA StepRefines ==
  IInv /\ [Next]_vars => [Abstract!Next]_([r \in Requests |-> StatusOf(r)])
<1> SUFFICES ASSUME IInv, [Next]_vars
             PROVE  [Abstract!Next]_([r \in Requests |-> StatusOf(r)])
  OBVIOUS
<1> DEFINE status == [r \in Requests |-> StatusOf(r)]
<1> USE MovieLoaderAssumption DEF IInv, TypeOK
<1>1. CASE LoadMovie
  <2> PICK new \in Requests : /\ new = issued + 1 /\ issued' = new
                               /\ requests' = requests \cup {new}
    BY <1>1 DEF LoadMovie, Requests
  <2>1. UNCHANGED <<completed, dropped>>
    BY <1>1 DEF LoadMovie, history
  <2>2. status[new] = "unissued"
    BY DEF StatusOf, Requests
  <2>3. \A s \in Requests : s < new => status[s] # "unissued"
    BY DEF StatusOf, Requests
  <2>4. StatusOf(new)' = "pending"
    BY <2>1 DEF StatusOf, Requests
  <2>5. ASSUME NEW s \in Requests, s # new PROVE StatusOf(s)' = StatusOf(s)
    BY <2>1, <2>5 DEF StatusOf, Requests
  <2>6. status' = [status EXCEPT ![new] = "pending"]
    BY <2>4, <2>5
  <2> QED
    BY <2>2, <2>3, <2>6 DEF Abstract!Next, Abstract!Submit, Abstract!Requests, Requests
<1>2. CASE CompleteRequest
  <2> PICK r \in Requests : /\ r = loading /\ r \in requests
                             /\ r \notin completed
                             /\ completed' = completed \cup {r}
    BY <1>2 DEF Requests, CompleteRequest, ReferencesValid, Pending
  <2>1. UNCHANGED <<issued, requests, dropped>>
    BY <1>2 DEF CompleteRequest, history
  <2>2. r \in Requests /\ r <= issued /\ r \notin dropped
    BY DEF Requests, DroppedGone
  <2>3. status[r] = "pending"
    BY <2>2 DEF StatusOf, Requests
  <2>4. StatusOf(r)' = "answered"
    BY <2>1, <2>2 DEF StatusOf, Requests
  <2>5. ASSUME NEW s \in Requests, s # r PROVE StatusOf(s)' = StatusOf(s)
    BY <2>1, <2>5 DEF StatusOf
  <2>6. status' = [status EXCEPT ![r] = "answered"]
    BY <2>2, <2>4, <2>5
  <2> QED
    BY <2>2, <2>3, <2>6 DEF Abstract!Next, Abstract!Answer, Abstract!Requests, Requests
<1>3. CASE EraseRequest
  <2> PICK r \in Requests : /\ r = handling /\ r \in requests
                             /\ r \in completed
                             /\ requests' = requests \ {r}
    BY <1>3 DEF Requests, EraseRequest, ReferencesValid, Completed
  <2>1. UNCHANGED <<issued, completed, dropped>>
    BY <1>3 DEF EraseRequest, history
  <2>2. r \in Requests /\ r <= issued /\ r \notin dropped
    BY DEF Requests, DroppedGone
  <2>3. status[r] = "answered"
    BY <2>2 DEF StatusOf, Requests
  <2>4. StatusOf(r)' = "handled"
    BY <2>1, <2>2 DEF StatusOf, Requests
  <2>5. ASSUME NEW s \in Requests, s # r PROVE StatusOf(s)' = StatusOf(s)
    BY <2>1, <2>5 DEF StatusOf
  <2>6. status' = [status EXCEPT ![r] = "handled"]
    BY <2>2, <2>4, <2>5
  <2> QED
    BY <2>2, <2>3, <2>6 DEF Abstract!Next, Abstract!Retire, Abstract!Requests, Requests
<1>4. CASE Join \/ ClearIdle
  <2>1. requests' = {} /\ dropped' = dropped \cup requests /\ UNCHANGED <<issued, completed>>
    BY <1>4 DEF Join, ClearIdle
  <2>2. ASSUME NEW s \in Requests
        PROVE  StatusOf(s)' = IF StatusOf(s) \in {"pending", "answered"}
                                THEN "dropped" ELSE StatusOf(s)
    <3>1. CASE s \in requests
      <4>1. s <= issued /\ s \notin dropped /\ s \in dropped'
        BY <3>1, <2>1 DEF DroppedGone
      <4>2. StatusOf(s) \in {"pending", "answered"}
        BY <3>1, <4>1 DEF StatusOf, Requests
      <4> QED
        BY <2>1, <4>1, <4>2 DEF StatusOf, Requests
    <3>2. CASE s \notin requests
      <4>1. StatusOf(s) \notin {"pending", "answered"}
        BY <3>2 DEF StatusOf
      <4> QED
        BY <2>1, <3>2, <4>1 DEF StatusOf
    <3> QED
      BY <3>1, <3>2
  <2>3. status' = [r \in Requests |-> IF status[r] \in {"pending", "answered"}
                                        THEN "dropped" ELSE status[r]]
    BY <2>2
  <2> QED
    BY <2>3 DEF Abstract!Next, Abstract!DropAll, Abstract!Requests, Requests
<1>5. CASE ~(LoadMovie \/ CompleteRequest \/ EraseRequest \/ Join \/ ClearIdle)
  <2>1. UNCHANGED <<listVars, dropped>>
    BY <1>5 DEF Next, CheckKilled, PickRequest, Sleep, SpuriousWakeup,
                StartProcessing, FindCompleted, NoneCompleted, HandlingReturns,
                HandlingThrows, Kill, vars, history
  <2> QED
    BY <2>1, Invisible
<1> QED
  BY <1>1, <1>2, <1>3, <1>4, <1>5

\* The loader implements the abstract life of its requests.
THEOREM Refinement == Spec => ImplementsRequests
BY StatusStart, InductiveInvariant, StepRefines, PTL
   DEF Spec, ImplementsRequests, Abstract!Spec
================================================================================
