------------------------------ MODULE MovieLoader ------------------------------
(***************************************************************************)
(* The asynchronous loader of external movies (libcore/MovieLoader.cpp).   *)
(*                                                                         *)
(* The main thread queues requests (loadMovie), handles the completed ones *)
(* once per frame (processCompletedRequests) and stops the thread (clear). *)
(* The loader thread (processRequests) serves the first pending request of *)
(* the list and sleeps on _wakeup when there is none.                      *)
(*                                                                         *)
(* A request is the number of the loadMovie call that made it.  loadMovie  *)
(* only ever pushes at the FRONT of _requests, so the list is the set of   *)
(* its members in descending order and its first element is the maximum.   *)
(* A section under _requestsMutex is one step; what runs between two       *)
(* sections, or reads _killed without the mutex, is a step of its own.     *)
(* URLs, post data, targets and the loaded movies themselves are left out: *)
(* a result only decides whether ActionScript runs while it is handled.    *)
(***************************************************************************)
EXTENDS Integers

CONSTANTS
  MaxRequests,   \* bound on the calls of loadMovie
  MaxThrows      \* bound on the exceptions that leave one request's handling

ASSUME MovieLoaderAssumption == /\ MaxRequests \in Nat \ {0}
                                /\ MaxThrows \in Nat

Requests == 1..MaxRequests
None == 0

VARIABLES
  issued,      \* how many requests loadMovie has made
  requests,    \* _requests
  completed,   \* the requests whose _completed flag is set
  killed,      \* _killed
  loader,      \* where the loader thread is; "none" is !_thread.joinable()
  loading,     \* the request processRequest holds a reference to
  main,        \* where the main thread is
  handling,    \* the element `it` of processCompletedRequests points to
  attempts,    \* how often each request was given to processCompletedRequest
  thrown,      \* how often an exception left that call
  dropped      \* the requests thrown away by clearRequests

listVars   == <<issued, requests, completed>>
loaderVars == <<loader, loading>>
mainVars   == <<main, handling>>
history    == <<attempts, thrown, dropped>>
vars == <<listVars, killed, loaderVars, mainVars, history>>

Pending(r)   == r \in requests /\ r \notin completed
Completed(r) == r \in requests /\ r \in completed

\* r is the first element of the list that is pending: the youngest one.
FirstPending(r) == Pending(r) /\ \A s \in requests : Pending(s) => s <= r

\* Mutant: the main thread takes the first request, completed or not.
FirstCompletedAny(r) == r \in requests /\ \A s \in requests : s <= r

\* Mutant: the last element is never looked at (`it` stops one short of endIt).
FirstCompletedButLast(r) ==
  /\ Completed(r) /\ \E s \in requests : s < r
  /\ \A s \in requests : Completed(s) => s <= r

\* The same for completed.
FirstCompleted(r) == Completed(r) /\ \A s \in requests : Completed(s) => s <= r

Init ==
  /\ issued = 0 /\ requests = {} /\ completed = {}
  /\ killed = FALSE
  /\ loader = "none" /\ loading = None
  /\ main = "idle" /\ handling = None
  /\ attempts = [r \in Requests |-> 0]
  /\ thrown = [r \in Requests |-> 0]
  /\ dropped = {}

\* Mutant: the notification is missing.
NotifiedNever == loader

\* _wakeup.notify_all(): a sleeping loader goes back to the head of its loop.
Notified == IF loader = "wait" THEN "check" ELSE loader

-----------------------------------------------------------------------------
(* The loader thread. *)

\* `if (_killed.load()) return;`, read before the mutex is taken.
CheckKilled ==
  /\ loader = "check"
  /\ loader' = IF killed THEN "exit" ELSE "scan"
  /\ UNCHANGED <<listVars, killed, loading, mainVars, history>>

\* Under the mutex: find the first pending request and release the mutex...
PickRequest ==
  /\ loader = "scan"
  /\ \E r \in requests : FirstPending(r) /\ loading' = r
  /\ loader' = "load"
  /\ UNCHANGED <<listVars, killed, mainVars, history>>

\* Mutant: `it == endIt` is not tested, and the end of the list is served.
SleepFallsThrough ==
  /\ loader = "scan"
  /\ \A r \in requests : ~Pending(r)
  /\ loader' = "load"
  /\ UNCHANGED <<listVars, killed, loading, mainVars, history>>

\* ...or, when there is none, sleep (the wait releases the mutex atomically).
Sleep ==
  /\ loader = "scan"
  /\ \A r \in requests : ~Pending(r)
  /\ loader' = "wait"
  /\ UNCHANGED <<listVars, killed, loading, mainVars, history>>

\* condition_variable::wait may return without a notification.
SpuriousWakeup ==
  /\ loader = "wait"
  /\ loader' = "check"
  /\ UNCHANGED <<listVars, killed, loading, mainVars, history>>

\* processRequest: makeMovie returned, with a movie or without, setCompleted.
CompleteRequest ==
  /\ loader = "load"
  /\ completed' = completed \cup {loading}
  /\ loader' = "check"
  /\ loading' = None
  /\ UNCHANGED <<issued, requests, killed, mainVars, history>>

LoaderStep == CheckKilled \/ PickRequest \/ Sleep \/ CompleteRequest

-----------------------------------------------------------------------------
(* The main thread. *)

\* loadMovie, from anywhere in the main thread: from outside the loader or
\* from ActionScript that runs while a completed request is handled.
LoadMovie ==
  /\ main \in {"idle", "callback"}
  /\ issued < MaxRequests
  /\ issued' = issued + 1
  /\ requests' = requests \cup {issued + 1}
  /\ IF loader = "none"
       THEN killed' = FALSE /\ loader' = "check"
       ELSE loader' = Notified /\ UNCHANGED killed
  /\ UNCHANGED <<completed, loading, mainVars, history>>

\* movie_root::advanceMovie calls processCompletedRequests.
StartProcessing ==
  /\ main = "idle"
  /\ main' = "find"
  /\ UNCHANGED <<listVars, killed, loaderVars, handling, history>>

\* One turn of its loop, under the mutex: the first completed request is
\* handed, mutex released, to processCompletedRequest...
FindCompleted ==
  /\ main = "find"
  /\ \E r \in requests :
       /\ FirstCompleted(r)
       /\ handling' = r
       /\ attempts' = [attempts EXCEPT ![r] = @ + 1]
  /\ main' = "callback"
  /\ UNCHANGED <<listVars, killed, loaderVars, thrown, dropped>>

\* ...and without one the call returns.
NoneCompleted ==
  /\ main = "find"
  /\ \A r \in requests : ~Completed(r)
  /\ main' = "idle"
  /\ UNCHANGED <<listVars, killed, loaderVars, handling, history>>

\* processCompletedRequest returns true on every path: load error, no movie
\* instance, target gone, or movie placed and its load events broadcast.
HandlingReturns ==
  /\ main = "callback"
  /\ main' = "erase"
  /\ UNCHANGED <<listVars, killed, loaderVars, handling, history>>

\* An ActionLimitException or ActionParserException of a handler leaves the
\* whole call and is caught in movie_root::advance: the request stays.
HandlingThrows ==
  /\ main = "callback"
  /\ thrown[handling] < MaxThrows
  /\ thrown' = [thrown EXCEPT ![handling] = @ + 1]
  /\ main' = "idle"
  /\ handling' = None
  /\ UNCHANGED <<listVars, killed, loaderVars, attempts, dropped>>

\* Mutant: the handled request stays in the list.
EraseRequestKeeps ==
  /\ main = "erase"
  /\ main' = "find"
  /\ handling' = None
  /\ UNCHANGED <<listVars, killed, loaderVars, history>>

\* Mutant: pop_front() in place of erase(it).
EraseRequestPopsFront ==
  /\ main = "erase"
  /\ requests' = {r \in requests : \E s \in requests : s > r}
  /\ main' = "find"
  /\ handling' = None
  /\ UNCHANGED <<issued, completed, killed, loaderVars, history>>

\* requestsLock.lock(); _requests.erase(it).
EraseRequest ==
  /\ main = "erase"
  /\ requests' = requests \ {handling}
  /\ main' = "find"
  /\ handling' = None
  /\ UNCHANGED <<issued, completed, killed, loaderVars, history>>

\* clear() while the thread exists: under the mutex, raise the flag and notify.
Kill ==
  /\ main = "idle"
  /\ loader # "none"
  /\ killed' = TRUE
  /\ loader' = Notified
  /\ main' = "join"
  /\ UNCHANGED <<listVars, loading, handling, history>>

\* ...then _thread.join() returns and clearRequests runs without the mutex.
Join ==
  /\ main = "join"
  /\ loader = "exit"
  /\ loader' = "none"
  /\ requests' = {}
  /\ dropped' = dropped \cup requests
  /\ main' = "idle"
  /\ UNCHANGED <<issued, completed, killed, loading, handling, attempts, thrown>>

\* clear() without a thread only clears the list.
ClearIdle ==
  /\ main = "idle"
  /\ loader = "none"
  /\ requests' = {}
  /\ dropped' = dropped \cup requests
  /\ UNCHANGED <<issued, completed, killed, loaderVars, mainVars, attempts, thrown>>

Next ==
  \/ CheckKilled \/ PickRequest \/ Sleep \/ SpuriousWakeup \/ CompleteRequest
  \/ LoadMovie
  \/ StartProcessing \/ FindCompleted \/ NoneCompleted
  \/ HandlingReturns \/ HandlingThrows \/ EraseRequest
  \/ Kill \/ Join \/ ClearIdle

Spec == Init /\ [][Next]_vars

(***************************************************************************)
(* Fairness: the operating system runs the loader thread and makeMovie     *)
(* returns; the main loop keeps advancing frames, the handlers return, and *)
(* join returns once the thread has.  Nothing obliges anyone to call       *)
(* loadMovie or clear, and nothing promises a spurious wakeup.             *)
(***************************************************************************)
Fairness ==
  /\ WF_vars(LoaderStep)
  /\ WF_vars(StartProcessing)
  /\ WF_vars(FindCompleted \/ NoneCompleted)
  /\ WF_vars(HandlingReturns)
  /\ WF_vars(EraseRequest)
  /\ WF_vars(Join)

FairSpec == Spec /\ Fairness

-----------------------------------------------------------------------------
(* Properties. *)

\* Every variable keeps its type.
TypeOK ==
  /\ issued \in 0..MaxRequests
  /\ requests \subseteq 1..issued
  /\ completed \subseteq 1..issued
  /\ killed \in BOOLEAN
  /\ loader \in {"none", "check", "scan", "wait", "load", "exit"}
  /\ loading \in Requests \cup {None}
  /\ main \in {"idle", "find", "callback", "erase", "join"}
  /\ handling \in Requests \cup {None}
  /\ attempts \in [Requests -> Nat]
  /\ thrown \in [Requests -> 0..MaxThrows]
  /\ dropped \subseteq 1..issued

\* Both threads use an element of _requests after the mutex is released: the
\* loader a Request& in processRequest, the main thread an iterator it later
\* erases.  Whatever the other thread, and loadMovie called from a handler, do
\* meanwhile, the element stays in the list, and they never share one.
ReferencesValid ==
  /\ loader = "load" => Pending(loading)
  /\ main \in {"callback", "erase"} => Completed(handling)

\* The loader thread never sleeps beside work it could do, and no request is
\* left in the list of a MovieLoader that has no thread to serve it.
NoLostRequest ==
  /\ loader = "wait" => \A r \in requests : ~Pending(r)
  /\ loader = "none" => requests = {}

\* Handling is exactly-once per request, but for exceptions: a request is
\* handled again only after its handling threw, a request that left the list
\* was handled to its end once or was dropped by clear(), never both, and one
\* still pending was not handled at all.
Handled(r) == r \in 1..issued /\ r \notin requests /\ r \notin dropped
InHandling(r) == main \in {"callback", "erase"} /\ handling = r
HandledOnce ==
  \A r \in Requests :
    attempts[r] = thrown[r] + IF Handled(r) \/ InHandling(r) THEN 1 ELSE 0

\* clear() forgets requests only when no thread is left that could be using
\* one; outside clear(), a request leaves the list only once it is completed.
LeavesList ==
  [][ \A r \in requests \ requests' :
        \/ r \in completed
        \/ loader' = "none" /\ killed ]_vars

\* Every request is completed, handled and leaves the list, unless the loader
\* is stopped.
EventuallyHandled ==
  \A r \in Requests : (r \in requests) ~> (r \notin requests \/ main = "join")

\* What became of request r, read off the list and the flags.
StatusOf(r) ==
  IF r > issued THEN "unissued"
  ELSE IF r \in dropped THEN "dropped"
  ELSE IF r \notin requests THEN "handled"
  ELSE IF r \in completed THEN "answered" ELSE "pending"

Abstract == INSTANCE MovieRequests WITH status <- [r \in Requests |-> StatusOf(r)]

\* The two threads together keep the promise of MovieRequests: whatever their
\* interleaving, a request is answered and handled in that order, once, and is
\* lost only when the whole loader is cleared.
ImplementsRequests == Abstract!Spec

\* "Drop all requests and kill the thread" (MovieLoader.h:79): clear() returns.
ClearReturns == (main = "join") ~> (main = "idle")
================================================================================
