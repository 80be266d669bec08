----------------------------- MODULE MovieRequests -----------------------------
(***************************************************************************)
(* What the asynchronous movie loader promises to the code that calls      *)
(* loadMovie (libcore/MovieLoader.h): every request is submitted once, in  *)
(* the order of the calls, is answered once by the loader, is then handled *)
(* once by the main thread, and disappears otherwise only when the whole   *)
(* loader is cleared.  Threads, locks and the list itself are not seen.    *)
(***************************************************************************)
EXTENDS Integers

CONSTANT MaxRequests   \* bound on the requests

Requests == 1..MaxRequests

VARIABLE status        \* what became of each request

Init == status = [r \in Requests |-> "unissued"]

\* loadMovie: the requests are numbered in the order of the calls.
Submit(r) ==
  /\ status[r] = "unissued"
  /\ \A s \in Requests : s < r => status[s] # "unissued"
  /\ status' = [status EXCEPT ![r] = "pending"]

\* The loader has an answer, a movie or none.
Answer(r) ==
  /\ status[r] = "pending"
  /\ status' = [status EXCEPT ![r] = "answered"]

\* The main thread has handled the answer to the end.
Retire(r) ==
  /\ status[r] = "answered"
  /\ status' = [status EXCEPT ![r] = "handled"]

\* clear() drops whatever is still in flight.
DropAll ==
  status' = [r \in Requests |-> IF status[r] \in {"pending", "answered"}
                                  THEN "dropped" ELSE status[r]]

Next == (\E r \in Requests : Submit(r) \/ Answer(r) \/ Retire(r)) \/ DropAll

Spec == Init /\ [][Next]_status
================================================================================
