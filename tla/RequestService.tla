--------------------------- MODULE RequestService ---------------------------
(***************************************************************************)
(* What the HttpClient promises the rest of the program: every request is  *)
(* delivered to its finish callback or dropped, callbacks run one at a     *)
(* time, none is delivered twice unless a callback has thrown, and nothing *)
(* is delivered after the client is closed.  HttpClient implements it;     *)
(* DeviceRegistry uses it.                                                 *)
(***************************************************************************)
CONSTANTS
  Requests,  \* the requests that may be made
  Nobody     \* no request

VARIABLES
  request,     \* the state of every request
  delivering,  \* the request whose callback runs
  closed,      \* the destructor has stopped the request handler thread
  thrown       \* a callback has thrown

vars == <<request, delivering, closed, thrown>>

Pending == {r \in Requests : request[r] = "pending"}

\* HttpClient::request, also from a callback.
Ask(r) ==
  /\ ~closed
  /\ request[r] = "none"
  /\ request' = [request EXCEPT ![r] = "pending"]
  /\ UNCHANGED <<delivering, closed>> /\ thrown' = thrown

\* The finish callback of a request is called; once a callback has thrown, also of
\* requests that were delivered before.
Deliver(r) ==
  /\ ~closed
  /\ delivering = Nobody
  /\ request[r] = "pending" \/ (thrown /\ request[r] = "delivered")
  /\ request' = [request EXCEPT ![r] = "delivered"]
  /\ delivering' = r
  /\ UNCHANGED closed /\ thrown' = thrown

CallbackReturns ==
  /\ delivering # Nobody
  /\ delivering' = Nobody
  /\ UNCHANGED <<request, closed>> /\ thrown' = thrown

CallbackThrows ==
  /\ delivering # Nobody
  /\ delivering' = Nobody
  /\ thrown' = TRUE
  /\ UNCHANGED <<request, closed>>

\* Requests that were aborted, or destroyed with the client, are never delivered.
Drop(R) ==
  /\ R \subseteq Pending
  /\ request' = [r \in Requests |-> IF r \in R THEN "dropped" ELSE request[r]]
  /\ UNCHANGED <<delivering, closed>> /\ thrown' = thrown

\* The destructor waits for the callback that runs.
Close ==
  /\ delivering = Nobody
  /\ closed' = TRUE
  /\ UNCHANGED <<request, delivering>> /\ thrown' = thrown

Init == /\ request = [r \in Requests |-> "none"]
        /\ delivering = Nobody
        /\ closed = FALSE
        /\ thrown = FALSE

Next == \/ \E r \in Requests : Ask(r) \/ Deliver(r)
        \/ CallbackReturns \/ CallbackThrows
        \/ \E R \in SUBSET Requests : Drop(R)
        \/ Close

Spec == Init /\ [][Next]_vars
=============================================================================
