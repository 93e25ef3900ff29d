----------------------------- MODULE HttpExchange -----------------------------
(***************************************************************************)
(* One HTTP exchange as its user sees it: the callbacks for the header,    *)
(* for the data and for the end come in this order or the exchange fails   *)
(* on the way; the user may stop it, and starts another one only when this *)
(* one has ended.  HttpResponseParser implements what one answer does to   *)
(* it, HttpClient what becomes of a request over all its runs.             *)
(***************************************************************************)
EXTENDS Integers

VARIABLES
  phase,   \* "wait" for the header, "body", or how the exchange ended
  status,  \* the status of the last answer
  code,    \* what the user takes for the result
  number   \* how many exchanges were started

vars == <<phase, status, code, number>>

\* A connection or a protocol error.
Failure == 999

\* The status is the result, as soon as there is data; 200 is success.
Code(s) == IF s = 200 THEN 0 ELSE s

Start ==
  /\ phase \notin {"wait", "body"}
  /\ phase' = "wait"
  /\ number' = number + 1
  /\ UNCHANGED <<status, code>>

\* The header of the final answer, whatever interim ones came before.
Begin ==
  /\ phase = "wait"
  /\ phase' = "body"
  /\ status' \in 101 .. 999
  /\ code' = 0
  /\ UNCHANGED number

Data ==
  /\ phase = "body"
  /\ code' = Code(status)
  /\ UNCHANGED <<phase, status, number>>

\* The end may come with the last data.
Complete ==
  /\ phase = "body"
  /\ phase' = "complete"
  /\ code' \in {code, Code(status)}
  /\ UNCHANGED <<status, number>>

Fail ==
  /\ phase \in {"wait", "body"}
  /\ phase' = "failed"
  /\ code' = Failure
  /\ UNCHANGED <<status, number>>

Stop ==
  /\ phase \in {"wait", "body"}
  /\ phase' = "stopped"
  /\ UNCHANGED <<status, code, number>>

Init ==
  /\ \/ phase = "none" /\ number = 0
     \/ phase = "wait" /\ number = 1
  /\ status = 0 /\ code = 0

Next == Start \/ Begin \/ Data \/ Complete \/ Fail \/ Stop

Spec == Init /\ [][Next]_vars
=============================================================================
