-------------------------- MODULE HttpClientProofs --------------------------
(***************************************************************************)
(* Theorems about HttpClient, for every set of requests and callers and    *)
(* every bound.                                                            *)
(***************************************************************************)
EXTENDS HttpClient, TLAPS

\* mutexRequestMap is held exactly in the sections between lock and unlock, the
\* iteration it protects is empty when it is free, and once a caller destroys the
\* client the other callers are idle and the handler ends before the map does.  A
\* callback that runs belongs to an element of the handler's vector, which ends with the
\* handler.
ControlInv ==
  /\ mutexRequestMap = Handler <=> handler \in {"scan", "join", "erase"}
  /\ \A c \in Callers : mutexRequestMap = c <=> call[c] \in {"abort", "join"}
  /\ mutexRequestMap = NoThread => todo = {}
  /\ \A c \in Callers :
       /\ call[c] \in {"setFlag", "joinHandler", "destroy", "gone"} => closer = c
       /\ closer \notin {NoThread, c} => call[c] = "idle"
       /\ call[c] \in {"destroy", "gone"} => handler \in {"off", "exited"}
  /\ handler = "callback" => emitPos <= Len(finishedRequests)
  /\ handler \in {"off", "exited"} => finishedRequests = <<>>

Inv1 == TypeOK /\ ControlInv

LEMMA InitInv1 == Init => Inv1
<1> SUFFICES ASSUME Init PROVE Inv1
  OBVIOUS
<1>1. TypeOK
  <2>1. finishedRequests \in Seq(Requests)
    BY DEF Init
  <2>2. abortRequestHandlerThread \in BOOLEAN
    BY DEF Init
  <2>3. QED
    BY <2>1, <2>2, HttpClientAssumption DEF Init, TypeOK, ErrorCodes
<1>2. ControlInv
  BY HttpClientAssumption DEF Init, ControlInv
<1>3. QED
  BY <1>1, <1>2 DEF Inv1

LEMMA NextInv1 == Inv1 /\ [Next]_vars => Inv1'
<1> SUFFICES ASSUME Inv1, [Next]_vars PROVE Inv1'
  OBVIOUS
<1> USE HttpClientAssumption DEF Inv1, TypeOK, ControlInv
<1> USE DEF flagVars, responseVars, runVars, requestVars, mapVars, vectorVars, handlerVars, callerVars
<1>1. ASSUME NEW r \in Requests, Pump(r) PROVE Inv1'
  <2>1. CASE PumpConnect(r)
    BY <2>1 DEF PumpConnect
  <2>2. CASE PumpBegin(r)
    <3>1. PICK s \in Statuses :
            /\ status' = [status EXCEPT ![r] = s]
            /\ redirection' = IF s = 307 THEN redirection \cup {r} ELSE redirection
      BY <2>2 DEF PumpBegin
    <3>2. UNCHANGED <<finished, deleteable, stopRequestThread, runs, reports, mapVars, handlerVars,
                      callerVars>>
      BY <2>2 DEF PumpBegin
    <3>3. /\ pump' = [pump EXCEPT ![r] = "body"]
          /\ errorCode' = [errorCode EXCEPT ![r] = 0]
          /\ responseRun' = [responseRun EXCEPT ![r] = runs[r]]
      BY <2>2 DEF PumpBegin
    <3>4. TypeOK'
      BY <3>1, <3>2, <3>3, SMTT(20) DEF ErrorCodes
    <3>5. ControlInv'
      BY <3>2
    <3>6. QED
      BY <3>4, <3>5
  <2>3. CASE PumpData(r)
    BY <2>3, SMTT(20) DEF PumpData, ErrorCodes
  <2>4. CASE PumpComplete(r)
    BY <2>4 DEF PumpComplete
  <2>5. CASE PumpFail(r)
    BY <2>5, SMTT(20) DEF PumpFail, ErrorCodes
  <2>6. CASE PumpStop(r)
    BY <2>6 DEF PumpStop
  <2>7. CASE PumpEnd(r)
    BY <2>7 DEF PumpEnd
  <2>8. QED
    BY <1>1, <2>1, <2>2, <2>3, <2>4, <2>5, <2>6, <2>7 DEF Pump
<1>2. ASSUME NEW t \in Callers \cup {Handler}, Request(t) PROVE Inv1'
  <2>1. PICK r \in Requests : requestMap' = requestMap \cup {r} /\ DoRequest(r)
    BY <1>2 DEF Request
  <2>2. mutexRequestMap = NoThread /\ UNCHANGED <<mutexRequestMap, todo, current>>
    BY <1>2 DEF Request, LockFree
  <2>3. UNCHANGED <<handlerVars, callerVars>>
    BY <1>2 DEF Request
  <2>4. TypeOK'
    BY <2>1, <2>2, <2>3, SMTT(20) DEF DoRequest
  <2>5. ControlInv'
    BY <2>2, <2>3
  <2>q. QED
    BY <2>4, <2>5
<1>3. ASSUME NEW c \in Callers, Caller(c) PROVE Inv1'
  <2>1. CASE InitClient(c)
    BY <2>1, ZenonT(30) DEF InitClient
  <2>2. CASE Request(c)
    BY <1>2, <2>2
  <2>3. CASE CallAbort(c)
    <3>1. TypeOK'
      BY <2>3 DEF CallAbort
    <3>2. ControlInv'
      BY <2>3 DEF CallAbort
    <3>3. QED
      BY <3>1, <3>2
  <2>4. CASE CallDestroy(c)
    <3>1. TypeOK'
      BY <2>4 DEF CallDestroy
    <3>2. ControlInv'
      BY <2>4, SMTT(30) DEF CallDestroy
    <3>3. QED
      BY <3>1, <3>2
  <2>5. CASE AbortLock(c)
    BY <2>5 DEF AbortLock, LockFree
  <2>6. CASE AbortNext(c)
    BY <2>6 DEF AbortNext
  <2>7. CASE AbortJoin(c)
    BY <2>7 DEF AbortJoin
  <2>8. CASE AbortUnlock(c)
    BY <2>8 DEF AbortUnlock
  <2>9. CASE StopHandler(c)
    <3>1. abortRequestHandlerThread' \in BOOLEAN
      BY <2>9 DEF StopHandler
    <3>2. TypeOK'
      BY <2>9, <3>1 DEF StopHandler
    <3>3. ControlInv'
      BY <2>9 DEF StopHandler
    <3>4. QED
      BY <3>2, <3>3
  <2>10. CASE JoinHandler(c)
    BY <2>10 DEF JoinHandler, HandlerJoined
  <2>11. CASE DestroyStop(c)
    BY <2>11 DEF DestroyStop
  <2>12. CASE DestroyJoin(c)
    <3>1. mutexRequestMap = NoThread
      BY <2>12, ZenonT(30) DEF DestroyJoin
    <3>2. QED
      BY <2>12, <3>1 DEF DestroyJoin
  <2>13. CASE Destroyed(c)
    BY <2>13 DEF Destroyed
  <2>14. QED
    BY <1>3, <2>1, <2>2, <2>3, <2>4, <2>5, <2>6, <2>7, <2>8, <2>9, <2>10, <2>11,
       <2>12, <2>13 DEF Caller
<1>4. ASSUME RequestHandler PROVE Inv1'
  <2>1. CASE HandlerCheck
    BY <2>1 DEF HandlerCheck
  <2>2. CASE HandlerLock
    BY <2>2 DEF HandlerLock, LockFree
  <2>3. CASE HandlerScan
    BY <2>3 DEF HandlerScan
  <2>4. CASE HandlerRedirect
    BY <2>4 DEF HandlerRedirect, RedirectStop
  <2>5. CASE HandlerRestart
    BY <2>5 DEF HandlerRestart, DoRequest
  <2>6. CASE HandlerUnlock
    BY <2>6 DEF HandlerUnlock, FirstElement
  <2>7. CASE HandlerEmit
    <3>1. finishedRequests[emitPos] \in Requests
      BY <2>7 DEF HandlerEmit
    <3>2. reports' \in [Requests -> Nat]
      BY <2>7, <3>1, SMTT(30) DEF HandlerEmit
    <3>3. TypeOK'
      BY <2>7, <3>2 DEF HandlerEmit
    <3>4. ControlInv'
      BY <2>7 DEF HandlerEmit
    <3>5. QED
      BY <3>3, <3>4
  <2>8. CASE CallbackReturns
    BY <2>8, SMTT(30) DEF CallbackReturns, MarkReported
  <2>9. CASE CallbackThrows
    BY <2>9, SMTT(30) DEF CallbackThrows
  <2>10. CASE HandlerClear
    BY <2>10 DEF HandlerClear, ReleaseVector, Released
  <2>11. CASE CleanupLock
    BY <2>11 DEF CleanupLock, LockFree
  <2>12. CASE CleanupErase
    BY <2>12 DEF CleanupErase
  <2>13. CASE CleanupUnlock
    BY <2>13 DEF CleanupUnlock
  <2>14. CASE Request(Handler)
    BY <1>2, <2>14
  <2>15. CASE HandlerExit
    BY <2>15 DEF HandlerExit, ReleaseVector, Released
  <2>q. QED
    BY <1>4, <2>1, <2>2, <2>3, <2>4, <2>5, <2>6, <2>7, <2>8, <2>9, <2>10, <2>11,
       <2>12, <2>13, <2>14, <2>15 DEF RequestHandler
<1>5. CASE UNCHANGED vars
  BY <1>5 DEF vars
<1>6. QED
  BY <1>1, <1>3, <1>4, <1>5 DEF Next, Gone

\* The type invariant holds in every reachable state.
THEOREM TypeCorrect == Spec => []TypeOK
<1>1. Inv1 => TypeOK
  BY DEF Inv1
<1>2. QED
  BY <1>1, InitInv1, NextInv1, PTL DEF Spec

-----------------------------------------------------------------------------
\* What every request satisfies: a finished run has made the response and is ending or has
\* ended, a deleteable request is quiet, a receiving request is in the map, and one whose
\* thread is ending is in the map or in the handler's vector.
RunInv ==
  \A r \in Requests :
    /\ r \in finished => pump[r] \in {"ending", "exited"} /\ responseRun[r] = runs[r]
    /\ pump[r] = "body" => responseRun[r] = runs[r]
    /\ r \in deleteable => ~Receiving(r)
    /\ runs[r] = 0 => pump[r] = "none"
    /\ pump[r] = "ending" => r \in finished
    /\ Receiving(r) => r \in requestMap
    /\ Running(r) => r \in requestMap \/ Held(r)

\* The vector holds finished requests that are no redirections: they never run again.
VectorInv ==
  \A i \in 1..Len(finishedRequests) : finishedRequests[i] \in finished \ redirection

\* What an iteration of the map has established so far.
IterationInv ==
  /\ handler = "join" => current \in requestMap \cap redirection
  /\ handler = "erase" => todo \subseteq deleteable
  /\ \A c \in Callers :
       /\ call[c] = "abort" => \A r \in requestMap \ todo : ~Running(r)
       /\ call[c] = "join" => \A r \in requestMap \ (todo \cup {current}) : ~Running(r)
       /\ call[c] = "gone" => \A r \in Requests : ~Running(r)

Inv2 == RunInv /\ VectorInv /\ IterationInv

LEMMA InitInv2 == Init => Inv2
BY DEF Init, Inv2, RunInv, VectorInv, IterationInv, Running, Receiving

\* Append adds one element.
LEMMA ElementsOfAppend ==
  ASSUME NEW S, NEW s \in Seq(S), NEW e \in S, NEW q
  PROVE  (\E i \in 1..Len(Append(s, e)) : Append(s, e)[i] = q)
           <=> (\E i \in 1..Len(s) : s[i] = q) \/ q = e
<1> DEFINE t == Append(s, e)
<1>1. /\ Len(s) \in Nat /\ Len(t) = Len(s) + 1
      /\ \A i \in 1..Len(s) : t[i] = s[i]
      /\ t[Len(s) + 1] = e
  OBVIOUS
<1> HIDE DEF t
<1>2. ASSUME NEW i \in 1..Len(s) PROVE i \in 1..Len(t) /\ t[i] = s[i]
  BY <1>1
<1>3. Len(t) \in 1..Len(t) /\ t[Len(t)] = e
  BY <1>1
<1>4. ASSUME NEW i \in 1..Len(t), t[i] # e PROVE i \in 1..Len(s) /\ s[i] = t[i]
  BY <1>1, <1>4
<1>5. (\E i \in 1..Len(t) : t[i] = q) <=> (\E i \in 1..Len(s) : s[i] = q) \/ q = e
  BY <1>2, <1>3, <1>4
<1>q. QED BY <1>5 DEF t

LEMMA HeldAppend ==
  ASSUME TypeOK, NEW e \in Requests, finishedRequests' = Append(finishedRequests, e), NEW q
  PROVE  Held(q)' <=> Held(q) \/ q = e
<1>1. finishedRequests \in Seq(Requests)
  BY DEF TypeOK
<1>2. (\E i \in 1..Len(Append(finishedRequests, e)) : Append(finishedRequests, e)[i] = q)
        <=> (\E i \in 1..Len(finishedRequests) : finishedRequests[i] = q) \/ q = e
  BY <1>1, ElementsOfAppend
<1>q. QED
  BY <1>2 DEF Held

\* When the vector lets its requests go, those that only it held have ended.
LEMMA VectorReleased ==
  ASSUME Inv1, RunInv, ReleaseVector,
         UNCHANGED <<finished, deleteable, runVars, mapVars>>
  PROVE  RunInv'
<1>1. UNCHANGED <<finished, deleteable, pump, responseRun, runs, requestMap>>
  BY DEF runVars, responseVars, mapVars
<1>2. \A r \in Requests : Running(r) => r \in requestMap
  BY DEF RunInv, ReleaseVector, Released, Joined
<1>q. QED
  BY <1>1, <1>2 DEF RunInv, Running, Receiving

LEMMA NextRunInv == Inv1 /\ Inv2 /\ [Next]_vars => RunInv'
<1> SUFFICES ASSUME Inv1 /\ Inv2, [Next]_vars PROVE RunInv'
  OBVIOUS
<1> USE HttpClientAssumption DEF Inv1, Inv2, TypeOK, ControlInv, RunInv, Running, Receiving
<1> USE DEF flagVars, responseVars, runVars, requestVars, mapVars, vectorVars, handlerVars,
            callerVars
<1>1. ASSUME NEW r \in Requests, Pump(r) PROVE RunInv'
  <2>1. CASE PumpConnect(r)
    BY <2>1 DEF PumpConnect, Held
  <2>2. CASE PumpBegin(r)
    BY <2>2, SMTT(20) DEF PumpBegin, Held
  <2>3. CASE PumpData(r)
    BY <2>3 DEF PumpData, Held
  <2>4. CASE PumpComplete(r)
    BY <2>4 DEF PumpComplete, Held
  <2>5. CASE PumpFail(r)
    BY <2>5 DEF PumpFail, Held
  <2>6. CASE PumpStop(r)
    BY <2>6 DEF PumpStop, Held
  <2>7. CASE PumpEnd(r)
    BY <2>7 DEF PumpEnd, Held
  <2>8. QED
    BY <1>1, <2>1, <2>2, <2>3, <2>4, <2>5, <2>6, <2>7 DEF Pump
<1>2. ASSUME NEW t \in Callers \cup {Handler}, Request(t) PROVE RunInv'
  BY <1>2 DEF Request, LockFree, DoRequest, Held
<1>3. ASSUME NEW c \in Callers, Caller(c) PROVE RunInv'
  <2>1. CASE InitClient(c)
    BY <2>1 DEF InitClient, Held
  <2>2. CASE Request(c)
    BY <1>2, <2>2
  <2>3. CASE CallAbort(c)
    BY <2>3 DEF CallAbort, Held
  <2>4. CASE CallDestroy(c)
    BY <2>4 DEF CallDestroy, Held
  <2>5. CASE AbortLock(c)
    BY <2>5 DEF AbortLock, LockFree, Held
  <2>6. CASE AbortNext(c)
    BY <2>6 DEF AbortNext, Held
  <2>7. CASE AbortJoin(c)
    BY <2>7 DEF AbortJoin, Joined, Held
  <2>8. CASE AbortUnlock(c)
    BY <2>8 DEF AbortUnlock, Held
  <2>9. CASE StopHandler(c)
    BY <2>9 DEF StopHandler, Held
  <2>10. CASE JoinHandler(c)
    BY <2>10 DEF JoinHandler, HandlerJoined, Held
  <2>11. CASE DestroyStop(c)
    BY <2>11 DEF DestroyStop, Held
  <2>12. CASE DestroyJoin(c)
    BY <2>12 DEF DestroyJoin, Joined, Held
  <2>13. CASE Destroyed(c)
    BY <2>13 DEF Destroyed, Held
  <2>14. QED
    BY <1>3, <2>1, <2>2, <2>3, <2>4, <2>5, <2>6, <2>7, <2>8, <2>9, <2>10, <2>11, <2>12,
       <2>13 DEF Caller
<1>4. ASSUME RequestHandler PROVE RunInv'
  <2>1. CASE HandlerCheck
    BY <2>1 DEF HandlerCheck, Held
  <2>2. CASE HandlerLock
    BY <2>2 DEF HandlerLock, LockFree, Held
  <2>3. CASE HandlerScan
    <3>1. ASSUME NEW r \in Requests, Held(r) PROVE Held(r)'
      <4>1. PICK q \in Requests : \/ finishedRequests' = Append(finishedRequests, q)
                                 \/ finishedRequests' = finishedRequests
        BY <2>3 DEF HandlerScan
      <4>2. CASE finishedRequests' = Append(finishedRequests, q)
        BY <3>1, <4>2, HeldAppend
      <4>3. CASE finishedRequests' = finishedRequests
        BY <3>1, <4>3 DEF Held
      <4>q. QED
        BY <4>1, <4>2, <4>3
    <3>2. UNCHANGED <<finished, deleteable, pump, responseRun, runs, requestMap>>
      BY <2>3 DEF HandlerScan
    <3>q. QED
      BY <3>1, <3>2
  <2>4. CASE HandlerRedirect
    BY <2>4 DEF HandlerRedirect, RedirectStop, Held
  <2>5. CASE HandlerRestart
    BY <2>5 DEF HandlerRestart, DoRequest, Joined, IterationInv, Held
  <2>6. CASE HandlerUnlock
    BY <2>6 DEF HandlerUnlock, FirstElement, Held
  <2>7. CASE HandlerEmit
    BY <2>7 DEF HandlerEmit, Held
  <2>8. CASE CallbackReturns
    BY <2>8, SMTT(20) DEF CallbackReturns, MarkReported, VectorInv, Held
  <2>9. CASE CallbackThrows
    BY <2>9 DEF CallbackThrows, Held
  <2>10. CASE HandlerClear
    BY <2>10, VectorReleased DEF HandlerClear
  <2>11. CASE CleanupLock
    BY <2>11 DEF CleanupLock, LockFree, Held
  <2>12. CASE CleanupErase
    BY <2>12 DEF CleanupErase, IterationInv, Joined, Held
  <2>13. CASE CleanupUnlock
    BY <2>13 DEF CleanupUnlock, Held
  <2>14. CASE Request(Handler)
    BY <1>2, <2>14
  <2>15. CASE HandlerExit
    BY <2>15, VectorReleased DEF HandlerExit
  <2>q. QED
    BY <1>4, <2>1, <2>2, <2>3, <2>4, <2>5, <2>6, <2>7, <2>8, <2>9, <2>10, <2>11, <2>12,
       <2>13, <2>14, <2>15 DEF RequestHandler
<1>5. CASE UNCHANGED vars
  BY <1>5 DEF vars, Held
<1>6. QED
  BY <1>1, <1>3, <1>4, <1>5 DEF Next, Gone

LEMMA NextVectorInv == Inv1 /\ Inv2 /\ [Next]_vars => VectorInv'
<1> SUFFICES ASSUME Inv1 /\ Inv2, [Next]_vars PROVE VectorInv'
  OBVIOUS
<1> USE HttpClientAssumption DEF Inv1, Inv2, TypeOK, ControlInv, VectorInv
<1> USE DEF flagVars, responseVars, runVars, requestVars, mapVars, vectorVars, handlerVars,
            callerVars
<1>1. ASSUME NEW r \in Requests, Pump(r) PROVE VectorInv'
  <2>1. CASE PumpConnect(r)
    BY <2>1 DEF PumpConnect
  <2>2. CASE PumpBegin(r)
    <3>1. r \notin finished
      BY <2>2 DEF PumpBegin, RunInv
    <3>2. redirection' \subseteq redirection \cup {r}
      BY <2>2 DEF PumpBegin
    <3>3. UNCHANGED <<finished, finishedRequests>>
      BY <2>2 DEF PumpBegin
    <3>q. QED
      BY <3>1, <3>2, <3>3
  <2>3. CASE PumpData(r)
    BY <2>3 DEF PumpData
  <2>4. CASE PumpComplete(r)
    BY <2>4 DEF PumpComplete
  <2>5. CASE PumpFail(r)
    BY <2>5 DEF PumpFail
  <2>6. CASE PumpStop(r)
    BY <2>6 DEF PumpStop
  <2>7. CASE PumpEnd(r)
    BY <2>7 DEF PumpEnd
  <2>8. QED
    BY <1>1, <2>1, <2>2, <2>3, <2>4, <2>5, <2>6, <2>7 DEF Pump
<1>2. ASSUME NEW t \in Callers \cup {Handler}, Request(t) PROVE VectorInv'
  BY <1>2 DEF Request, LockFree, DoRequest, RunInv
<1>3. ASSUME NEW c \in Callers, Caller(c) PROVE VectorInv'
  <2>1. CASE InitClient(c)
    BY <2>1 DEF InitClient
  <2>2. CASE Request(c)
    BY <1>2, <2>2
  <2>3. CASE CallAbort(c)
    BY <2>3 DEF CallAbort
  <2>4. CASE CallDestroy(c)
    BY <2>4 DEF CallDestroy
  <2>5. CASE AbortLock(c)
    BY <2>5 DEF AbortLock, LockFree
  <2>6. CASE AbortNext(c)
    BY <2>6 DEF AbortNext
  <2>7. CASE AbortJoin(c)
    BY <2>7 DEF AbortJoin, Joined
  <2>8. CASE AbortUnlock(c)
    BY <2>8 DEF AbortUnlock
  <2>9. CASE StopHandler(c)
    BY <2>9 DEF StopHandler
  <2>10. CASE JoinHandler(c)
    BY <2>10 DEF JoinHandler, HandlerJoined
  <2>11. CASE DestroyStop(c)
    BY <2>11 DEF DestroyStop
  <2>12. CASE DestroyJoin(c)
    BY <2>12 DEF DestroyJoin, Joined
  <2>13. CASE Destroyed(c)
    BY <2>13 DEF Destroyed
  <2>14. QED
    BY <1>3, <2>1, <2>2, <2>3, <2>4, <2>5, <2>6, <2>7, <2>8, <2>9, <2>10, <2>11, <2>12,
       <2>13 DEF Caller
<1>4. ASSUME RequestHandler PROVE VectorInv'
  <2>1. CASE HandlerCheck
    BY <2>1 DEF HandlerCheck
  <2>2. CASE HandlerLock
    BY <2>2 DEF HandlerLock, LockFree
  <2>3. CASE HandlerScan
    BY <2>3 DEF HandlerScan, ReadyToReport
  <2>4. CASE HandlerRedirect
    BY <2>4 DEF HandlerRedirect, RedirectStop
  <2>5. CASE HandlerRestart
    BY <2>5 DEF HandlerRestart, DoRequest, IterationInv
  <2>6. CASE HandlerUnlock
    BY <2>6 DEF HandlerUnlock, FirstElement
  <2>7. CASE HandlerEmit
    BY <2>7 DEF HandlerEmit
  <2>8. CASE CallbackReturns
    BY <2>8 DEF CallbackReturns, MarkReported
  <2>9. CASE CallbackThrows
    BY <2>9 DEF CallbackThrows
  <2>10. CASE HandlerClear
    BY <2>10 DEF HandlerClear, ReleaseVector, Released
  <2>11. CASE CleanupLock
    BY <2>11 DEF CleanupLock, LockFree
  <2>12. CASE CleanupErase
    BY <2>12 DEF CleanupErase, Held, Joined
  <2>13. CASE CleanupUnlock
    BY <2>13 DEF CleanupUnlock
  <2>14. CASE Request(Handler)
    BY <1>2, <2>14
  <2>15. CASE HandlerExit
    BY <2>15 DEF HandlerExit, ReleaseVector, Released
  <2>q. QED
    BY <1>4, <2>1, <2>2, <2>3, <2>4, <2>5, <2>6, <2>7, <2>8, <2>9, <2>10, <2>11, <2>12,
       <2>13, <2>14, <2>15 DEF RequestHandler
<1>5. CASE UNCHANGED vars
  BY <1>5 DEF vars
<1>6. QED
  BY <1>1, <1>3, <1>4, <1>5 DEF Next, Gone

LEMMA NextIterationInv == Inv1 /\ Inv2 /\ [Next]_vars => IterationInv'
<1> SUFFICES ASSUME Inv1 /\ Inv2, [Next]_vars PROVE IterationInv'
  OBVIOUS
<1> USE HttpClientAssumption DEF Inv1, Inv2, TypeOK, ControlInv, IterationInv, Running, Receiving
<1> USE DEF flagVars, responseVars, runVars, requestVars, mapVars, vectorVars, handlerVars,
            callerVars
<1>1. ASSUME NEW r \in Requests, Pump(r) PROVE IterationInv'
  <2>1. CASE PumpConnect(r)
    BY <2>1 DEF PumpConnect
  <2>2. CASE PumpBegin(r)
    BY <2>2 DEF PumpBegin
  <2>3. CASE PumpData(r)
    BY <2>3 DEF PumpData
  <2>4. CASE PumpComplete(r)
    BY <2>4 DEF PumpComplete
  <2>5. CASE PumpFail(r)
    BY <2>5 DEF PumpFail
  <2>6. CASE PumpStop(r)
    BY <2>6 DEF PumpStop
  <2>7. CASE PumpEnd(r)
    BY <2>7 DEF PumpEnd
  <2>8. QED
    BY <1>1, <2>1, <2>2, <2>3, <2>4, <2>5, <2>6, <2>7 DEF Pump
<1>2. ASSUME NEW t \in Callers \cup {Handler}, Request(t) PROVE IterationInv'
  BY <1>2 DEF Request, LockFree, DoRequest
<1>3. ASSUME NEW c \in Callers, Caller(c) PROVE IterationInv'
  <2>1. CASE InitClient(c)
    BY <2>1 DEF InitClient
  <2>2. CASE Request(c)
    BY <1>2, <2>2
  <2>3. CASE CallAbort(c)
    BY <2>3 DEF CallAbort
  <2>4. CASE CallDestroy(c)
    BY <2>4 DEF CallDestroy
  <2>5. CASE AbortLock(c)
    BY <2>5 DEF AbortLock, LockFree
  <2>6. CASE AbortNext(c)
    BY <2>6 DEF AbortNext
  <2>7. CASE AbortJoin(c)
    BY <2>7 DEF AbortJoin, Joined
  <2>8. CASE AbortUnlock(c)
    BY <2>8 DEF AbortUnlock
  <2>9. CASE StopHandler(c)
    BY <2>9 DEF StopHandler
  <2>10. CASE JoinHandler(c)
    BY <2>10 DEF JoinHandler, HandlerJoined
  <2>11. CASE DestroyStop(c)
    BY <2>11 DEF DestroyStop
  <2>12. CASE DestroyJoin(c)
    BY <2>12 DEF DestroyJoin, Joined
  <2>13. CASE Destroyed(c)
    <3>1. handler \in {"off", "exited"} /\ requestMap = {}
      BY <2>13 DEF Destroyed
    <3>2. \A r \in Requests : ~Running(r)
      BY <3>1 DEF RunInv, Held
    <3>q. QED
      BY <2>13, <3>2 DEF Destroyed
  <2>14. QED
    BY <1>3, <2>1, <2>2, <2>3, <2>4, <2>5, <2>6, <2>7, <2>8, <2>9, <2>10, <2>11, <2>12,
       <2>13 DEF Caller
<1>4. ASSUME RequestHandler PROVE IterationInv'
  <2>1. CASE HandlerCheck
    BY <2>1 DEF HandlerCheck
  <2>2. CASE HandlerLock
    BY <2>2 DEF HandlerLock, LockFree
  <2>3. CASE HandlerScan
    BY <2>3 DEF HandlerScan, ReadyToReport
  <2>4. CASE HandlerRedirect
    BY <2>4 DEF HandlerRedirect, RedirectStop
  <2>5. CASE HandlerRestart
    BY <2>5 DEF HandlerRestart, DoRequest, Joined
  <2>6. CASE HandlerUnlock
    BY <2>6 DEF HandlerUnlock, FirstElement
  <2>7. CASE HandlerEmit
    BY <2>7 DEF HandlerEmit
  <2>8. CASE CallbackReturns
    BY <2>8 DEF CallbackReturns, MarkReported
  <2>9. CASE CallbackThrows
    BY <2>9 DEF CallbackThrows
  <2>10. CASE HandlerClear
    BY <2>10 DEF HandlerClear, ReleaseVector, Released
  <2>11. CASE CleanupLock
    BY <2>11 DEF CleanupLock, LockFree
  <2>12. CASE CleanupErase
    BY <2>12 DEF CleanupErase, Held, Joined
  <2>13. CASE CleanupUnlock
    BY <2>13 DEF CleanupUnlock
  <2>14. CASE Request(Handler)
    BY <1>2, <2>14
  <2>15. CASE HandlerExit
    BY <2>15 DEF HandlerExit, ReleaseVector, Released
  <2>q. QED
    BY <1>4, <2>1, <2>2, <2>3, <2>4, <2>5, <2>6, <2>7, <2>8, <2>9, <2>10, <2>11, <2>12,
       <2>13, <2>14, <2>15 DEF RequestHandler
<1>5. CASE UNCHANGED vars
  BY <1>5 DEF vars
<1>6. QED
  BY <1>1, <1>3, <1>4, <1>5 DEF Next, Gone

LEMMA NextInv2 == Inv1 /\ Inv2 /\ [Next]_vars => Inv2'
BY NextRunInv, NextVectorInv, NextIterationInv DEF Inv2

LEMMA Invariants == Spec => [](Inv1 /\ Inv2)
BY InitInv1, NextInv1, InitInv2, NextInv2, PTL DEF Spec

\* A pump thread that is joined while the mutex is held has been told to stop.
WaitInv == handler = "join" \/ (\E c \in Callers : call[c] = "join") => current \in stopRequestThread

LEMMA NextWaitInv == Inv1 /\ Inv2 /\ WaitInv /\ [Next]_vars => WaitInv'
<1> SUFFICES ASSUME Inv1 /\ Inv2, WaitInv, [Next]_vars PROVE WaitInv'
  OBVIOUS
<1> USE HttpClientAssumption DEF Inv1, Inv2, TypeOK, ControlInv, WaitInv
<1> USE DEF flagVars, responseVars, runVars, requestVars, mapVars, vectorVars, handlerVars,
            callerVars
<1>1. ASSUME NEW r \in Requests, Pump(r) PROVE WaitInv'
  <2>1. CASE PumpConnect(r)
    BY <2>1 DEF PumpConnect
  <2>2. CASE PumpBegin(r)
    BY <2>2 DEF PumpBegin
  <2>3. CASE PumpData(r)
    BY <2>3 DEF PumpData
  <2>4. CASE PumpComplete(r)
    BY <2>4 DEF PumpComplete
  <2>5. CASE PumpFail(r)
    BY <2>5 DEF PumpFail
  <2>6. CASE PumpStop(r)
    BY <2>6 DEF PumpStop
  <2>7. CASE PumpEnd(r)
    BY <2>7 DEF PumpEnd
  <2>8. QED
    BY <1>1, <2>1, <2>2, <2>3, <2>4, <2>5, <2>6, <2>7 DEF Pump
<1>2. ASSUME NEW t \in Callers \cup {Handler}, Request(t) PROVE WaitInv'
  BY <1>2 DEF Request, LockFree, DoRequest
<1>3. ASSUME NEW c \in Callers, Caller(c) PROVE WaitInv'
  <2>1. CASE InitClient(c)
    BY <2>1 DEF InitClient
  <2>2. CASE Request(c)
    BY <1>2, <2>2
  <2>3. CASE CallAbort(c)
    BY <2>3 DEF CallAbort
  <2>4. CASE CallDestroy(c)
    BY <2>4 DEF CallDestroy
  <2>5. CASE AbortLock(c)
    BY <2>5 DEF AbortLock, LockFree
  <2>6. CASE AbortNext(c)
    BY <2>6 DEF AbortNext
  <2>7. CASE AbortJoin(c)
    BY <2>7 DEF AbortJoin, Joined
  <2>8. CASE AbortUnlock(c)
    BY <2>8 DEF AbortUnlock
  <2>9. CASE StopHandler(c)
    BY <2>9 DEF StopHandler
  <2>10. CASE JoinHandler(c)
    BY <2>10 DEF JoinHandler, HandlerJoined
  <2>11. CASE DestroyStop(c)
    BY <2>11 DEF DestroyStop
  <2>12. CASE DestroyJoin(c)
    BY <2>12 DEF DestroyJoin, Joined
  <2>13. CASE Destroyed(c)
    BY <2>13 DEF Destroyed
  <2>14. QED
    BY <1>3, <2>1, <2>2, <2>3, <2>4, <2>5, <2>6, <2>7, <2>8, <2>9, <2>10, <2>11, <2>12,
       <2>13 DEF Caller
<1>4. ASSUME RequestHandler PROVE WaitInv'
  <2>1. CASE HandlerCheck
    BY <2>1 DEF HandlerCheck
  <2>2. CASE HandlerLock
    BY <2>2 DEF HandlerLock, LockFree
  <2>3. CASE HandlerScan
    BY <2>3 DEF HandlerScan, ReadyToReport
  <2>4. CASE HandlerRedirect
    BY <2>4 DEF HandlerRedirect, RedirectStop
  <2>5. CASE HandlerRestart
    BY <2>5 DEF HandlerRestart, DoRequest, Joined
  <2>6. CASE HandlerUnlock
    BY <2>6 DEF HandlerUnlock, FirstElement
  <2>7. CASE HandlerEmit
    BY <2>7 DEF HandlerEmit
  <2>8. CASE CallbackReturns
    BY <2>8 DEF CallbackReturns, MarkReported
  <2>9. CASE CallbackThrows
    BY <2>9 DEF CallbackThrows
  <2>10. CASE HandlerClear
    BY <2>10 DEF HandlerClear, ReleaseVector, Released
  <2>11. CASE CleanupLock
    BY <2>11 DEF CleanupLock, LockFree
  <2>12. CASE CleanupErase
    BY <2>12 DEF CleanupErase, Held, Joined
  <2>13. CASE CleanupUnlock
    BY <2>13 DEF CleanupUnlock
  <2>14. CASE Request(Handler)
    BY <1>2, <2>14
  <2>15. CASE HandlerExit
    BY <2>15 DEF HandlerExit, ReleaseVector, Released
  <2>q. QED
    BY <1>4, <2>1, <2>2, <2>3, <2>4, <2>5, <2>6, <2>7, <2>8, <2>9, <2>10, <2>11, <2>12,
       <2>13, <2>14, <2>15 DEF RequestHandler
<1>5. CASE UNCHANGED vars
  BY <1>5 DEF vars
<1>6. QED
  BY <1>1, <1>3, <1>4, <1>5 DEF Next, Gone

\* Whoever holds the mutex of the map goes on: he joins only pump threads that have been told to stop
\* (HttpRequest::abort in abortAllRequests and for a redirection), or whose exchange is over, so that they
\* end without the server (the clean-up); and the destructor joins the handler, which takes the mutex,
\* without holding it.  This is what the fairness of the locks rests on.
THEOREM HolderGoesOn ==
  Spec => [](/\ handler = "join" \/ (\E c \in Callers : call[c] = "join") => current \in stopRequestThread
             /\ handler = "erase" => \A r \in todo : ~Receiving(r)
             /\ \A c \in Callers : call[c] = "joinHandler" => mutexRequestMap # c)
<1>1. Init => WaitInv
  BY DEF Init, WaitInv
<1>2. Inv1 /\ Inv2 /\ WaitInv /\ [Next]_vars => WaitInv'
  BY NextWaitInv
<1>3. Inv1 /\ Inv2 /\ WaitInv =>
        /\ handler = "join" \/ (\E c \in Callers : call[c] = "join") => current \in stopRequestThread
        /\ handler = "erase" => \A r \in todo : ~Receiving(r)
        /\ \A c \in Callers : call[c] = "joinHandler" => mutexRequestMap # c
  <2> SUFFICES ASSUME Inv1, Inv2, WaitInv
               PROVE  /\ handler = "erase" => \A r \in todo : ~Receiving(r)
                      /\ \A c \in Callers : call[c] = "joinHandler" => mutexRequestMap # c
    BY DEF WaitInv
  <2>1. handler = "erase" => \A r \in todo : ~Receiving(r)
    BY DEF Inv1, TypeOK, Inv2, IterationInv, RunInv
  <2>2. \A c \in Callers : call[c] = "joinHandler" => mutexRequestMap # c
    BY DEF Inv1, ControlInv
  <2>3. QED
    BY <2>1, <2>2
<1>4. QED
  BY <1>1, <1>2, <1>3, Invariants, PTL DEF Spec

\* The exchange of a request that may be deleted is over (abort, setDeleteable and
\* cleanupRequests): its pump thread writes nothing any more, and when the clean-up joins it
\* under the mutex it does not wait for the server.
THEOREM DeleteableQuiet == Spec => []DeleteableIsQuiet
<1>1. Inv2 => DeleteableIsQuiet
  BY DEF Inv2, RunInv, DeleteableIsQuiet
<1>2. QED
  BY <1>1, Invariants, PTL

\* A finish callback reads the response of the last run of a request that has ended
\* (emitRequestFinishCallback against onBegin, onData and the restart after a 307).
THEOREM CallbackConsistent == Spec => []CallbackSeesLastAnswer
<1>1. Inv1 /\ Inv2 => CallbackSeesLastAnswer
  <2> SUFFICES ASSUME Inv1, Inv2, handler = "callback"
               PROVE  LET r == finishedRequests[emitPos]
                      IN  r \in finished /\ ~Receiving(r) /\ responseRun[r] = runs[r]
    BY DEF CallbackSeesLastAnswer
  <2>1. emitPos \in 1..Len(finishedRequests)
    BY DEF Inv1, TypeOK, ControlInv
  <2>2. finishedRequests[emitPos] \in finished /\ finishedRequests[emitPos] \in Requests
    BY <2>1 DEF Inv1, TypeOK, Inv2, VectorInv
  <2>3. QED
    BY <2>2 DEF Inv2, RunInv, Receiving
<1>2. QED
  BY <1>1, Invariants, PTL

\* abortAllRequests leaves nothing running behind in the map it unlocks.
THEOREM AbortComplete == Spec => []AbortLeavesNothingRunning
<1>1. Inv2 => AbortLeavesNothingRunning
  BY DEF Inv2, IterationInv, AbortLeavesNothingRunning
<1>2. QED
  BY <1>1, Invariants, PTL

\* After stopRequestHandlerThread the handler is silent, after the destructor every
\* thread of the client has ended.
THEOREM StoppedQuiet == Spec => []StoppedIsQuiet
<1>1. Inv1 /\ Inv2 => StoppedIsQuiet
  BY DEF Inv1, ControlInv, Inv2, IterationInv, StoppedIsQuiet
<1>2. QED
  BY <1>1, Invariants, PTL

\* doRequest never assigns a new thread to a request whose thread still runs.
THEOREM NoOverlap == Spec => RunsDoNotOverlap
<1>1. Inv1 /\ Inv2 /\ [Next]_vars => [\A r \in Requests : runs'[r] # runs[r] => ~Running(r)]_vars
  <2> SUFFICES ASSUME Inv1, Inv2, [Next]_vars, NEW r \in Requests, runs'[r] # runs[r]
               PROVE  ~Running(r)
    OBVIOUS
  <2> USE DEF flagVars, responseVars, runVars, requestVars, vars
  <2>1. CASE \E t \in Callers \cup {Handler} : Request(t)
    BY <2>1 DEF Request, DoRequest, Inv1, TypeOK, Inv2, RunInv, Running, Receiving
  <2>2. CASE HandlerRestart
    BY <2>2 DEF HandlerRestart, DoRequest, Joined, Inv1, TypeOK
  <2>3. CASE runs' = runs
    BY <2>3
  <2>4. ASSUME NEW q \in Requests, Pump(q) PROVE runs' = runs
    BY <2>4 DEF Pump, PumpConnect, PumpBegin, PumpData, PumpComplete, PumpFail, PumpStop, PumpEnd
  <2>5. ASSUME NEW c \in Callers, Caller(c), ~Request(c) PROVE runs' = runs
    BY <2>5 DEF Caller, InitClient, CallAbort, CallDestroy, AbortLock, AbortNext, AbortJoin,
                AbortUnlock, StopHandler, JoinHandler, DestroyStop, DestroyJoin, Destroyed
  <2>6. ASSUME RequestHandler, ~Request(Handler), ~HandlerRestart PROVE runs' = runs
    BY <2>6 DEF RequestHandler, HandlerCheck, HandlerExit, HandlerLock, HandlerScan, HandlerRedirect,
                HandlerUnlock, HandlerEmit, CallbackReturns, CallbackThrows, HandlerClear,
                ReleaseVector, CleanupLock, CleanupErase, CleanupUnlock
  <2>7. QED
    BY <2>1, <2>2, <2>3, <2>4, <2>5, <2>6 DEF Next, Gone
<1>2. QED
  BY <1>1, Invariants, PTL DEF Spec, RunsDoNotOverlap

-----------------------------------------------------------------------------
\* As long as no callback has thrown: the vector lives for one round, has no element
\* twice, and holds what is not reported yet from emitPos on; a reported request is
\* marked at once and stays finished.
ReportInv ==
  throws = 0 =>
    /\ handler \notin {"scan", "join", "emit", "callback"} => finishedRequests = <<>>
    /\ \A i, j \in 1..Len(finishedRequests) :
         i < j => finishedRequests[i] # finishedRequests[j]
    /\ handler \in {"scan", "join"} =>
         \A i \in 1..Len(finishedRequests) :
           finishedRequests[i] \notin todo /\ reports[finishedRequests[i]] = 0
    /\ handler = "emit" =>
         \A i \in 1..Len(finishedRequests) : i >= emitPos => reports[finishedRequests[i]] = 0
    /\ handler = "callback" =>
         \A i \in 1..Len(finishedRequests) : i > emitPos => reports[finishedRequests[i]] = 0
    /\ \A r \in Requests :
         /\ reports[r] <= 1
         /\ reports[r] > 0 =>
              /\ r \in finished \ redirection
              /\ r \in deleteable \/ (handler = "callback" /\ r = finishedRequests[emitPos])

LEMMA InitReportInv == Init => ReportInv
BY DEF Init, ReportInv

LEMMA NextReportInv == Inv1 /\ Inv2 /\ ReportInv /\ [Next]_vars => ReportInv'
<1> SUFFICES ASSUME Inv1 /\ Inv2 /\ ReportInv, [Next]_vars PROVE ReportInv'
  OBVIOUS
<1> USE HttpClientAssumption DEF Inv1, Inv2, TypeOK, ControlInv, ReportInv
<1> USE DEF flagVars, responseVars, runVars, requestVars, mapVars, vectorVars, handlerVars,
            callerVars
<1>1. ASSUME NEW r \in Requests, Pump(r) PROVE ReportInv'
  <2>1. CASE PumpConnect(r)
    BY <2>1 DEF PumpConnect
  <2>2. CASE PumpBegin(r)
    BY <2>2 DEF PumpBegin, RunInv
  <2>3. CASE PumpData(r)
    BY <2>3 DEF PumpData
  <2>4. CASE PumpComplete(r)
    BY <2>4 DEF PumpComplete
  <2>5. CASE PumpFail(r)
    BY <2>5 DEF PumpFail
  <2>6. CASE PumpStop(r)
    BY <2>6 DEF PumpStop
  <2>7. CASE PumpEnd(r)
    BY <2>7 DEF PumpEnd
  <2>8. QED
    BY <1>1, <2>1, <2>2, <2>3, <2>4, <2>5, <2>6, <2>7 DEF Pump
<1>2. ASSUME NEW t \in Callers \cup {Handler}, Request(t) PROVE ReportInv'
  <2>1. PICK r \in Requests : runs[r] = 0 /\ DoRequest(r)
    BY <1>2 DEF Request
  <2>2. r \notin finished
    BY <2>1 DEF RunInv
  <2>3. UNCHANGED <<todo, handlerVars>>
    BY <1>2 DEF Request
  <2>q. QED
    BY <2>1, <2>2, <2>3 DEF DoRequest
<1>3. ASSUME NEW c \in Callers, Caller(c) PROVE ReportInv'
  <2>1. CASE InitClient(c)
    BY <2>1 DEF InitClient
  <2>2. CASE Request(c)
    BY <1>2, <2>2
  <2>3. CASE CallAbort(c)
    BY <2>3 DEF CallAbort
  <2>4. CASE CallDestroy(c)
    BY <2>4 DEF CallDestroy
  <2>5. CASE AbortLock(c)
    BY <2>5 DEF AbortLock, LockFree
  <2>6. CASE AbortNext(c)
    BY <2>6 DEF AbortNext
  <2>7. CASE AbortJoin(c)
    BY <2>7 DEF AbortJoin, Joined
  <2>8. CASE AbortUnlock(c)
    BY <2>8 DEF AbortUnlock
  <2>9. CASE StopHandler(c)
    BY <2>9 DEF StopHandler
  <2>10. CASE JoinHandler(c)
    BY <2>10 DEF JoinHandler, HandlerJoined
  <2>11. CASE DestroyStop(c)
    BY <2>11 DEF DestroyStop
  <2>12. CASE DestroyJoin(c)
    BY <2>12 DEF DestroyJoin, Joined
  <2>13. CASE Destroyed(c)
    BY <2>13 DEF Destroyed
  <2>14. QED
    BY <1>3, <2>1, <2>2, <2>3, <2>4, <2>5, <2>6, <2>7, <2>8, <2>9, <2>10, <2>11, <2>12,
       <2>13 DEF Caller
<1>4. ASSUME RequestHandler PROVE ReportInv'
  <2>1. CASE HandlerCheck
    BY <2>1 DEF HandlerCheck
  <2>2. CASE HandlerLock
    BY <2>2 DEF HandlerLock, LockFree
  <2>3. CASE HandlerScan
    <3> SUFFICES ASSUME throws = 0 PROVE ReportInv'
      BY <2>3 DEF HandlerScan
    <3>1. PICK r \in todo \ redirection :
            /\ finishedRequests' = IF ReadyToReport(r) THEN Append(finishedRequests, r)
                                                       ELSE finishedRequests
            /\ todo' = todo \ {r}
      BY <2>3 DEF HandlerScan
    <3>2. CASE ~ReadyToReport(r)
      BY <2>3, <3>1, <3>2 DEF HandlerScan
    <3>3. CASE ReadyToReport(r)
      <4>1. /\ Len(finishedRequests') = Len(finishedRequests) + 1
            /\ Len(finishedRequests) \in Nat
            /\ \A i \in 1..Len(finishedRequests) : finishedRequests'[i] = finishedRequests[i]
            /\ finishedRequests'[Len(finishedRequests) + 1] = r
        BY <3>1, <3>3
      <4>2. reports[r] = 0
        BY <2>3, <3>3 DEF HandlerScan, ReadyToReport
      <4>3. handler = "scan" /\ handler' = "scan" /\ reports' = reports /\ emitPos' = emitPos
            /\ finished' = finished /\ redirection' = redirection
            /\ deleteable' = deleteable /\ todo' = todo \ {r} /\ r \in todo
        BY <2>3, <3>1 DEF HandlerScan
      <4>4. \A i \in 1..Len(finishedRequests) :
              /\ finishedRequests[i] # r /\ finishedRequests[i] \notin todo
              /\ reports[finishedRequests[i]] = 0
        BY <4>3
      <4>5. ASSUME NEW i \in 1..Len(finishedRequests'), NEW j \in 1..Len(finishedRequests'), i < j
            PROVE  finishedRequests'[i] # finishedRequests'[j]
        <5>1. i \in 1..Len(finishedRequests)
          BY <4>1, <4>5
        <5>2. CASE j \in 1..Len(finishedRequests)
          BY <4>1, <4>5, <5>1, <5>2
        <5>3. CASE j = Len(finishedRequests) + 1
          <6>1. finishedRequests'[j] = r
            BY <4>1, <5>3
          <6>2. finishedRequests'[i] = finishedRequests[i]
            BY <4>1, <5>1
          <6>3. finishedRequests[i] # r
            BY <4>4, <5>1
          <6>4. QED
            BY <6>1, <6>2, <6>3
        <5>4. QED
          BY <4>1, <5>2, <5>3
      <4>6. ASSUME NEW i \in 1..Len(finishedRequests')
            PROVE  finishedRequests'[i] \notin todo' /\ reports'[finishedRequests'[i]] = 0
        <5>1. CASE i \in 1..Len(finishedRequests)
          <6>1. finishedRequests'[i] = finishedRequests[i]
            BY <4>1, <5>1
          <6>2. finishedRequests[i] \notin todo /\ reports[finishedRequests[i]] = 0
            BY <4>4, <5>1
          <6>3. QED
            BY <4>3, <6>1, <6>2
        <5>2. CASE i = Len(finishedRequests) + 1
          <6>1. finishedRequests'[i] = r
            BY <4>1, <5>2
          <6>2. QED
            BY <4>2, <4>3, <6>1
        <5>3. QED
          BY <4>1, <5>1, <5>2
      <4>7. QED
        BY <4>3, <4>5, <4>6
    <3>4. QED
      BY <3>2, <3>3
  <2>4. CASE HandlerRedirect
    BY <2>4 DEF HandlerRedirect, RedirectStop
  <2>5. CASE HandlerRestart
    BY <2>5 DEF HandlerRestart, DoRequest, IterationInv, VectorInv
  <2>6. CASE HandlerUnlock
    BY <2>6 DEF HandlerUnlock, FirstElement
  <2>7. CASE HandlerEmit
    <3> SUFFICES ASSUME throws = 0 PROVE ReportInv'
      BY <2>7 DEF HandlerEmit
    <3> DEFINE r == finishedRequests[emitPos]
    <3>1. emitPos \in 1..Len(finishedRequests) /\ Len(finishedRequests) \in Nat
      BY <2>7 DEF HandlerEmit
    <3>2. r \in Requests /\ r \in finished \ redirection /\ reports[r] = 0
      BY <2>7, <3>1 DEF HandlerEmit, VectorInv
    <3>3. \A i \in 1..Len(finishedRequests) :
            i > emitPos => finishedRequests[i] # r /\ reports[finishedRequests[i]] = 0
      BY <2>7, <3>1, SMTT(30) DEF HandlerEmit
    <3>4. /\ handler = "emit" /\ handler' = "callback" /\ finishedRequests' = finishedRequests
          /\ emitPos' = emitPos /\ deleteable' = deleteable /\ finished' = finished
          /\ redirection' = redirection /\ reports' = [reports EXCEPT ![r] = @ + 1]
      BY <2>7 DEF HandlerEmit
    <3>5. \A q \in Requests : reports'[q] = IF q = r THEN 1 ELSE reports[q]
      BY <3>2, <3>4
    <3>6. \A i \in 1..Len(finishedRequests) : finishedRequests[i] \in Requests
      OBVIOUS
    <3> HIDE DEF r
    <3>7. \A i \in 1..Len(finishedRequests) : i > emitPos => reports'[finishedRequests[i]] = 0
      BY <3>3, <3>5, <3>6
    <3>8. \A q \in Requests :
            /\ reports'[q] <= 1
            /\ reports'[q] > 0 => q \in finished \ redirection /\ (q \in deleteable \/ q = r)
      BY <3>2, <3>4, <3>5
    <3>9. QED
      BY <3>4, <3>7, <3>8 DEF r
  <2>8. CASE CallbackReturns
    BY <2>8 DEF CallbackReturns, MarkReported
  <2>9. CASE CallbackThrows
    BY <2>9 DEF CallbackThrows
  <2>10. CASE HandlerClear
    BY <2>10 DEF HandlerClear, ReleaseVector, Released
  <2>11. CASE CleanupLock
    BY <2>11 DEF CleanupLock, LockFree
  <2>12. CASE CleanupErase
    BY <2>12 DEF CleanupErase, Held, Joined
  <2>13. CASE CleanupUnlock
    BY <2>13 DEF CleanupUnlock
  <2>14. CASE Request(Handler)
    BY <1>2, <2>14
  <2>15. CASE HandlerExit
    BY <2>15 DEF HandlerExit, ReleaseVector, Released
  <2>q. QED
    BY <1>4, <2>1, <2>2, <2>3, <2>4, <2>5, <2>6, <2>7, <2>8, <2>9, <2>10, <2>11, <2>12,
       <2>13, <2>14, <2>15 DEF RequestHandler
<1>5. CASE UNCHANGED vars
  BY <1>5 DEF vars
<1>6. QED
  BY <1>1, <1>3, <1>4, <1>5 DEF Next, Gone

\* While no callback throws, the finish callback of a request is called at most once
\* (requestHandlerThread, against aborts, restarts and requests made in callbacks).
THEOREM ReportOnce == Spec => []ReportedAtMostOnce
<1>1. ReportInv => ReportedAtMostOnce
  BY DEF ReportInv, ReportedAtMostOnce
<1>2. QED
  BY <1>1, Invariants, InitReportInv, NextReportInv, PTL DEF Spec

-----------------------------------------------------------------------------
(***************************************************************************)
(* HttpClient implements RequestService.                                   *)
(***************************************************************************)
\* A request that was never started is unknown to the map, and the handler has reported
\* the elements of its vector that are behind its position.
ServeInv ==
  /\ \A r \in Requests : runs[r] = 0 => reports[r] = 0 /\ r \notin requestMap
  /\ handler = "emit" =>
       \A i \in 1..Len(finishedRequests) : i < emitPos => reports[finishedRequests[i]] > 0
  /\ handler = "callback" =>
       \A i \in 1..Len(finishedRequests) : i <= emitPos => reports[finishedRequests[i]] > 0

LEMMA InitServeInv == Init => ServeInv
BY DEF Init, ServeInv

\* Counting one more report of e lowers no count.
LEMMA CountUp ==
  ASSUME NEW S, NEW f \in [S -> Nat], NEW e \in S, NEW g, g = [f EXCEPT ![e] = @ + 1]
  PROVE  g[e] > 0 /\ \A r \in S : g[r] \in Nat /\ g[r] >= f[r]
  OBVIOUS

\* Requests enter the map when they are started, and the position moves on only when a
\* callback has been called and has returned.
LEMMA NextServeInv == ASSUME Inv1, Inv2, ServeInv, [Next]_vars PROVE ServeInv'
<1> USE DEF Inv1, TypeOK, ServeInv
<1> USE DEF flagVars, responseVars, runVars, requestVars, mapVars, vectorVars, handlerVars,
            callerVars
<1>1. ASSUME NEW r \in Requests, Pump(r) PROVE ServeInv'
  <2>1. UNCHANGED <<runs, reports, mapVars, handlerVars>>
    BY <1>1 DEF Pump, PumpConnect, PumpBegin, PumpData, PumpComplete, PumpFail, PumpStop, PumpEnd
  <2>2. UNCHANGED <<runs, reports, requestMap, handler, finishedRequests, emitPos>>
    BY <2>1
  <2>q. QED
    BY <2>2
<1>2. ASSUME NEW t \in Callers \cup {Handler}, Request(t) PROVE ServeInv'
  <2>1. PICK r \in Requests : runs[r] = 0 /\ requestMap' = requestMap \cup {r} /\ DoRequest(r)
    BY <1>2 DEF Request
  <2>2. runs' = [runs EXCEPT ![r] = @ + 1] /\ reports' = reports
    BY <2>1 DEF DoRequest
  <2>3. UNCHANGED <<handler, finishedRequests, emitPos>>
    BY <1>2 DEF Request
  <2>4. \A q \in Requests : runs'[q] = 0 => reports'[q] = 0 /\ q \notin requestMap'
    BY <2>1, <2>2
  <2>q. QED
    BY <2>2, <2>3, <2>4
<1>3. ASSUME NEW c \in Callers, Caller(c) PROVE ServeInv'
  <2>1. CASE Request(c)
    BY <1>2, <2>1
  <2>2. CASE DestroyJoin(c)
    BY <2>2 DEF DestroyJoin
  <2>3. CASE InitClient(c)
    BY <2>3 DEF InitClient
  <2>4. CASE ~Request(c) /\ ~DestroyJoin(c) /\ ~InitClient(c)
    BY <1>3, <2>4
    DEF Caller, CallAbort, CallDestroy, AbortLock, AbortNext, AbortJoin, AbortUnlock,
        StopHandler, JoinHandler, DestroyStop, Destroyed
  <2>q. QED
    BY <2>1, <2>2, <2>3, <2>4
<1>4. ASSUME RequestHandler PROVE ServeInv'
  <2>1. CASE HandlerCheck
    BY <2>1 DEF HandlerCheck
  <2>2. CASE HandlerLock
    BY <2>2 DEF HandlerLock
  <2>3. CASE HandlerScan
    BY <2>3 DEF HandlerScan
  <2>4. CASE HandlerRedirect
    BY <2>4 DEF HandlerRedirect
  <2>5. CASE HandlerRestart
    BY <2>5 DEF HandlerRestart, DoRequest
  <2>6. CASE HandlerUnlock
    BY <2>6 DEF HandlerUnlock, FirstElement
  <2>7. CASE HandlerEmit
    <3>1. emitPos \in 1..Len(finishedRequests) /\ finishedRequests[emitPos] \in Requests
      BY <2>7 DEF HandlerEmit
    <3>2. \A r \in Requests : reports'[r] \in Nat /\ reports'[r] >= reports[r]
      <4>1. reports' = [reports EXCEPT ![finishedRequests[emitPos]] = @ + 1]
        BY <2>7 DEF HandlerEmit
      <4>q. QED BY <3>1, <4>1, CountUp
    <3>3. reports'[finishedRequests[emitPos]] > 0
      <4>1. reports' = [reports EXCEPT ![finishedRequests[emitPos]] = @ + 1]
        BY <2>7 DEF HandlerEmit
      <4>q. QED BY <3>1, <4>1, CountUp
    <3>4. runs[finishedRequests[emitPos]] # 0
      BY <3>1 DEF Inv2, RunInv, VectorInv
    <3>5. ASSUME NEW i \in 1..Len(finishedRequests), i <= emitPos
          PROVE  reports'[finishedRequests[i]] > 0
      <4>1. CASE i = emitPos
        BY <3>3, <4>1
      <4>2. CASE i < emitPos
        <5>1. finishedRequests[i] \in Requests /\ reports[finishedRequests[i]] > 0
          BY <2>7, <4>2, SMTT(30) DEF HandlerEmit
        <5>q. QED BY <3>2, <5>1
      <4>q. QED BY <3>5, <4>1, <4>2
    <3>q. QED
      BY <2>7, <3>1, <3>4, <3>5 DEF HandlerEmit
  <2>8. CASE CallbackReturns
    BY <2>8 DEF CallbackReturns
  <2>9. CASE CallbackThrows
    BY <2>9 DEF CallbackThrows
  <2>10. CASE HandlerClear
    BY <2>10 DEF HandlerClear, ReleaseVector, Released
  <2>11. CASE CleanupLock
    BY <2>11 DEF CleanupLock
  <2>12. CASE CleanupErase
    BY <2>12 DEF CleanupErase
  <2>13. CASE CleanupUnlock
    BY <2>13 DEF CleanupUnlock
  <2>14. CASE Request(Handler)
    BY <1>2, <2>14
  <2>15. CASE HandlerExit
    BY <2>15 DEF HandlerExit, ReleaseVector, Released
  <2>q. QED
    BY <1>4, <2>1, <2>2, <2>3, <2>4, <2>5, <2>6, <2>7, <2>8, <2>9, <2>10, <2>11, <2>12,
       <2>13, <2>14, <2>15 DEF RequestHandler
<1>5. CASE UNCHANGED vars
  BY <1>5 DEF vars
<1>q. QED
  BY <1>1, <1>3, <1>4, <1>5 DEF Next, Gone

-----------------------------------------------------------------------------
\* A step that changes none of the four is a stuttering step of the service.
LEMMA Stutter ==
  ASSUME \A r \in Requests : RequestState(r)' = RequestState(r),
         Delivering' = Delivering, Closed' = Closed, throws' = throws
  PROVE  UNCHANGED Service!vars
BY DEF Service!vars

\* What the state of the requests depends on.
LEMMA SameStates ==
  ASSUME UNCHANGED <<runs, reports, requestMap, finishedRequests>>
  PROVE  \A r \in Requests : RequestState(r)' = RequestState(r)
BY DEF RequestState, Held

\* A caller closes the client only by going from joinHandler to destroy.
LEMMA SameClosed ==
  ASSUME NEW c \in Callers, NEW p, TypeOK,
         call' = [call EXCEPT ![c] = p],
         call[c] \in {"destroy", "gone"} <=> p \in {"destroy", "gone"}
  PROVE  Closed' = Closed
<1>1. \A d \in Callers : call'[d] \in {"destroy", "gone"} <=> call[d] \in {"destroy", "gone"}
  BY DEF TypeOK
<1>q. QED BY <1>1, Zenon DEF Closed

\* HttpRequest's threads change nothing the service shows.
LEMMA PumpServes ==
  ASSUME NEW r \in Requests, Pump(r) PROVE UNCHANGED Service!vars
<1>1. UNCHANGED <<runs, reports, mapVars, handlerVars, callerVars>>
  BY DEF Pump, PumpConnect, PumpBegin, PumpData, PumpComplete, PumpFail, PumpStop, PumpEnd, flagVars,
         responseVars
<1>2. UNCHANGED <<requestMap, finishedRequests, handler, emitPos, call, throws>>
  BY <1>1 DEF mapVars, handlerVars, vectorVars, callerVars
<1>q. QED
  BY <1>1, <1>2, SameStates, Stutter DEF Delivering, Closed

\* A new request is one the service has not seen.
LEMMA RequestServes ==
  ASSUME Inv1, ServeInv, NEW t \in Callers \cup {Handler}, Request(t)
  PROVE  \E r \in Requests : Service!Ask(r)
<1> USE DEF Inv1, TypeOK
<1>1. PICK r \in Requests :
        runs[r] = 0 /\ requestMap' = requestMap \cup {r} /\ DoRequest(r)
  BY DEF Request
<1>2. UNCHANGED <<reports, finishedRequests, handler, emitPos, call, throws>>
  BY <1>1 DEF Request, DoRequest, handlerVars, vectorVars, callerVars
<1>3. runs' = [runs EXCEPT ![r] = @ + 1]
  BY <1>1 DEF DoRequest
<1>4. reports[r] = 0
  BY <1>1 DEF ServeInv
<1>5. RequestState(r) = "none" /\ RequestState(r)' = "pending"
  BY <1>1, <1>2, <1>3, <1>4 DEF RequestState, Held
<1>6. \A q \in Requests : q # r => RequestState(q)' = RequestState(q)
  BY <1>1, <1>2, <1>3 DEF RequestState, Held
<1>7. ~Closed
  BY HttpClientAssumption DEF Request, ControlInv, Closed
<1>8. Delivering' = Delivering /\ Closed' = Closed
  BY <1>2 DEF Delivering, Closed
<1>9. [q \in Requests |-> RequestState(q)]'
        = [[q \in Requests |-> RequestState(q)] EXCEPT ![r] = "pending"]
  BY <1>5, <1>6
<1>q. QED
  BY <1>2, <1>5, <1>7, <1>8, <1>9, Zenon DEF Service!Ask

\* A request leaves the map: unless it was delivered or the vector has it, it is dropped.
LEMMA EraseServes ==
  ASSUME NEW r \in Requests, requestMap' = requestMap \ {r},
         UNCHANGED <<runs, reports, finishedRequests, handler, emitPos, call, throws>>
  PROVE  \E R \in SUBSET Requests : Service!Drop(R)
<1> DEFINE R == {q \in {r} : RequestState(q) = "pending" /\ ~Held(q)}
<1>1. \A q \in Requests :
        RequestState(q)' = IF q \in R THEN "dropped" ELSE RequestState(q)
  BY DEF RequestState, Held
<1>2. R \in SUBSET Requests /\ R \subseteq Service!Pending
  BY DEF Service!Pending
<1>3. [q \in Requests |-> RequestState(q)]'
        = [q \in Requests |-> IF q \in R THEN "dropped"
                              ELSE [p \in Requests |-> RequestState(p)][q]]
  BY <1>1
<1>4. Delivering' = Delivering /\ Closed' = Closed
  BY DEF Delivering, Closed
<1>q. QED
  BY <1>2, <1>3, <1>4, Zenon DEF Service!Drop

\* The vector lets its requests go: what was not delivered and is in the map no more is dropped.
LEMMA ReleaseServes ==
  ASSUME ReleaseVector, handler # "callback", handler' # "callback",
         UNCHANGED <<runs, reports, requestMap, call, throws>>
  PROVE  \E R \in SUBSET Requests : Service!Drop(R)
<1> DEFINE R == {q \in Requests : RequestState(q) = "pending" /\ q \notin requestMap}
<1>1. \A q \in Requests : ~Held(q)'
  BY DEF ReleaseVector, Held
<1>2. \A q \in Requests :
        RequestState(q)' = IF q \in R THEN "dropped" ELSE RequestState(q)
  BY <1>1 DEF RequestState
<1>3. R \in SUBSET Requests /\ R \subseteq Service!Pending
  BY DEF Service!Pending
<1>4. [q \in Requests |-> RequestState(q)]'
        = [q \in Requests |-> IF q \in R THEN "dropped"
                              ELSE [p \in Requests |-> RequestState(p)][q]]
  BY <1>2
<1>5. Delivering' = Delivering /\ Closed' = Closed
  BY DEF Delivering, Closed
<1>q. QED
  BY <1>3, <1>4, <1>5, Zenon DEF Service!Drop

\* The callers: a request is asked for, one is dropped, the client is closed, or nothing
\* happens to the service.
LEMMA CallerServes ==
  ASSUME Inv1, ServeInv, NEW c \in Callers, Caller(c) PROVE [Service!Next]_(Service!vars)
<1> USE DEF Inv1, TypeOK
<1> USE DEF flagVars, responseVars, runVars, requestVars, mapVars, vectorVars, handlerVars,
            callerVars
<1>1. CASE Request(c)
  BY <1>1, RequestServes DEF Service!Next
<1>2. CASE DestroyJoin(c)
  <2>1. PICK r \in Requests : requestMap' = requestMap \ {r}
    BY <1>2 DEF DestroyJoin
  <2>2. UNCHANGED <<runs, reports, finishedRequests, handler, emitPos, call, throws>>
    BY <1>2 DEF DestroyJoin
  <2>q. QED BY <2>1, <2>2, EraseServes DEF Service!Next
<1>3. CASE JoinHandler(c)
  <2>1. handler \in {"off", "exited"} /\ call' = [call EXCEPT ![c] = "destroy"]
    BY <1>3 DEF JoinHandler, HandlerJoined
  <2>2. UNCHANGED <<runs, reports, requestMap, finishedRequests, handler, emitPos, throws>>
    BY <1>3 DEF JoinHandler
  <2>3. Delivering = NoThread /\ Delivering' = Delivering
    BY <2>1, <2>2 DEF Delivering
  <2>4. Closed' = TRUE
    <3>1. call'[c] = "destroy"
      BY <2>1
    <3>q. QED BY <3>1 DEF Closed
  <2>q. QED
    BY <2>2, <2>3, <2>4, SameStates, Zenon DEF Service!Close, Service!Next
<1>4. CASE InitClient(c)
  <2>1. UNCHANGED <<runs, reports, requestMap, finishedRequests, emitPos, call, throws>>
    BY <1>4 DEF InitClient
  <2>2. handler = "off" /\ handler' = "check"
    BY <1>4 DEF InitClient
  <2>q. QED BY <2>1, <2>2, SameStates, Stutter DEF Delivering, Closed
<1>5. CASE CallAbort(c) \/ CallDestroy(c) \/ AbortLock(c) \/ AbortNext(c) \/ AbortJoin(c)
             \/ AbortUnlock(c) \/ StopHandler(c) \/ DestroyStop(c) \/ Destroyed(c)
  <2>1. UNCHANGED <<runs, reports, requestMap, finishedRequests, handler, emitPos, throws>>
    BY <1>5 DEF CallAbort, CallDestroy, AbortLock, AbortNext, AbortJoin, AbortUnlock,
                StopHandler, DestroyStop, Destroyed
  <2>2. \/ call' = call
        \/ \E p : /\ call' = [call EXCEPT ![c] = p]
                  /\ call[c] \in {"destroy", "gone"} <=> p \in {"destroy", "gone"}
    BY <1>5 DEF CallAbort, CallDestroy, AbortLock, AbortNext, AbortJoin, AbortUnlock,
                StopHandler, DestroyStop, Destroyed
  <2>3. Closed' = Closed
    BY <2>2, SameClosed DEF Closed
  <2>q. QED BY <2>1, <2>3, SameStates, Stutter DEF Delivering
<1>q. QED
  BY <1>1, <1>2, <1>3, <1>4, <1>5 DEF Caller

\* The handler: callbacks start, return and throw, requests are dropped by the clean-up, and
\* the rest is its own business.
LEMMA HandlerServes ==
  ASSUME Inv1, Inv2, ReportInv, ServeInv, RequestHandler PROVE [Service!Next]_(Service!vars)
<1> USE DEF Inv1, TypeOK
<1> USE DEF flagVars, responseVars, runVars, requestVars, mapVars, vectorVars, handlerVars,
            callerVars
<1>1. CASE Request(Handler)
  BY <1>1, RequestServes DEF Service!Next
<1>2. CASE CleanupErase
  <2>1. PICK r \in Requests : requestMap' = requestMap \ {r}
    BY <1>2 DEF CleanupErase
  <2>2. UNCHANGED <<runs, reports, finishedRequests, handler, emitPos, call, throws>>
    BY <1>2 DEF CleanupErase
  <2>q. QED BY <2>1, <2>2, EraseServes DEF Service!Next
<1>3. CASE HandlerEmit
  <2>1. PICK r \in Requests :
          emitPos \in 1..Len(finishedRequests) /\ r = finishedRequests[emitPos]
    BY <1>3 DEF HandlerEmit
  <2>2. runs[r] # 0 /\ runs[r] \in Nat /\ reports[r] \in Nat
    BY <2>1 DEF Inv2, RunInv, VectorInv
  <2>3. UNCHANGED <<runs, requestMap, finishedRequests, emitPos, call, throws>>
    BY <1>3 DEF HandlerEmit
  <2>4. reports' = [reports EXCEPT ![r] = @ + 1]
    BY <1>3, <2>1 DEF HandlerEmit
  <2>5. handler = "emit" /\ handler' = "callback"
    BY <1>3 DEF HandlerEmit
  <2>6. RequestState(r) = "pending" \/ (throws > 0 /\ RequestState(r) = "delivered")
    <3>1. Held(r)
      BY <2>1 DEF Held
    <3>2. throws = 0 => reports[r] = 0
      BY <2>1, <2>5 DEF ReportInv
    <3>3. CASE reports[r] = 0
      BY <2>2, <3>1, <3>3 DEF RequestState
    <3>4. CASE reports[r] > 0
      <4>1. RequestState(r) = "delivered"
        BY <2>2, <3>4 DEF RequestState
      <4>2. throws > 0
        BY <3>2, <3>4, HttpClientAssumption
      <4>q. QED BY <4>1, <4>2
    <3>q. QED BY <2>2, <3>3, <3>4
  <2>7. RequestState(r)' = "delivered"
    BY <2>1, <2>2, <2>3, <2>4, SMTT(30) DEF RequestState
  <2>8. \A q \in Requests : q # r => RequestState(q)' = RequestState(q)
    BY <2>1, <2>3, <2>4 DEF RequestState, Held
  <2>9. [q \in Requests |-> RequestState(q)]'
          = [[q \in Requests |-> RequestState(q)] EXCEPT ![r] = "delivered"]
    BY <2>1, <2>7, <2>8
  <2>10. ~Closed /\ Closed' = Closed
    BY <2>3, <2>5 DEF ControlInv, Closed
  <2>11. Delivering = NoThread /\ Delivering' = r
    BY <2>1, <2>3, <2>5 DEF Delivering
  <2>12. Service!Deliver(r)
    BY <2>1, <2>3, <2>6, <2>9, <2>10, <2>11, Zenon DEF Service!Deliver
  <2>q. QED BY <2>1, <2>12 DEF Service!Next
<1>4. CASE CallbackReturns \/ CallbackThrows
  <2>1. UNCHANGED <<runs, reports, requestMap, finishedRequests, call>>
    BY <1>4 DEF CallbackReturns, CallbackThrows
  <2>2. handler = "callback" /\ handler' # "callback"
    BY <1>4 DEF CallbackReturns, CallbackThrows
  <2>3. Delivering # NoThread /\ Delivering' = NoThread
    <3>1. finishedRequests[emitPos] \in Requests
      BY <2>2 DEF ControlInv
    <3>q. QED BY <2>2, <3>1, HttpClientAssumption DEF Delivering
  <2>4. Closed' = Closed
    BY <2>1 DEF Closed
  <2>5. CASE throws' = throws
    BY <2>1, <2>3, <2>4, <2>5, SameStates, Zenon DEF Service!Next, Service!CallbackReturns
  <2>6. CASE throws' = throws + 1
    <3>1. (throws > 0)' = TRUE
      BY <2>6, HttpClientAssumption
    <3>q. QED
      BY <2>1, <2>3, <2>4, <3>1, SameStates, Zenon DEF Service!Next, Service!CallbackThrows
  <2>q. QED BY <1>4, <2>5, <2>6 DEF CallbackReturns, CallbackThrows
<1>5. CASE HandlerScan
  <2>1. PICK r \in requestMap : \/ finishedRequests' = Append(finishedRequests, r)
                                \/ finishedRequests' = finishedRequests
    BY <1>5 DEF HandlerScan
  <2>2. UNCHANGED <<runs, reports, requestMap, call, throws>>
    BY <1>5 DEF HandlerScan
  <2>3. \A q \in Requests : (q \in requestMap \/ Held(q))' <=> (q \in requestMap \/ Held(q))
    <3>1. CASE finishedRequests' = finishedRequests
      BY <2>2, <3>1 DEF Held
    <3>2. CASE finishedRequests' = Append(finishedRequests, r)
      <4>1. r \in Requests
        OBVIOUS
      <4>2. \A q \in Requests : Held(q)' <=> Held(q) \/ q = r
        BY <3>2, <4>1, HeldAppend
      <4>q. QED BY <2>1, <2>2, <4>2
    <3>q. QED BY <2>1, <3>1, <3>2
  <2>4. \A q \in Requests : RequestState(q)' = RequestState(q)
    BY <2>2, <2>3 DEF RequestState
  <2>5. Delivering' = Delivering /\ Closed' = Closed
    BY <1>5, <2>2 DEF HandlerScan, Delivering, Closed
  <2>q. QED BY <2>2, <2>4, <2>5, Stutter
<1>6. CASE HandlerRestart
  <2>1. current \in Requests /\ runs' = [runs EXCEPT ![current] = @ + 1]
    BY <1>6 DEF HandlerRestart, DoRequest
  <2>2. UNCHANGED <<reports, requestMap, finishedRequests, call, throws>>
    BY <1>6 DEF HandlerRestart, DoRequest
  <2>3. runs[current] # 0
    BY <1>6 DEF HandlerRestart, Inv2, IterationInv, ServeInv
  <2>4. \A q \in Requests : (runs'[q] = 0 <=> runs[q] = 0) /\ (runs'[q] > 0 <=> runs[q] > 0)
    BY <2>1, <2>3
  <2>5. \A q \in Requests : RequestState(q)' = RequestState(q)
    BY <2>2, <2>4 DEF RequestState, Held
  <2>6. Delivering' = Delivering /\ Closed' = Closed
    BY <1>6, <2>2 DEF HandlerRestart, Delivering, Closed
  <2>q. QED BY <2>2, <2>5, <2>6, Stutter
<1>7. CASE HandlerClear \/ HandlerExit
  <2>1. UNCHANGED <<runs, reports, requestMap, call, throws>>
    BY <1>7 DEF HandlerClear, HandlerExit
  <2>2. ReleaseVector /\ handler # "callback" /\ handler' # "callback"
    BY <1>7 DEF HandlerClear, HandlerExit
  <2>q. QED BY <2>1, <2>2, ReleaseServes DEF Service!Next
<1>8. CASE HandlerCheck \/ HandlerLock \/ HandlerRedirect \/ HandlerUnlock \/ CleanupLock
             \/ CleanupUnlock
  <2>1. UNCHANGED <<runs, reports, requestMap, finishedRequests, call, throws>>
    BY <1>8 DEF HandlerCheck, HandlerLock, HandlerRedirect, HandlerUnlock, CleanupLock,
                CleanupUnlock
  <2>2. handler # "callback" /\ handler' # "callback"
    BY <1>8 DEF HandlerCheck, HandlerLock, HandlerRedirect, HandlerUnlock, CleanupLock,
                CleanupUnlock
  <2>q. QED BY <2>1, <2>2, SameStates, Stutter DEF Delivering, Closed
<1>q. QED
  BY <1>1, <1>2, <1>3, <1>4, <1>5, <1>6, <1>7, <1>8 DEF RequestHandler

-----------------------------------------------------------------------------
\* Every behaviour of the client is one of the service: what DeviceRegistry and the other
\* users assume of it is what it does.
THEOREM Implements == Spec => ServesRequests
<1>1. Init => Service!Init
  BY DEF Init, Service!Init, RequestState, Delivering, Closed
<1>2. ASSUME Inv1, Inv2, ReportInv, ServeInv, [Next]_vars PROVE [Service!Next]_(Service!vars)
  <2>1. CASE UNCHANGED vars
    <3>1. UNCHANGED <<runs, reports, requestMap, finishedRequests, handler, emitPos, call,
                      throws>>
      BY <2>1 DEF vars, requestVars, runVars, mapVars, handlerVars, vectorVars, callerVars
    <3>q. QED BY <3>1, SameStates, Stutter DEF Delivering, Closed
  <2>2. CASE Next
    BY <1>2, <2>1, <2>2, PumpServes, CallerServes, HandlerServes DEF Next, Gone
  <2>q. QED BY <1>2, <2>1, <2>2
<1>q. QED
  BY <1>1, <1>2, InitInv1, NextInv1, InitInv2, NextInv2, InitReportInv, NextReportInv,
     InitServeInv, NextServeInv, PTL DEF Spec, ServesRequests, Service!Spec

-----------------------------------------------------------------------------
(***************************************************************************)
(* The runs of a request are exchanges as HttpExchange has them.           *)
(***************************************************************************)

\* While a body is received the error code is that of an answer: 999 is set by a failure only.
CodeInv == \A r \in Requests : pump[r] = "body" => errorCode[r] # 999

LEMMA InitCodeInv == Init => CodeInv
BY DEF Init, CodeInv

LEMMA StatusBounds == \A s \in Statuses : s \in 101 .. 999 /\ s \in Int /\ s # 999
BY HttpClientAssumption

\* What is left of the exchange of a request by a step that does not touch the request.
Untouched(r) ==
  /\ pump'[r] = pump[r] /\ runs'[r] = runs[r] /\ status'[r] = status[r]
  /\ errorCode'[r] = errorCode[r] /\ (r \in finished' <=> r \in finished)

LEMMA UntouchedStutters ==
  ASSUME NEW r \in Requests, Untouched(r)
  PROVE  UNCHANGED Exchange(r)!vars
BY DEF Exchange!vars, ExchangePhase, Untouched

LEMMA PhaseOfRequest ==
  ASSUME NEW r
  PROVE  /\ pump[r] \in {"connect", "wait"} => ExchangePhase(r) = "wait"
         /\ pump[r] = "body" => ExchangePhase(r) = "body"
         /\ pump[r] = "none" => ExchangePhase(r) = "none"
         /\ (pump[r] = "ending" /\ r \in finished) \/ pump[r] = "exited" =>
              ExchangePhase(r) = IF r \notin finished THEN "stopped"
                                 ELSE IF errorCode[r] = 999 THEN "failed" ELSE "complete"
BY DEF ExchangePhase

LEMMA PhaseOfRequestNext ==
  ASSUME NEW r
  PROVE  /\ pump'[r] \in {"connect", "wait"} => ExchangePhase(r)' = "wait"
         /\ pump'[r] = "body" => ExchangePhase(r)' = "body"
         /\ (pump'[r] = "ending" /\ r \in finished') \/ pump'[r] = "exited" =>
              ExchangePhase(r)' = IF r \notin finished' THEN "stopped"
                                  ELSE IF errorCode'[r] = 999 THEN "failed" ELSE "complete"
BY DEF ExchangePhase

\* doRequest starts an exchange, when the thread of the one before has ended.
LEMMA StartsExchange ==
  ASSUME Inv1, Inv2, NEW r \in Requests, ~Running(r), DoRequest(r)
  PROVE  /\ Exchange(r)!Start
         /\ \A q \in Requests \ {r} : Untouched(q)
<1>1. /\ pump \in [Requests -> {"none", "connect", "wait", "body", "ending", "exited"}]
      /\ runs \in [Requests -> Nat]
  BY DEF Inv1, TypeOK
<1>2. /\ pump' = [pump EXCEPT ![r] = "connect"] /\ runs' = [runs EXCEPT ![r] = @ + 1]
      /\ finished' = finished \ {r} /\ UNCHANGED <<status, errorCode, responseRun>>
  BY DEF DoRequest, responseVars
<1>3. pump'[r] = "connect" /\ runs'[r] = runs[r] + 1
  BY <1>1, <1>2
<1>4. pump[r] \in {"none", "exited"}
  BY <1>1 DEF Running, Receiving
<1>5. ExchangePhase(r) \notin {"wait", "body"} /\ ExchangePhase(r)' = "wait"
  BY <1>3, <1>4, PhaseOfRequest, PhaseOfRequestNext
<1>6. Exchange(r)!Start
  BY <1>2, <1>3, <1>5 DEF Exchange!Start
<1>7. \A q \in Requests \ {r} : Untouched(q)
  BY <1>1, <1>2 DEF Untouched
<1>q. QED
  BY <1>6, <1>7

\* A pump thread takes its own request through an exchange and touches no other.
LEMMA PumpExchanges ==
  ASSUME Inv1, Inv2, CodeInv, NEW r \in Requests, Pump(r)
  PROVE  /\ [Exchange(r)!Next]_(Exchange(r)!vars)
         /\ \A q \in Requests \ {r} : Untouched(q)
         /\ CodeInv'
<1>1. /\ pump \in [Requests -> {"none", "connect", "wait", "body", "ending", "exited"}]
      /\ status \in [Requests -> Statuses \cup {0}] /\ errorCode \in [Requests -> ErrorCodes]
      /\ r \in finished => pump[r] \in {"ending", "exited"}
  BY DEF Inv1, TypeOK, Inv2, RunInv
<1> USE DEF flagVars, runVars, responseVars, Exchange!Next
<1>2. CASE PumpConnect(r)
  <2>1. /\ pump[r] = "connect" /\ pump' = [pump EXCEPT ![r] = "wait"]
        /\ UNCHANGED <<finished, runs, status, errorCode>>
    BY <1>2 DEF PumpConnect
  <2>2. ExchangePhase(r)' = ExchangePhase(r)
    BY <1>1, <2>1, PhaseOfRequest, PhaseOfRequestNext
  <2>q. QED
    BY <1>1, <2>1, <2>2 DEF Exchange!vars, Untouched, CodeInv
<1>3. CASE PumpBegin(r)
  <2>1. PICK s \in Statuses :
          /\ pump[r] = "wait" /\ pump' = [pump EXCEPT ![r] = "body"]
          /\ status' = [status EXCEPT ![r] = s] /\ errorCode' = [errorCode EXCEPT ![r] = 0]
          /\ UNCHANGED <<finished, runs>>
    BY <1>3 DEF PumpBegin
  <2>2. /\ ExchangePhase(r) = "wait" /\ ExchangePhase(r)' = "body"
        /\ status'[r] \in 101 .. 999 /\ errorCode'[r] = 0
    BY <1>1, <2>1, StatusBounds, PhaseOfRequest, PhaseOfRequestNext
  <2>3. Exchange(r)!Begin
    BY <2>1, <2>2 DEF Exchange!Begin
  <2>q. QED
    BY <1>1, <2>1, <2>3 DEF Untouched, CodeInv
<1>4. CASE PumpData(r)
  <2>1. /\ pump[r] = "body"
        /\ errorCode' = [errorCode EXCEPT ![r] = IF status[r] = 200 THEN 0 ELSE status[r]]
        /\ UNCHANGED <<finished, pump, runs, status>>
    BY <1>4 DEF PumpData
  <2>2. /\ ExchangePhase(r) = "body" /\ ExchangePhase(r)' = "body"
        /\ errorCode'[r] = IF status[r] = 200 THEN 0 ELSE status[r]
    BY <1>1, <2>1, PhaseOfRequest, PhaseOfRequestNext
  <2>3. Exchange(r)!Data
    BY <2>1, <2>2 DEF Exchange!Data, Exchange!Code
  <2>4. errorCode'[r] # 999
    BY <1>1, <2>2, StatusBounds
  <2>5. \A q \in Requests \ {r} : errorCode'[q] = errorCode[q]
    BY <1>1, <2>1
  <2>q. QED
    BY <1>1, <2>1, <2>3, <2>4, <2>5 DEF Untouched, CodeInv
<1>5. CASE PumpComplete(r)
  <2>1. /\ pump[r] = "body" /\ pump' = [pump EXCEPT ![r] = "ending"]
        /\ finished' = finished \cup {r} /\ UNCHANGED <<runs, status, errorCode>>
    BY <1>5 DEF PumpComplete
  <2>2. ExchangePhase(r) = "body" /\ ExchangePhase(r)' = "complete"
    BY <1>1, <2>1, PhaseOfRequest, PhaseOfRequestNext DEF CodeInv
  <2>3. Exchange(r)!Complete
    BY <2>1, <2>2 DEF Exchange!Complete
  <2>q. QED
    BY <1>1, <2>1, <2>3 DEF Untouched, CodeInv
<1>6. CASE PumpFail(r)
  <2>1. /\ pump[r] \in {"connect", "wait", "body"} /\ pump' = [pump EXCEPT ![r] = "ending"]
        /\ finished' = finished \cup {r} /\ errorCode' = [errorCode EXCEPT ![r] = 999]
        /\ UNCHANGED <<runs, status>>
    BY <1>6 DEF PumpFail, Receiving
  <2>2. ExchangePhase(r) \in {"wait", "body"} /\ ExchangePhase(r)' = "failed" /\ errorCode'[r] = 999
    BY <1>1, <2>1, PhaseOfRequest, PhaseOfRequestNext
  <2>3. Exchange(r)!Fail
    BY <2>1, <2>2 DEF Exchange!Fail, Exchange!Failure
  <2>q. QED
    BY <1>1, <2>1, <2>3 DEF Untouched, CodeInv
<1>7. CASE PumpStop(r)
  <2>1. /\ pump[r] \in {"wait", "body"} /\ pump' = [pump EXCEPT ![r] = "exited"]
        /\ UNCHANGED <<finished, runs, status, errorCode>>
    BY <1>7 DEF PumpStop
  <2>2. ExchangePhase(r) \in {"wait", "body"} /\ ExchangePhase(r)' = "stopped"
    BY <1>1, <2>1, PhaseOfRequest, PhaseOfRequestNext
  <2>3. Exchange(r)!Stop
    BY <2>1, <2>2 DEF Exchange!Stop
  <2>q. QED
    BY <1>1, <2>1, <2>3 DEF Untouched, CodeInv
<1>8. CASE PumpEnd(r)
  <2>1. /\ pump[r] = "ending" /\ pump' = [pump EXCEPT ![r] = "exited"]
        /\ UNCHANGED <<finished, runs, status, errorCode>>
    BY <1>8 DEF PumpEnd
  <2>2. r \in finished
    BY <2>1 DEF Inv2, RunInv
  <2>3. ExchangePhase(r)' = ExchangePhase(r)
    BY <1>1, <2>1, <2>2, PhaseOfRequest, PhaseOfRequestNext
  <2>q. QED
    BY <1>1, <2>1, <2>3 DEF Exchange!vars, Untouched, CodeInv
<1>q. QED
  BY <1>2, <1>3, <1>4, <1>5, <1>6, <1>7, <1>8 DEF Pump

\* Whatever else a caller or the handler does, it does not touch an exchange.
LEMMA OthersKeepExchanges ==
  ASSUME [Next]_vars,
         \A r \in Requests : ~Pump(r), \A t \in Callers \cup {Handler} : ~Request(t),
         ~HandlerRestart
  PROVE  UNCHANGED <<pump, runs, status, errorCode, finished>>
<1> USE DEF vars, flagVars, requestVars, runVars, responseVars
<1>1. ASSUME NEW c \in Callers, Caller(c)
      PROVE  UNCHANGED <<pump, runs, status, errorCode, finished>>
  BY <1>1 DEF Caller, InitClient, CallAbort, CallDestroy, AbortLock, AbortNext, AbortJoin,
              AbortUnlock, StopHandler, JoinHandler, DestroyStop, DestroyJoin, Destroyed
<1>2. ASSUME RequestHandler
      PROVE  UNCHANGED <<pump, runs, status, errorCode, finished>>
  BY <1>2 DEF RequestHandler, HandlerCheck, HandlerExit, HandlerLock, HandlerScan, HandlerRedirect,
              HandlerUnlock, HandlerEmit, CallbackReturns, CallbackThrows, HandlerClear,
              ReleaseVector, CleanupLock, CleanupErase, CleanupUnlock
<1>q. QED
  BY <1>1, <1>2 DEF Next, Gone

LEMMA StepExchanges ==
  ASSUME Inv1, Inv2, CodeInv, [Next]_vars
  PROVE  /\ \A r \in Requests : [Exchange(r)!Next]_(Exchange(r)!vars)
         /\ CodeInv'
<1>1. ASSUME NEW r \in Requests, Pump(r)
      PROVE  /\ \A q \in Requests : [Exchange(q)!Next]_(Exchange(q)!vars)
             /\ CodeInv'
  BY <1>1, PumpExchanges, UntouchedStutters
<1>2. ASSUME NEW r \in Requests, ~Running(r), DoRequest(r)
      PROVE  /\ \A q \in Requests : [Exchange(q)!Next]_(Exchange(q)!vars)
             /\ CodeInv'
  <2>1. Exchange(r)!Start /\ \A q \in Requests \ {r} : Untouched(q)
    BY <1>2, StartsExchange
  <2>2. \A q \in Requests : [Exchange(q)!Next]_(Exchange(q)!vars)
    <3> TAKE q \in Requests
    <3>1. CASE q = r
      BY <2>1, <3>1 DEF Exchange!Next
    <3>2. CASE q # r
      BY <2>1, <3>2, UntouchedStutters
    <3>q. QED
      BY <3>1, <3>2
  <2>3. CodeInv'
    BY <1>2 DEF DoRequest, responseVars, CodeInv, Inv1, TypeOK
  <2>q. QED
    BY <2>2, <2>3
<1>3. CASE \E t \in Callers \cup {Handler} : Request(t)
  <2>1. PICK r \in Requests : runs[r] = 0 /\ DoRequest(r)
    BY <1>3 DEF Request
  <2>2. ~Running(r)
    BY <2>1 DEF Inv2, RunInv, Running, Receiving
  <2>q. QED
    BY <1>2, <2>1, <2>2
<1>4. CASE HandlerRestart
  BY <1>2, <1>4 DEF HandlerRestart, Joined, Inv1, TypeOK
<1>5. CASE UNCHANGED <<pump, runs, status, errorCode, finished>>
  <2>1. \A r \in Requests : Untouched(r)
    BY <1>5 DEF Untouched
  <2>q. QED
    BY <1>5, <2>1, UntouchedStutters DEF CodeInv
<1>q. QED
  BY <1>1, <1>3, <1>4, <1>5, OthersKeepExchanges

\* The runs of every request, its redirections and its aborts make exchanges one after the
\* other (onBegin, onData, onComplete, the error response, doRequest and abort).
THEOREM Exchanges == Spec => MakesExchanges
<1>1. ASSUME Init PROVE \A r \in Requests : Exchange(r)!Init
  BY <1>1 DEF Init, Exchange!Init, ExchangePhase
<1>2. ASSUME Inv1, Inv2, CodeInv, [Next]_vars
      PROVE  [\A r \in Requests : [Exchange(r)!Next]_(Exchange(r)!vars)]_vars
  BY <1>2, StepExchanges
<1>3. Inv1 /\ Inv2 /\ CodeInv /\ [Next]_vars => CodeInv'
  BY StepExchanges
<1>q. QED
  BY <1>1, <1>2, <1>3, InitInv1, NextInv1, InitInv2, NextInv2, InitCodeInv, PTL
     DEF Spec, MakesExchanges
=============================================================================
