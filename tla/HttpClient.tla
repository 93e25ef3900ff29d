----------------------------- MODULE HttpClient -----------------------------
(***************************************************************************)
(* The asynchronous HTTP client: class HttpClient (request map, request    *)
(* handler thread) and class HttpRequest (one pump thread per run of a     *)
(* request).  Actors:                                                      *)
(*                                                                         *)
(*   - Callers: the threads of the program that use the client; one of     *)
(*     them eventually runs the destructor;                                *)
(*   - Handler: HttpClient::requestHandlerThread;                          *)
(*   - one pump thread per request, named by the request it belongs to;    *)
(*   - the HTTP server, which answers, redirects, fails or stays silent.   *)
(*                                                                         *)
(* A step ends where a thread may block or where another thread may see    *)
(* what it did.  What happens while mutexRequestMap is held and touches    *)
(* only the map or an object nobody else knows is one step.                *)
(***************************************************************************)
EXTENDS Integers, Sequences

CONSTANTS
  Requests,   \* the HttpRequest objects that may be created
  Callers,    \* the threads that call the client
  Handler,    \* the request handler thread
  NoThread,   \* the owner of a free mutex
  Statuses,   \* the HTTP status codes the server answers with
  MaxRuns,    \* bound: how often one request is started (1 + redirections)
  MaxThrows   \* bound: how many finish callbacks throw an exception

ASSUME HttpClientAssumption ==
  /\ Handler \notin Callers
  /\ NoThread \notin Callers \cup {Handler} \cup Requests
  /\ Statuses \subseteq 101..599
  /\ MaxRuns \in Nat \ {0}
  /\ MaxThrows \in Nat

VARIABLES
  \* HttpRequest
  finished,           \* the requests whose flag finished is set
  deleteable,         \* ... deleteable
  redirection,        \* ... redirection
  stopRequestThread,  \* ... stopRequestThread
  pump,               \* the state of every pump thread (threadRequestRun)
  runs,               \* how often doRequest started each request
  status,             \* the status of the response in transfer (0: none yet)
  errorCode,          \* the error code of httpResponse
  responseRun,        \* the run that made httpResponse, 0 for the null pointer
  reports,            \* how often the finish callback of each request was called
  \* HttpClient
  requestMap,         \* the requests the map holds
  mutexRequestMap,    \* the thread that holds the mutex
  todo,               \* what the mutex holder has still to visit of the map
  current,            \* the request whose pump thread the holder joins
  handler,            \* where the handler thread is
  finishedRequests,   \* the handler's local vector
  emitPos,            \* its position in that vector when it emits
  abortRequestHandlerThread,
  throws,             \* how many finish callbacks have thrown
  call,               \* where every caller is
  closer              \* the caller that destroys the client

flagVars == <<finished, deleteable, redirection, stopRequestThread>>
responseVars == <<status, errorCode, responseRun>>
runVars == <<pump, runs, responseVars, reports>>
requestVars == <<flagVars, runVars>>
mapVars == <<requestMap, mutexRequestMap, todo, current>>
vectorVars == <<finishedRequests, emitPos, throws>>
handlerVars == <<handler, vectorVars, abortRequestHandlerThread>>
callerVars == <<call, closer>>
vars == <<requestVars, mapVars, handlerVars, callerVars>>

-----------------------------------------------------------------------------
(***************************************************************************)
(* HttpRequest                                                             *)
(***************************************************************************)

\* HttpResponse::errorCode: 0, the HTTP status, or what the pump thread sets
\* when it catches an exception (999, 998 and 900 are one value here).
ErrorCodes == {0} \cup Statuses \cup {999}

\* The exchange is not over: the pump thread may still write to the request.
Receiving(r) == pump[r] \in {"connect", "wait", "body"}

\* The pump thread still runs: join() would block.
Running(r) == Receiving(r) \/ pump[r] = "ending"

\* threadRequestRun.join() returns, or there is nothing to join.
JoinedUnchecked(r) == TRUE
Joined(r) == ~Running(r)

\* HttpRequest::doRequest.
DoRequest(r) ==
  /\ stopRequestThread' = stopRequestThread \ {r}
  /\ redirection' = redirection \ {r}
  /\ finished' = finished \ {r}
  /\ deleteable' = deleteable \ {r}
  /\ pump' = [pump EXCEPT ![r] = "connect"]
  /\ runs' = [runs EXCEPT ![r] = @ + 1]
  /\ UNCHANGED <<responseVars, reports>>

\* The handler's test for a request whose finish callback is due.
ReadyToReportEarly(r) == responseRun[r] > 0 /\ r \notin deleteable \cup redirection
ReadyToReport(r) == r \in finished \ (deleteable \cup redirection)

\* The connection is made and the request is sent.
PumpConnect(r) ==
  /\ pump[r] = "connect"
  /\ pump' = [pump EXCEPT ![r] = "wait"]
  /\ UNCHANGED <<flagVars, runs, responseVars, reports, mapVars, handlerVars, callerVars>>

\* onBegin: the header is complete.  A new, empty HttpResponse with error code 0
\* replaces the old one; status 307 marks the request as a redirection.
PumpBegin(r) ==
  /\ pump[r] = "wait"
  /\ \E s \in Statuses :
       /\ s = 307 => runs[r] < MaxRuns
       /\ status' = [status EXCEPT ![r] = s]
       /\ redirection' = IF s = 307 THEN redirection \cup {r} ELSE redirection
  /\ errorCode' = [errorCode EXCEPT ![r] = 0]
  /\ responseRun' = [responseRun EXCEPT ![r] = runs[r]]
  /\ pump' = [pump EXCEPT ![r] = "body"]
  /\ UNCHANGED <<finished, deleteable, stopRequestThread, runs, reports,
                 mapVars, handlerVars, callerVars>>

\* onData: the first piece of the body sets the error code (later ones repeat it).
PumpData(r) ==
  /\ pump[r] = "body"
  /\ errorCode' = [errorCode EXCEPT ![r] = IF status[r] = 200 THEN 0 ELSE status[r]]
  /\ UNCHANGED <<flagVars, pump, runs, status, responseRun, reports,
                 mapVars, handlerVars, callerVars>>

\* onComplete.  The thread is still to sleep and to find that nothing is outstanding.
PumpComplete(r) ==
  /\ pump[r] = "body"
  /\ finished' = finished \cup {r}
  /\ pump' = [pump EXCEPT ![r] = "ending"]
  /\ UNCHANGED <<deleteable, redirection, stopRequestThread, runs, responseVars, reports,
                 mapVars, handlerVars, callerVars>>

\* An exception of the connection or of a callback: an error response, finished.
PumpFail(r) ==
  /\ Receiving(r)
  /\ errorCode' = [errorCode EXCEPT ![r] = 999]
  /\ responseRun' = [responseRun EXCEPT ![r] = runs[r]]
  /\ finished' = finished \cup {r}
  /\ pump' = [pump EXCEPT ![r] = "ending"]
  /\ UNCHANGED <<deleteable, redirection, stopRequestThread, runs, status, reports,
                 mapVars, handlerVars, callerVars>>

\* The pump loop sees stopRequestThread: the thread ends, the request is not finished.
PumpStop(r) ==
  /\ pump[r] \in {"wait", "body"}
  /\ r \in stopRequestThread
  /\ pump' = [pump EXCEPT ![r] = "exited"]
  /\ UNCHANGED <<flagVars, runs, responseVars, reports, mapVars, handlerVars, callerVars>>

\* A thread that has set finished leaves the pump loop, or the handler of the exception, and
\* ends.
PumpEnd(r) ==
  /\ pump[r] = "ending"
  /\ pump' = [pump EXCEPT ![r] = "exited"]
  /\ UNCHANGED <<flagVars, runs, responseVars, reports, mapVars, handlerVars, callerVars>>

Pump(r) == \/ PumpConnect(r) \/ PumpBegin(r) \/ PumpData(r) \/ PumpComplete(r)
           \/ PumpFail(r) \/ PumpStop(r) \/ PumpEnd(r)

-----------------------------------------------------------------------------
(***************************************************************************)
(* The callers                                                             *)
(***************************************************************************)

\* Nothing holds the mutex.
LockUnchecked == TRUE
LockFree == mutexRequestMap = NoThread

\* HttpClient::init, before the client is destroyed.
InitClient(c) ==
  /\ call[c] = "idle" /\ closer = NoThread
  /\ handler = "off"
  /\ handler' = "check"
  /\ abortRequestHandlerThread' = FALSE
  /\ UNCHANGED <<requestVars, mapVars, vectorVars, callerVars>>

\* HttpClient::request, by a caller or by the handler from a finish callback.
Request(t) ==
  /\ \/ t \in Callers /\ call[t] = "idle" /\ closer = NoThread
     \/ t = Handler /\ handler = "callback"
  /\ LockFree
  /\ \E r \in Requests :
       /\ runs[r] = 0
       /\ requestMap' = requestMap \cup {r}
       /\ DoRequest(r)
  /\ UNCHANGED <<mutexRequestMap, todo, current, handlerVars, callerVars>>

\* A caller starts abortAllRequests.
CallAbort(c) ==
  /\ call[c] = "idle" /\ closer = NoThread
  /\ call' = [call EXCEPT ![c] = "lock"]
  /\ UNCHANGED <<requestVars, mapVars, handlerVars, closer>>

\* A caller runs the destructor, which starts with abortAllRequests.  No other
\* call is in progress and none starts any more.
CallDestroy(c) ==
  /\ \A d \in Callers : call[d] = "idle"
  /\ closer = NoThread
  /\ closer' = c
  /\ call' = [call EXCEPT ![c] = "lock"]
  /\ UNCHANGED <<requestVars, mapVars, handlerVars>>

AbortLock(c) ==
  /\ call[c] = "lock"
  /\ LockFree
  /\ mutexRequestMap' = c
  /\ todo' = requestMap
  /\ call' = [call EXCEPT ![c] = "abort"]
  /\ UNCHANGED <<requestVars, requestMap, current, handlerVars, closer>>

\* HttpRequest::abort on one request of the map, up to the join ...
AbortNext(c) ==
  /\ call[c] = "abort"
  /\ \E r \in todo :
       /\ stopRequestThread' = stopRequestThread \cup {r}
       /\ current' = r
       /\ todo' = todo \ {r}
  /\ call' = [call EXCEPT ![c] = "join"]
  /\ UNCHANGED <<finished, deleteable, redirection, runVars,
                 requestMap, mutexRequestMap, handlerVars, closer>>

\* ... and after it.
AbortJoin(c) ==
  /\ call[c] = "join"
  /\ Joined(current)
  /\ deleteable' = deleteable \cup {current}
  /\ call' = [call EXCEPT ![c] = "abort"]
  /\ UNCHANGED <<finished, redirection, stopRequestThread, runVars,
                 mapVars, handlerVars, closer>>

AbortUnlock(c) ==
  /\ call[c] = "abort"
  /\ todo = {}
  /\ mutexRequestMap' = NoThread
  /\ call' = [call EXCEPT ![c] = IF closer = c THEN "setFlag" ELSE "idle"]
  /\ UNCHANGED <<requestVars, requestMap, todo, current, handlerVars, closer>>

StopHandlerUnset(c) ==
  /\ call[c] = "setFlag"
  /\ call' = [call EXCEPT ![c] = "joinHandler"]
  /\ UNCHANGED <<requestVars, mapVars, handlerVars, closer>>
StopHandler(c) ==
  /\ call[c] = "setFlag"
  /\ abortRequestHandlerThread' = TRUE
  /\ call' = [call EXCEPT ![c] = "joinHandler"]
  /\ UNCHANGED <<requestVars, mapVars, handler, vectorVars, closer>>

\* stopRequestHandlerThread returns when the handler was never started or has ended.
HandlerJoinedUnchecked == TRUE
HandlerJoined == handler \in {"off", "exited"}
JoinHandler(c) ==
  /\ call[c] = "joinHandler"
  /\ HandlerJoined
  /\ call' = [call EXCEPT ![c] = "destroy"]
  /\ UNCHANGED <<requestVars, mapVars, handlerVars, closer>>

\* The map is destroyed: ~HttpRequest aborts every request it still holds.
DestroyStop(c) ==
  /\ call[c] = "destroy"
  /\ \E r \in requestMap \ stopRequestThread :
       stopRequestThread' = stopRequestThread \cup {r}
  /\ UNCHANGED <<finished, deleteable, redirection, runVars,
                 mapVars, handlerVars, callerVars>>
DestroyJoin(c) ==
  /\ call[c] = "destroy"
  /\ \E r \in requestMap \cap stopRequestThread :
       Joined(r) /\ requestMap' = requestMap \ {r}
  /\ UNCHANGED <<requestVars, mutexRequestMap, todo, current, handlerVars, callerVars>>
Destroyed(c) ==
  /\ call[c] = "destroy"
  /\ requestMap = {}
  /\ call' = [call EXCEPT ![c] = "gone"]
  /\ UNCHANGED <<requestVars, mapVars, handlerVars, closer>>

Caller(c) == \/ InitClient(c) \/ Request(c) \/ CallAbort(c) \/ CallDestroy(c)
             \/ AbortLock(c) \/ AbortNext(c) \/ AbortJoin(c) \/ AbortUnlock(c)
             \/ StopHandler(c) \/ JoinHandler(c)
             \/ DestroyStop(c) \/ DestroyJoin(c) \/ Destroyed(c)

-----------------------------------------------------------------------------
(***************************************************************************)
(* The request handler thread                                              *)
(***************************************************************************)

\* The handler's vector holds the request; after a throw it may be the last to hold it, so that
\* ~HttpRequest, which stops and joins the pump thread, runs when the vector lets it go.
Held(r) == \E i \in 1..Len(finishedRequests) : finishedRequests[i] = r
Released == {r \in Requests \ requestMap : Held(r)}
ReleaseVector ==
  /\ \A r \in Released : Joined(r)
  /\ stopRequestThread' = stopRequestThread \cup Released
  /\ finishedRequests' = <<>>

\* while (!abortRequestHandlerThread): one more round ...
HandlerCheck ==
  /\ handler = "check"
  /\ ~abortRequestHandlerThread
  /\ handler' = "lock"
  /\ UNCHANGED <<requestVars, mapVars, vectorVars, abortRequestHandlerThread, callerVars>>

\* ... or the thread ends, and its vector with it.
HandlerExit ==
  /\ handler = "check"
  /\ abortRequestHandlerThread
  /\ ReleaseVector
  /\ handler' = "exited"
  /\ UNCHANGED <<finished, deleteable, redirection, runVars, mapVars, emitPos, throws,
                 abortRequestHandlerThread, callerVars>>

HandlerLock ==
  /\ handler = "lock"
  /\ LockFree
  /\ mutexRequestMap' = Handler
  /\ todo' = requestMap
  /\ handler' = "scan"
  /\ UNCHANGED <<requestVars, requestMap, current, vectorVars,
                 abortRequestHandlerThread, callerVars>>

\* A request that is not a redirection: collect it when its callback is due.
HandlerScan ==
  /\ handler = "scan"
  /\ \E r \in todo \ redirection :
       /\ finishedRequests' = IF ReadyToReport(r) THEN Append(finishedRequests, r)
                                                  ELSE finishedRequests
       /\ todo' = todo \ {r}
  /\ UNCHANGED <<requestVars, requestMap, mutexRequestMap, current, handler,
                 emitPos, throws, abortRequestHandlerThread, callerVars>>

\* A redirection: abort the run, up to the join of its pump thread ...
RedirectWithoutStop(r) == stopRequestThread
RedirectStop(r) == stopRequestThread \cup {r}
HandlerRedirect ==
  /\ handler = "scan"
  /\ \E r \in todo \cap redirection :
       /\ stopRequestThread' = RedirectStop(r)
       /\ current' = r
       /\ todo' = todo \ {r}
  /\ handler' = "join"
  /\ UNCHANGED <<finished, deleteable, redirection, runVars, requestMap, mutexRequestMap,
                 vectorVars, abortRequestHandlerThread, callerVars>>

\* ... then run the same request again with the new URL.
HandlerRestart ==
  /\ handler = "join"
  /\ Joined(current)
  /\ DoRequest(current)
  /\ handler' = "scan"
  /\ UNCHANGED <<mapVars, vectorVars, abortRequestHandlerThread, callerVars>>

\* The vector is reported from its first element on.
SecondElement == 2
FirstElement == 1
HandlerUnlock ==
  /\ handler = "scan"
  /\ todo = {}
  /\ mutexRequestMap' = NoThread
  /\ handler' = "emit"
  /\ emitPos' = FirstElement
  /\ UNCHANGED <<requestVars, requestMap, todo, current, finishedRequests, throws,
                 abortRequestHandlerThread, callerVars>>

\* emitRequestFinishCallback: the callback starts ...
HandlerEmit ==
  /\ handler = "emit"
  /\ emitPos <= Len(finishedRequests)
  /\ reports' = [reports EXCEPT ![finishedRequests[emitPos]] = @ + 1]
  /\ handler' = "callback"
  /\ UNCHANGED <<flagVars, pump, runs, responseVars, mapVars, vectorVars,
                 abortRequestHandlerThread, callerVars>>

\* ... and returns: setDeleteable(true), next request of the vector ...
MarkNothing == deleteable
MarkReported == deleteable \cup {finishedRequests[emitPos]}
CallbackReturns ==
  /\ handler = "callback"
  /\ deleteable' = MarkReported
  /\ emitPos' = emitPos + 1
  /\ handler' = "emit"
  /\ UNCHANGED <<finished, redirection, stopRequestThread, runVars, mapVars,
                 finishedRequests, throws, abortRequestHandlerThread, callerVars>>

\* ... or throws: the rest of the vector is skipped and the vector keeps its elements.
CallbackThrows ==
  /\ handler = "callback"
  /\ throws < MaxThrows
  /\ throws' = throws + 1
  /\ handler' = "cleanup"
  /\ UNCHANGED <<requestVars, mapVars, finishedRequests, emitPos,
                 abortRequestHandlerThread, callerVars>>

HandlerClear ==
  /\ handler = "emit"
  /\ emitPos > Len(finishedRequests)
  /\ ReleaseVector
  /\ handler' = "cleanup"
  /\ UNCHANGED <<finished, deleteable, redirection, runVars, mapVars, emitPos, throws,
                 abortRequestHandlerThread, callerVars>>

\* cleanupRequests: lock, visit the deleteable requests ...
CleanupLock ==
  /\ handler = "cleanup"
  /\ LockFree
  /\ mutexRequestMap' = Handler
  /\ todo' = requestMap \cap deleteable
  /\ handler' = "erase"
  /\ UNCHANGED <<requestVars, requestMap, current, vectorVars,
                 abortRequestHandlerThread, callerVars>>

\* ... erase each one: unless the vector still holds it (after a throw),
\* ~HttpRequest stops and joins its pump thread ...
CleanupErase ==
  /\ handler = "erase"
  /\ \E r \in todo :
       /\ Held(r) \/ Joined(r)
       /\ stopRequestThread' = stopRequestThread \cup {q \in {r} : ~Held(q)}
       /\ requestMap' = requestMap \ {r}
       /\ todo' = todo \ {r}
  /\ UNCHANGED <<finished, deleteable, redirection, runVars, mutexRequestMap, current,
                 handlerVars, callerVars>>

\* ... unlock, sleep.
CleanupUnlock ==
  /\ handler = "erase"
  /\ todo = {}
  /\ mutexRequestMap' = NoThread
  /\ handler' = "check"
  /\ UNCHANGED <<requestVars, requestMap, todo, current, vectorVars,
                 abortRequestHandlerThread, callerVars>>

RequestHandler ==
  \/ HandlerCheck \/ HandlerExit \/ HandlerLock \/ HandlerScan \/ HandlerRedirect
  \/ HandlerRestart \/ HandlerUnlock \/ HandlerEmit \/ CallbackReturns \/ CallbackThrows \/ HandlerClear
  \/ CleanupLock \/ CleanupErase \/ CleanupUnlock \/ Request(Handler)

-----------------------------------------------------------------------------
Init ==
  /\ finished = {} /\ deleteable = {} /\ redirection = {} /\ stopRequestThread = {}
  /\ pump = [r \in Requests |-> "none"]
  /\ runs = [r \in Requests |-> 0] /\ reports = [r \in Requests |-> 0]
  /\ status = [r \in Requests |-> 0] /\ errorCode = [r \in Requests |-> 0]
  /\ responseRun = [r \in Requests |-> 0]
  /\ requestMap = {} /\ mutexRequestMap = NoThread
  /\ todo = {} /\ current \in Requests
  /\ handler = "off"
  /\ finishedRequests = <<>> /\ emitPos = 1
  /\ abortRequestHandlerThread = FALSE
  /\ call = [c \in Callers |-> "idle"] /\ closer = NoThread
  /\ throws = 0

\* The client is destroyed.
Gone == closer # NoThread /\ call[closer] = "gone" /\ UNCHANGED vars

Next == \/ \E r \in Requests : Pump(r)
        \/ \E c \in Callers : Caller(c)
        \/ RequestHandler
        \/ Gone

Spec == Init /\ [][Next]_vars

\* Fairness.  Threads are scheduled; connect() returns or fails; finish callbacks
\* return.  Strong fairness for the mutex: every holder releases it and the
\* handler sleeps without it in each round.  The server owes nobody an answer.
Fairness ==
  /\ \A r \in Requests :
       WF_vars(PumpConnect(r)) /\ WF_vars(PumpStop(r)) /\ WF_vars(PumpEnd(r))
  /\ WF_vars(\/ HandlerCheck \/ HandlerExit \/ HandlerScan \/ HandlerRedirect \/ HandlerRestart
             \/ HandlerUnlock \/ HandlerEmit \/ HandlerClear \/ CallbackReturns
             \/ CleanupErase \/ CleanupUnlock)
  /\ SF_vars(HandlerLock) /\ SF_vars(CleanupLock)
  /\ \A c \in Callers :
       /\ SF_vars(AbortLock(c))
       /\ WF_vars(\/ AbortNext(c) \/ AbortJoin(c) \/ AbortUnlock(c) \/ StopHandler(c)
                  \/ JoinHandler(c) \/ DestroyStop(c) \/ DestroyJoin(c) \/ Destroyed(c))

FairSpec == Spec /\ Fairness

-----------------------------------------------------------------------------
TypeOK ==
  /\ finished \subseteq Requests /\ deleteable \subseteq Requests
  /\ redirection \subseteq Requests /\ stopRequestThread \subseteq Requests
  /\ pump \in [Requests -> {"none", "connect", "wait", "body", "ending", "exited"}]
  /\ runs \in [Requests -> Nat] /\ reports \in [Requests -> Nat]
  /\ status \in [Requests -> Statuses \cup {0}] /\ errorCode \in [Requests -> ErrorCodes]
  /\ responseRun \in [Requests -> Nat]
  /\ requestMap \subseteq Requests /\ todo \subseteq requestMap
  /\ mutexRequestMap \in Callers \cup {Handler, NoThread}
  /\ current \in Requests
  /\ handler \in {"off", "check", "lock", "scan", "join", "emit", "callback",
                  "cleanup", "erase", "exited"}
  /\ finishedRequests \in Seq(Requests) /\ emitPos \in Nat \ {0}
  /\ abortRequestHandlerThread \in BOOLEAN
  /\ call \in [Callers -> {"idle", "lock", "abort", "join", "setFlag",
                           "joinHandler", "destroy", "gone"}]
  /\ closer \in Callers \cup {NoThread}
  /\ throws \in 0..MaxThrows

\* The pump thread of a request that may be deleted has ended or is on its way out, whoever
\* marked the request: nothing writes to it any more, and when the clean-up joins the thread
\* while it holds the mutex it does not wait for the server.
DeleteableIsQuiet == \A r \in Requests : r \in deleteable => ~Receiving(r)

\* While a finish callback runs, its request is finished, the response it reads
\* was made by the last run (not by the run that was redirected), and no pump
\* thread writes to it (it may still be winding down).
CallbackSeesLastAnswer ==
  handler = "callback" =>
    LET r == finishedRequests[emitPos]
    IN  /\ r \in finished /\ ~Receiving(r)
        /\ responseRun[r] = runs[r]

\* As long as no callback throws, a request is reported at most once, however the
\* handler's rounds interleave with aborts, redirections and new requests.
ReportedAtMostOnce == throws = 0 => \A r \in Requests : reports[r] <= 1

\* When abortAllRequests has visited the map and is about to unlock it, no request
\* of the map is running: no restart and no new request slipped in behind it.
AbortLeavesNothingRunning ==
  \A c \in Callers : call[c] = "abort" /\ todo = {} => \A r \in requestMap : ~Running(r)

\* When stopRequestHandlerThread has returned the handler delivers nothing any
\* more, and when the client is gone no thread of it is left.
StoppedIsQuiet ==
  \A c \in Callers :
    /\ call[c] \in {"destroy", "gone"} => handler \in {"off", "exited"}
    /\ call[c] = "gone" => \A r \in Requests : ~Running(r)

\* A run is started only when the pump thread of the run before has ended
\* (assigning to a joinable std::thread would terminate the program).
RunsDoNotOverlap ==
  [][\A r \in Requests : runs'[r] # runs[r] => ~Running(r)]_vars

\* A finish callback that is due is delivered (and the request marked), unless the
\* handler thread is told to stop.
FinishedIsReported ==
  \A r \in Requests :
    (ReadyToReport(r) /\ handler # "off") ~> (r \in deleteable \/ abortRequestHandlerThread)

\* A redirection is followed, also when the redirected server never closes the
\* first connection, unless the request is aborted and deleted before or the handler
\* thread is told to stop.
RedirectionIsFollowed ==
  \A r \in Requests :
    (r \in redirection /\ r \in requestMap /\ handler # "off")
      ~> (r \notin redirection \/ r \notin requestMap \/ abortRequestHandlerThread)

\* The destructor returns, whatever the server and the other threads do.
DestroyReturns == \A c \in Callers : closer = c ~> call[c] = "gone"

\* What RequestService calls the state of a request: it is dropped when neither the map nor
\* the handler's vector has it any more and it was never reported.
RequestState(r) ==
  CASE runs[r] = 0 -> "none"
    [] runs[r] > 0 /\ reports[r] > 0 -> "delivered"
    [] runs[r] > 0 /\ reports[r] = 0 /\ (r \in requestMap \/ Held(r)) -> "pending"
    [] OTHER -> "dropped"

Delivering == IF handler = "callback" THEN finishedRequests[emitPos] ELSE NoThread
Closed == \E c \in Callers : call[c] \in {"destroy", "gone"}

Service == INSTANCE RequestService WITH
  Nobody <- NoThread,
  request <- [r \in Requests |-> RequestState(r)],
  delivering <- Delivering,
  closed <- Closed,
  thrown <- throws > 0

\* To its users the client is a RequestService: whatever aborts, redirections, new
\* requests, throwing callbacks and the destructor do to one another, callbacks run one at
\* a time, a request is delivered again only after a throw, a dropped one never, and none
\* after the client is closed.
ServesRequests == Service!Spec

\* What HttpExchange calls where the pump thread of a request is.
ExchangePhase(r) ==
  CASE pump[r] \in {"connect", "wait"} -> "wait"
    [] pump[r] = "exited" /\ r \notin finished -> "stopped"
    [] pump[r] \in {"ending", "exited"} /\ r \in finished /\ errorCode[r] = 999 -> "failed"
    [] pump[r] \in {"ending", "exited"} /\ r \in finished /\ errorCode[r] # 999 -> "complete"
    [] OTHER -> pump[r]

Exchange(r) == INSTANCE HttpExchange WITH
  phase <- ExchangePhase(r), status <- status[r], code <- errorCode[r], number <- runs[r]

\* Over redirections and aborts a request makes one exchange after the other: no run starts
\* before the one before it has ended, and when a pump thread has ended, its finished flag and
\* the error code tell whether the answer was complete, the connection failed or it was stopped.
MakesExchanges ==
  /\ \A r \in Requests : Exchange(r)!Init
  /\ [][\A r \in Requests : [Exchange(r)!Next]_(Exchange(r)!vars)]_vars
=============================================================================
