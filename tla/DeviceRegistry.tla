--------------------------- MODULE DeviceRegistry ---------------------------
(***************************************************************************)
(* RaumserverInstaller as the registry of the devices in the network.      *)
(* Four kinds of threads meet on its device map:                           *)
(*                                                                         *)
(*   - the control point of the UPnP stack (external) calls back for       *)
(*     services found and lost, one callback at a time (deviceListMutex);  *)
(*   - one ssh access checker thread per found service;                    *)
(*   - the request handler thread of the HttpClient, which delivers the    *)
(*     results of the getVersion requests as RequestService says;          *)
(*   - the thread that destroys the object.                                *)
(*                                                                         *)
(* All of them call back into the application, which may read the map from *)
(* its callbacks.  Found services are numbered; number k also names the    *)
(* checker and the request of the k-th.                                    *)
(***************************************************************************)
EXTENDS Integers

CONSTANTS
  Ips,       \* the devices, by their address
  Services,  \* the UPnP services of a device that announce it
  Free,      \* the owner of a free mutex
  MaxFound   \* bound: how many services are found

ASSUME DeviceRegistryAssumption == MaxFound \in Nat /\ Free \notin Nat

Founds == 1..MaxFound

VARIABLES
  announced,                  \* the services the control point has found and not lost
  discovery,                  \* where its callback is
  subject,                    \* the device it is about
  founds,                     \* the number of services found
  device,                     \* the device of every found service
  keys,                       \* the devices in deviceInformationMap
  checked,                    \* ... whose sshAccess is not UNKNOWN
  asked,                      \* ... whose raumserverRuns is not UNKNOWN
  mutexDeviceInformationMap,  \* the checker that holds the mutex over several steps
  checker,                    \* where every checker thread is
  request,                    \* the state of every getVersion request
  handler,                    \* where the request handler's callback is
  delivering,                 \* the request it is about, 0 when there is none
  stopSSHAccessCheckThreads,
  destruction,                \* how far the destructor is
  toJoin,                     \* the checkers it has still to join
  unjoined,                   \* checkers whose std::thread is joinable
  terminated,                 \* std::terminate was called
  appDevices,                 \* the devices the application has been told of
  lastFound,                  \* the devices whose latest event was found
  late                        \* the checkers started while the destructor runs

discoveryVars == <<announced, discovery, subject, founds, device>>
mapVars == <<keys, checked, asked>>
requestVars == <<request, handler, delivering>>
closeVars == <<stopSSHAccessCheckThreads, destruction, toJoin>>
historyVars == <<appDevices, lastFound, late>>
vars == <<discoveryVars, mapVars, mutexDeviceInformationMap, checker, requestVars,
          closeVars, unjoined, terminated, historyVars>>

\* The HttpClient, a member; the callbacks of this program do not throw.
Http == INSTANCE RequestService WITH
  Requests <- Founds, Nobody <- 0,
  closed <- destruction \in {"threads", "gone"}, thrown <- FALSE

LockFree == mutexDeviceInformationMap = Free

\* A callback of the application returns: one that reads the map (getDeviceMap,
\* getDeviceInformation) waits for the mutex.
Returns(p, callback, reading) == p = callback \/ (p = reading /\ LockFree)

-----------------------------------------------------------------------------
(***************************************************************************)
(* Discovery                                                               *)
(***************************************************************************)

\* The signals of the discovery are still connected.
Connected == ~terminated /\ destruction \in {"no", "join", "abort"}

\* DeviceDiscovery_UPNP::onDeviceFound for a suitable device.
FoundService ==
  /\ Connected
  /\ discovery = "idle"
  /\ founds < MaxFound
  /\ founds' = founds + 1
  /\ \E i \in Ips, s \in Services :
       /\ <<i, s>> \notin announced
       /\ announced' = announced \cup {<<i, s>>}
       /\ subject' = i
       /\ device' = [device EXCEPT ![founds + 1] = i]
       /\ lastFound' = lastFound \cup {i}
  /\ discovery' = "insert"
  /\ UNCHANGED <<mapVars, mutexDeviceInformationMap, checker, requestVars, closeVars,
                 unjoined, terminated, appDevices, late>>

\* DeviceDiscovery_UPNP::onDeviceLost.
LostService ==
  /\ Connected
  /\ discovery = "idle"
  /\ \E i \in Ips, s \in Services :
       /\ <<i, s>> \in announced
       /\ announced' = announced \ {<<i, s>>}
       /\ subject' = i
       /\ lastFound' = lastFound \ {i}
  /\ discovery' = "erase"
  /\ UNCHANGED <<founds, device, mapVars, mutexDeviceInformationMap, checker, requestVars,
                 closeVars, unjoined, terminated, appDevices, late>>

\* insert leaves an entry alone that is there already.
InsertDevice ==
  /\ ~terminated
  /\ discovery = "insert"
  /\ LockFree
  /\ keys' = keys \cup {subject}
  /\ discovery' = "found"
  /\ UNCHANGED <<announced, subject, founds, device, checked, asked,
                 mutexDeviceInformationMap, checker, requestVars, closeVars, unjoined,
                 terminated, historyVars>>

\* erase: the entry and what was known of the device are gone.
EraseDevice ==
  /\ ~terminated
  /\ discovery = "erase"
  /\ LockFree
  /\ keys' = keys \ {subject}
  /\ checked' = checked \ {subject} /\ asked' = asked \ {subject}
  /\ discovery' = "removed"
  /\ UNCHANGED <<announced, subject, founds, device, mutexDeviceInformationMap, checker,
                 requestVars, closeVars, unjoined, terminated, historyVars>>

\* sigDeviceFoundForInstall and sigDeviceRemovedForInstall: the application is called ...
Tell ==
  /\ ~terminated
  /\ \/ /\ discovery = "found"
        /\ appDevices' = appDevices \cup {subject}
        /\ discovery' \in {"inFound", "readsFound"}
     \/ /\ discovery = "removed"
        /\ appDevices' = appDevices \ {subject}
        /\ discovery' \in {"inRemoved", "readsRemoved"}
  /\ UNCHANGED <<announced, subject, founds, device, mapVars, mutexDeviceInformationMap,
                 checker, requestVars, closeVars, unjoined, terminated, lastFound, late>>

\* ... and returns.
DiscoveryReturns ==
  /\ ~terminated
  /\ \/ Returns(discovery, "inFound", "readsFound") /\ discovery' = "spawn"
     \/ Returns(discovery, "inRemoved", "readsRemoved") /\ discovery' = "idle"
  /\ UNCHANGED <<announced, subject, founds, device, mapVars, mutexDeviceInformationMap,
                 checker, requestVars, closeVars, unjoined, terminated, historyVars>>

\* startSSHAccessCheckerThread.
SpawnChecker ==
  /\ ~terminated
  /\ discovery = "spawn"
  /\ checker' = [checker EXCEPT ![founds] = "start"]
  /\ unjoined' = unjoined \cup {founds}
  /\ late' = IF destruction = "no" THEN late ELSE late \cup {founds}
  /\ discovery' = "request"
  /\ UNCHANGED <<announced, subject, founds, device, mapVars, mutexDeviceInformationMap,
                 requestVars, closeVars, terminated, appDevices, lastFound>>

\* HttpClient::request for getVersion.
RequestVersion ==
  /\ ~terminated
  /\ discovery = "request"
  /\ discovery' = "idle"
  /\ UNCHANGED <<announced, subject, founds, device, mapVars, mutexDeviceInformationMap,
                 checker, handler, closeVars, unjoined, terminated, historyVars>>
  /\ Http!Ask(founds)

-----------------------------------------------------------------------------
(***************************************************************************)
(* sshAccessCheckThread                                                    *)
(***************************************************************************)

CheckerStarts(k) ==
  /\ ~terminated
  /\ checker[k] = "start"
  /\ checker' = [checker EXCEPT ![k] = IF stopSSHAccessCheckThreads THEN "ended" ELSE "connect"]
  /\ UNCHANGED <<discoveryVars, mapVars, mutexDeviceInformationMap, requestVars,
                 closeVars, unjoined, terminated, historyVars>>

\* connectSSH succeeds or fails.
CheckerConnects(k) ==
  /\ ~terminated
  /\ checker[k] = "connect"
  /\ checker' = [checker EXCEPT ![k] = "lock"]
  /\ UNCHANGED <<discoveryVars, mapVars, mutexDeviceInformationMap, requestVars,
                 closeVars, unjoined, terminated, historyVars>>

CheckerLocks(k) ==
  /\ ~terminated
  /\ checker[k] = "lock"
  /\ LockFree
  /\ mutexDeviceInformationMap' = k
  /\ checker' = [checker EXCEPT ![k] = "store"]
  /\ UNCHANGED <<discoveryVars, mapVars, requestVars, closeVars, unjoined,
                 terminated, historyVars>>

\* When the device is still there (find, which makes no entry) the result is stored; after a
\* login two remote commands look for the raumserver, with the mutex held.
AnyDevice(i) == TRUE
InMap(i) == i \in keys
CheckerStores(k) ==
  /\ ~terminated
  /\ checker[k] = "store"
  /\ LET i == device[k]
     IN  IF InMap(i)
         THEN keys' = keys \cup {i} /\ checked' = checked \cup {i}
         ELSE UNCHANGED <<keys, checked>>
  /\ checker' = [checker EXCEPT ![k] = "unlock"]
  /\ UNCHANGED <<discoveryVars, asked, mutexDeviceInformationMap, requestVars,
                 closeVars, unjoined, terminated, historyVars>>

StillLocked == mutexDeviceInformationMap
Unlocked == Free
CheckerUnlocks(k) ==
  /\ ~terminated
  /\ checker[k] = "unlock"
  /\ mutexDeviceInformationMap' = Unlocked
  /\ checker' = [checker EXCEPT ![k] = "changed"]
  /\ UNCHANGED <<discoveryVars, mapVars, requestVars, closeVars, unjoined,
                 terminated, historyVars>>

\* sigDeviceInformationChanged, whether or not the device was found in the map.
CheckerTells(k) ==
  /\ ~terminated
  /\ checker[k] = "changed"
  /\ \E p \in {"inChanged", "readsChanged"} : checker' = [checker EXCEPT ![k] = p]
  /\ UNCHANGED <<discoveryVars, mapVars, mutexDeviceInformationMap, requestVars,
                 closeVars, unjoined, terminated, historyVars>>

CheckerReturns(k) ==
  /\ ~terminated
  /\ Returns(checker[k], "inChanged", "readsChanged")
  /\ checker' = [checker EXCEPT ![k] = "ended"]
  /\ UNCHANGED <<discoveryVars, mapVars, mutexDeviceInformationMap, requestVars,
                 closeVars, unjoined, terminated, historyVars>>

Checker(k) == \/ CheckerStarts(k) \/ CheckerConnects(k) \/ CheckerLocks(k) \/ CheckerStores(k)
              \/ CheckerUnlocks(k) \/ CheckerTells(k) \/ CheckerReturns(k)

-----------------------------------------------------------------------------
(***************************************************************************)
(* onRequestResult, on the request handler thread                          *)
(***************************************************************************)

\* A request is finished, with or without an answer of a raumserver.
ResultArrives(k) ==
  /\ ~terminated
  /\ handler' = "store"
  /\ UNCHANGED <<discoveryVars, mapVars, mutexDeviceInformationMap, checker, closeVars,
                 unjoined, terminated, historyVars>>
  /\ Http!Deliver(k)

Stored(i) == {i} \cap keys
ResultStored ==
  /\ ~terminated
  /\ handler = "store"
  /\ LockFree
  /\ asked' = asked \cup Stored(device[delivering])
  /\ handler' = "changed"
  /\ UNCHANGED <<discoveryVars, keys, checked, mutexDeviceInformationMap,
                 checker, request, delivering, closeVars, unjoined, terminated, historyVars>>

ResultTold ==
  /\ ~terminated
  /\ handler = "changed"
  /\ handler' \in {"inChanged", "readsChanged"}
  /\ UNCHANGED <<discoveryVars, mapVars, mutexDeviceInformationMap, checker, request, delivering,
                 closeVars, unjoined, terminated, historyVars>>

ResultReturns ==
  /\ ~terminated
  /\ Returns(handler, "inChanged", "readsChanged")
  /\ handler' = "idle"
  /\ UNCHANGED <<discoveryVars, mapVars, mutexDeviceInformationMap, checker, closeVars,
                 unjoined, terminated, historyVars>>
  /\ Http!CallbackReturns

-----------------------------------------------------------------------------
(***************************************************************************)
(* ~RaumserverInstaller and the destructors of its members                 *)
(***************************************************************************)

\* stopSSHAccessCheckerThreads joins the threads the vector holds when its loop starts ...
Destroy ==
  /\ ~terminated
  /\ destruction = "no"
  /\ destruction' = "join"
  /\ stopSSHAccessCheckThreads' = TRUE
  /\ toJoin' = unjoined
  /\ UNCHANGED <<discoveryVars, mapVars, mutexDeviceInformationMap, checker, requestVars,
                 unjoined, terminated, historyVars>>

JoinChecker ==
  /\ ~terminated
  /\ destruction = "join"
  /\ \E k \in toJoin : /\ checker[k] = "ended"
                       /\ toJoin' = toJoin \ {k}
                       /\ unjoined' = unjoined \ {k}
  /\ UNCHANGED <<discoveryVars, mapVars, mutexDeviceInformationMap, checker, requestVars,
                 stopSSHAccessCheckThreads, destruction, terminated, historyVars>>

NotJoined == TRUE
Joined == toJoin = {}
StopReturns ==
  /\ ~terminated
  /\ destruction = "join"
  /\ Joined
  /\ stopSSHAccessCheckThreads' = FALSE
  /\ destruction' = "abort"
  /\ UNCHANGED <<discoveryVars, mapVars, mutexDeviceInformationMap, checker, requestVars,
                 toJoin, unjoined, terminated, historyVars>>

\* abortAllRequests: some requests may have finished before it.  Then the members are
\* destroyed: connections disconnects the signals of the discovery, ...
AbortRequests ==
  /\ ~terminated
  /\ destruction = "abort"
  /\ destruction' = "disconnect"
  /\ UNCHANGED <<discoveryVars, mapVars, mutexDeviceInformationMap, checker, handler,
                 stopSSHAccessCheckThreads, toJoin, unjoined, terminated, historyVars>>
  /\ \E R \in SUBSET Http!Pending : Http!Drop(R)

\* ... waits for a callback of theirs that runs, ...
NotWaited == TRUE
CallbackOver == discovery = "idle"
Disconnected ==
  /\ ~terminated
  /\ destruction = "disconnect"
  /\ CallbackOver
  /\ destruction' = "http"
  /\ UNCHANGED <<discoveryVars, mapVars, mutexDeviceInformationMap, checker, requestVars,
                 stopSSHAccessCheckThreads, toJoin, unjoined, terminated, historyVars>>

\* ... the HttpClient joins its handler and delivers nothing any more, ...
DestroyClient ==
  /\ ~terminated
  /\ destruction = "http"
  /\ destruction' = "threads"
  /\ UNCHANGED <<discoveryVars, mapVars, mutexDeviceInformationMap, checker, handler,
                 stopSSHAccessCheckThreads, toJoin, unjoined, terminated, historyVars>>
  /\ Http!Close

\* ... and the vector of threads terminates the program when one was not joined.
DestroyCheckers ==
  /\ ~terminated
  /\ destruction = "threads"
  /\ terminated' = (unjoined # {})
  /\ destruction' = "gone"
  /\ UNCHANGED <<discoveryVars, mapVars, mutexDeviceInformationMap, checker, requestVars,
                 stopSSHAccessCheckThreads, toJoin, unjoined, historyVars>>

-----------------------------------------------------------------------------
Init ==
  /\ announced = {} /\ discovery = "idle" /\ subject \in Ips
  /\ founds = 0 /\ device \in [Founds -> {subject}]
  /\ keys = {} /\ checked = {} /\ asked = {}
  /\ mutexDeviceInformationMap = Free
  /\ checker = [k \in Founds |-> "none"]
  /\ handler = "idle"
  /\ stopSSHAccessCheckThreads = FALSE /\ destruction = "no" /\ toJoin = {}
  /\ unjoined = {} /\ terminated = FALSE
  /\ appDevices = {} /\ lastFound = {} /\ late = {}
  /\ Http!Init

\* The steps inside one callback of the discovery, in one callback of the handler, and
\* of the destructor.
DiscoveryGoesOn == \/ InsertDevice \/ EraseDevice \/ Tell \/ DiscoveryReturns
                   \/ SpawnChecker \/ RequestVersion
HandlerGoesOn == ResultStored \/ ResultTold \/ ResultReturns
DestructorGoesOn == \/ JoinChecker \/ StopReturns \/ AbortRequests \/ Disconnected
                    \/ DestroyClient \/ DestroyCheckers

Next == \/ FoundService \/ LostService \/ DiscoveryGoesOn
        \/ \E k \in Founds : Checker(k) \/ ResultArrives(k)
        \/ HandlerGoesOn
        \/ Destroy \/ DestructorGoesOn

Spec == Init /\ [][Next]_vars

\* Threads are scheduled, ssh calls end and callbacks of the application return.  Weak
\* fairness is enough for the mutex: the checkers that can hold it are finitely many.
\* Neither services nor answers of raumservers have to come.
Fairness ==
  /\ WF_vars(DiscoveryGoesOn)
  /\ \A k \in Founds : WF_vars(Checker(k))
  /\ WF_vars(HandlerGoesOn)
  /\ WF_vars(DestructorGoesOn)

FairSpec == Spec /\ Fairness

-----------------------------------------------------------------------------
DiscoverySteps == {"idle", "insert", "found", "inFound", "readsFound", "spawn", "request",
                   "erase", "removed", "inRemoved", "readsRemoved"}
CheckerSteps == {"none", "start", "connect", "lock", "store", "unlock", "changed", "inChanged",
                 "readsChanged", "ended"}

TypeOK ==
  /\ announced \subseteq Ips \X Services
  /\ discovery \in DiscoverySteps /\ subject \in Ips
  /\ founds \in 0..MaxFound /\ device \in [Founds -> Ips]
  /\ discovery \in {"insert", "found", "inFound", "readsFound", "spawn", "request"} => founds > 0
  /\ keys \subseteq Ips /\ checked \subseteq keys /\ asked \subseteq keys
  /\ mutexDeviceInformationMap \in Founds \cup {Free}
  /\ checker \in [Founds -> CheckerSteps]
  /\ request \in [Founds -> {"none", "pending", "delivered", "dropped"}]
  /\ handler \in {"idle", "store", "changed", "inChanged", "readsChanged"}
  /\ delivering \in 0..MaxFound /\ (handler = "idle" <=> delivering = 0)
  /\ stopSSHAccessCheckThreads \in BOOLEAN
  /\ destruction \in {"no", "join", "abort", "disconnect", "http", "threads", "gone"}
  /\ toJoin \subseteq unjoined /\ unjoined \subseteq Founds /\ late \subseteq Founds
  /\ terminated \in BOOLEAN
  /\ appDevices \subseteq Ips /\ lastFound \subseteq Ips

\* Between two callbacks of the discovery the map holds exactly the devices whose latest
\* event was found, and these are the devices the application was told of: no late
\* result of a checker or of a request brings a removed device back.
RegistryFollowsDiscovery ==
  discovery = "idle" => keys = lastFound /\ appDevices = lastFound

\* When the members have been destroyed and the program still runs, no thread is left
\* that would use them.
DestroyedIsQuiet ==
  destruction = "gone" /\ ~terminated =>
    /\ discovery = "idle" /\ handler = "idle"
    /\ \A k \in Founds : checker[k] \in {"none", "ended"}

\* When stopSSHAccessCheckerThreads has returned no checker runs, except those that a
\* callback of the discovery started while the destructor was running (the discovery is
\* destroyed last): only they can make the destructor terminate the program.
OnlyLateCheckersRun ==
  destruction \notin {"no", "join"} =>
    /\ \A k \in Founds : checker[k] \notin {"none", "ended"} => k \in late
    /\ terminated => late # {}

\* The application may read the map from its callbacks, on whichever thread: they return,
\* unless the program terminates.
CallbacksReturn ==
  /\ discovery \in {"readsFound", "readsRemoved"} ~> discovery \in {"spawn", "idle"} \/ terminated
  /\ handler = "readsChanged" ~> handler = "idle" \/ terminated
  /\ \A k \in Founds : checker[k] = "readsChanged" ~> checker[k] = "ended" \/ terminated

\* The destructor ends, although it waits for threads that wait for the network, for the
\* mutex and for the application.
DestructorEnds == destruction # "no" ~> destruction = "gone"
=============================================================================
