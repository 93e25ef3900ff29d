------------------------ MODULE DeviceRegistryProofs ------------------------
(***************************************************************************)
(* Proofs about DeviceRegistry, for every set of devices and services and  *)
(* every number of found services: the map and the application follow the  *)
(* discovery, no checker outlives its join, and the destructor leaves no   *)
(* thread behind unless it terminates the program.                         *)
(***************************************************************************)
EXTENDS DeviceRegistry, TLAPS

\* Up to the insertion the map may be without the device that was found, up to the erasure
\* it may still have the one that was lost; the application lags behind by one step.
FollowInv ==
  /\ discovery = "insert" => keys \cup {subject} = lastFound
  /\ discovery = "erase" => keys \ {subject} = lastFound
  /\ discovery \notin {"insert", "erase"} => keys = lastFound
  /\ discovery \in {"insert", "found"} => appDevices \cup {subject} = lastFound
  /\ discovery \in {"erase", "removed"} => appDevices \ {subject} = lastFound
  /\ discovery \notin {"insert", "found", "erase", "removed"} => appDevices = lastFound

\* A checker that runs is joinable, and once the destructor has begun a joinable checker is
\* one it is going to join or one that came late.  The third conjunct keeps a new checker
\* apart from those to join: its number has not been used.
LateInv ==
  /\ \A k \in Founds : checker[k] \notin {"none", "ended"} => k \in unjoined
  /\ \A k \in unjoined : checker[k] # "none" /\ k <= founds
  /\ discovery \in {"insert", "found", "inFound", "readsFound", "spawn"} => founds \notin unjoined
  /\ destruction = "no" => toJoin = {}
  /\ destruction # "no" => unjoined \subseteq toJoin \cup late
  /\ late \cap toJoin = {} /\ late \subseteq unjoined
  /\ destruction = "no" => late = {}
  /\ destruction \notin {"no", "join"} => toJoin = {}

\* What the stages of the destructor have brought to an end stays so.
QuietInv ==
  /\ destruction \in {"http", "threads", "gone"} => discovery = "idle"
  /\ destruction \in {"threads", "gone"} => handler = "idle"
  /\ terminated => unjoined # {}
  /\ destruction = "gone" /\ ~terminated => unjoined = {}

\* A service that was found has its request still before it.
ServiceInv ==
  /\ \A k \in Founds : k > founds => request[k] = "none"
  /\ discovery \in {"insert", "found", "inFound", "readsFound", "spawn", "request"}
       => request[founds] = "none"

\* A checker holds the mutex while it stores its result, and at no other time.
LockInv ==
  \A k \in Founds : mutexDeviceInformationMap = k <=> checker[k] \in {"store", "unlock"}

-----------------------------------------------------------------------------
\* Every step preserves the type invariant.
LEMMA TypeStep == ASSUME TypeOK, [Next]_vars PROVE TypeOK'
<1> USE DeviceRegistryAssumption
<1> USE DEF discoveryVars, mapVars, requestVars, closeVars, historyVars
<1> USE DEF TypeOK, DiscoverySteps, CheckerSteps, Founds
<1>1. CASE FoundService
  BY <1>1 DEF FoundService, Connected
<1>2. CASE LostService
  BY <1>2 DEF LostService, Connected
<1>3. CASE InsertDevice
  BY <1>3 DEF InsertDevice
<1>4. CASE EraseDevice
  BY <1>4 DEF EraseDevice
<1>5. CASE Tell
  BY <1>5 DEF Tell
<1>6. CASE DiscoveryReturns
  BY <1>6 DEF DiscoveryReturns, Returns
<1>7. CASE SpawnChecker
  BY <1>7 DEF SpawnChecker
<1>8. CASE RequestVersion
  BY <1>8 DEF RequestVersion, Http!Ask
<1>9. CASE \E k \in Founds : CheckerStarts(k)
  BY <1>9 DEF CheckerStarts
<1>10. CASE \E k \in Founds : CheckerConnects(k)
  BY <1>10 DEF CheckerConnects
<1>11. CASE \E k \in Founds : CheckerLocks(k)
  BY <1>11 DEF CheckerLocks
<1>12. CASE \E k \in Founds : CheckerStores(k)
  BY <1>12 DEF CheckerStores, InMap
<1>13. CASE \E k \in Founds : CheckerUnlocks(k)
  BY <1>13 DEF CheckerUnlocks, Unlocked
<1>14. CASE \E k \in Founds : CheckerTells(k)
  BY <1>14 DEF CheckerTells
<1>15. CASE \E k \in Founds : CheckerReturns(k)
  BY <1>15 DEF CheckerReturns, Returns
<1>16. CASE \E k \in Founds : ResultArrives(k)
  BY <1>16 DEF ResultArrives, Http!Deliver
<1>17. CASE ResultStored
  BY <1>17 DEF ResultStored, Stored
<1>18. CASE ResultTold
  BY <1>18 DEF ResultTold
<1>19. CASE ResultReturns
  BY <1>19 DEF ResultReturns, Returns, Http!CallbackReturns
<1>20. CASE Destroy
  BY <1>20 DEF Destroy
<1>21. CASE JoinChecker
  BY <1>21 DEF JoinChecker
<1>22. CASE StopReturns
  BY <1>22 DEF StopReturns, Joined
<1>23. CASE AbortRequests
  BY <1>23 DEF AbortRequests, Http!Drop, Http!Pending
<1>24. CASE Disconnected
  BY <1>24 DEF Disconnected, CallbackOver
<1>25. CASE DestroyClient
  BY <1>25 DEF DestroyClient, Http!Close
<1>26. CASE DestroyCheckers
  BY <1>26 DEF DestroyCheckers
<1>27. CASE UNCHANGED vars
  BY <1>27 DEF vars
<1>q. QED
  BY <1>1, <1>2, <1>3, <1>4, <1>5, <1>6, <1>7, <1>8, <1>9, <1>10, <1>11, <1>12, <1>13, <1>14,
     <1>15, <1>16, <1>17, <1>18, <1>19, <1>20, <1>21, <1>22, <1>23, <1>24, <1>25, <1>26, <1>27
  DEF Next, DiscoveryGoesOn, HandlerGoesOn, DestructorGoesOn, Checker

\* Only the discovery changes the map and what the application knows; a checker finds its
\* device in the map before it stores.
LEMMA FollowStep == ASSUME TypeOK, FollowInv, [Next]_vars PROVE FollowInv'
<1> USE DEF discoveryVars, mapVars, requestVars, closeVars, historyVars
<1> USE DEF TypeOK, FollowInv, DiscoverySteps, Founds
<1>1. CASE FoundService
  BY <1>1 DEF FoundService, Connected
<1>2. CASE LostService
  BY <1>2 DEF LostService, Connected
<1>3. CASE InsertDevice
  BY <1>3 DEF InsertDevice
<1>4. CASE EraseDevice
  BY <1>4 DEF EraseDevice
<1>5. CASE Tell
  BY <1>5 DEF Tell
<1>6. CASE DiscoveryReturns
  BY <1>6 DEF DiscoveryReturns, Returns
<1>7. CASE SpawnChecker
  BY <1>7 DEF SpawnChecker
<1>8. CASE RequestVersion
  BY <1>8 DEF RequestVersion, Http!Ask
<1>9. CASE \E k \in Founds : CheckerStarts(k)
  BY <1>9 DEF CheckerStarts
<1>10. CASE \E k \in Founds : CheckerConnects(k)
  BY <1>10 DEF CheckerConnects
<1>11. CASE \E k \in Founds : CheckerLocks(k)
  BY <1>11 DEF CheckerLocks
<1>12. CASE \E k \in Founds : CheckerStores(k)
  <2>1. PICK k \in Founds : CheckerStores(k)
    BY <1>12
  <2>2. CASE device[k] \in keys
    <3>1. keys' = keys \cup {device[k]}
      BY <2>1, <2>2 DEF CheckerStores, InMap
    <3>q. QED BY <2>1, <2>2, <3>1 DEF CheckerStores
  <2>3. CASE device[k] \notin keys
    <3>1. keys' = keys
      BY <2>1, <2>3 DEF CheckerStores, InMap
    <3>q. QED BY <2>1, <3>1 DEF CheckerStores
  <2>q. QED BY <2>2, <2>3
<1>13. CASE \E k \in Founds : CheckerUnlocks(k)
  BY <1>13 DEF CheckerUnlocks, Unlocked
<1>14. CASE \E k \in Founds : CheckerTells(k)
  BY <1>14 DEF CheckerTells
<1>15. CASE \E k \in Founds : CheckerReturns(k)
  BY <1>15 DEF CheckerReturns, Returns
<1>16. CASE \E k \in Founds : ResultArrives(k)
  BY <1>16 DEF ResultArrives, Http!Deliver
<1>17. CASE ResultStored
  BY <1>17 DEF ResultStored, Stored
<1>18. CASE ResultTold
  BY <1>18 DEF ResultTold
<1>19. CASE ResultReturns
  BY <1>19 DEF ResultReturns, Returns, Http!CallbackReturns
<1>20. CASE Destroy
  BY <1>20 DEF Destroy
<1>21. CASE JoinChecker
  BY <1>21 DEF JoinChecker
<1>22. CASE StopReturns
  BY <1>22 DEF StopReturns, Joined
<1>23. CASE AbortRequests
  BY <1>23 DEF AbortRequests, Http!Drop, Http!Pending
<1>24. CASE Disconnected
  BY <1>24 DEF Disconnected, CallbackOver
<1>25. CASE DestroyClient
  BY <1>25 DEF DestroyClient, Http!Close
<1>26. CASE DestroyCheckers
  BY <1>26 DEF DestroyCheckers
<1>27. CASE UNCHANGED vars
  BY <1>27 DEF vars
<1>q. QED
  BY <1>1, <1>2, <1>3, <1>4, <1>5, <1>6, <1>7, <1>8, <1>9, <1>10, <1>11, <1>12, <1>13, <1>14,
     <1>15, <1>16, <1>17, <1>18, <1>19, <1>20, <1>21, <1>22, <1>23, <1>24, <1>25, <1>26, <1>27
  DEF Next, DiscoveryGoesOn, HandlerGoesOn, DestructorGoesOn, Checker

\* Checkers are added by the discovery and taken away by the join of the destructor.
LEMMA LateStep == ASSUME TypeOK, LateInv, [Next]_vars PROVE LateInv'
<1> USE DEF discoveryVars, mapVars, requestVars, closeVars, historyVars
<1> USE DEF TypeOK, LateInv, CheckerSteps, Founds
<1>1. CASE FoundService
  BY <1>1 DEF FoundService, Connected
<1>2. CASE LostService
  BY <1>2 DEF LostService, Connected
<1>3. CASE InsertDevice
  BY <1>3 DEF InsertDevice
<1>4. CASE EraseDevice
  BY <1>4 DEF EraseDevice
<1>5. CASE Tell
  BY <1>5 DEF Tell
<1>6. CASE DiscoveryReturns
  BY <1>6 DEF DiscoveryReturns, Returns
<1>7. CASE SpawnChecker
  BY <1>7 DEF SpawnChecker
<1>8. CASE RequestVersion
  BY <1>8 DEF RequestVersion, Http!Ask
<1>9. CASE \E k \in Founds : CheckerStarts(k)
  BY <1>9 DEF CheckerStarts
<1>10. CASE \E k \in Founds : CheckerConnects(k)
  BY <1>10 DEF CheckerConnects
<1>11. CASE \E k \in Founds : CheckerLocks(k)
  BY <1>11 DEF CheckerLocks
<1>12. CASE \E k \in Founds : CheckerStores(k)
  BY <1>12 DEF CheckerStores, InMap
<1>13. CASE \E k \in Founds : CheckerUnlocks(k)
  BY <1>13 DEF CheckerUnlocks, Unlocked
<1>14. CASE \E k \in Founds : CheckerTells(k)
  BY <1>14 DEF CheckerTells
<1>15. CASE \E k \in Founds : CheckerReturns(k)
  BY <1>15 DEF CheckerReturns, Returns
<1>16. CASE \E k \in Founds : ResultArrives(k)
  BY <1>16 DEF ResultArrives, Http!Deliver
<1>17. CASE ResultStored
  BY <1>17 DEF ResultStored, Stored
<1>18. CASE ResultTold
  BY <1>18 DEF ResultTold
<1>19. CASE ResultReturns
  BY <1>19 DEF ResultReturns, Returns, Http!CallbackReturns
<1>20. CASE Destroy
  BY <1>20 DEF Destroy
<1>21. CASE JoinChecker
  BY <1>21 DEF JoinChecker
<1>22. CASE StopReturns
  BY <1>22 DEF StopReturns, Joined
<1>23. CASE AbortRequests
  BY <1>23 DEF AbortRequests, Http!Drop, Http!Pending
<1>24. CASE Disconnected
  BY <1>24 DEF Disconnected, CallbackOver
<1>25. CASE DestroyClient
  BY <1>25 DEF DestroyClient, Http!Close
<1>26. CASE DestroyCheckers
  BY <1>26 DEF DestroyCheckers
<1>27. CASE UNCHANGED vars
  BY <1>27 DEF vars
<1>q. QED
  BY <1>1, <1>2, <1>3, <1>4, <1>5, <1>6, <1>7, <1>8, <1>9, <1>10, <1>11, <1>12, <1>13, <1>14,
     <1>15, <1>16, <1>17, <1>18, <1>19, <1>20, <1>21, <1>22, <1>23, <1>24, <1>25, <1>26, <1>27
  DEF Next, DiscoveryGoesOn, HandlerGoesOn, DestructorGoesOn, Checker

\* The destructor passes a stage only when its condition holds, and nothing undoes it.
LEMMA QuietStep == ASSUME TypeOK, LateInv, QuietInv, [Next]_vars PROVE QuietInv'
<1> USE DEF discoveryVars, mapVars, requestVars, closeVars, historyVars
<1> USE DEF TypeOK, LateInv, QuietInv, Founds
<1>1. CASE FoundService
  BY <1>1 DEF FoundService, Connected
<1>2. CASE LostService
  BY <1>2 DEF LostService, Connected
<1>3. CASE InsertDevice
  BY <1>3 DEF InsertDevice
<1>4. CASE EraseDevice
  BY <1>4 DEF EraseDevice
<1>5. CASE Tell
  BY <1>5 DEF Tell
<1>6. CASE DiscoveryReturns
  BY <1>6 DEF DiscoveryReturns, Returns
<1>7. CASE SpawnChecker
  BY <1>7 DEF SpawnChecker
<1>8. CASE RequestVersion
  BY <1>8 DEF RequestVersion, Http!Ask
<1>9. CASE \E k \in Founds : CheckerStarts(k)
  BY <1>9 DEF CheckerStarts
<1>10. CASE \E k \in Founds : CheckerConnects(k)
  BY <1>10 DEF CheckerConnects
<1>11. CASE \E k \in Founds : CheckerLocks(k)
  BY <1>11 DEF CheckerLocks
<1>12. CASE \E k \in Founds : CheckerStores(k)
  BY <1>12 DEF CheckerStores, InMap
<1>13. CASE \E k \in Founds : CheckerUnlocks(k)
  BY <1>13 DEF CheckerUnlocks, Unlocked
<1>14. CASE \E k \in Founds : CheckerTells(k)
  BY <1>14 DEF CheckerTells
<1>15. CASE \E k \in Founds : CheckerReturns(k)
  BY <1>15 DEF CheckerReturns, Returns
<1>16. CASE \E k \in Founds : ResultArrives(k)
  BY <1>16 DEF ResultArrives, Http!Deliver
<1>17. CASE ResultStored
  BY <1>17 DEF ResultStored, Stored
<1>18. CASE ResultTold
  BY <1>18 DEF ResultTold
<1>19. CASE ResultReturns
  BY <1>19 DEF ResultReturns, Returns, Http!CallbackReturns
<1>20. CASE Destroy
  BY <1>20 DEF Destroy
<1>21. CASE JoinChecker
  BY <1>21 DEF JoinChecker
<1>22. CASE StopReturns
  BY <1>22 DEF StopReturns, Joined
<1>23. CASE AbortRequests
  BY <1>23 DEF AbortRequests, Http!Drop, Http!Pending
<1>24. CASE Disconnected
  BY <1>24 DEF Disconnected, CallbackOver
<1>25. CASE DestroyClient
  BY <1>25 DEF DestroyClient, Http!Close
<1>26. CASE DestroyCheckers
  BY <1>26 DEF DestroyCheckers
<1>27. CASE UNCHANGED vars
  BY <1>27 DEF vars
<1>q. QED
  BY <1>1, <1>2, <1>3, <1>4, <1>5, <1>6, <1>7, <1>8, <1>9, <1>10, <1>11, <1>12, <1>13, <1>14,
     <1>15, <1>16, <1>17, <1>18, <1>19, <1>20, <1>21, <1>22, <1>23, <1>24, <1>25, <1>26, <1>27
  DEF Next, DiscoveryGoesOn, HandlerGoesOn, DestructorGoesOn, Checker

\* Only a checker takes the mutex, when it is free, and the same one gives it back.
LEMMA LockStep == ASSUME TypeOK, LockInv, LateInv, [Next]_vars PROVE LockInv'
<1> USE DeviceRegistryAssumption
<1> USE DEF discoveryVars, mapVars, requestVars, closeVars, historyVars
<1> USE DEF TypeOK, LockInv, LockFree, Founds
<1>1. CASE FoundService
  BY <1>1 DEF FoundService, Connected
<1>2. CASE LostService
  BY <1>2 DEF LostService, Connected
<1>3. CASE InsertDevice
  BY <1>3 DEF InsertDevice
<1>4. CASE EraseDevice
  BY <1>4 DEF EraseDevice
<1>5. CASE Tell
  BY <1>5 DEF Tell
<1>6. CASE DiscoveryReturns
  BY <1>6 DEF DiscoveryReturns, Returns
<1>7. CASE SpawnChecker
  BY <1>7 DEF SpawnChecker, LateInv
<1>8. CASE RequestVersion
  BY <1>8 DEF RequestVersion, Http!Ask
<1>9. CASE \E k \in Founds : CheckerStarts(k)
  BY <1>9 DEF CheckerStarts
<1>10. CASE \E k \in Founds : CheckerConnects(k)
  BY <1>10 DEF CheckerConnects
<1>11. CASE \E k \in Founds : CheckerLocks(k)
  BY <1>11 DEF CheckerLocks
<1>12. CASE \E k \in Founds : CheckerStores(k)
  BY <1>12 DEF CheckerStores, InMap
<1>13. CASE \E k \in Founds : CheckerUnlocks(k)
  BY <1>13 DEF CheckerUnlocks, Unlocked
<1>14. CASE \E k \in Founds : CheckerTells(k)
  BY <1>14 DEF CheckerTells
<1>15. CASE \E k \in Founds : CheckerReturns(k)
  BY <1>15 DEF CheckerReturns, Returns
<1>16. CASE \E k \in Founds : ResultArrives(k)
  BY <1>16 DEF ResultArrives, Http!Deliver
<1>17. CASE ResultStored
  BY <1>17 DEF ResultStored, Stored
<1>18. CASE ResultTold
  BY <1>18 DEF ResultTold
<1>19. CASE ResultReturns
  BY <1>19 DEF ResultReturns, Returns, Http!CallbackReturns
<1>20. CASE Destroy
  BY <1>20 DEF Destroy
<1>21. CASE JoinChecker
  BY <1>21 DEF JoinChecker
<1>22. CASE StopReturns
  BY <1>22 DEF StopReturns, Joined
<1>23. CASE AbortRequests
  BY <1>23 DEF AbortRequests, Http!Drop, Http!Pending
<1>24. CASE Disconnected
  BY <1>24 DEF Disconnected, CallbackOver
<1>25. CASE DestroyClient
  BY <1>25 DEF DestroyClient, Http!Close
<1>26. CASE DestroyCheckers
  BY <1>26 DEF DestroyCheckers
<1>27. CASE UNCHANGED vars
  BY <1>27 DEF vars
<1>q. QED
  BY <1>1, <1>2, <1>3, <1>4, <1>5, <1>6, <1>7, <1>8, <1>9, <1>10, <1>11, <1>12, <1>13, <1>14,
     <1>15, <1>16, <1>17, <1>18, <1>19, <1>20, <1>21, <1>22, <1>23, <1>24, <1>25, <1>26, <1>27
  DEF Next, DiscoveryGoesOn, HandlerGoesOn, DestructorGoesOn, Checker

\* Only the callback of a found service asks, and only for the service it is about.
LEMMA ServiceStep == ASSUME TypeOK, ServiceInv, [Next]_vars PROVE ServiceInv'
<1> USE DEF discoveryVars, mapVars, requestVars, closeVars, historyVars
<1> USE DEF TypeOK, ServiceInv, Founds
<1>1. CASE FoundService
  <2>1. founds' = founds + 1 /\ founds' \in Founds /\ request' = request
    BY <1>1, DeviceRegistryAssumption DEF FoundService
  <2>2. request[founds'] = "none"
    BY <2>1
  <2>3. \A k \in Founds : k > founds' => request'[k] = "none"
    BY <2>1
  <2>q. QED BY <2>1, <2>2, <2>3
<1>2. CASE LostService
  BY <1>2 DEF LostService, Connected
<1>3. CASE InsertDevice
  BY <1>3 DEF InsertDevice
<1>4. CASE EraseDevice
  BY <1>4 DEF EraseDevice
<1>5. CASE Tell
  BY <1>5 DEF Tell
<1>6. CASE DiscoveryReturns
  BY <1>6 DEF DiscoveryReturns, Returns
<1>7. CASE SpawnChecker
  BY <1>7 DEF SpawnChecker
<1>8. CASE RequestVersion
  BY <1>8 DEF RequestVersion, Http!Ask
<1>9. CASE \E k \in Founds : CheckerStarts(k)
  BY <1>9 DEF CheckerStarts
<1>10. CASE \E k \in Founds : CheckerConnects(k)
  BY <1>10 DEF CheckerConnects
<1>11. CASE \E k \in Founds : CheckerLocks(k)
  BY <1>11 DEF CheckerLocks
<1>12. CASE \E k \in Founds : CheckerStores(k)
  BY <1>12 DEF CheckerStores, InMap
<1>13. CASE \E k \in Founds : CheckerUnlocks(k)
  BY <1>13 DEF CheckerUnlocks, Unlocked
<1>14. CASE \E k \in Founds : CheckerTells(k)
  BY <1>14 DEF CheckerTells
<1>15. CASE \E k \in Founds : CheckerReturns(k)
  BY <1>15 DEF CheckerReturns, Returns
<1>16. CASE \E k \in Founds : ResultArrives(k)
  BY <1>16 DEF ResultArrives, Http!Deliver
<1>17. CASE ResultStored
  BY <1>17 DEF ResultStored, Stored
<1>18. CASE ResultTold
  BY <1>18 DEF ResultTold
<1>19. CASE ResultReturns
  BY <1>19 DEF ResultReturns, Returns, Http!CallbackReturns
<1>20. CASE Destroy
  BY <1>20 DEF Destroy
<1>21. CASE JoinChecker
  BY <1>21 DEF JoinChecker
<1>22. CASE StopReturns
  BY <1>22 DEF StopReturns, Joined
<1>23. CASE AbortRequests
  BY <1>23 DEF AbortRequests, Http!Drop, Http!Pending
<1>24. CASE Disconnected
  BY <1>24 DEF Disconnected, CallbackOver
<1>25. CASE DestroyClient
  BY <1>25 DEF DestroyClient, Http!Close
<1>26. CASE DestroyCheckers
  BY <1>26 DEF DestroyCheckers
<1>27. CASE UNCHANGED vars
  BY <1>27 DEF vars
<1>q. QED
  BY <1>1, <1>2, <1>3, <1>4, <1>5, <1>6, <1>7, <1>8, <1>9, <1>10, <1>11, <1>12, <1>13, <1>14,
     <1>15, <1>16, <1>17, <1>18, <1>19, <1>20, <1>21, <1>22, <1>23, <1>24, <1>25, <1>26, <1>27
  DEF Next, DiscoveryGoesOn, HandlerGoesOn, DestructorGoesOn, Checker

\* Every step is one of the service, or leaves the service alone.
LEMMA ServiceSimulates == ASSUME TypeOK, [Next]_vars PROVE [Http!Next]_(Http!vars)
<1> USE DEF discoveryVars, mapVars, requestVars, closeVars, historyVars
<1> USE DEF Http!vars
<1>1. CASE FoundService
  BY <1>1 DEF FoundService, Connected
<1>2. CASE LostService
  BY <1>2 DEF LostService, Connected
<1>3. CASE InsertDevice
  BY <1>3 DEF InsertDevice
<1>4. CASE EraseDevice
  BY <1>4 DEF EraseDevice
<1>5. CASE Tell
  BY <1>5 DEF Tell
<1>6. CASE DiscoveryReturns
  BY <1>6 DEF DiscoveryReturns, Returns
<1>7. CASE SpawnChecker
  BY <1>7 DEF SpawnChecker
<1>8. CASE RequestVersion
  BY <1>8 DEF RequestVersion, Http!Next, TypeOK, Founds
<1>9. CASE \E k \in Founds : CheckerStarts(k)
  BY <1>9 DEF CheckerStarts
<1>10. CASE \E k \in Founds : CheckerConnects(k)
  BY <1>10 DEF CheckerConnects
<1>11. CASE \E k \in Founds : CheckerLocks(k)
  BY <1>11 DEF CheckerLocks
<1>12. CASE \E k \in Founds : CheckerStores(k)
  BY <1>12 DEF CheckerStores, InMap
<1>13. CASE \E k \in Founds : CheckerUnlocks(k)
  BY <1>13 DEF CheckerUnlocks, Unlocked
<1>14. CASE \E k \in Founds : CheckerTells(k)
  BY <1>14 DEF CheckerTells
<1>15. CASE \E k \in Founds : CheckerReturns(k)
  BY <1>15 DEF CheckerReturns, Returns
<1>16. CASE \E k \in Founds : ResultArrives(k)
  BY <1>16 DEF ResultArrives, Http!Next
<1>17. CASE ResultStored
  BY <1>17 DEF ResultStored, Stored
<1>18. CASE ResultTold
  BY <1>18 DEF ResultTold
<1>19. CASE ResultReturns
  BY <1>19 DEF ResultReturns, Http!Next
<1>20. CASE Destroy
  BY <1>20 DEF Destroy
<1>21. CASE JoinChecker
  BY <1>21 DEF JoinChecker
<1>22. CASE StopReturns
  BY <1>22 DEF StopReturns, Joined
<1>23. CASE AbortRequests
  BY <1>23 DEF AbortRequests, Http!Next, Http!Pending
<1>24. CASE Disconnected
  BY <1>24 DEF Disconnected, CallbackOver
<1>25. CASE DestroyClient
  BY <1>25 DEF DestroyClient, Http!Next
<1>26. CASE DestroyCheckers
  BY <1>26 DEF DestroyCheckers
<1>27. CASE UNCHANGED vars
  BY <1>27 DEF vars
<1>q. QED
  BY <1>1, <1>2, <1>3, <1>4, <1>5, <1>6, <1>7, <1>8, <1>9, <1>10, <1>11, <1>12, <1>13, <1>14,
     <1>15, <1>16, <1>17, <1>18, <1>19, <1>20, <1>21, <1>22, <1>23, <1>24, <1>25, <1>26, <1>27
  DEF Next, DiscoveryGoesOn, HandlerGoesOn, DestructorGoesOn, Checker

-----------------------------------------------------------------------------
IInv == TypeOK /\ FollowInv /\ LateInv /\ QuietInv /\ ServiceInv /\ LockInv

\* The inductive invariant.
THEOREM Inductive == Spec => []IInv
<1>1. Init => IInv
  <2> SUFFICES ASSUME Init PROVE IInv
    OBVIOUS
  <2>1. TypeOK
    <3>1. device \in [Founds -> Ips]
      BY DEF Init
    <3>2. /\ checker \in [Founds -> CheckerSteps]
          /\ request \in [Founds -> {"none", "pending", "delivered", "dropped"}]
      BY DEF Init, Http!Init, CheckerSteps
    <3>3. founds \in 0..MaxFound /\ delivering \in 0..MaxFound
      BY DeviceRegistryAssumption DEF Init, Http!Init
    <3>q. QED BY <3>1, <3>2, <3>3 DEF Init, Http!Init, TypeOK, DiscoverySteps
  <2>2. FollowInv
    BY DEF Init, FollowInv
  <2>3. LateInv
    BY DEF Init, LateInv, Founds
  <2>4. QuietInv
    BY DEF Init, QuietInv
  <2>5. ServiceInv
    BY DEF Init, Http!Init, ServiceInv
  <2>6. LockInv
    BY DeviceRegistryAssumption DEF Init, LockInv, Founds
  <2>q. QED BY <2>1, <2>2, <2>3, <2>4, <2>5, <2>6 DEF IInv
<1>2. IInv /\ [Next]_vars => IInv'
  BY TypeStep, FollowStep, LateStep, QuietStep, ServiceStep, LockStep DEF IInv
<1>q. QED BY <1>1, <1>2, PTL DEF Spec

\* Every reachable state is well typed; in particular results are kept only of devices in
\* the map.
THEOREM TypeCorrect == Spec => []TypeOK
<1>1. IInv => TypeOK BY DEF IInv
<1>q. QED BY <1>1, Inductive, PTL

\* However results, losses and new announcements interleave, the map and the application
\* follow the discovery.
THEOREM FollowsDiscovery == Spec => []RegistryFollowsDiscovery
<1>1. IInv => RegistryFollowsDiscovery
  BY DEF IInv, FollowInv, RegistryFollowsDiscovery
<1>q. QED BY <1>1, Inductive, PTL

\* After stopSSHAccessCheckerThreads only checkers of services found during the destruction
\* run, and only they can terminate the program.
THEOREM LateCheckers == Spec => []OnlyLateCheckersRun
<1>1. IInv => OnlyLateCheckersRun
  BY DEF IInv, TypeOK, LateInv, QuietInv, OnlyLateCheckersRun
<1>q. QED BY <1>1, Inductive, PTL

\* The destructor leaves no thread of the object behind, or terminates the program.
THEOREM DestroyedQuiet == Spec => []DestroyedIsQuiet
<1>1. IInv => DestroyedIsQuiet
  BY DEF IInv, TypeOK, LateInv, QuietInv, DestroyedIsQuiet
<1>q. QED BY <1>1, Inductive, PTL

\* The registry uses its HttpClient as the service allows: it asks once for every service it
\* finds, gets results one at a time, and no step that is not one of the service touches its
\* requests.
THEOREM UsesService == Spec => Http!Spec
<1>1. Init => Http!Init
  BY DEF Init
<1>2. IInv /\ [Next]_vars => [Http!Next]_(Http!vars)
  BY ServiceSimulates DEF IInv
<1>q. QED BY <1>1, <1>2, Inductive, PTL DEF Spec, Http!Spec

\* A getVersion request is never refused: it is the first for its service, and the destructor
\* disconnects the discovery before it closes the client.
THEOREM AsksAreAccepted ==
  Spec => [](discovery = "request" => /\ request[founds] = "none"
                                      /\ destruction \notin {"threads", "gone"})
<1>1. IInv => (discovery = "request" => /\ request[founds] = "none"
                                        /\ destruction \notin {"threads", "gone"})
  BY DEF IInv, QuietInv, ServiceInv
<1>q. QED BY <1>1, Inductive, PTL

\* The mutex of the map is held over several steps only by a checker that is about to store or to
\* unlock: no callback of the application runs under it, so the callbacks may read the map.
THEOREM CallbacksHoldNoMutex ==
  Spec => [](mutexDeviceInformationMap # Free =>
               \E k \in Founds : /\ mutexDeviceInformationMap = k
                                /\ checker[k] \in {"store", "unlock"})
<1>1. IInv => (mutexDeviceInformationMap # Free =>
                 \E k \in Founds : /\ mutexDeviceInformationMap = k
                                  /\ checker[k] \in {"store", "unlock"})
  BY DEF IInv, TypeOK, LockInv
<1>q. QED BY <1>1, Inductive, PTL
=============================================================================
