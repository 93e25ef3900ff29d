-------------------------- MODULE BinaryUpdateProofs --------------------------
(***************************************************************************)
(* Theorems about BinaryUpdate, for every set of binaries and every number *)
(* of runs, builds and crashes.                                            *)
(***************************************************************************)
EXTENDS BinaryUpdate, TLAPS

\* A callback that runs is that of a request that was delivered.
CallbackInv == handling # "none" => delivering \in Requests /\ request[delivering] = "delivered"

\* Until a callback throws only the run that waits has a request on its way or in its callback,
\* and the flag it waits for was raised by the callback of that request.
AskInv ==
  ~thrown =>
    /\ \A r \in Requests : request[r] = "pending" => r = runs /\ get = "wait" /\ ~downloadRequestDone
    /\ handling = "entered" => delivering = runs /\ get = "wait" /\ ~downloadRequestDone
    /\ get = "wait" /\ downloadRequestDone => runs \in heard

\* In synchronous use every thread is joined by who started it, before that goes on.
ThreadInv ==
  /\ sync => /\ caller # "joinGet" => get = "none"
             /\ get # "joinUpdate" => upd = "none"
  /\ get # "none" => runs \in Requests
  /\ caller \in {"fields", "close", "gone"} => get = "none"

Uniform == \A f \in Files : files[f] = files["version.xml"]

\* While an archive is extracted the files written so far are its own, or one was lost; at all
\* other times the files are those of one release, or one was lost.
DiskInv ==
  /\ upd # "extract" => todo = {}
  /\ upd = "extract" => IF intact THEN \A f \in Files \ todo : files[f] = archive ELSE torn
  /\ upd # "extract" /\ ~torn => Uniform

IInv == TypeOK /\ CallbackInv /\ AskInv /\ ThreadInv /\ DiskInv /\ SyncRunsJoin

-----------------------------------------------------------------------------
LEMMA Constants ==
  /\ Missing \in Contents /\ Damaged \in Contents /\ Builds \subseteq Contents
  /\ 1 \in Builds /\ "version.xml" \in Files /\ Nobody \notin Requests
  /\ 0 \in 0 .. MaxRuns
BY BinaryUpdateAssumption DEF Missing, Damaged, Contents, Builds, Files, Requests

LEMMA InitInv == Init => IInv
<1>1. SUFFICES ASSUME Init PROVE IInv
  OBVIOUS
<1>2. files \in [Files -> Contents] /\ Uniform
  BY <1>1, Constants DEF Init, Uniform
<1>3. TypeOK
  BY <1>1, <1>2, Constants DEF Init, Http!Init, TypeOK
<1>4. CallbackInv /\ AskInv /\ ThreadInv /\ DiskInv /\ SyncRunsJoin
  BY <1>1, <1>2 DEF Init, Http!Init, CallbackInv, AskInv, ThreadInv, DiskInv, SyncRunsJoin
<1>5. QED
  BY <1>3, <1>4 DEF IInv

LEMMA Inductive ==
  ASSUME IInv, [Next]_vars
  PROVE  IInv'
<1> USE DEF httpVars, diskVars, flagVars, extractVars, Alive
<1>t. TypeOK /\ CallbackInv /\ AskInv /\ ThreadInv /\ DiskInv /\ SyncRunsJoin
  BY DEF IInv
<1>1. CASE RunAsync \/ LoadUrl
  <2>r. runs' \in 0 .. MaxRuns /\ (runs' = runs \/ runs' \in Requests)
    BY <1>1, <1>t, BinaryUpdateAssumption DEF RunAsync, LoadUrl, Run, TypeOK, Requests
  <2>1. TypeOK'
    <3>1. CASE RunAsync
      BY <1>t, <2>r, <3>1 DEF RunAsync, Run, AfterRun, TypeOK
    <3>2. CASE LoadUrl
      BY <1>t, <2>r, <3>2 DEF LoadUrl, Run, AfterRun, TypeOK
    <3>3. QED
      BY <1>1, <3>1, <3>2
  <2>2. CallbackInv'
    BY <1>1, <1>t DEF RunAsync, LoadUrl, Run, AfterRun, CallbackInv
  <2>3. AskInv'
    BY <1>1, <1>t DEF RunAsync, LoadUrl, Run, AfterRun, AskInv, CallbackInv
  <2>4. ThreadInv'
    <3>1. get' # "none" => runs' \in Requests
      BY <1>1, <1>t, BinaryUpdateAssumption DEF RunAsync, LoadUrl, Run, TypeOK, Requests, ThreadInv
    <3>2. QED
      BY <1>1, <1>t, <3>1 DEF RunAsync, LoadUrl, Run, AfterRun, ThreadInv
  <2>5. DiskInv'
    BY <1>1, <1>t DEF RunAsync, LoadUrl, Run, AfterRun, DiskInv, Uniform
  <2>6. SyncRunsJoin'
    BY <1>1, <1>t DEF RunAsync, LoadUrl, Run, AfterRun, SyncRunsJoin, ThreadInv
  <2>7. QED
    BY <2>1, <2>2, <2>3, <2>4, <2>5, <2>6 DEF IInv
<1>2. CASE LoadFile
  <2>1. TypeOK'
    BY <1>2, <1>t DEF LoadFile, TypeOK
  <2>2. CallbackInv'
    BY <1>2, <1>t DEF LoadFile, CallbackInv
  <2>3. AskInv'
    BY <1>2, <1>t DEF LoadFile, AskInv, CallbackInv
  <2>4. ThreadInv'
    BY <1>2, <1>t DEF LoadFile, ThreadInv
  <2>5. DiskInv'
    BY <1>2, <1>t DEF LoadFile, DiskInv, Uniform
  <2>6. SyncRunsJoin'
    BY <1>2, <1>t DEF LoadFile, SyncRunsJoin, ThreadInv
  <2>7. QED
    BY <2>1, <2>2, <2>3, <2>4, <2>5, <2>6 DEF IInv
<1>3. CASE JoinGet
  <2>1. TypeOK'
    BY <1>3, <1>t DEF JoinGet, TypeOK
  <2>2. CallbackInv'
    BY <1>3, <1>t DEF JoinGet, CallbackInv
  <2>3. AskInv'
    BY <1>3, <1>t DEF JoinGet, AskInv, CallbackInv
  <2>4. ThreadInv'
    BY <1>3, <1>t DEF JoinGet, ThreadInv
  <2>5. DiskInv'
    BY <1>3, <1>t DEF JoinGet, DiskInv, Uniform
  <2>6. SyncRunsJoin'
    BY <1>3, <1>t DEF JoinGet, SyncRunsJoin, ThreadInv
  <2>7. QED
    BY <2>1, <2>2, <2>3, <2>4, <2>5, <2>6 DEF IInv
<1>4. CASE DoGetBinary
  <2>r. /\ runs \in Requests /\ get = "start" /\ get' \in {"wait", "ended"}
        /\ UNCHANGED <<delivering, closed, thrown, files, zip, published, torn, getBinaryError, handling,
                       heard, sync, caller, runs, upd, archive, todo, intact, fate>>
        /\ \/ UNCHANGED <<request, downloadRequestDone>> /\ get' = "ended"
           \/ /\ request[runs] = "none" /\ request' = [request EXCEPT ![runs] = "pending"]
              /\ downloadRequestDone' = FALSE /\ get' = "wait"
    BY <1>4, <1>t DEF DoGetBinary, Http!Ask, Derived, DoneReset, ThreadInv
  <2>d. /\ \A r \in Requests : request[r] = "delivered" => request'[r] = "delivered"
        /\ \A r \in Requests :
             request'[r] = "pending" => request[r] = "pending" \/ (r = runs /\ get' = "wait")
    BY <1>t, <2>r DEF TypeOK
  <2>e. request' \in [Requests -> {"none", "pending", "delivered", "dropped"}]
    BY <1>t, <2>r DEF TypeOK
  <2>u. /\ delivering' = delivering /\ handling' = handling /\ thrown' = thrown /\ runs' = runs
        /\ heard' = heard /\ downloadRequestDone' \in BOOLEAN
        /\ get' = "ended" => downloadRequestDone' = downloadRequestDone
        /\ get' = "wait" => downloadRequestDone' = FALSE
    BY <1>t, <2>r DEF TypeOK
  <2>h. heard' \subseteq {r \in Requests : request'[r] = "delivered"}
    BY <1>t, <2>d, <2>u DEF TypeOK
  <2>1. TypeOK'
    BY <1>t, <2>r, <2>e, <2>h, <2>u DEF TypeOK
  <2>2. CallbackInv'
    BY <1>t, <2>d, <2>u DEF CallbackInv
  <2>3. AskInv'
    <3>1. get = "start" /\ get' \in {"wait", "ended"}
      BY <2>r
    <3>2. QED
      BY <1>t, <2>d, <2>u, <3>1 DEF AskInv
  <2>4. ThreadInv'
    BY <1>4, <1>t DEF DoGetBinary, Http!Ask, Derived, DoneReset, ThreadInv
  <2>5. DiskInv'
    BY <1>4, <1>t DEF DoGetBinary, Http!Ask, Derived, DoneReset, DiskInv, Uniform
  <2>6. SyncRunsJoin'
    BY <1>4, <1>t DEF DoGetBinary, Http!Ask, Derived, DoneReset, SyncRunsJoin, ThreadInv
  <2>7. QED
    BY <2>1, <2>2, <2>3, <2>4, <2>5, <2>6 DEF IInv
<1>5. CASE WaitEnds
  <2>1. TypeOK'
    BY <1>5, <1>t DEF WaitEnds, TypeOK
  <2>2. CallbackInv'
    BY <1>5, <1>t DEF WaitEnds, CallbackInv
  <2>3. AskInv'
    BY <1>5, <1>t DEF WaitEnds, AskInv, CallbackInv
  <2>4. ThreadInv'
    BY <1>5, <1>t DEF WaitEnds, ThreadInv
  <2>5. DiskInv'
    BY <1>5, <1>t DEF WaitEnds, DiskInv, Uniform
  <2>6. SyncRunsJoin'
    BY <1>5, <1>t DEF WaitEnds, SyncRunsJoin, ThreadInv
  <2>7. QED
    BY <2>1, <2>2, <2>3, <2>4, <2>5, <2>6 DEF IInv
<1>6. CASE BinaryReady
  <2>1. TypeOK'
    BY <1>6, <1>t DEF BinaryReady, AfterReady, TypeOK
  <2>2. CallbackInv'
    BY <1>6, <1>t DEF BinaryReady, AfterReady, CallbackInv
  <2>3. AskInv'
    BY <1>6, <1>t DEF BinaryReady, AfterReady, AskInv, CallbackInv
  <2>4. ThreadInv'
    BY <1>6, <1>t DEF BinaryReady, AfterReady, ThreadInv
  <2>5. DiskInv'
    BY <1>6, <1>t DEF BinaryReady, AfterReady, DiskInv, Uniform
  <2>6. SyncRunsJoin'
    BY <1>6, <1>t DEF BinaryReady, AfterReady, SyncRunsJoin, ThreadInv
  <2>7. QED
    BY <2>1, <2>2, <2>3, <2>4, <2>5, <2>6 DEF IInv
<1>7. CASE JoinUpdate
  <2>1. TypeOK'
    BY <1>7, <1>t DEF JoinUpdate, UpdJoined, TypeOK
  <2>2. CallbackInv'
    BY <1>7, <1>t DEF JoinUpdate, UpdJoined, CallbackInv
  <2>3. AskInv'
    BY <1>7, <1>t DEF JoinUpdate, UpdJoined, AskInv, CallbackInv
  <2>4. ThreadInv'
    BY <1>7, <1>t DEF JoinUpdate, UpdJoined, ThreadInv
  <2>5. DiskInv'
    BY <1>7, <1>t DEF JoinUpdate, UpdJoined, DiskInv, Uniform
  <2>6. SyncRunsJoin'
    BY <1>7, <1>t DEF JoinUpdate, UpdJoined, SyncRunsJoin, ThreadInv
  <2>7. QED
    BY <2>1, <2>2, <2>3, <2>4, <2>5, <2>6 DEF IInv
<1>8. CASE OpenZip
  <2>1. TypeOK'
    <3>1. /\ archive' \in Contents /\ upd' \in {"extract", "ended"} /\ todo' \subseteq Files
          /\ upd' = "extract" => archive' \in Builds
          /\ intact' \in BOOLEAN
      BY <1>8, <1>t DEF OpenZip, ReadsArchive, TypeOK
    <3>2. QED
      BY <1>8, <1>t, <3>1 DEF OpenZip, TypeOK
  <2>2. CallbackInv'
    BY <1>8, <1>t DEF OpenZip, ReadsArchive, CallbackInv
  <2>3. AskInv'
    BY <1>8, <1>t DEF OpenZip, ReadsArchive, AskInv, CallbackInv
  <2>4. ThreadInv'
    BY <1>8, <1>t DEF OpenZip, ReadsArchive, ThreadInv
  <2>5. DiskInv'
    BY <1>8, <1>t DEF OpenZip, ReadsArchive, DiskInv, Uniform
  <2>6. SyncRunsJoin'
    BY <1>8, <1>t DEF OpenZip, ReadsArchive, SyncRunsJoin, ThreadInv
  <2>7. QED
    BY <2>1, <2>2, <2>3, <2>4, <2>5, <2>6 DEF IInv
<1>9. CASE ExtractFile
  <2>1. TypeOK'
    BY <1>9, <1>t, Constants DEF ExtractFile, TypeOK
  <2>2. CallbackInv'
    BY <1>9, <1>t DEF ExtractFile, CallbackInv
  <2>3. AskInv'
    BY <1>9, <1>t DEF ExtractFile, AskInv, CallbackInv
  <2>4. ThreadInv'
    BY <1>9, <1>t DEF ExtractFile, ThreadInv
  <2>5. DiskInv'
    <3>1. PICK f \in todo, b \in Contents :
            /\ files' = [files EXCEPT ![f] = b] /\ todo' = todo \ {f}
            /\ intact' = (intact /\ b = archive)
      BY <1>9, <1>t, Constants DEF ExtractFile, TypeOK
    <3>2. files'[f] = b /\ \A g \in Files \ {f} : files'[g] = files[g]
      BY <1>t, <3>1 DEF TypeOK
    <3>3. /\ upd = "extract" /\ torn' = (torn \/ ~intact') /\ UNCHANGED <<upd, archive>>
      BY <1>9 DEF ExtractFile
    <3>4. intact' => \A g \in Files \ todo' : files'[g] = archive
      BY <1>t, <3>1, <3>2, <3>3 DEF DiskInv, TypeOK
    <3>5. QED
      BY <3>3, <3>4 DEF DiskInv
  <2>6. SyncRunsJoin'
    BY <1>9, <1>t DEF ExtractFile, SyncRunsJoin, ThreadInv
  <2>7. QED
    BY <2>1, <2>2, <2>3, <2>4, <2>5, <2>6 DEF IInv
<1>10. CASE ExtractFails
  <2>1. TypeOK'
    BY <1>10, <1>t, Constants DEF ExtractFails, TypeOK
  <2>2. CallbackInv'
    BY <1>10, <1>t DEF ExtractFails, CallbackInv
  <2>3. AskInv'
    BY <1>10, <1>t DEF ExtractFails, AskInv, CallbackInv
  <2>4. ThreadInv'
    BY <1>10, <1>t DEF ExtractFails, ThreadInv
  <2>5. DiskInv'
    BY <1>10, <1>t DEF ExtractFails, DiskInv, Uniform
  <2>6. SyncRunsJoin'
    BY <1>10, <1>t DEF ExtractFails, SyncRunsJoin, ThreadInv
  <2>7. QED
    BY <2>1, <2>2, <2>3, <2>4, <2>5, <2>6 DEF IInv
<1>11. CASE ExtractDone
  <2>1. TypeOK'
    BY <1>11, <1>t, Constants DEF ExtractDone, TypeOK
  <2>2. CallbackInv'
    BY <1>11, <1>t DEF ExtractDone, CallbackInv
  <2>3. AskInv'
    BY <1>11, <1>t DEF ExtractDone, AskInv, CallbackInv
  <2>4. ThreadInv'
    BY <1>11, <1>t DEF ExtractDone, ThreadInv
  <2>5. DiskInv'
    BY <1>11, <1>t, Constants DEF ExtractDone, DiskInv, Uniform
  <2>6. SyncRunsJoin'
    BY <1>11, <1>t DEF ExtractDone, SyncRunsJoin, ThreadInv
  <2>7. QED
    BY <2>1, <2>2, <2>3, <2>4, <2>5, <2>6 DEF IInv
<1>12. CASE Deliver
  <2>1. TypeOK'
    BY <1>12, <1>t DEF Deliver, Http!Deliver, TypeOK
  <2>2. CallbackInv'
    <3>1. PICK r \in Requests : Http!Deliver(r)
      BY <1>12 DEF Deliver
    <3>2. QED
      BY <1>t, <3>1 DEF Http!Deliver, CallbackInv, TypeOK
  <2>3. AskInv'
    BY <1>12, <1>t DEF Deliver, Http!Deliver, AskInv, CallbackInv
  <2>4. ThreadInv'
    BY <1>12, <1>t DEF Deliver, Http!Deliver, ThreadInv
  <2>5. DiskInv'
    BY <1>12, <1>t DEF Deliver, Http!Deliver, DiskInv, Uniform
  <2>6. SyncRunsJoin'
    BY <1>12, <1>t DEF Deliver, Http!Deliver, SyncRunsJoin, ThreadInv
  <2>7. QED
    BY <2>1, <2>2, <2>3, <2>4, <2>5, <2>6 DEF IInv
<1>13. CASE HandleResult
  <2>1. TypeOK'
    <3>1. zip' \in Contents /\ getBinaryError' \in BOOLEAN
      BY <1>13, <1>t, Constants DEF HandleResult, TypeOK
    <3>2. heard' \subseteq {r \in Requests : request[r] = "delivered"}
      BY <1>13, <1>t DEF HandleResult, CallbackInv, TypeOK
    <3>3. downloadRequestDone' \in BOOLEAN
      BY <1>13 DEF HandleResult, DoneAfter
    <3>4. QED
      BY <1>13, <1>t, <3>1, <3>2, <3>3 DEF HandleResult, TypeOK
  <2>2. CallbackInv'
    BY <1>13, <1>t DEF HandleResult, DoneAfter, CallbackInv
  <2>3. AskInv'
    BY <1>13, <1>t DEF HandleResult, DoneAfter, AskInv, CallbackInv
  <2>4. ThreadInv'
    BY <1>13, <1>t DEF HandleResult, DoneAfter, ThreadInv
  <2>5. DiskInv'
    BY <1>13, <1>t DEF HandleResult, DoneAfter, DiskInv, Uniform
  <2>6. SyncRunsJoin'
    BY <1>13, <1>t DEF HandleResult, DoneAfter, SyncRunsJoin, ThreadInv
  <2>7. QED
    BY <2>1, <2>2, <2>3, <2>4, <2>5, <2>6 DEF IInv
<1>14. CASE ResultReturns
  <2>1. TypeOK'
    BY <1>14, <1>t DEF ResultReturns, Http!CallbackReturns, TypeOK
  <2>2. CallbackInv'
    BY <1>14, <1>t DEF ResultReturns, Http!CallbackReturns, CallbackInv
  <2>3. AskInv'
    BY <1>14, <1>t DEF ResultReturns, Http!CallbackReturns, AskInv, CallbackInv
  <2>4. ThreadInv'
    BY <1>14, <1>t DEF ResultReturns, Http!CallbackReturns, ThreadInv
  <2>5. DiskInv'
    BY <1>14, <1>t DEF ResultReturns, Http!CallbackReturns, DiskInv, Uniform
  <2>6. SyncRunsJoin'
    BY <1>14, <1>t DEF ResultReturns, Http!CallbackReturns, SyncRunsJoin, ThreadInv
  <2>7. QED
    BY <2>1, <2>2, <2>3, <2>4, <2>5, <2>6 DEF IInv
<1>15. CASE ResultThrows
  <2>1. TypeOK'
    BY <1>15, <1>t, Constants DEF ResultThrows, Http!CallbackThrows, TypeOK
  <2>2. CallbackInv'
    BY <1>15, <1>t DEF ResultThrows, Http!CallbackThrows, CallbackInv
  <2>3. AskInv'
    BY <1>15, <1>t DEF ResultThrows, Http!CallbackThrows, AskInv, CallbackInv
  <2>4. ThreadInv'
    BY <1>15, <1>t DEF ResultThrows, Http!CallbackThrows, ThreadInv
  <2>5. DiskInv'
    BY <1>15, <1>t DEF ResultThrows, Http!CallbackThrows, DiskInv, Uniform
  <2>6. SyncRunsJoin'
    BY <1>15, <1>t DEF ResultThrows, Http!CallbackThrows, SyncRunsJoin, ThreadInv
  <2>7. QED
    BY <2>1, <2>2, <2>3, <2>4, <2>5, <2>6 DEF IInv
<1>16. CASE Publish
  <2>1. TypeOK'
    <3>1. published' \in Builds
      BY <1>16, <1>t, BinaryUpdateAssumption DEF Publish, TypeOK, Builds
    <3>2. QED
      BY <1>16, <1>t, <3>1 DEF Publish, TypeOK
  <2>2. CallbackInv'
    BY <1>16, <1>t DEF Publish, CallbackInv
  <2>3. AskInv'
    BY <1>16, <1>t DEF Publish, AskInv, CallbackInv
  <2>4. ThreadInv'
    BY <1>16, <1>t DEF Publish, ThreadInv
  <2>5. DiskInv'
    BY <1>16, <1>t DEF Publish, DiskInv, Uniform
  <2>6. SyncRunsJoin'
    BY <1>16, <1>t DEF Publish, SyncRunsJoin, ThreadInv
  <2>7. QED
    BY <2>1, <2>2, <2>3, <2>4, <2>5, <2>6 DEF IInv
<1>17. CASE Destroy \/ DestroyFields
  <2>1. TypeOK'
    BY <1>17, <1>t DEF Destroy, DestroyFields, TypeOK
  <2>2. CallbackInv'
    BY <1>17, <1>t DEF Destroy, DestroyFields, CallbackInv
  <2>3. AskInv'
    BY <1>17, <1>t DEF Destroy, DestroyFields, AskInv, CallbackInv
  <2>4. ThreadInv'
    BY <1>17, <1>t DEF Destroy, DestroyFields, ThreadInv
  <2>5. DiskInv'
    BY <1>17, <1>t DEF Destroy, DestroyFields, DiskInv, Uniform
  <2>6. SyncRunsJoin'
    BY <1>17, <1>t DEF Destroy, DestroyFields, SyncRunsJoin, ThreadInv
  <2>7. QED
    BY <2>1, <2>2, <2>3, <2>4, <2>5, <2>6 DEF IInv
<1>18. CASE StopThreads
  <2>1. TypeOK'
    BY <1>18, <1>t DEF StopThreads, Http!Drop, Http!Pending, GetGone, TypeOK
  <2>2. CallbackInv'
    BY <1>18, <1>t DEF StopThreads, Http!Drop, Http!Pending, GetGone, CallbackInv
  <2>3. AskInv'
    BY <1>18, <1>t DEF StopThreads, Http!Drop, Http!Pending, GetGone, AskInv, CallbackInv
  <2>4. ThreadInv'
    BY <1>18, <1>t DEF StopThreads, Http!Drop, Http!Pending, GetGone, ThreadInv
  <2>5. DiskInv'
    BY <1>18, <1>t DEF StopThreads, Http!Drop, Http!Pending, GetGone, DiskInv, Uniform
  <2>6. SyncRunsJoin'
    BY <1>18, <1>t DEF StopThreads, Http!Drop, Http!Pending, GetGone, SyncRunsJoin, ThreadInv
  <2>7. QED
    BY <2>1, <2>2, <2>3, <2>4, <2>5, <2>6 DEF IInv
<1>19. CASE CloseClient
  <2>1. TypeOK'
    BY <1>19, <1>t DEF CloseClient, Http!Close, TypeOK
  <2>2. CallbackInv'
    BY <1>19, <1>t DEF CloseClient, Http!Close, CallbackInv
  <2>3. AskInv'
    BY <1>19, <1>t DEF CloseClient, Http!Close, AskInv, CallbackInv
  <2>4. ThreadInv'
    BY <1>19, <1>t DEF CloseClient, Http!Close, ThreadInv
  <2>5. DiskInv'
    BY <1>19, <1>t DEF CloseClient, Http!Close, DiskInv, Uniform
  <2>6. SyncRunsJoin'
    BY <1>19, <1>t DEF CloseClient, Http!Close, SyncRunsJoin, ThreadInv
  <2>7. QED
    BY <2>1, <2>2, <2>3, <2>4, <2>5, <2>6 DEF IInv
<1>20. CASE Crash
  <2>1. TypeOK'
    BY <1>20, <1>t, Constants DEF Crash, TypeOK
  <2>2. CallbackInv'
    BY <1>20, <1>t DEF Crash, CallbackInv
  <2>3. AskInv'
    BY <1>20, <1>t DEF Crash, AskInv, CallbackInv
  <2>4. ThreadInv'
    BY <1>20, <1>t DEF Crash, ThreadInv
  <2>5. DiskInv'
    BY <1>20, <1>t, Constants DEF Crash, DiskInv, Uniform
  <2>6. SyncRunsJoin'
    BY <1>20, <1>t DEF Crash, SyncRunsJoin, ThreadInv
  <2>7. QED
    BY <2>1, <2>2, <2>3, <2>4, <2>5, <2>6 DEF IInv
<1>21. CASE UNCHANGED vars
  <2>1. TypeOK'
    BY <1>21, <1>t DEF vars, TypeOK
  <2>2. CallbackInv'
    BY <1>21, <1>t DEF vars, CallbackInv
  <2>3. AskInv'
    BY <1>21, <1>t DEF vars, AskInv, CallbackInv
  <2>4. ThreadInv'
    BY <1>21, <1>t DEF vars, ThreadInv
  <2>5. DiskInv'
    BY <1>21, <1>t DEF vars, DiskInv, Uniform
  <2>6. SyncRunsJoin'
    BY <1>21, <1>t DEF vars, SyncRunsJoin, ThreadInv
  <2>7. QED
    BY <2>1, <2>2, <2>3, <2>4, <2>5, <2>6 DEF IInv
<1>22. QED
  BY <1>1, <1>2, <1>3, <1>4, <1>5, <1>6, <1>7, <1>8, <1>9, <1>10, <1>11, <1>12, <1>13, <1>14, <1>15, <1>16, <1>17, <1>18, <1>19, <1>20, <1>21 DEF Next, Caller, GetThread, UpdateThread, Handler

LEMMA AlwaysIInv == Spec => []IInv
BY InitInv, Inductive, PTL DEF Spec

-----------------------------------------------------------------------------
\* Threads, files and requests keep their types; only delivered requests were heard.
THEOREM TypeCorrect == Spec => []TypeOK
<1>1. IInv => TypeOK
  BY DEF IInv
<1>2. QED
  BY <1>1, AlwaysIInv, PTL

\* When getActualBinaries has returned, in whatever run after whatever crashes, the binaries are
\* those of one release, unless an extraction has lost a file.
THEOREM WholeRelease == Spec => []OneRelease
<1>1. IInv => OneRelease
  BY DEF IInv, ThreadInv, DiskInv, OneRelease, Uniform
<1>2. QED
  BY <1>1, AlwaysIInv, PTL

\* No callback that has not thrown before works on the destroyed members of the updater.
THEOREM CallbacksBeforeFields == Spec => []FieldsOutliveCallbacks
<1>1. IInv => FieldsOutliveCallbacks
  BY DEF IInv, AskInv, ThreadInv, FieldsOutliveCallbacks
<1>2. QED
  BY <1>1, AlwaysIInv, PTL

\* Used as the installer uses it the updater never overwrites or destroys a joinable thread.
THEOREM SyncNeverTerminates == Spec => []SyncRunsJoin
<1>1. IInv => SyncRunsJoin
  BY DEF IInv
<1>2. QED
  BY <1>1, AlwaysIInv, PTL

\* A run ends its waiting on the answer to its own request, never on a flag left by another.
THEOREM WaitsForItsOwn == Spec => OwnAnswer
<1>1. IInv /\ [Next]_vars => ((get = "wait" /\ get' \in {"ended", "ready"} /\ ~thrown) => runs \in heard)
  <2>1. SUFFICES ASSUME IInv, [Next]_vars, get = "wait", get' \in {"ended", "ready"}, ~thrown
                 PROVE  runs \in heard
    OBVIOUS
  <2>2. WaitEnds \/ StopThreads \/ Crash \/ get' = get
    BY <2>1 DEF Next, Caller, GetThread, UpdateThread, Handler, LoadFile, JoinGet, DestroyFields,
       CloseClient, DoGetBinary, BinaryReady, JoinUpdate, OpenZip, ExtractFile, ExtractDone,
       HandleResult, ResultReturns, RunAsync, LoadUrl, Run, ExtractFails, Deliver, ResultThrows,
       Publish, Destroy, extractVars, vars
  <2>3. WaitEnds
    BY <2>1, <2>2 DEF StopThreads, Crash
  <2>4. QED
    BY <2>1, <2>3 DEF WaitEnds, IInv, AskInv
<1>2. QED
  BY <1>1, AlwaysIInv, PTL DEF Spec, OwnAnswer

\* The request of a run that has not asked yet is untouched, and the client is closed by the
\* destructor only.
ServiceInv ==
  /\ \A r \in Requests : r > runs => request[r] = "none"
  /\ get = "start" => request[runs] = "none"
  /\ closed => caller \in {"close", "gone"}

LEMMA ServiceStep == ASSUME IInv, ServiceInv, [Next]_vars PROVE ServiceInv'
<1> USE DEF httpVars, diskVars, flagVars, extractVars
<1>t. TypeOK /\ ThreadInv /\ ServiceInv
  BY DEF IInv
<1>1. CASE RunAsync \/ LoadUrl
  <2>1. request' = request /\ closed' = closed
    BY <1>1 DEF RunAsync, LoadUrl
  <2>2. caller \notin {"close", "gone"}
    BY <1>1 DEF RunAsync, LoadUrl
  <2>3. \/ runs' = runs /\ get' = get
        \/ runs' = runs + 1 /\ runs' \in Requests
    BY <1>1, <1>t, BinaryUpdateAssumption DEF RunAsync, LoadUrl, Run, TypeOK, Requests
  <2>4. CASE runs' = runs /\ get' = get
    BY <1>t, <2>1, <2>2, <2>4 DEF ServiceInv
  <2>5. CASE runs' = runs + 1 /\ runs' \in Requests
    <3>1. \A r \in Requests : r > runs' => r > runs
      BY <1>t, <2>5 DEF TypeOK, Requests
    <3>2. runs' > runs
      BY <1>t, <2>5 DEF TypeOK
    <3>3. QED
      BY <1>t, <2>1, <2>2, <2>5, <3>1, <3>2 DEF ServiceInv
  <2>6. QED
    BY <2>3, <2>4, <2>5
<1>2. CASE DoGetBinary
  <2>1. runs' = runs /\ closed' = closed /\ caller' = caller /\ get' # "start"
    BY <1>2 DEF DoGetBinary, Http!Ask
  <2>2. \A r \in Requests : r # runs => request'[r] = request[r]
    BY <1>2, <1>t DEF DoGetBinary, Http!Ask, TypeOK
  <2>3. \A r \in Requests : r > runs => r # runs
    BY <1>t DEF TypeOK, Requests
  <2>4. QED
    BY <1>t, <2>1, <2>2, <2>3 DEF ServiceInv
<1>3. CASE Deliver
  <2>1. runs' = runs /\ closed' = closed /\ caller' = caller /\ get' = get
    BY <1>3 DEF Deliver, Http!Deliver
  <2>2. \A r \in Requests : request[r] = "none" => request'[r] = "none"
    BY <1>3, <1>t DEF Deliver, Http!Deliver, TypeOK
  <2>3. get = "start" => runs \in Requests
    BY <1>t DEF ThreadInv
  <2>4. QED
    BY <1>t, <2>1, <2>2, <2>3 DEF ServiceInv
<1>4. CASE StopThreads
  <2>1. /\ runs' = runs /\ closed' = closed /\ caller = "stop" /\ get' = "none"
        /\ \A r \in Requests : request[r] = "none" => request'[r] = "none"
    BY <1>4 DEF StopThreads, Http!Drop, Http!Pending
  <2>2. QED
    BY <1>t, <2>1 DEF ServiceInv
<1>5. CASE Crash
  <2>1. /\ runs' = runs /\ closed' = FALSE /\ get' = "none"
        /\ \A r \in Requests : request[r] = "none" => request'[r] = "none"
    BY <1>5 DEF Crash
  <2>2. QED
    BY <1>t, <2>1 DEF ServiceInv
<1>6. CASE CloseClient
  BY <1>6, <1>t DEF CloseClient, Http!Close, ServiceInv
<1>7. CASE ResultReturns \/ ResultThrows
  BY <1>7, <1>t DEF ResultReturns, ResultThrows, Http!CallbackReturns, Http!CallbackThrows, ServiceInv
<1>8. CASE LoadFile \/ JoinGet \/ DestroyFields \/ Destroy
  BY <1>8, <1>t DEF LoadFile, JoinGet, DestroyFields, Destroy, ServiceInv
<1>9. CASE WaitEnds \/ BinaryReady \/ JoinUpdate \/ UpdateThread \/ HandleResult \/ ExtractFails \/ Publish
           \/ UNCHANGED vars
  <2>1. /\ UNCHANGED <<request, closed, caller, runs>>
        /\ get' # "start" \/ get' = get
    BY <1>9 DEF WaitEnds, BinaryReady, AfterReady, JoinUpdate, UpdateThread, OpenZip, ExtractFile,
       ExtractDone, HandleResult, ExtractFails, Publish, vars
  <2>2. QED
    BY <1>t, <2>1 DEF ServiceInv
<1>10. QED
  BY <1>1, <1>2, <1>3, <1>4, <1>5, <1>6, <1>7, <1>8, <1>9 DEF Next, Caller, GetThread, Handler

LEMMA AlwaysServiceInv == Spec => [](IInv /\ ServiceInv)
<1>1. Init => ServiceInv
  BY DEF Init, Http!Init, ServiceInv
<1>2. IInv /\ ServiceInv /\ [Next]_vars => ServiceInv'
  BY ServiceStep
<1>3. QED
  BY <1>1, <1>2, AlwaysIInv, PTL DEF Spec

\* The download request of a run is never refused, so the run cannot hang before it has asked:
\* every run asks for itself, and virtual calls end before the client is closed.
THEOREM AsksAreAccepted ==
  Spec => [](get = "start" /\ Derived => request[runs] = "none" /\ ~closed)
<1>1. ServiceInv => (get = "start" /\ Derived => request[runs] = "none" /\ ~closed)
  BY DEF ServiceInv, Derived
<1>2. QED
  BY <1>1, AlwaysServiceInv, PTL

\* Whatever threads, callbacks and the destructor do, the updater's client moves only as the
\* service allows, and a crash is the only step that resets it.
THEOREM UsesService == Spec => [][Http!Next \/ Crash]_httpVars
<1>1. IInv /\ [Next]_vars => [Http!Next \/ Crash]_httpVars
  <2> SUFFICES ASSUME IInv, [Next]_vars PROVE [Http!Next \/ Crash]_httpVars
    OBVIOUS
  <2>1. CASE DoGetBinary
    <3>1. CASE UNCHANGED httpVars
      BY <3>1
    <3>2. CASE Http!Ask(runs)
      <4>1. runs \in Requests
        BY <2>1 DEF DoGetBinary, IInv, ThreadInv
      <4>2. QED
        BY <3>2, <4>1 DEF Http!Next
    <3>3. QED
      BY <2>1, <3>1, <3>2 DEF DoGetBinary
  <2>2. CASE Deliver
    BY <2>2 DEF Deliver, Http!Next
  <2>3. CASE ResultReturns
    BY <2>3 DEF ResultReturns, Http!Next
  <2>4. CASE ResultThrows
    BY <2>4 DEF ResultThrows, Http!Next
  <2>5. CASE StopThreads
    BY <2>5 DEF StopThreads, Http!Next, Http!Pending
  <2>6. CASE CloseClient
    BY <2>6 DEF CloseClient, Http!Next
  <2>7. CASE Crash
    BY <2>7
  <2>8. CASE UNCHANGED vars
    BY <2>8 DEF vars
  <2>9. CASE \/ RunAsync \/ LoadUrl \/ LoadFile \/ JoinGet \/ DestroyFields \/ Destroy \/ WaitEnds
             \/ BinaryReady \/ JoinUpdate \/ UpdateThread \/ HandleResult \/ ExtractFails \/ Publish
    BY <2>9 DEF RunAsync, LoadUrl, LoadFile, JoinGet, DestroyFields, Destroy, WaitEnds, BinaryReady,
       JoinUpdate, UpdateThread, OpenZip, ExtractFile, ExtractDone, HandleResult, ExtractFails, Publish
  <2>10. QED
    BY <2>1, <2>2, <2>3, <2>4, <2>5, <2>6, <2>7, <2>8, <2>9 DEF Next, Caller, GetThread, Handler
<1>2. QED
  BY <1>1, AlwaysIInv, PTL DEF Spec
=============================================================================
