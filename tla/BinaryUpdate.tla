----------------------------- MODULE BinaryUpdate -----------------------------
(***************************************************************************)
(* DeviceInstaller::getActualBinaries with VersionInfo and the Updater: it *)
(* compares the build of binaries/version.xml with the published one and,  *)
(* when that is newer, lets the updater download binaries.zip and extract  *)
(* it.  The updater's HttpClient is an instance of RequestService, whose   *)
(* k-th request is the download of the k-th run; its handler thread runs   *)
(* the result callback.  The files survive a crash of the process.         *)
(***************************************************************************)
EXTENDS Naturals

CONSTANTS
  Binaries,  \* the files of the archive besides version.xml
  MaxRuns,   \* bound: how often the updater runs
  MaxBuild,  \* bound: the last build that is published
  Nobody     \* no request

ASSUME BinaryUpdateAssumption ==
  /\ MaxRuns \in Nat /\ MaxBuild \in Nat \ {0}
  /\ Nobody \notin 1 .. MaxRuns
  /\ "version.xml" \notin Binaries

Requests == 1 .. MaxRuns
Missing  == 0
Builds   == 1 .. MaxBuild
Damaged  == MaxBuild + 1  \* truncated, or no archive at all
Contents == 0 .. MaxBuild + 1
Files    == Binaries \cup {"version.xml"}

VARIABLES
  request, delivering, closed, thrown,  \* the updater's HttpClient
  files,       \* the build of every file in binaries/
  zip,         \* the build in binaries.zip
  published,   \* the newest build the server has
  sync,        \* the updater is used as the installer does, run(true, true)
  caller,      \* the thread that calls and destroys the updater
  runs,        \* how often run was called
  get,         \* getBinaryThreadObject
  upd,         \* updateThreadObject
  archive,     \* the build of the archive that is being extracted
  todo,        \* its files that are still to be written
  intact,      \* all files written so far are complete
  downloadRequestDone,
  getBinaryError,
  handling,    \* where the result callback is
  heard,       \* history: the requests whose callback came to its end
  torn,        \* history: an extraction lost a file and none has been complete since
  fate         \* "alive", "malformed" or "joinable": why std::terminate was called

httpVars == <<request, delivering, closed, thrown>>
diskVars == <<files, zip, published, torn>>
flagVars == <<downloadRequestDone, getBinaryError, handling, heard>>
extractVars == <<upd, archive, todo, intact>>
vars == <<httpVars, diskVars, flagVars, sync, caller, runs, get, extractVars, fate>>

Http == INSTANCE RequestService

TypeOK ==
  /\ request \in [Requests -> {"none", "pending", "delivered", "dropped"}]
  /\ delivering \in Requests \cup {Nobody}
  /\ closed \in BOOLEAN /\ thrown \in BOOLEAN /\ sync \in BOOLEAN
  /\ torn \in BOOLEAN /\ downloadRequestDone \in BOOLEAN /\ getBinaryError \in BOOLEAN
  /\ files \in [Files -> Contents]
  /\ zip \in Contents /\ archive \in Contents /\ published \in Builds
  /\ caller \in {"idle", "version", "joinGet", "stop", "fields", "close", "gone"}
  /\ runs \in 0 .. MaxRuns
  /\ get \in {"none", "start", "wait", "ready", "joinUpdate", "ended"}
  /\ upd \in {"none", "open", "extract", "ended"}
  /\ upd = "extract" => archive \in Builds
  /\ todo \subseteq Files /\ intact \in BOOLEAN
  /\ handling \in {"none", "entered", "handled"}
  /\ heard \subseteq {r \in Requests : request[r] = "delivered"}
  /\ fate \in {"alive", "malformed", "joinable"}

\* binaries/ is as some release left it, or empty.
Init ==
  /\ Http!Init
  /\ \E b \in {Missing, 1} : files = [f \in Files |-> b]
  /\ zip = Missing /\ archive = Missing /\ todo = {} /\ intact = TRUE
  /\ published = 1
  /\ sync \in BOOLEAN
  /\ caller = "idle" /\ runs = 0 /\ get = "none" /\ upd = "none"
  /\ downloadRequestDone = FALSE /\ getBinaryError = FALSE
  /\ handling = "none" /\ heard = {}
  /\ torn = FALSE /\ fate = "alive"

Alive == fate = "alive"

-----------------------------------------------------------------------------
\* Updater::run and getBinary: over a thread that was not joined std::terminate is called.
AfterRun == IF sync THEN "joinGet" ELSE "idle"
Run ==
  /\ runs < MaxRuns
  /\ IF get = "none"
     THEN get' = "start" /\ runs' = runs + 1 /\ caller' = AfterRun /\ UNCHANGED fate
     ELSE fate' = "joinable" /\ UNCHANGED <<get, runs, caller>>

RunAsync ==
  /\ Alive /\ ~sync /\ caller = "idle"
  /\ Run
  /\ UNCHANGED <<httpVars, diskVars, flagVars, sync, extractVars>>

\* loadFromXMLFile throws out of the install thread when version.xml is no version file.
LoadFile ==
  /\ Alive /\ sync /\ caller = "idle"
  /\ IF files["version.xml"] = Damaged
     THEN fate' = "malformed" /\ UNCHANGED caller
     ELSE caller' = "version" /\ UNCHANGED fate
  /\ UNCHANGED <<httpVars, diskVars, flagVars, sync, runs, get, extractVars>>

\* loadFromUrl waits for the answer on a client of its own.  Without a usable answer the
\* build is 0, which is never newer; a 200 that is no version file throws.
LoadUrl ==
  /\ Alive /\ caller = "version"
  /\ \/ \E newest \in {Missing, published} :
          IF files["version.xml"] < newest
          THEN Run
          ELSE caller' = "idle" /\ UNCHANGED <<runs, get, fate>>
     \/ fate' = "malformed" /\ UNCHANGED <<caller, runs, get>>
  /\ UNCHANGED <<httpVars, diskVars, flagVars, sync, extractVars>>

JoinGet ==
  /\ Alive /\ caller = "joinGet"
  /\ get = "ended"
  /\ get' = "none"
  /\ caller' = "idle"
  /\ UNCHANGED <<httpVars, diskVars, flagVars, sync, runs, extractVars, fate>>

\* The destructor of Updater_RaumserverDaemon has run: virtual calls reach the base class.
Derived == caller \notin {"stop", "fields", "close", "gone"}

\* getBinaryThread, doGetBinary_HTTP.
DoneKept == downloadRequestDone
DoneReset == FALSE
DoGetBinary ==
  /\ Alive /\ get = "start"
  /\ IF Derived
     THEN /\ downloadRequestDone' = DoneReset
          /\ get' = "wait"
          /\ Http!Ask(runs)
     ELSE get' = "ended" /\ UNCHANGED <<httpVars, downloadRequestDone>>
  /\ UNCHANGED <<diskVars, getBinaryError, handling, heard, sync, caller, runs, extractVars, fate>>

\* The loop ends; what it returns.
WaitEnds ==
  /\ Alive /\ get = "wait"
  /\ downloadRequestDone
  /\ get' = IF getBinaryError THEN "ended" ELSE "ready"
  /\ UNCHANGED <<httpVars, diskVars, flagVars, sync, caller, runs, extractVars, fate>>

\* binaryReady starts the update, which is joined in a synchronous run only.
AfterReadyAtOnce == "ended"
AfterReady == IF sync THEN "joinUpdate" ELSE "ended"
BinaryReady ==
  /\ Alive /\ get = "ready"
  /\ IF upd = "none"
     THEN get' = AfterReady /\ upd' = "open" /\ UNCHANGED fate
     ELSE fate' = "joinable" /\ UNCHANGED <<get, upd>>
  /\ UNCHANGED <<httpVars, diskVars, flagVars, sync, caller, runs, archive, todo, intact>>

UpdNotJoined == "ended"
UpdJoined == "none"
JoinUpdate ==
  /\ Alive /\ get = "joinUpdate"
  /\ upd = "ended"
  /\ upd' = UpdJoined
  /\ get' = "ended"
  /\ UNCHANGED <<httpVars, diskVars, flagVars, sync, caller, runs, archive, todo, intact, fate>>

-----------------------------------------------------------------------------
\* extractFile reads the whole archive; what is none, or not there, ends the update.
ReadsArchive == zip \in Builds
OpenZip ==
  /\ Alive /\ upd = "open"
  /\ IF ReadsArchive /\ Derived
     THEN upd' = "extract" /\ archive' = zip /\ todo' = Files /\ intact' = TRUE
     ELSE upd' = "ended" /\ UNCHANGED <<archive, todo, intact>>
  /\ UNCHANGED <<httpVars, diskVars, flagVars, sync, caller, runs, get, fate>>

\* The files are written one by one, in the order of the archive.  A file that cannot be
\* created, or not be filled, goes unnoticed.
ExtractFile ==
  /\ Alive /\ upd = "extract"
  /\ \E f \in todo : \E written \in {archive, files[f], Damaged} :
       /\ files' = [files EXCEPT ![f] = written]
       /\ todo' = todo \ {f}
       /\ intact' = (intact /\ written = archive)
  /\ torn' = (torn \/ ~intact')
  /\ UNCHANGED <<httpVars, flagVars, zip, published, sync, caller, runs, get, upd, archive, fate>>

\* An entry of the archive that cannot be read throws, with its file already emptied.
ExtractFails ==
  /\ Alive /\ upd = "extract"
  /\ \E f \in todo : files' = [files EXCEPT ![f] = Damaged]
  /\ upd' = "ended"
  /\ todo' = {}
  /\ torn' = TRUE
  /\ UNCHANGED <<httpVars, flagVars, zip, published, sync, caller, runs, get, archive, intact, fate>>

ExtractDone ==
  /\ Alive /\ upd = "extract"
  /\ todo = {}
  /\ zip' = Missing
  /\ torn' = (torn /\ ~intact)
  /\ upd' = "ended"
  /\ UNCHANGED <<httpVars, flagVars, files, published, sync, caller, runs, get, archive, todo, intact, fate>>

-----------------------------------------------------------------------------
\* The handler thread calls doGetBinary_HTTP_RequestResult ...
Deliver ==
  /\ Alive
  /\ \E r \in Requests : Http!Deliver(r)
  /\ handling' = "entered"
  /\ UNCHANGED <<diskVars, downloadRequestDone, getBinaryError, heard, sync, caller, runs, get,
                 extractVars, fate>>

\* ... which writes the archive, or not: an error, a file that cannot be created, no data ...
\* The archive is the newest build published when it is written; the file and both flags are one
\* step, so a crash comes before or after the write.
DoneUnless(error) == ~error
DoneAfter(error) == TRUE
HandleResult ==
  /\ Alive /\ handling = "entered"
  /\ \/ getBinaryError' = FALSE /\ zip' \in {published, Damaged}
     \/ getBinaryError' = TRUE /\ zip' = zip
  /\ downloadRequestDone' = (downloadRequestDone \/ DoneAfter(getBinaryError'))
  /\ handling' = "handled"
  /\ heard' = heard \cup {delivering}
  /\ UNCHANGED <<httpVars, files, published, torn, sync, caller, runs, get, extractVars, fate>>

ResultReturns ==
  /\ Alive /\ handling = "handled"
  /\ handling' = "none"
  /\ UNCHANGED <<diskVars, downloadRequestDone, getBinaryError, heard, sync, caller, runs, get,
                 extractVars, fate>>
  /\ Http!CallbackReturns

\* ... and reports its progress to the application, which may throw, before or after the write.
\* Of the other progress callbacks those of the two threads (updater.cpp:98, 135, 194) would end the
\* program and the one at :200 is caught; none throws here.
ResultThrows ==
  /\ Alive /\ handling = "entered"
  /\ ~thrown
  /\ zip' \in {zip, published}
  /\ handling' = "none"
  /\ UNCHANGED <<files, published, torn, downloadRequestDone, getBinaryError, heard, sync, caller,
                 runs, get, extractVars, fate>>
  /\ Http!CallbackThrows

Publish ==
  /\ published < MaxBuild
  /\ published' = published + 1
  /\ UNCHANGED <<httpVars, flagVars, files, zip, torn, sync, caller, runs, get, extractVars, fate>>

-----------------------------------------------------------------------------
Destroy ==
  /\ Alive /\ caller = "idle"
  /\ caller' = "stop"
  /\ UNCHANGED <<httpVars, diskVars, flagVars, sync, runs, get, extractVars, fate>>

\* stopThreads: nobody looks at stopAllThreads, and the requests are aborted only after the join.
GetLeft == TRUE
GetGone == get \in {"none", "ended"}
StopThreads ==
  /\ Alive /\ caller = "stop"
  /\ GetGone
  /\ get' = "none"
  /\ caller' = "fields"
  /\ UNCHANGED <<diskVars, flagVars, sync, runs, extractVars, fate>>
  /\ Http!Drop(Http!Pending)

\* The strings and flags are declared after the client and destroyed before it.
DestroyFields ==
  /\ Alive /\ caller = "fields"
  /\ caller' = "close"
  /\ UNCHANGED <<httpVars, diskVars, flagVars, sync, runs, get, extractVars, fate>>

\* ~HttpClient, then the thread objects.
CloseClient ==
  /\ Alive /\ caller = "close"
  /\ IF upd = "none" THEN caller' = "gone" /\ UNCHANGED fate
                     ELSE fate' = "joinable" /\ UNCHANGED caller
  /\ UNCHANGED <<diskVars, flagVars, sync, runs, get, extractVars>>
  /\ Http!Close

\* The process dies and starts again: what is on the disk stays, and the file that was being
\* written is truncated.
Crash ==
  /\ caller # "gone"
  /\ \/ UNCHANGED files
     \/ \E f \in todo : files' = [files EXCEPT ![f] = Damaged]
  /\ torn' = (torn \/ todo # {})
  /\ request' = [r \in Requests |-> IF request[r] = "pending" THEN "dropped" ELSE request[r]]
  /\ delivering' = Nobody /\ closed' = FALSE /\ thrown' = FALSE
  /\ caller' = "idle" /\ get' = "none" /\ upd' = "none" /\ todo' = {} /\ fate' = "alive"
  /\ downloadRequestDone' = FALSE /\ getBinaryError' = FALSE /\ handling' = "none"
  /\ UNCHANGED <<zip, published, sync, runs, archive, intact, heard>>

-----------------------------------------------------------------------------
Caller == LoadFile \/ JoinGet \/ StopThreads \/ DestroyFields \/ CloseClient
GetThread == DoGetBinary \/ WaitEnds \/ BinaryReady \/ JoinUpdate
UpdateThread == OpenZip \/ ExtractFile \/ ExtractDone
Handler == HandleResult \/ ResultReturns

Next ==
  \/ Caller \/ GetThread \/ UpdateThread \/ Handler
  \/ RunAsync \/ LoadUrl \/ ExtractFails \/ Deliver \/ ResultThrows
  \/ Publish \/ Destroy \/ Crash

\* Threads are scheduled.  The answers of servers are not assumed to come.  The destructor of the
\* client returns, whatever it still delivers (HttpClient checks that).
Fairness ==
  /\ WF_vars(Caller) /\ WF_vars(GetThread) /\ WF_vars(UpdateThread) /\ WF_vars(Handler)
  /\ SF_vars(CloseClient)
Spec == Init /\ [][Next]_vars /\ Fairness

-----------------------------------------------------------------------------
\* The poll loop of doGetBinary_HTTP ends on the answer to the request of this run, not on
\* what an earlier one has left in downloadRequestDone; unless a callback has thrown, after
\* which the client may report any earlier request again.
OwnAnswer ==
  [][(get = "wait" /\ get' \in {"ended", "ready"} /\ ~thrown) => runs \in heard]_vars

\* When getActualBinaries has returned, the binaries are those of one release, the one
\* version.xml names: the installer may copy them.  An extraction that lost a file is the exception.
OneRelease ==
  (sync /\ caller = "idle" /\ ~torn) => \A f \in Files : files[f] = files["version.xml"]

\* The destructor destroys strings and flags before the client: no result callback is running
\* in their functions by then, unless one has thrown and is repeated.
FieldsOutliveCallbacks ==
  (handling = "entered" /\ caller \in {"close", "gone"} /\ Alive) => thrown

\* Thread objects that nobody joined are overwritten or destroyed in asynchronous use only.
SyncRunsJoin == fate = "joinable" => ~sync

\* A run, the comparison before it, and the destructor return, provided that the server answers
\* what they wait for: neither stopAllThreads nor a timeout ends the poll loops.
Waiting == caller = "version" \/ (get = "wait" /\ runs \notin heard)
CallerReturns ==
  []<>~Waiting => (caller # "idle" ~> (caller \in {"idle", "gone"} \/ ~Alive))
=============================================================================
