# A TLA+ model of RaumserverInstallerLib

RaumserverInstallerLib is a C++11 library that finds Raumfeld devices in the network, finds out
which of them run the Raumserver, and installs the Raumserver on them (or removes it) over ssh.
It is small, but nearly everything in it happens on a thread of its own, and the threads meet in a
few maps, flags, mutexes and signals.  This directory models these meetings in TLA+, checks them
with TLC on small instances and proves the safety properties with TLAPS for all instances.

Paths below are relative to `src/source/` unless they start with `src/`.

## 1. Inventory

| component | code | state | operations |
|---|---|---|---|
| HttpClient | `httpClient/httpClient.cpp` | map of pending requests and its mutex, handler thread, its vector of finished requests, abort flag | `init`, `request`, `abortAllRequests`, handler round (collect, restart redirections, report, clean up), destructor |
| HttpRequest, HttpResponse | `httpClient/httpRequest.cpp` | flags finished, deleteable, redirection, stopRequestThread; pump thread; response | `doRequest`, `abort`, the callbacks of the pump, `waitTillFinished` |
| Signals | `includes/signals/*.hpp` | list of targets; per connection the atomics `connected` and `running` | `connect`, `fire`, `disconnect`, `disconnect_all`, destructors |
| RaumserverInstaller | `raumserverInstaller.cpp` | device map and its mutex, ssh access checker threads, stop flag | device found/removed, checker threads, version results, `startInstallToDevice`, `startRemoveFromDevice`, destructor |
| DeviceInstaller | `deviceInstaller/*.cpp` | device to work on, binaries of the hardware types, install and remove thread, abort flag | `startInstall`, `startRemove`, `abortInstall`, `abortRemove`, both threads, destructor |
| DeviceDiscovery_UPNP | `deviceDiscovery/*.cpp` | control point, refresh thread, deviceListMutex | start, refresh, service found, service lost |
| SSHClient, SCPActions, SFTPActions | `sshClient/*.cpp` | ssh session, scp and sftp handles and their copies, two copy threads | connect, close, commands, copies, removals, destructors |
| Updater, VersionInfo | `updater/*.cpp`, `versionInfo.cpp`, `zip/zip_file.cpp` | download and update thread, the flag between them, the files on the disk; a version | run, download, extract, stop; load from file, load from URL |
| happyhttp | `httpClient/happyhttp.cpp` | connection, outstanding responses, parser state | request, pump, parse |
| Logger | `logger/*.cpp` | adapters, level and a mutex | `addLog`, `registerAdapter`, `setLogLevel` |
| Settings, shared types, tools | `settings/`, `tools/`, `includes/` | an XML file; none | data and helpers |
| others | `test.cpp`, `ftplib/`, `zip/`, `json/`, `xml/`, `src/openHome/`, libssh | | an example, vendored code, headers |

### How they interact

* The application calls `RaumserverInstaller`, and is called back through its signals: device
  found, removed or changed (discovery thread, checker threads, http handler thread), installation
  progress and completion (install and remove thread).  A callback may call the library again.
* The UPnP control point (a library outside the repository) calls `onDeviceFound` and
  `onDeviceLost`, one at a time under `deviceListMutex`.  The signal goes to `RaumserverInstaller`,
  which changes its map, tells the application, starts an ssh access checker thread and asks the
  device for its version by `HttpClient::request`.
* `HttpClient` runs each request on a pump thread; its handler thread polls the map every 20 ms,
  restarts redirections, calls finish callbacks and deletes what may be deleted.
* `startInstallToDevice` and `startRemoveFromDevice` set the device of the one `DeviceInstaller` object and make it
  abort and join whatever it runs, before it starts its thread.  The install thread runs the
  Updater and copies files with the ssh client that both threads share.
* Every connection between components is a signal connection; destructors disconnect and wait.

### What is hard, and what makes each part correct

* **HttpClient**: aborts, restarts, reports, new requests from callbacks, callbacks that throw and the
  destructor interleave; joins happen while a mutex is held.  Correct is: a callback reads the answer
  of the last run, once; an abort leaves nothing running; the destructor ends although servers stay
  silent, and nothing is delivered after it.
* **Signals**: calls and disconnects share two atomics and no lock.  Correct is: after a waiting
  disconnect no callback runs, and that wait ends.
* **RaumserverInstaller**: late results meet removed devices; the mutex is held over remote
  commands; the destructor joins threads that discovery still starts.  Correct is: the map follows the discovery, callbacks may
  use the map, and destruction leaves no thread behind.
* **DeviceInstaller**: starts come from the application and from callbacks on the very thread they
  have to join; one abort flag, one device, one ssh client serve all operations.  Correct is: one
  worker at a time, no thread object overwritten, no abort that hits a later operation, one honest answer per operation.  The code
  promises the first three unless a start from a callback overtakes the assignment of the thread it runs on.
* **SSHClient**: three objects hold copies of the handles, two threads use them, and libssh may fail at any
  point.  Correct is: no handle is used or freed after it was freed, and none is forgotten while open.  The code keeps the
  second for ssh and sftp handles, and breaks the first only with an scp object whose session failed or is closed under it.
* **Updater, VersionInfo**: two threads one after the other, a flag raised by a callback of a third, an archive that is
  extracted over the files in use.  Correct is: a run waits for its own answer and ends; the installer finds the files of one
  release; what a callback uses outlives it.
* **happyhttp**: a stream cut anywhere, three framings, connections lost in any state.  Correct is: exactly the body is
  delivered, callbacks come in order, what is complete is whole, and what can be completed is.
* **Logger**: adapters that fail or throw, subscribers that log.  Correct is: records are written in the order of their
  stamps, no adapter is skipped, nobody waits for ever.

`PROJECT.json` lists every hazard with its line and the properties that cover it.

## 2. Modules

| module | models | extends / uses |
|---|---|---|
| `RequestService` | abstract specification: what the users of HttpClient may rely on | |
| `HttpExchange` | abstract specification: one exchange after the other, as the callbacks of a request see them | |
| `HttpClient`, `MCHttpClient` | HttpClient and HttpRequest, with servers that answer, redirect, fail or stay silent | implements `RequestService`, and `HttpExchange` for every request |
| `HttpClientProofs` | invariants of HttpClient; both refinements | `HttpClient` |
| `Signals`, `SignalsProofs` | signal, connection, connections | |
| `DeviceRegistry`, `DeviceRegistryProofs` | RaumserverInstaller's map, checkers, version requests and destructor; the callbacks of the discovery | `RequestService` |
| `DeviceInstaller`, `MCDeviceInstaller`, `DeviceInstallerProofs` | DeviceInstaller_RaumfeldDevice and the start functions of RaumserverInstaller | |
| `BinaryUpdate`, `BinaryUpdateProofs` | `DeviceInstaller::getActualBinaries` with VersionInfo, the Updater and the extraction of the archive; crashes | `RequestService` |
| `SshSessions`, `SshSessionsProofs` | SSHClient, SCPActions and SFTPActions over libssh | |
| `HttpResponseParser`, `MCHttpResponseParser`, `HttpResponseParserProofs` | how happyhttp reads one response | implements `HttpExchange` |
| `Logger`, `LoggerProofs` | Log with its adapters and its signal | |

Variables and actions keep the names of the code where they stand for one field or one function
(`deleteable`, `requestMap`, `abortInstallThread`, `sshAccessCheckThread` as `checker`, ...).  The names of the places
of a thread are strings in a variable per thread (`handler`, `call`, `pump`, `fire`, `pc`,
`phase`, `checker`, `discovery`, `destruction`).  A step ends where a thread may block, where it touches state that others
see without the lock it holds, or where foreign code runs (callbacks are two steps, entry and
return).  `PROJECT.json` maps every definition to its lines.

**HttpClient.**  `pump[r]` is the pump thread of request `r` (`connect`, `wait` for the header,
`body`, `ending`, `exited`).  In `ending` the exchange is over and `finished` is set, but the thread still runs: it sleeps 20 ms after `onComplete` before it
leaves the pump loop (`httpRequest.cpp:298`), or is in the handler of an exception.  Meanwhile the request handler may report, mark and erase the request;
so `CleanupErase` joins the thread under the mutex, and the vector joins it where it lets go of the last reference (`ReleaseVector`).  `handler` is the place of `requestHandlerThread`, `call[c]` the place of a thread
that aborts or destroys.  `AbortNext`/`AbortJoin` visit the map inside the mutex; so do
`HandlerScan`, `HandlerRedirect`/`HandlerRestart` and `CleanupErase`.  `finishedRequests` and `emitPos`
are the handler's vector and its position, which survive an exception of a callback
(`CallbackThrows`).  `responseRun` records which run made the response.  Headers, post data, progress and the
three exception codes (999, 998, 900: one value) are abstracted.

**Signals.**  `fire` follows a thread through `connection::call`: test, `++running`, test again, call,
`--running`; `break` follows one through `disconnect` in its three uses.  `CallbackThrows` leaves the
connection counted, as the code does.

**DeviceRegistry.**  Found services are numbered, and number k names the checker thread and the
request of the k-th.  `discovery` is the place of the control point's callback, `handler` that of
`onRequestResult`.  Of the results only known or unknown is kept (`checked`, `asked`).  The application's callbacks
may read the map (the places `reads...`, which wait for the mutex).  `Destroy` to `DestroyCheckers` are
the destructor and the member destructors in their order.  The HttpClient is an instance of `RequestService`, whose actions
are conjuncts of the actions here.  `appDevices`, `lastFound` and `late` are history variables.

**DeviceInstaller.**  Operations are numbered, and so are their threads: `pc[o]` is the place of the thread of operation `o` (`off` before it is created).
`object[w]` is the thread the `std::thread` object `w` holds, 0 when it is not joinable; an ended thread stays in its object until somebody joins it.
`phase[t]` is the place of the call thread `t` makes into the object, and `op[t]` the operation it starts.
`given`, `host` and `answers` record what was asked, where the session went, and what was reported.

A thread is created before it is assigned to its object (`CreateThread`, `AssignThread`; `deviceInstaller_RF.cpp:43`, `:71`).  In between it may
already be in its completion callback, and a start from there finds the object not joinable, gets past the join of the thread it runs on, and creates a second worker; of
the two assignments the later meets a joinable object and terminates the program.  `overtaken` records the threads that did so, and `Orderly` says that none has.
`OneWorker`, `NoJoinableLost`, `FlagIsForThisRun`, `DestroyedIsQuiet`, `SilentIsAborted` and `CallsReturn` have the premise `Orderly`: they say that nothing *but*
such a start breaks them.  Without the premise TLC finds the first two and `DestroyedIsQuiet` violated with three operations and `SilentIsAborted` with four.
`HostIsOwnOrLater` and `AnsweredAtMostOnce` hold without it.

**BinaryUpdate.**  `caller` is the thread that runs `getActualBinaries` and destroys the updater, `get` and `upd` the places of
the download and the update thread (`none`: not joinable), `handling` that of the result callback, which the updater's
HttpClient runs as `RequestService` says.  A file is the build it came from, or `Damaged`.  `Crash` may come at any time: threads,
client and flags are gone, files stay, and the one being written is truncated.  `sync` chooses between the use of the
installer, `run(true, true)`, and the asynchronous one the Updater also offers.  `torn` (an extraction lost a file and none
has been complete since) and `heard` are history variables.

**SshSessions.**  A call is the sequence of steps its function takes (`Calls`); the steps are the actions, and `Return` skips the
rest when one fails.  So the fact that `connectSSH` closes first, or that `connectSCP` overwrites the scp object's copies before it
connects, is in the sequences, and any sequence of calls may be made.  Handles are numbers that are never used twice, `live` are
the allocated ones, and `misuse` collects those given to libssh after they were freed.  `With(h)` is a handle with the session it belongs to, which libssh
follows; freeing a session (`CloseSSH`) frees its channels but no `ssh_scp` object, so a handle the scp object has forgotten stays in `live` for ever.
An scp handle whose initialisation failed is `broken`.  The copy threads go on while calls are made: that of scp tests for a session (`CopyTest`, `pushing`) once per file and
then enters libssh and leaves it again any number of times (`CopyEnter`, `CopyLeave`; `using` is the handle it is in libssh with), with whatever the object holds at each entry;
a close may come between the test and an entry, and while it is inside.

**HttpResponseParser.**  `wire` is a whole answer, `cut` how much of it arrives, `pos` and `end` what the parser has used and `recv` has
returned.  Line text is a token, bytes of the body are units.  There is one action per function of `Response` that handles
a line or data; `delivered` is the set of positions given to the data callback, so a byte delivered twice or a chunk
length taken for data would show.  What a server may answer is the constant `Answers`, of which `ParserAssumption` only says
that each is an answer (`IsAnswer`): a body with a length or an end of connection consists of data, and in a chunked one every chunk line is
followed by as many units as it announces, a line end and another chunk line, or by the end.  These are conditions on neighbouring positions and
not a fold over the chunks, so that the proofs hold for bodies of every length; `MCHttpResponseParser` builds the bodies of the runs.

**HttpExchange.**  What the parser calls and what HttpRequest makes of it meet here: a header, data, and an end or a failure,
with the result code.  `Exchange` in `HttpResponseParser` is the exchange of one answer, `Exchange(r)` in `HttpClient` the exchanges of request `r` over
its runs; there the pump thread may also be stopped, and the next run starts only after that.

**Logger.**  `place[t]`, `it[t]` and `stamp[t]` are a thread's place in `addLog`, its position in the list and its record; a record is
its stamp, the place in the order of stamping, which is taken under the mutex.  A subscriber of `sigLog` may log again (`AddLog` from `subscriber`).

## 3. Runs

| run | instance | shows |
|---|---|---|
| `http_safety` | 2 requests, 2 callers, status 200/307/404, 2 runs per request, 1 throw; symmetric; 3.8 M states | flags, threads and answers stay consistent, an abort leaves nothing running, each request makes one exchange after the other (`HttpExchange`), and the client implements `RequestService` |
| `http_live` | 1 request, 2 callers, 3 runs, 1 throw | finished requests are reported, redirections are followed, the destructor returns |
| `signals` | 2 connections, 2 firing and 2 disconnecting threads, 1 throw; 1.6 M states | no callback after a waiting disconnect, which returns unless a callback throws |
| `device` | 3 operations on 2 devices (one that can be installed to, one without ip and no Raumfeld device); 638 k states | unless a start overtakes the assignment of its own thread: one worker, no lost thread, no stale abort, quiet destruction, no answer missing without a cause, calls return; always: at most one answer, never the device of an earlier call |
| `registry` | 1 device with 2 services, 2 found events; 250 k states | the map follows discovery, destruction is quiet, only late checkers survive the join, callbacks and destructor return |
| `update` | 2 runs, 2 builds, `version.xml` and one binary; 240 k states | the installer finds the files of one release; runs wait for their own answers; callbacks do not outlive the fields; the caller returns when servers answer |
| `ssh` | 4 handles; 203 k states | copies follow the client, no ssh or sftp handle is forgotten, only a stale scp object or its copy thread misuses handles, calls return |
| `parser` | 32 answers (3 framings, bodies of up to 3 units in up to 2 pieces, interim answers, a 204, something that is no answer), cut everywhere; 42 k states | exactly the body is delivered, complete is whole, answers end, callbacks make one exchange (`HttpExchange`) |
| `logger` | 2 threads, 2 adapters (one may throw), 2 levels, 3 records; 98 k states | written in order, no adapter skipped, logging ends unless an adapter has thrown |
| `device_answered`, `ssh_removed`, `parser_empty` | as above, `ssh_removed` with 2 handles | the disagreements of section 6 |

**Bounds.**  `MaxRuns` bounds redirections, `MaxThrows` throwing callbacks, `MaxOps` started
operations, `MaxFound` found services: the counters nothing else bounds.  Two requests are needed for
an iteration that is half way through the map or the vector; a second caller for an abort that meets
another abort or the destructor; three runs for a redirection after a redirection.  Two connections
and two threads of each kind give every pair of call and disconnect and a group of which one is waited for.  Three operations let
a third start meet what the first left behind (a joined or self-joined thread, a stale flag).  With two devices an operation that passed the type check may meet a device
without ip, which a later start has set; a third device that only fails one of the two checks (checked for safety, 1.8 M states) adds nothing.  Two services of one device give lost-and-found
with a checker or a request of the first still running; two devices (checked for safety, 1.4 M states) add nothing, as only the device
of an event is touched.  Two runs of the updater over two releases let an update meet the files, the flag and the thread objects of
the one before, with a crash in either; one binary besides `version.xml` is enough for a folder of two releases.  Four handles are an
ssh, an sftp and an scp handle and one to come after them, so every handle is closed, lost or forgotten while another lives;
a fifth (checked for safety, 1.5 M states) violates nothing either.  Two pieces are the least that have a border between them, a piece of two units the least that `recv`
can cut.  Three records let two threads alternate while one of them logs from a subscriber.

The deadlock check is off where the program really stops: in `device`, `registry`, `ssh` and `update` the object is destroyed or
`std::terminate` was called, in `parser` the response is complete or the server has stopped, in `logger` all records are used or
the mutex was left locked.

**Fairness.**
`HttpClient`: threads are scheduled, `connect()` returns or fails, callbacks return.  Locks get strong
fairness: every holder releases the mutex (what it joins has ended its exchange, `DeleteableIsQuiet`, and leaves its loop, `PumpEnd`, or has been told to, `PumpStop`), the handler sleeps
20 ms without it in each round, and the OS does not starve a waiter.  Nothing is assumed of servers: no answer, no
end of a body.  `Signals`: threads are scheduled and callbacks return; nobody has to fire or disconnect.
`DeviceInstaller`: ssh calls end (libssh has timeouts), callbacks return, and downloads end; the code
gives downloads no timeout, so `CallsReturn` is conditional on that, and says so.  `DeviceRegistry`:
ssh calls end and callbacks return; weak fairness is enough, since the checkers that can take the mutex are finitely many.
Announcements, losses and answers need not come.  `BinaryUpdate`: threads are scheduled and file operations end; that the
destructor of its client returns (`CloseClient`, strongly fair because a repeated callback may keep the guard going on and off) is what `DestroyReturns` of `HttpClient` says.  Answers need not come, so `CallerReturns` is
conditional on them: neither poll loop has a timeout.  `SshSessions`: calls of libssh return (`CopyLeave`, `CloseFile`), and files and
directories are finite (`CopyFileEnds` and `CopyEnds` strongly fair: a thread is inside libssh, or a file is open, in between).  `HttpResponseParser`: the pump thread polls, so what has arrived is read (weak
fairness of everything).  `Logger`: adapters and subscribers return, and the mutex, which every thread keeps releasing, starves nobody (strongly fair `Lock`).

**What is not repeated.**  The type invariants of the modules that are proved about, `ReportedAtMostOnce`, `RunsDoNotOverlap`, `CallbackOrder` and
`RunningCountsCalls` were checked by TLC in these runs before they were proved; section 4 has them for all instances, so the runs leave them out.
The two middle ones also follow from the exchanges the runs check.

Every property of a passing run has a mutant in `PROJECT.json`: a plausible bug in a mapped
definition (an unchecked join, a flag not reset, a lost mark) under which TLC finds the property violated.  The mutated forms
stand next to the definitions in the modules.

## 4. Proofs

All proofs are for every value of the constants under the named assumptions (bounds are naturals,
threads and distinguished values are different from one another, the firing threads are finitely many).

* `HttpClientProofs`.  `Inv1` is the type invariant with `ControlInv`: the mutex is held exactly in
  the sections between lock and unlock, and once somebody closes the client everybody else is idle.
  `Inv2` adds `RunInv` (a finished run has made the response and receives no more, though its thread may still be winding down; what receives is in the map, and what
  runs is there or in the handler's vector), `VectorInv` (the handler's vector holds finished requests that are no redirections, so they never
  run again) and `IterationInv` (what an iteration has established so far).  They are needed together: that
  an abort leaves nothing running holds because only mutex holders restart requests, which is why the
  iteration invariant speaks of the part already visited.  They give
  `DeleteableIsQuiet`, `CallbackSeesLastAnswer`, `AbortLeavesNothingRunning`, `StoppedIsQuiet` and
  `RunsDoNotOverlap`.  `ReportInv`, which needs both, gives `ReportedAtMostOnce`.
  `HolderGoesOn` is the safety half of what the fairness of the locks assumes: whoever holds the mutex joins only threads told to stop (`WaitInv`) or, in the clean-up, whose exchange is over, so that they end without the server.
  `Spec => ServesRequests`: with `ServeInv` (the vector's elements behind the position
  have been reported) every step maps to a step of `RequestService` or a stutter.
  `Spec => MakesExchanges`: a step of the pump thread of `r` is one of `Exchange(r)`, a restart is a `Start`, which needs that the run before has ended, and
  all others leave the exchange alone; `CodeInv` (while a body is received the code is not 999: no answer has it, only a failure sets it) lets the code tell how a run has ended.
* `HttpResponseParserProofs`, for every set of answers and bodies of every length.  The invariant ties the parser's state to the wire: `PlaceInv` says
  for each state what lies at `pos` (a chunk line, the rest of a chunk of `m_ChunkLeft` units, the trailer, ...), `LineInv` that `m_LineBuf` is what was read since the
  last line end, `DataInv` that the data up to `pos` and nothing else was delivered, `CallInv` what has been called and what the header told, and `WireInv` what an encoded
  answer is, position by position.  No conjunct is inductive without the others: what a line means depends on where it lies, and where the parser is depends on the lengths it has read.  They give
  `BodyIsDelivered`, `CompleteIsWhole`, `CallbackOrder`, and with them the refinement `Spec => MakesOneExchange`.
* `SignalsProofs`.  The counter of a connection is at least the number of calls between `++` and
  `--` (a cardinality argument), and a waiting thread that has seen 0 after clearing `connected` can
  have no caller behind the second test.
* `DeviceInstallerProofs`.  `Control` says who may be in which part of a start while which thread is held: every thread that runs is held by its object or is about to be
  assigned by the application, so a worker never gets past its own join, only the application creates threads, and it has joined both objects before.
  `ControlInv` is `Orderly => Control`; it is inductive because the step that leaves `Control` is exactly the one that adds to `overtaken`, which never shrinks.
  On it rest `OneWorker`, `NoJoinableLost`, `DestroyedIsQuiet`, `FlagInv` (the flag is down when a thread is about to be created) and `SilentInv` (who waits for the install
  thread is the destructor or a later call), each with the same premise.  `AnswerInv` and `HostInv` (the object's device is that of the last call, and a thread works on that of its own
  or a later one) need no premise.  `CallbackStartsNeverWait`: while `Orderly`, a start called from a callback finds the other object free and its own join throws or is passed, so threads never wait for one another.
* `DeviceRegistryProofs`.  `FollowInv` says how far the map and the application lag behind the
  discovery at each place of its callback, `LateInv` that a running checker is one the destructor
  will join or one that was started after it began, `QuietInv` that stages stay passed.
  The composition is justified by two more theorems, here and in `BinaryUpdateProofs`: `UsesService`, every step moves the client's state only as `RequestService` allows (in
  `BinaryUpdate` a crash alone resets it), and `AsksAreAccepted`, the guard of `Ask` never holds back a step the code would take (`ServiceInv`: who is about to ask has not asked, and the client is open).
  `CallbacksHoldNoMutex`, from `LockInv`: no callback of the application runs under the mutex it may want.
* `SshSessionsProofs`.  `Ordered` says what may precede a step in a call, and is kept by taking steps away; with it `CallInv` says what
  the steps already taken have established (`openSSH` is only taken without a session, `openSCP` only with fresh copies).  `HandleInv` ties a handle to
  the session it belongs to and `ThreadInv` the copy threads to what they may be using; together with `SftpFollowsClient` and the fact that only scp handles are left behind they are
  `CallerInv`.  `ScpInv` says what the scp object's copies may be: fresh, freed under it, or broken.  `OnlyStaleScpMisuses` follows for every single entry into libssh.
  `DestroyInv` follows the destructor's own sequence, at whose end the scp object has let go of its handle (`NothingForgotten`).
* `BinaryUpdateProofs`.  `AskInv`: until a callback throws, the only request on its way is that of the run that waits, and the flag was
  raised by its answer, which gives `OwnAnswer` and `FieldsOutliveCallbacks`.  `ThreadInv` (in synchronous use every thread is joined by who
  started it) gives `SyncRunsJoin`, and together with `DiskInv` (what is written during an extraction is of one build, or `torn`) `OneRelease`, over crashes.
* `LoggerProofs`.  `LockInv`: who goes over the adapters has the mutex and the newest stamp.  `WrittenInv` says that adapters whose turn is still to come
  have only older records, which needs that no adapter is registered twice (`ListInv`); `OfferedInv` that those before the position have had the record.

Only model-checked: all liveness properties (`FinishedIsReported`, `RedirectionIsFollowed`, `DestroyReturns`, `DisconnectReturns`,
`CallsReturn`, `CallbacksReturn`, `DestructorEnds`, `CallerReturns`, `AnswersEnd`, `LogsReturn`), because fairness and ENABLED are beyond the
prover.  Every invariant, action property and refinement of a passing run is proved.  What is not proved is that `IsAnswer` admits the bodies a fold over chunks
would give: TLC evaluates `ParserAssumption` for those of the runs.

## 5. What the models leave out

* Data races on plain memory that have no outcomes to choose from: `setSSHAuth` against checkers, `hardwareTypeBinaries`
  read while it is refilled, the thread vector iterated by the destructor while discovery appends (the late thread counts as not joined).
  Flags that are plain or atomic `bool`s are read and written atomically.
* `HttpClient`: callbacks of the pump thread that call the client (none does); `waitTillFinished`.  A port that is no number, whose exception is not caught
  (`httpRequest.cpp:229`), a 307 without a `Location` (`:376`), and a finish callback that throws APPCRASH, which leaves the handler thread (`httpClient.cpp:225`), end
  the program.  `doRequest` too creates a thread before it assigns it, but whoever joins that object holds the map's mutex, or is the destructor, which nobody calls next to a request.
* `DeviceInstaller`: progress texts, types and percentages; `abortRemoveThread`, which nothing reads; one application
  thread; calls into the object only from completion callbacks of the two threads: not from the one that reports a bad info file inside `startInstall` (`deviceInstaller.cpp:41`), nor
  from progress callbacks.  Two threads at once on one `std::thread` object are modelled by what `joinable`, `join` and the assignment find there, each as one step; what a thread does with the object
  after the object is gone, which takes an overtaken assignment, is not.
* `DeviceRegistry`: application callbacks read the map and do nothing else, and do not throw; the data of a device; the control point,
  which is external.  Of discovery its start, which joins the refresh thread and makes a new list, and that thread, which only triggers the
  callbacks, are left out: with them the registry's liveness is beyond TLC, and on their own they hold no property worth one.  A second start makes
  the list announce services again without their loss, which the map takes as it takes the second service of a device.
* `BinaryUpdate`: the application's settings of URL and path; `setProgress`, but for its exception in the result callback
  (those of the two threads, `updater.cpp:98`, `:135`, `:194`, would end the program, the one at `:200` is caught); reading a version of zero length.  The archive that is written is the newest build published, and writing
  it and raising the flags is one step (`updater.cpp:161-185`), so a crash comes before or after it.  An
  empty answer takes the address of element 0 of an empty vector (`updater.cpp:167`): modelled as one of the outcomes of the write.
* `SshSessions`: several threads that call the client (the installer's joins exclude them, `OneWorker`), so its calls of libssh are one step each, and only those of the copy threads overlap a close; what a program does
  after it has misused a handle; `existsFile` of sftp without an sftp session, which dereferences null (`sftpActions.cpp:245`; callers connect first); contents of files
  and directories; `copyFile` of sftp leaks its remote file when the local one cannot be opened, which goes with its session.
* `HttpResponseParser`: requests and pipelining, which nobody here uses; header folding; lengths that are no numbers; the headers of
  an interim answer are kept, as in the code, but the model's interim answers have none.
* `Logger`: the text of a record; the level is compared outside the mutex, as one atomic read.  A stamp is the place in the order of stamping: the time the code takes is local and in milliseconds
  (`includes/tools/dateUtil.h:61`), so the times in the file may repeat or go back.  Each adapter is registered once, as the library does it (`raumserverInstaller.cpp:51-62`); `registerAdapter` itself would take one twice.
* `Signals`: `m_targets` is copied without the mutex of its writers (`includes/signals/signal.hpp:146`): one atomic read here.  A callback does not disconnect itself with waiting, which would wait for itself.
* `HttpResponseParser`, `HttpClient`: errors of `select` and `recv` (`happyhttp.cpp:164`, `:435`) throw as a lost connection does, and are not told apart from it.

Not modelled at all:

* Settings (an XML file read and written by one thread), shared types and the base class, tools: data and stateless helpers.  The repository has an example program
  (`src/source/test.cpp`) and no tests, so nothing else vouches for them.
* The former libssh2 variants of the actions, and `updater_RaumserverInstaller.cpp`: never instantiated.
* Vendored code (`ftplib`, `zip`, `json`, `xml`, OpenHome and libssh headers, nine tenths of the lines in the repository), the example program,
  and what runs on the device.

## 6. Disagreements found

| run | the code | the text |
|---|---|---|
| `device_answered` | without a binary for the hardware no completion signal is fired (`deviceInstaller_RF.cpp:135`) | fired "when the installation is complete or there was an error" (`raumserverInstaller.h:120`) |
| `ssh_removed` | `removeDir` runs `rm - rf`, ignores the result and is content with empty standard output (`scpActions.cpp:80`) | "Raumserver install folder deleted!" (`deviceInstaller_RF.cpp:311`) |
| `parser_empty` | an announced empty body is waited for until the connection closes, and is an error then (`happyhttp.cpp:903`) | "check for various cases where we expect zero-length body" (`happyhttp.cpp:870`) |

Met while modelling, and part of the models, but without a run of their own:

* An aborted request whose redirection flag is set is restarted (`httpClient.cpp:183`), though `httpClient.cpp:37` says that aborted requests are deleted.
* An answer without body keeps error code 0 whatever its status (`httpRequest.cpp:388`).
* A throwing callback skips `--running`, after which waiting disconnects spin for ever (`connection.hpp:80`).
* Between the creation of a worker and its assignment to its object a start from its callback is not held up by the joins (`deviceInstaller_RF.cpp:43`, `:71`; section 2).
* `connectSCP` clears the scp object's copies before `SCPActions::connect` looks whether a session is open (`sshClient.cpp:296`), so the code there that would close it, or report
  "There is aleady an open SCP Session" (`scpActions.cpp:293`), is never reached; the handle leaks, as it does at `sshClient.cpp:93`.
* Losing one of the two services of a device removes the device (`raumserverInstaller.cpp:148`); `sigDeviceInformationChanged` is fired for removed ones (`:341`).
* A start redirects an operation that still runs, also one that waits to start, to the new device (`raumserverInstaller.cpp:212`).
* Results of copies are ignored and success is reported (`deviceInstaller_RF.cpp:198`).
* An info file without a number for the hardware type ends the thread with an exception (`deviceInstaller.cpp:102`); so does a damaged
  `version.xml`, at every later installation (`versionInfo.cpp:70`).
* An extraction that lost a file but wrote the new `version.xml` is never repaired: the next comparison finds nothing newer.

## 7. Plan

Done, in the order of importance: `HttpClient` (every other network access rests on it), `Signals`
(every notification), `DeviceInstaller` (the purpose of the program), `DeviceRegistry`, `RequestService`, `BinaryUpdate`, `SshSessions`,
`HttpResponseParser`, `Logger`, `HttpExchange`, and the proofs of all of them.

Left: such safety halves of liveness for `Signals`, `Logger` and `BinaryUpdate` (what a waiting thread may wait for); the request side of
happyhttp, if anything comes to depend on it.
