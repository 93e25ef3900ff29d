--------------------------- MODULE DeviceInstaller ---------------------------
(***************************************************************************)
(* DeviceInstaller_RaumfeldDevice behind RaumserverInstaller: installing   *)
(* and removing run on threads of the object, and every start aborts and   *)
(* joins what the two thread objects hold before it creates its own        *)
(* thread.  The application starts operations on its own thread, App, and  *)
(* from the sigInstallCompleted callback, which runs on the installing or  *)
(* removing thread itself.                                                 *)
(*                                                                         *)
(* Operations are numbered in the order of their start calls, and a thread *)
(* has the number of the operation it carries out.  Progress texts and     *)
(* percentages are left out; the flag abortRemoveThread is left out        *)
(* because nothing reads it.                                               *)
(***************************************************************************)
EXTENDS Integers

CONSTANTS
  Devices,    \* what setDevice is given
  Raumfeld,   \* of these, the ones of type DT_UPNPDEVICE_RAUMFELD
  Addressed,  \* of these, the ones with an ip
  NoDevice,   \* the DeviceInformation of the constructor
  App,        \* the thread of the application
  Installer,  \* installThreadObject
  Remover,    \* removeThreadObject
  MaxOps      \* bound: how many operations are started

ASSUME DeviceInstallerAssumption ==
  /\ MaxOps \in Nat
  /\ Raumfeld \subseteq Devices /\ Addressed \subseteq Devices
  /\ NoDevice \notin Devices
  /\ Installer # Remover
  /\ App \notin 0..MaxOps

Operations == 1..MaxOps
Threads == Operations \cup {App}
ThreadObjects == {Installer, Remover}

VARIABLES
  deviceInformation,   \* the device the object works on
  binaries,            \* hardwareTypeBinaries has a binary for it
  abortInstallThread,  \* the flag of abortInstall
  object,              \* the thread that a thread object holds; 0: not joinable
  pc,                  \* where the thread of every operation is; "off": not created
  host,                \* the device its ssh session goes to
  phase,               \* where the call of every thread into the object is
  op,                  \* the operation it starts; 0: it destroys the object
  terminated,          \* "no", or why std::terminate was called
  ops,                 \* the number of operations started
  what,                \* whether an operation installs or removes
  given,               \* the device the application gave for it
  badFile,             \* operations whose installSettings.xml could not be read
  errors,              \* operations that ended for an error
  answers,             \* how often sigInstallDone was fired for an operation
  overtaken            \* threads that passed the join of their own thread object

objectVars == <<deviceInformation, binaries, abortInstallThread, object>>
workerVars == <<pc, host>>
callVars == <<phase, op>>
opVars == <<ops, what, given, badFile>>
resultVars == <<errors, answers>>
vars == <<objectVars, workerVars, callVars, terminated, opVars, resultVars, overtaken>>

-----------------------------------------------------------------------------
\* std::terminate ends all threads.
Alive == terminated = "no"

\* The thread object of the operation o.
ObjectOf(o) == IF what[o] = "install" THEN Installer ELSE Remover

\* A thread may call the object: the application at any time, a worker from the
\* callback of sigInstallDone.
MayCall(t) == /\ Alive
              /\ phase[t] = "idle"
              /\ t # App => pc[t] = "callback"

FirstDevice(d) == IF deviceInformation = NoDevice THEN d ELSE deviceInformation
SetDevice(d) == d

\* setDevice, while the operation before may still run.
Begin(t, kind, first) ==
  /\ MayCall(t)
  /\ ops < MaxOps
  /\ ops' = ops + 1
  /\ what' = [what EXCEPT ![ops + 1] = kind]
  /\ \E d \in Devices : /\ given' = [given EXCEPT ![ops + 1] = d]
                        /\ deviceInformation' = SetDevice(d)
  /\ op' = [op EXCEPT ![t] = ops + 1]
  /\ phase' = [phase EXCEPT ![t] = first]
  /\ UNCHANGED <<binaries, abortInstallThread, object, workerVars, terminated, badFile,
                 resultVars, overtaken>>

StartInstallToDevice(t) == Begin(t, "install", "load")
StartRemoveFromDevice(t) == Begin(t, "remove", "joinRemover")

\* ~RaumserverInstaller: abortInstall, then abortRemove and abortInstall of
\* ~DeviceInstaller_RaumfeldDevice.
Destroy ==
  /\ Alive
  /\ phase[App] = "idle"
  /\ abortInstallThread' = TRUE
  /\ op' = [op EXCEPT ![App] = 0]
  /\ phase' = [phase EXCEPT ![App] = "joinFirst"]
  /\ UNCHANGED <<deviceInformation, binaries, object, workerVars, terminated, opVars,
                 resultVars, overtaken>>

\* DeviceInstaller::startInstall reads installSettings.xml.  When it is unusable the
\* binaries are gone, sigInstallDone is fired with an error, and the start goes on.
LoadFile(t) ==
  /\ Alive
  /\ phase[t] = "load"
  /\ phase' = [phase EXCEPT ![t] = "joinRemover"]
  /\ \/ /\ binaries' \in BOOLEAN
        /\ UNCHANGED <<badFile, resultVars>>
     \/ /\ binaries' = FALSE
        /\ badFile' = badFile \cup {op[t]}
        /\ errors' = errors \cup {op[t]}
        /\ answers' = [answers EXCEPT ![op[t]] = @ + 1]
  /\ UNCHANGED <<deviceInformation, abortInstallThread, object, workerVars, op, terminated,
                 ops, what, given, overtaken>>

\* The test of joinable() fails, or thread.join() may return.
Joined(w) == object[w] # 0 => pc[object[w]] = "ended"

\* t gets past the join of w; a worker of w can do that only while w does not hold it.
Passed(t, w) == IF t # App /\ ObjectOf(t) = w THEN overtaken \cup {t} ELSE overtaken

\* abortRemove ends and abortInstall begins.
InstallerForgotten == "joined"
AfterRemover == "joinInstaller"
JoinRemover(t) ==
  /\ Alive
  /\ phase[t] = "joinRemover"
  /\ Joined(Remover)
  /\ object' = [object EXCEPT ![Remover] = 0]
  /\ abortInstallThread' = TRUE
  /\ phase' = [phase EXCEPT ![t] = AfterRemover]
  /\ overtaken' = Passed(t, Remover)
  /\ UNCHANGED <<deviceInformation, binaries, workerVars, op, terminated, opVars, resultVars>>

\* The end of abortInstall, and what follows it: abortRemove in the destructor.
RemoverForgotten(p) == "joined"
AfterInstaller(p) == IF p = "joinFirst" THEN "joinRemover" ELSE "joined"
FlagKept == abortInstallThread
FlagReset == FALSE
JoinInstaller(t) ==
  /\ Alive
  /\ phase[t] \in {"joinFirst", "joinInstaller"}
  /\ Joined(Installer)
  /\ object' = [object EXCEPT ![Installer] = 0]
  /\ abortInstallThread' = FlagReset
  /\ phase' = [phase EXCEPT ![t] = AfterInstaller(@)]
  /\ overtaken' = Passed(t, Installer)
  /\ UNCHANGED <<deviceInformation, binaries, workerVars, op, terminated, opVars, resultVars>>

Joins(t, w) == \/ w = Remover /\ phase[t] = "joinRemover"
               \/ w = Installer /\ phase[t] \in {"joinFirst", "joinInstaller"}

JoinsNobody(t, w) == FALSE
JoinsItself(t, w) == object[w] = t

\* Two threads join a third.
JoinedTwice(t, w) ==
  object[w] # 0 /\ \E u \in Threads : u # t /\ u # object[w] /\ Joins(u, w)

\* join() throws std::system_error.  RaumserverInstaller catches it and the call is over,
\* abortInstallThread stays set; out of the destructor it terminates the program.
JoinThrows(t) ==
  /\ Alive
  /\ \E w \in ThreadObjects : Joins(t, w) /\ (JoinsItself(t, w) \/ JoinedTwice(t, w))
  /\ IF op[t] = 0 THEN terminated' = "exception" /\ UNCHANGED phase
                  ELSE phase' = [phase EXCEPT ![t] = "idle"] /\ UNCHANGED terminated
  /\ UNCHANGED <<objectVars, workerVars, op, opVars, resultVars, overtaken>>

\* std::thread(...): the thread runs from here on, and no thread object holds it yet ...
CreateThread(t) ==
  /\ Alive
  /\ phase[t] = "joined"
  /\ op[t] # 0
  /\ pc' = [pc EXCEPT ![op[t]] = "type"]
  /\ phase' = [phase EXCEPT ![t] = "assign"]
  /\ UNCHANGED <<objectVars, host, op, terminated, opVars, resultVars, overtaken>>

\* ... until the move assignment, which terminates when the object is joinable.
AssignThread(t) ==
  /\ Alive
  /\ phase[t] = "assign"
  /\ LET w == ObjectOf(op[t])
     IN  IF object[w] = 0
         THEN object' = [object EXCEPT ![w] = op[t]] /\ UNCHANGED terminated
         ELSE terminated' = "joinable" /\ UNCHANGED object
  /\ phase' = [phase EXCEPT ![t] = "idle"]
  /\ UNCHANGED <<deviceInformation, binaries, abortInstallThread, workerVars, op, opVars,
                 resultVars, overtaken>>

\* The thread objects are destroyed, which terminates when one is joinable.
DestroyThreads ==
  /\ Alive
  /\ phase[App] = "joined"
  /\ op[App] = 0
  /\ terminated' = IF \A w \in ThreadObjects : object[w] = 0 THEN "no" ELSE "joinable"
  /\ phase' = [phase EXCEPT ![App] = "gone"]
  /\ UNCHANGED <<objectVars, workerVars, op, opVars, resultVars, overtaken>>

-----------------------------------------------------------------------------
Installs(o) == what[o] = "install"

\* A worker ends; the object that holds it stays joinable until somebody joins it.
Ends(o) == pc' = [pc EXCEPT ![o] = "ended"]

\* An error for which the thread fires sigInstallDone before it ends.
Fails(o) == /\ pc' = [pc EXCEPT ![o] = "report"]
            /\ errors' = errors \cup {o}

\* The device must be a Raumfeld device, and then have an ip.
CheckType(o) ==
  /\ Alive
  /\ pc[o] = "type"
  /\ \/ /\ deviceInformation \in Raumfeld
        /\ pc' = [pc EXCEPT ![o] = "ip"]
        /\ UNCHANGED errors
     \/ deviceInformation \notin Raumfeld /\ Fails(o)
  /\ UNCHANGED <<objectVars, host, callVars, terminated, opVars, answers, overtaken>>

CheckIp(o) ==
  /\ Alive
  /\ pc[o] = "ip"
  /\ \/ /\ deviceInformation \in Addressed
        /\ pc' = [pc EXCEPT ![o] = IF Installs(o) THEN "download" ELSE "connect"]
        /\ UNCHANGED errors
     \/ deviceInformation \notin Addressed /\ Fails(o)
  /\ UNCHANGED <<objectVars, host, callVars, terminated, opVars, answers, overtaken>>

\* getActualBinaries returns, whatever became of the download ...
Download(o) ==
  /\ Alive
  /\ pc[o] = "download"
  /\ pc' = [pc EXCEPT ![o] = "binary"]
  /\ UNCHANGED <<objectVars, host, callVars, terminated, opVars, resultVars, overtaken>>

\* ... or a version file is malformed, or the hardware type not a number: nothing
\* catches the exception.
InstallThrows(o) ==
  /\ Alive
  /\ pc[o] \in {"download", "binary"}
  /\ terminated' = "exception"
  /\ errors' = errors \cup {o}
  /\ UNCHANGED <<objectVars, workerVars, callVars, opVars, answers, overtaken>>

\* Without a binary, or aborted, the thread ends and fires nothing.
FindBinary(o) ==
  /\ Alive
  /\ pc[o] = "binary"
  /\ IF binaries
     THEN /\ pc' = [pc EXCEPT ![o] = "flag"]
          /\ UNCHANGED errors
     ELSE /\ Ends(o)
          /\ errors' = errors \cup {o}
  /\ UNCHANGED <<objectVars, host, callVars, terminated, opVars, answers, overtaken>>

TestAbort(o) ==
  /\ Alive
  /\ pc[o] \in {"flag", "flagConnected"}
  /\ IF abortInstallThread
     THEN Ends(o)
     ELSE pc' = [pc EXCEPT ![o] = IF @ = "flag" THEN "connect" ELSE "install"]
  /\ UNCHANGED <<objectVars, host, callVars, terminated, opVars, resultVars, overtaken>>

\* connectSSH and connectSCP, to the ip the object has now.
Connect(o) ==
  /\ Alive
  /\ pc[o] = "connect"
  /\ host' = [host EXCEPT ![o] = deviceInformation]
  /\ \/ /\ pc' = [pc EXCEPT ![o] = IF Installs(o) THEN "flagConnected" ELSE "remove"]
        /\ UNCHANGED errors
     \/ Fails(o)
  /\ UNCHANGED <<objectVars, callVars, terminated, opVars, answers, overtaken>>

\* Stop the daemon, copy the files and the start script, reboot: the results are not
\* looked at.
Install(o) ==
  /\ Alive
  /\ pc[o] = "install"
  /\ \/ /\ pc' = [pc EXCEPT ![o] = "report"]
        /\ UNCHANGED errors
     \/ Fails(o)   \* no file in the binary's directory
  /\ UNCHANGED <<objectVars, host, callVars, terminated, opVars, answers, overtaken>>

\* removeDir and removeFile fail when the remote command writes to stdout, whether or
\* not it removed something.
Remove(o) ==
  /\ Alive
  /\ pc[o] = "remove"
  /\ \/ pc' = [pc EXCEPT ![o] = "report"] /\ UNCHANGED errors
     \/ Fails(o)
  /\ UNCHANGED <<objectVars, host, callVars, terminated, opVars, answers, overtaken>>

\* sigInstallDone: the callback of the application is entered ...
Report(o) ==
  /\ Alive
  /\ pc[o] = "report"
  /\ pc' = [pc EXCEPT ![o] = "callback"]
  /\ answers' = [answers EXCEPT ![o] = @ + 1]
  /\ UNCHANGED <<objectVars, host, callVars, terminated, opVars, errors, overtaken>>

\* ... and returns, and the thread with it.
GoesOn(o) == IF Installs(o) /\ o \in errors THEN "install" ELSE "ended"
AfterCallback(o) == "ended"
CallbackReturns(o) ==
  /\ Alive
  /\ pc[o] = "callback"
  /\ phase[o] = "idle"
  /\ pc' = [pc EXCEPT ![o] = AfterCallback(o)]
  /\ UNCHANGED <<objectVars, host, callVars, terminated, opVars, resultVars, overtaken>>

-----------------------------------------------------------------------------
Init ==
  /\ deviceInformation = NoDevice /\ binaries = FALSE /\ abortInstallThread = FALSE
  /\ object = [w \in ThreadObjects |-> 0]
  /\ pc = [o \in Operations |-> "off"]
  /\ host = [o \in Operations |-> NoDevice]
  /\ phase = [t \in Threads |-> "idle"]
  /\ op = [t \in Threads |-> 0]
  /\ terminated = "no"
  /\ ops = 0
  /\ what = [o \in Operations |-> "none"]
  /\ given = [o \in Operations |-> NoDevice]
  /\ badFile = {} /\ errors = {} /\ overtaken = {}
  /\ answers = [o \in Operations |-> 0]

\* The steps inside a call.
Continue(t) == \/ LoadFile(t) \/ JoinRemover(t) \/ JoinInstaller(t) \/ JoinThrows(t)
               \/ CreateThread(t) \/ AssignThread(t)

Caller(t) == StartInstallToDevice(t) \/ StartRemoveFromDevice(t) \/ Continue(t)

\* The steps of a thread in both kinds of operations, except the exception.
Work(o) == \/ CheckType(o) \/ CheckIp(o) \/ Download(o) \/ FindBinary(o) \/ TestAbort(o)
           \/ Connect(o) \/ Install(o) \/ Remove(o) \/ Report(o) \/ CallbackReturns(o)

Next ==
  \/ \E t \in Threads : Caller(t)
  \/ \E o \in Operations : Work(o) \/ InstallThrows(o)
  \/ Destroy \/ DestroyThreads

Spec == Init /\ [][Next]_vars

\* Threads are scheduled, ssh calls time out, callbacks return, and downloads end (the
\* code gives them no timeout: where one does not end, a start may wait for ever).
Fairness ==
  /\ \A t \in Threads : WF_vars(Continue(t))
  /\ \A o \in Operations : WF_vars(Work(o))
  /\ WF_vars(DestroyThreads)

FairSpec == Spec /\ Fairness

-----------------------------------------------------------------------------
Runs(o) == pc[o] \notin {"off", "ended"}

FlagsOK == binaries \in BOOLEAN /\ abortInstallThread \in BOOLEAN

Places == {"off", "type", "ip", "download", "binary", "flag", "connect", "flagConnected",
           "install", "remove", "report", "callback", "ended"}
Phases == {"idle", "load", "joinFirst", "joinRemover", "joinInstaller", "joined", "assign", "gone"}

DataOK ==
  /\ deviceInformation \in Devices \cup {NoDevice}
  /\ object \in [ThreadObjects -> 0..MaxOps]
  /\ pc \in [Operations -> Places]
  /\ host \in [Operations -> Devices \cup {NoDevice}]
  /\ phase \in [Threads -> Phases]
  /\ op \in [Threads -> 0..MaxOps]
  /\ terminated \in {"no", "exception", "joinable"}
  /\ ops \in 0..MaxOps
  /\ what \in [Operations -> {"none", "install", "remove"}]
  /\ given \in [Operations -> Devices \cup {NoDevice}]
  /\ answers \in [Operations -> Nat]
  /\ badFile \subseteq 1..ops /\ errors \subseteq 1..ops /\ overtaken \subseteq 1..ops

TypeOK == DataOK /\ FlagsOK

\* std::thread is created before its object is assigned.  A callback that starts again
\* may get past the join of its own thread in between; what the joins are for holds
\* as long as none did.
Orderly == overtaken = {}

\* Installing and removing share one ssh client and one device information without a
\* lock; at no time do two threads run.
OneWorker == Orderly => \A o, q \in Operations : Runs(o) /\ Runs(q) => o = q

\* No std::thread is assigned or destroyed while it is joinable, although starts come
\* from the application and from the callbacks of the threads themselves.
NoJoinableLost == Orderly => terminated # "joinable"

\* A raised abort flag meets an installation that runs only while somebody waits for
\* it to end, or inside its own callback: it never cancels a later installation.
FlagIsForThisRun ==
  Orderly /\ abortInstallThread =>
    \A o \in Operations : Runs(o) /\ Installs(o) =>
      \/ pc[o] = "callback"
      \/ \E t \in Threads : phase[t] \in {"joinFirst", "joinInstaller"}

\* When the object is gone its threads are gone, whatever their callbacks called.
DestroyedIsQuiet == Orderly /\ phase[App] = "gone" => \A o \in Operations : ~Runs(o)

\* An operation is answered at most once, except when the info file was bad.
AnsweredAtMostOnce == \A o \in Operations \ badFile : answers[o] <= 1

\* A start changes the device under the operation that still runs, so a thread may work on
\* the device of a later call; but never on that of an earlier one.
HostIsOwnOrLater ==
  \A o \in Operations :
    host[o] # NoDevice => \E later \in o..ops : host[o] = given[later]

Destroying == phase[App] # "idle" /\ op[App] = 0

\* Only an installation ends without an answer: one that found no binary, or one that a later
\* call aborted; the others reach sigInstallDone, which is all the application hears of them.
SilentIsAborted ==
  Orderly => \A o \in Operations : pc[o] = "ended" /\ answers[o] = 0 =>
    /\ Installs(o)
    /\ o \in errors \/ ops > o \/ Destroying

\* Every call into the object returns (or the program terminates), also the ones that
\* worker callbacks make, when downloads end.
CallsReturn ==
  \A t \in Threads :
    phase[t] # "idle" ~> phase[t] \in {"idle", "gone"} \/ terminated # "no" \/ ~Orderly

\* An operation whose thread ended for an error has been answered.
ErrorsAreAnswered ==
  \A o \in Operations : pc[o] = "ended" /\ o \in errors => answers[o] > 0
=============================================================================
