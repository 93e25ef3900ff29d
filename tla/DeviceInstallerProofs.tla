----------------------- MODULE DeviceInstallerProofs -----------------------
(***************************************************************************)
(* Theorems about DeviceInstaller, for every set of devices and every      *)
(* number of operations.  The invariants of the first group hold whatever  *)
(* the callbacks do, those of the second as long as no start overtook the  *)
(* assignment of its own thread (Orderly).                                 *)
(***************************************************************************)
EXTENDS DeviceInstaller, TLAPS

\* A call that starts an operation and has not created its thread yet.
Starting(t) == op[t] # 0 /\ phase[t] \in {"load", "joinRemover", "joinInstaller", "joined"}

\* What has begun has a number that was given, only the application destroys, and a thread
\* calls only from its callback.
CallInv ==
  /\ \A t \in Threads : op[t] \in 0..ops
  /\ \A t \in Threads : phase[t] \in {"load", "assign"} => op[t] # 0
  /\ \A t \in Threads : phase[t] \in {"joinFirst", "gone"} => t = App /\ op[t] = 0
  /\ \A o \in Operations : phase[o] # "idle" => pc[o] = "callback" /\ op[o] # 0
  /\ \A o \in Operations : pc[o] # "off" => o <= ops
  /\ \A w \in ThreadObjects : object[w] \in 0..ops

Inv1 == TypeOK /\ CallInv

\* An operation that has not reached its report is not answered, unless its info file
\* was bad; an operation that starts has no thread and belongs to one call only.
AnswerInv ==
  /\ \A o \in Operations : pc[o] \notin {"callback", "ended"} /\ o \notin badFile => answers[o] = 0
  /\ \A t \in Threads : Starting(t) =>
       /\ pc[op[t]] = "off"
       /\ phase[t] = "load" => op[t] \notin badFile
       /\ \A u \in Threads : Starting(u) /\ op[u] = op[t] => u = t
  /\ AnsweredAtMostOnce

\* The device of the object is that of the last call.
HostInv ==
  /\ ops > 0 => deviceInformation = given[ops]
  /\ HostIsOwnOrLater

\* Every thread that runs is held by its object, or the application is about to assign it;
\* so a start of a worker does not get past its own join, only the application creates
\* threads, and it has then joined both objects.
Control ==
  /\ \A o \in Operations :
       /\ phase[o] \in {"idle", "load", "joinRemover", "joinInstaller"}
       /\ phase[o] = "joinInstaller" => Installs(o)
       /\ Runs(o) => object[ObjectOf(o)] = o \/ (phase[App] = "assign" /\ op[App] = o)
  /\ object[Installer] = 0 \/ object[Remover] = 0
  /\ phase[App] = "joinInstaller" => object[Remover] = 0
  /\ phase[App] \in {"joined", "assign", "gone"} => object[Installer] = 0 /\ object[Remover] = 0
  /\ terminated # "joinable"

ControlInv == Orderly => Control

\* The flag is down when a thread is about to be created.
FlagInv ==
  /\ Orderly /\ phase[App] = "joined" => ~abortInstallThread
  /\ FlagIsForThisRun

\* Who waits for the installing thread is the destructor or a later call; a thread in its
\* callback has been answered.
SilentInv ==
  /\ \A o \in Operations : pc[o] \in {"download", "binary", "flag", "flagConnected"} => Installs(o)
  /\ \A o \in Operations : pc[o] = "callback" => answers[o] > 0
  /\ Orderly => \A t \in Threads : Starting(t) =>
                  \A o \in Operations : pc[o] # "off" => o < op[t]
  /\ SilentIsAborted

-----------------------------------------------------------------------------
LEMMA InitInv == Init => Inv1 /\ AnswerInv /\ HostInv /\ ControlInv /\ FlagInv /\ SilentInv
<1> SUFFICES ASSUME Init PROVE Inv1 /\ AnswerInv /\ HostInv /\ ControlInv /\ FlagInv /\ SilentInv
  OBVIOUS
<1> USE DeviceInstallerAssumption DEF Threads, Operations, ThreadObjects
<1>1. DataOK /\ FlagsOK
  <2>1. /\ deviceInformation \in Devices \cup {NoDevice}
        /\ terminated \in {"no", "exception", "joinable"} /\ ops \in 0..MaxOps
    BY DEF Init
  <2>2. badFile \subseteq 1..ops /\ errors \subseteq 1..ops /\ overtaken \subseteq 1..ops
    BY DEF Init
  <2>3. /\ pc \in [Operations -> Places] /\ phase \in [Threads -> Phases]
        /\ what \in [Operations -> {"none", "install", "remove"}]
    BY DEF Init, Places, Phases
  <2>4. /\ object \in [ThreadObjects -> 0..MaxOps] /\ op \in [Threads -> 0..MaxOps]
        /\ host \in [Operations -> Devices \cup {NoDevice}]
        /\ given \in [Operations -> Devices \cup {NoDevice}]
        /\ answers \in [Operations -> Nat]
    BY DEF Init
  <2>5. FlagsOK
    BY DEF Init, FlagsOK
  <2>6. QED
    BY <2>1, <2>2, <2>3, <2>4, <2>5 DEF DataOK
<1>2. CallInv
  BY DEF Init, CallInv
<1>3. AnswerInv
  BY DEF Init, AnswerInv, Starting, AnsweredAtMostOnce
<1>4. HostInv
  BY DEF Init, HostInv, HostIsOwnOrLater
<1>5. ControlInv
  BY DEF Init, ControlInv, Control, Runs
<1>6. FlagInv
  BY DEF Init, FlagInv, FlagIsForThisRun
<1>7. SilentInv
  BY DEF Init, SilentInv, Starting, SilentIsAborted
<1>8. QED
  BY <1>1, <1>2, <1>3, <1>4, <1>5, <1>6, <1>7 DEF Inv1, TypeOK

\* What a start begins with.
BeginStep(t) ==
  /\ ops + 1 \in Operations /\ ops' = ops + 1 /\ pc[ops + 1] = "off"
  /\ phase[t] = "idle" /\ (t # App => pc[t] = "callback")
  /\ op' = [op EXCEPT ![t] = ops + 1]
  /\ \E p \in {"load", "joinRemover"} : phase' = [phase EXCEPT ![t] = p]
  /\ \E k \in {"install", "remove"} : what' = [what EXCEPT ![ops + 1] = k]
  /\ given' = [given EXCEPT ![ops + 1] = deviceInformation'] /\ deviceInformation' \in Devices
  /\ terminated = "no"
  /\ UNCHANGED <<binaries, abortInstallThread, object, pc, host, terminated, badFile, errors,
                 answers, overtaken>>

LEMMA Begun ==
  Inv1 => \A t \in Threads : StartInstallToDevice(t) \/ StartRemoveFromDevice(t) => BeginStep(t)
<1> SUFFICES ASSUME Inv1, NEW t \in Threads, StartInstallToDevice(t) \/ StartRemoveFromDevice(t)
             PROVE  BeginStep(t)
  OBVIOUS
<1> USE DeviceInstallerAssumption DEF Threads, Operations, Inv1, TypeOK, DataOK, CallInv
<1> USE DEF workerVars, resultVars
<1>1. ops + 1 \in Operations
  BY DEF StartInstallToDevice, StartRemoveFromDevice, Begin
<1>2. pc[ops + 1] = "off"
  BY <1>1
<1>3. CASE StartInstallToDevice(t)
  BY <1>1, <1>2, <1>3 DEF StartInstallToDevice, Begin, MayCall, SetDevice, BeginStep, Alive
<1>4. CASE StartRemoveFromDevice(t)
  BY <1>1, <1>2, <1>4 DEF StartRemoveFromDevice, Begin, MayCall, SetDevice, BeginStep, Alive
<1>5. QED
  BY <1>3, <1>4

\* A step of a thread touches nothing of any other, and answers where it enters its callback.
WorkStep(o) ==
  /\ UNCHANGED <<deviceInformation, binaries, abortInstallThread, object, phase, op, terminated,
                 ops, what, given, badFile, overtaken>>
  /\ pc' = [pc EXCEPT ![o] = pc'[o]] /\ pc'[o] \in Places \ {"off"} /\ Runs(o)
  /\ host' = host \/ host' = [host EXCEPT ![o] = deviceInformation]
  /\ errors' = errors \/ errors' = errors \cup {o}
  /\ pc[o] = "callback" => phase[o] = "idle" /\ pc'[o] = "ended"
  /\ \/ pc[o] = "report" /\ pc'[o] = "callback" /\ answers' = [answers EXCEPT ![o] = answers[o] + 1]
     \/ pc[o] # "report" /\ pc'[o] # "callback" /\ answers' = answers

LEMMA Worked == Inv1 => \A o \in Operations : Work(o) => WorkStep(o)
<1> SUFFICES ASSUME Inv1, NEW o \in Operations, Work(o) PROVE WorkStep(o)
  OBVIOUS
<1>1. \A v \in Places : [pc EXCEPT ![o] = v][o] = v
  BY DEF Inv1, TypeOK, DataOK
<1> USE <1>1 DEF WorkStep, Runs, Places, objectVars, callVars, opVars, resultVars
<1>2. CASE CheckType(o)
  BY <1>2 DEF CheckType, Fails
<1>3. CASE CheckIp(o)
  BY <1>3 DEF CheckIp, Fails
<1>4. CASE Download(o)
  BY <1>4 DEF Download
<1>5. CASE FindBinary(o)
  BY <1>5 DEF FindBinary, Ends
<1>6. CASE TestAbort(o)
  BY <1>6 DEF TestAbort, Ends
<1>7. CASE Connect(o)
  BY <1>7 DEF Connect, Fails
<1>8. CASE Install(o)
  BY <1>8 DEF Install, Fails
<1>9. CASE Remove(o)
  BY <1>9 DEF Remove, Fails
<1>10. CASE Report(o)
  BY <1>10 DEF Report
<1>11. CASE CallbackReturns(o)
  BY <1>11 DEF CallbackReturns, AfterCallback
<1>12. QED
  BY <1>2, <1>3, <1>4, <1>5, <1>6, <1>7, <1>8, <1>9, <1>10, <1>11 DEF Work

\* What was in order after a step was so before it.
LEMMA NextOrderly == Orderly' /\ [Next]_vars => Orderly
<1> SUFFICES ASSUME Orderly', [Next]_vars PROVE Orderly
  OBVIOUS
<1> USE DeviceInstallerAssumption DEF Threads, Operations, ThreadObjects
<1> USE DEF objectVars, workerVars, callVars, opVars, resultVars
<1> USE DEF Orderly
<1>1. ASSUME NEW t \in Threads, Caller(t) PROVE Orderly
  <2>1. CASE StartInstallToDevice(t)
    BY <2>1 DEF StartInstallToDevice, Begin, MayCall
  <2>2. CASE StartRemoveFromDevice(t)
    BY <2>2 DEF StartRemoveFromDevice, Begin, MayCall
  <2>3. CASE LoadFile(t)
    BY <2>3 DEF LoadFile
  <2>4. CASE JoinRemover(t)
    BY <2>4 DEF JoinRemover, Joined, AfterRemover, Passed
  <2>5. CASE JoinInstaller(t)
    BY <2>5 DEF JoinInstaller, Joined, AfterInstaller, FlagReset, Passed
  <2>6. CASE JoinThrows(t)
    BY <2>6 DEF JoinThrows
  <2>7. CASE CreateThread(t)
    BY <2>7 DEF CreateThread
  <2>8. CASE AssignThread(t)
    BY <2>8 DEF AssignThread
  <2>9. QED
    BY <1>1, <2>1, <2>2, <2>3, <2>4, <2>5, <2>6, <2>7, <2>8 DEF Caller, Continue
<1>2. ASSUME NEW o \in Operations, Work(o) PROVE Orderly
  <2>1. CASE CheckType(o)
    BY <2>1 DEF CheckType, Fails
  <2>2. CASE CheckIp(o)
    BY <2>2 DEF CheckIp, Fails
  <2>3. CASE Download(o)
    BY <2>3 DEF Download
  <2>4. CASE FindBinary(o)
    BY <2>4 DEF FindBinary, Ends
  <2>5. CASE TestAbort(o)
    BY <2>5 DEF TestAbort, Ends
  <2>6. CASE Connect(o)
    BY <2>6 DEF Connect, Fails
  <2>7. CASE Install(o)
    BY <2>7 DEF Install, Fails
  <2>8. CASE Remove(o)
    BY <2>8 DEF Remove, Fails
  <2>9. CASE Report(o)
    BY <2>9 DEF Report
  <2>10. CASE CallbackReturns(o)
    BY <2>10 DEF CallbackReturns, AfterCallback
  <2>11. QED
    BY <1>2, <2>1, <2>2, <2>3, <2>4, <2>5, <2>6, <2>7, <2>8, <2>9, <2>10 DEF Work
<1>3. ASSUME NEW o \in Operations, InstallThrows(o) PROVE Orderly
  BY <1>3 DEF InstallThrows
<1>4. CASE Destroy
  BY <1>4 DEF Destroy
<1>5. CASE DestroyThreads
  BY <1>5 DEF DestroyThreads
<1>6. CASE UNCHANGED vars
  BY <1>6 DEF vars
<1>7. QED
  BY <1>1, <1>2, <1>3, <1>4, <1>5, <1>6 DEF Next

LEMMA NextFlagsOK == FlagsOK /\ [Next]_vars => FlagsOK'
<1> SUFFICES ASSUME FlagsOK, [Next]_vars PROVE FlagsOK'
  OBVIOUS
<1> USE DeviceInstallerAssumption DEF Threads, Operations, ThreadObjects
<1> USE DEF objectVars, workerVars, callVars, opVars, resultVars
<1> USE DEF FlagsOK
<1>1. ASSUME NEW t \in Threads, Caller(t) PROVE FlagsOK'
  <2>1. CASE StartInstallToDevice(t)
    BY <2>1 DEF StartInstallToDevice, Begin, MayCall
  <2>2. CASE StartRemoveFromDevice(t)
    BY <2>2 DEF StartRemoveFromDevice, Begin, MayCall
  <2>3. CASE LoadFile(t)
    BY <2>3 DEF LoadFile
  <2>4. CASE JoinRemover(t)
    BY <2>4 DEF JoinRemover, Joined, AfterRemover, Passed
  <2>5. CASE JoinInstaller(t)
    BY <2>5 DEF JoinInstaller, Joined, AfterInstaller, FlagReset, Passed
  <2>6. CASE JoinThrows(t)
    BY <2>6 DEF JoinThrows
  <2>7. CASE CreateThread(t)
    BY <2>7 DEF CreateThread
  <2>8. CASE AssignThread(t)
    BY <2>8 DEF AssignThread
  <2>9. QED
    BY <1>1, <2>1, <2>2, <2>3, <2>4, <2>5, <2>6, <2>7, <2>8 DEF Caller, Continue
<1>2. ASSUME NEW o \in Operations, Work(o) PROVE FlagsOK'
  <2>1. CASE CheckType(o)
    BY <2>1 DEF CheckType, Fails
  <2>2. CASE CheckIp(o)
    BY <2>2 DEF CheckIp, Fails
  <2>3. CASE Download(o)
    BY <2>3 DEF Download
  <2>4. CASE FindBinary(o)
    BY <2>4 DEF FindBinary, Ends
  <2>5. CASE TestAbort(o)
    BY <2>5 DEF TestAbort, Ends
  <2>6. CASE Connect(o)
    BY <2>6 DEF Connect, Fails
  <2>7. CASE Install(o)
    BY <2>7 DEF Install, Fails
  <2>8. CASE Remove(o)
    BY <2>8 DEF Remove, Fails
  <2>9. CASE Report(o)
    BY <2>9 DEF Report
  <2>10. CASE CallbackReturns(o)
    BY <2>10 DEF CallbackReturns, AfterCallback
  <2>11. QED
    BY <1>2, <2>1, <2>2, <2>3, <2>4, <2>5, <2>6, <2>7, <2>8, <2>9, <2>10 DEF Work
<1>3. ASSUME NEW o \in Operations, InstallThrows(o) PROVE FlagsOK'
  BY <1>3 DEF InstallThrows
<1>4. CASE Destroy
  BY <1>4 DEF Destroy
<1>5. CASE DestroyThreads
  BY <1>5 DEF DestroyThreads
<1>6. CASE UNCHANGED vars
  BY <1>6 DEF vars
<1>7. QED
  BY <1>1, <1>2, <1>3, <1>4, <1>5, <1>6 DEF Next

LEMMA NextDataOK == Inv1 /\ [Next]_vars => DataOK'
<1> SUFFICES ASSUME Inv1, [Next]_vars PROVE DataOK'
  OBVIOUS
<1>b. \A t \in Threads : StartInstallToDevice(t) \/ StartRemoveFromDevice(t) => BeginStep(t)
  BY Begun
<1>w. \A o \in Operations : Work(o) => WorkStep(o)
  BY Worked
<1> USE DeviceInstallerAssumption DEF Threads, Operations, ThreadObjects
<1> USE DEF objectVars, workerVars, callVars, opVars, resultVars
<1> USE DEF Inv1, TypeOK, DataOK, FlagsOK, CallInv, Places, Phases
<1>1. ASSUME NEW t \in Threads, Caller(t) PROVE DataOK'
  <2>1. CASE StartInstallToDevice(t) \/ StartRemoveFromDevice(t)
    <3>0. BeginStep(t)
      BY <2>1, <1>b
    <3>1. phase' \in [Threads -> Phases] /\ op' \in [Threads -> 0..MaxOps]
      BY <3>0 DEF BeginStep
    <3>2. what' \in [Operations -> {"none", "install", "remove"}]
      BY <3>0 DEF BeginStep
    <3>3. given' \in [Operations -> Devices \cup {NoDevice}]
      BY <3>0 DEF BeginStep
    <3>4. badFile' \subseteq 1..ops' /\ errors' \subseteq 1..ops' /\ overtaken' \subseteq 1..ops'
      BY <3>0 DEF BeginStep
    <3>5. QED
      BY <3>0, <3>1, <3>2, <3>3, <3>4 DEF BeginStep
  <2>2. CASE LoadFile(t)
    <3>0. op[t] \in 1..ops /\ op[t] \in Operations
      BY <2>2 DEF LoadFile
    <3>1. pc' \in [Operations -> Places]
      BY <2>2, <3>0 DEF LoadFile
    <3>2. answers' \in [Operations -> Nat]
      <4>1. answers' = answers \/ answers' = [answers EXCEPT ![op[t]] = @ + 1]
        BY <2>2 DEF LoadFile
      <4>2. answers \in [Operations -> Nat] /\ answers[op[t]] + 1 \in Nat
        BY <3>0
      <4> HIDE DEF Inv1, TypeOK, DataOK, CallInv
      <4>3. QED
        BY <3>0, <4>1, <4>2
    <3>3. badFile' \subseteq 1..ops' /\ errors' \subseteq 1..ops' /\ overtaken' \subseteq 1..ops'
      BY <2>2, <3>0 DEF LoadFile
    <3>4. /\ deviceInformation' \in Devices \cup {NoDevice}
          /\ object' \in [ThreadObjects -> 0..MaxOps]
          /\ host' \in [Operations -> Devices \cup {NoDevice}]
          /\ op' \in [Threads -> 0..MaxOps]
          /\ terminated' \in {"no", "exception", "joinable"} /\ ops' \in 0..MaxOps
      BY <2>2, <3>0 DEF LoadFile
    <3>5. /\ phase' \in [Threads -> Phases]
          /\ what' \in [Operations -> {"none", "install", "remove"}]
          /\ given' \in [Operations -> Devices \cup {NoDevice}]
      BY <2>2, <3>0 DEF LoadFile
    <3>6. QED
      BY <3>1, <3>2, <3>3, <3>4, <3>5
  <2>3. CASE JoinRemover(t)
    BY <2>3, SMTT(20) DEF JoinRemover, Joined, AfterRemover, Passed
  <2>4. CASE JoinInstaller(t)
    <3>1. pc' \in [Operations -> Places]
      BY <2>4 DEF JoinInstaller, Joined, AfterInstaller, FlagReset, Passed
    <3>2. answers' \in [Operations -> Nat]
      BY <2>4 DEF JoinInstaller, Joined, AfterInstaller, FlagReset, Passed
    <3>3. badFile' \subseteq 1..ops' /\ errors' \subseteq 1..ops' /\ overtaken' \subseteq 1..ops'
      <4>1. t # App => t \in 1..ops
        BY <2>4 DEF JoinInstaller
      <4>2. overtaken' = overtaken \/ (t # App /\ overtaken' = overtaken \cup {t})
        BY <2>4 DEF JoinInstaller, Passed
      <4>3. UNCHANGED <<badFile, errors, ops>>
        BY <2>4 DEF JoinInstaller
      <4>4. QED
        BY <4>1, <4>2, <4>3
    <3>4. /\ deviceInformation' \in Devices \cup {NoDevice}
          /\ object' \in [ThreadObjects -> 0..MaxOps]
          /\ host' \in [Operations -> Devices \cup {NoDevice}]
          /\ op' \in [Threads -> 0..MaxOps]
          /\ terminated' \in {"no", "exception", "joinable"} /\ ops' \in 0..MaxOps
      BY <2>4 DEF JoinInstaller, Joined, AfterInstaller, FlagReset, Passed
    <3>5. phase' \in [Threads -> Phases]
      <4>1. phase' = [phase EXCEPT ![t] = "joinRemover"] \/ phase' = [phase EXCEPT ![t] = "joined"]
        BY <2>4 DEF JoinInstaller, AfterInstaller
      <4>2. QED
        BY <4>1
    <3>6. /\ what' \in [Operations -> {"none", "install", "remove"}]
          /\ given' \in [Operations -> Devices \cup {NoDevice}]
      BY <2>4 DEF JoinInstaller, Joined, AfterInstaller, FlagReset, Passed
    <3>7. QED
      BY <3>6, <3>1, <3>2, <3>3, <3>4, <3>5
  <2>5. CASE JoinThrows(t)
    BY <2>5 DEF JoinThrows
  <2>6. CASE CreateThread(t)
    BY <2>6 DEF CreateThread
  <2>7. CASE AssignThread(t)
    BY <2>7, SMTT(20) DEF AssignThread
  <2>8. QED
    BY <1>1, <2>1, <2>2, <2>3, <2>4, <2>5, <2>6, <2>7 DEF Caller, Continue
<1>2. ASSUME NEW o \in Operations, Work(o) PROVE DataOK'
  <2>0. WorkStep(o)
    BY <1>2, <1>w
  <2>2. o \in 1..ops /\ answers[o] + 1 \in Nat
    BY <2>0 DEF WorkStep, Runs
  <2>3. answers' \in [Operations -> Nat]
    BY <2>0, <2>2, SMTT(20) DEF WorkStep
  <2>4. pc' = [pc EXCEPT ![o] = pc'[o]] /\ pc'[o] \in Places
    BY <2>0 DEF WorkStep
  <2>5. pc' \in [Operations -> Places]
    BY <2>4
  <2>6. UNCHANGED <<deviceInformation, object, phase, op, terminated, ops, what, given, badFile, overtaken>>
    BY <2>0 DEF WorkStep
  <2>7. host' \in [Operations -> Devices \cup {NoDevice}] /\ errors' \subseteq 1..ops
    <3>1. host' = host \/ host' = [host EXCEPT ![o] = deviceInformation]
      BY <2>0 DEF WorkStep
    <3>2. errors' = errors \/ errors' = errors \cup {o}
      BY <2>0 DEF WorkStep
    <3>3. host' \in [Operations -> Devices \cup {NoDevice}]
      BY <3>1
    <3>4. QED
      BY <2>2, <3>2, <3>3
  <2>8. QED
    BY <2>3, <2>5, <2>6, <2>7
<1>3. ASSUME NEW o \in Operations, InstallThrows(o) PROVE DataOK'
  BY <1>3, SMTT(20) DEF InstallThrows
<1>4. CASE Destroy
  BY <1>4 DEF Destroy
<1>5. CASE DestroyThreads
  BY <1>5 DEF DestroyThreads
<1>6. CASE UNCHANGED vars
  BY <1>6 DEF vars
<1>7. QED
  BY <1>1, <1>2, <1>3, <1>4, <1>5, <1>6 DEF Next

LEMMA NextCall == Inv1 /\ AnswerInv /\ [Next]_vars => CallInv'
<1> SUFFICES ASSUME Inv1, AnswerInv, [Next]_vars PROVE CallInv'
  OBVIOUS
<1>b. \A t \in Threads : StartInstallToDevice(t) \/ StartRemoveFromDevice(t) => BeginStep(t)
  BY Begun
<1>w. \A o \in Operations : Work(o) => WorkStep(o)
  BY Worked
<1> USE DeviceInstallerAssumption DEF Threads, Operations, ThreadObjects
<1> USE DEF objectVars, workerVars, callVars, opVars, resultVars
<1> USE DEF Inv1, TypeOK, DataOK, FlagsOK, CallInv
<1>1. ASSUME NEW t \in Threads, Caller(t) PROVE CallInv'
  <2>1. CASE StartInstallToDevice(t) \/ StartRemoveFromDevice(t)
    <3>0. BeginStep(t)
      BY <2>1, <1>b
    <3>1. /\ ops + 1 \in Operations /\ ops' = ops + 1
          /\ op' = [op EXCEPT ![t] = ops + 1]
          /\ UNCHANGED <<object, pc>>
      BY <3>0 DEF BeginStep
    <3>2. PICK p \in {"load", "joinRemover"} : phase' = [phase EXCEPT ![t] = p]
      BY <3>0 DEF BeginStep
    <3>3. t # App => pc[t] = "callback"
      BY <3>0 DEF BeginStep
    <3>4. \A u \in Threads : u # t => op'[u] = op[u] /\ phase'[u] = phase[u]
      BY <3>1, <3>2
    <3>5. op'[t] = ops + 1 /\ phase'[t] \in {"load", "joinRemover"}
      BY <3>1, <3>2
    <3>6. ops \in Nat
      OBVIOUS
    <3>7. CallInv
      OBVIOUS
    <3> HIDE DEF Inv1, TypeOK, DataOK, FlagsOK
    <3>8. /\ \A u \in Threads : op'[u] \in 0..ops'
          /\ \A u \in Threads : phase'[u] \in {"load", "assign"} => op'[u] # 0
          /\ \A u \in Threads : phase'[u] \in {"joinFirst", "gone"} => u = App /\ op'[u] = 0
      BY <3>1, <3>4, <3>5, <3>6, <3>7
    <3>9. \A o \in Operations : phase'[o] # "idle" => pc'[o] = "callback" /\ op'[o] # 0
      BY <3>1, <3>3, <3>4, <3>5, <3>6, <3>7
    <3>10. /\ \A o \in Operations : pc'[o] # "off" => o <= ops'
           /\ \A w \in ThreadObjects : object'[w] \in 0..ops'
      BY <3>1, <3>6, <3>7
    <3>11. QED
      BY <3>8, <3>9, <3>10
  <2>2. CASE LoadFile(t)
    BY <2>2 DEF LoadFile
  <2>3. CASE JoinRemover(t)
    BY <2>3 DEF JoinRemover, Joined, AfterRemover, Passed
  <2>4. CASE JoinInstaller(t)
    BY <2>4 DEF JoinInstaller, Joined, AfterInstaller, FlagReset, Passed
  <2>5. CASE JoinThrows(t)
    BY <2>5 DEF JoinThrows
  <2>6. CASE CreateThread(t)
    <3>1. op[t] \in Operations /\ op[t] <= ops /\ phase[op[t]] = "idle"
      BY <2>6 DEF CreateThread, AnswerInv, Starting
    <3>2. pc' = [pc EXCEPT ![op[t]] = "type"] /\ phase' = [phase EXCEPT ![t] = "assign"] /\ op[t] # 0
      BY <2>6 DEF CreateThread
    <3>3. t # App => pc[t] = "callback" /\ op[t] # t
      BY <2>6, <3>1 DEF CreateThread
    <3>4. UNCHANGED <<op, ops, object>>
      BY <2>6 DEF CreateThread
    <3>5. QED
      BY <3>1, <3>2, <3>3, <3>4, SMTT(20)
  <2>7. CASE AssignThread(t)
    BY <2>7 DEF AssignThread
  <2>8. QED
    BY <1>1, <2>1, <2>2, <2>3, <2>4, <2>5, <2>6, <2>7 DEF Caller, Continue
<1>2. ASSUME NEW o \in Operations, Work(o) PROVE CallInv'
  <2>0. WorkStep(o)
    BY <1>2, <1>w
  <2>1. QED
    BY <2>0 DEF WorkStep, Runs
<1>3. ASSUME NEW o \in Operations, InstallThrows(o) PROVE CallInv'
  BY <1>3 DEF InstallThrows
<1>4. CASE Destroy
  BY <1>4 DEF Destroy
<1>5. CASE DestroyThreads
  BY <1>5 DEF DestroyThreads
<1>6. CASE UNCHANGED vars
  BY <1>6 DEF vars
<1>7. QED
  BY <1>1, <1>2, <1>3, <1>4, <1>5, <1>6 DEF Next

LEMMA NextAnswer == Inv1 /\ AnswerInv /\ [Next]_vars => AnswerInv'
<1> SUFFICES ASSUME Inv1, AnswerInv, [Next]_vars PROVE AnswerInv'
  OBVIOUS
<1>b. \A t \in Threads : StartInstallToDevice(t) \/ StartRemoveFromDevice(t) => BeginStep(t)
  BY Begun
<1>w. \A o \in Operations : Work(o) => WorkStep(o)
  BY Worked
<1> USE DeviceInstallerAssumption DEF Threads, Operations, ThreadObjects
<1> USE DEF objectVars, workerVars, callVars, opVars, resultVars
<1> USE DEF Inv1, TypeOK, DataOK, FlagsOK, CallInv, AnswerInv, Starting, AnsweredAtMostOnce
<1>1. ASSUME NEW t \in Threads, Caller(t) PROVE AnswerInv'
  <2>1. CASE StartInstallToDevice(t) \/ StartRemoveFromDevice(t)
    <3>0. BeginStep(t)
      BY <2>1, <1>b
    <3>1. QED
      BY <3>0, SMTT(30) DEF BeginStep
  <2>2. CASE LoadFile(t)
    <3>0. Starting(t) /\ op[t] \in Operations
      BY <2>2 DEF LoadFile
    <3>1. UNCHANGED <<pc, op, ops>> /\ phase[t] = "load" /\ phase' = [phase EXCEPT ![t] = "joinRemover"]
      BY <2>2 DEF LoadFile
    <3>2. CASE answers' = answers /\ badFile' = badFile
      BY <3>0, <3>1, <3>2, SMTT(20)
    <3>3. CASE /\ answers' = [answers EXCEPT ![op[t]] = @ + 1]
               /\ badFile' = badFile \cup {op[t]}
      <4>1. \A o \in Operations : o # op[t] => answers'[o] = answers[o]
        BY <3>0, <3>3
      <4>2. \A u \in Threads : Starting(u)' <=> Starting(u)
        BY <3>1
      <4>3. \A u \in Threads : phase'[u] = "load" => u # t /\ phase[u] = "load"
        BY <3>1
      <4>4. \A u \in Threads : Starting(u)' =>
              /\ pc'[op'[u]] = "off"
              /\ phase'[u] = "load" => op'[u] \notin badFile'
              /\ \A v \in Threads : Starting(v)' /\ op'[v] = op'[u] => v = u
        BY <3>0, <3>1, <3>3, <4>2, <4>3, SMTT(20)
      <4>5. QED
        BY <3>0, <3>1, <3>3, <4>1, <4>4
    <3>4. QED
      BY <2>2, <3>2, <3>3 DEF LoadFile
  <2>3. CASE JoinRemover(t)
    BY <2>3 DEF JoinRemover, Joined, AfterRemover, Passed
  <2>4. CASE JoinInstaller(t)
    BY <2>4 DEF JoinInstaller, Joined, AfterInstaller, FlagReset, Passed
  <2>5. CASE JoinThrows(t)
    <3>1. UNCHANGED <<pc, op, ops, answers, badFile>>
      BY <2>5 DEF JoinThrows
    <3>2. phase' = phase \/ phase' = [phase EXCEPT ![t] = "idle"]
      BY <2>5 DEF JoinThrows
    <3>3. \A u \in Threads : phase'[u] \in {phase[u], "idle"}
      <4>1. CASE phase' = phase
        BY <4>1
      <4>2. CASE phase' = [phase EXCEPT ![t] = "idle"]
        BY <4>2
      <4>3. QED
        BY <3>2, <4>1, <4>2
    <3>4. \A u \in Threads : Starting(u)' => Starting(u) /\ phase'[u] = phase[u]
      BY <3>1, <3>3
    <3>5. QED
      BY <3>1, <3>4
  <2>6. CASE CreateThread(t)
    <3>1. Starting(t) /\ op[t] \in Operations /\ pc[op[t]] = "off"
      BY <2>6 DEF CreateThread
    <3>2. pc' = [pc EXCEPT ![op[t]] = "type"] /\ phase' = [phase EXCEPT ![t] = "assign"]
      BY <2>6 DEF CreateThread
    <3>3. UNCHANGED <<op, ops, answers, badFile>>
      BY <2>6 DEF CreateThread
    <3>4. \A u \in Threads : Starting(u)' => u # t /\ Starting(u) /\ op[u] # op[t]
      BY <3>1, <3>2, <3>3
    <3>5. \A o \in Operations : pc'[o] = pc[o] \/ (o = op[t] /\ pc'[o] = "type")
      BY <3>1, <3>2
    <3>6. \A o \in Operations : pc'[o] \notin {"callback", "ended"} /\ o \notin badFile' => answers'[o] = 0
      BY <3>1, <3>3, <3>5
    <3>7. \A u \in Threads : Starting(u)' =>
            /\ pc'[op'[u]] = "off"
            /\ phase'[u] = "load" => op'[u] \notin badFile'
            /\ \A v \in Threads : Starting(v)' /\ op'[v] = op'[u] => v = u
      <4>1. \A u \in Threads : Starting(u)' => pc'[op[u]] = "off" /\ phase'[u] = phase[u]
        BY <3>2, <3>4, <3>1, SMTT(20)
      <4>2. QED
        BY <3>3, <3>4, <4>1
    <3>8. QED
      BY <3>3, <3>6, <3>7
  <2>7. CASE AssignThread(t)
    BY <2>7 DEF AssignThread
  <2>8. QED
    BY <1>1, <2>1, <2>2, <2>3, <2>4, <2>5, <2>6, <2>7 DEF Caller, Continue
<1>2. ASSUME NEW o \in Operations, Work(o) PROVE AnswerInv'
  <2>0. WorkStep(o)
    BY <1>2, <1>w
  <2>1. UNCHANGED <<op, phase, ops, badFile>>
    BY <2>0 DEF WorkStep
  <2>2. \A q \in Operations : q # o => pc'[q] = pc[q] /\ answers'[q] = answers[q]
    BY <2>0 DEF WorkStep
  <2>3. pc[o] # "off" /\ pc[o] # "ended" /\ pc'[o] # "off"
    BY <2>0 DEF WorkStep, Runs
  <2>4. pc'[o] \notin {"callback", "ended"} \/ pc[o] = "callback" => answers'[o] = answers[o]
    BY <2>0 DEF WorkStep
  <2>5. pc[o] = "callback" => pc'[o] = "ended"
    BY <2>0 DEF WorkStep
  <2>6. o \notin badFile => answers'[o] <= 1 /\ (pc'[o] \notin {"callback", "ended"} => answers'[o] = 0)
    <3>1. CASE pc[o] = "report"
      <4>1. pc'[o] = "callback" /\ answers'[o] = answers[o] + 1
        BY <2>0, <3>1 DEF WorkStep
      <4>2. o \notin badFile => answers[o] = 0
        BY <3>1
      <4>3. QED
        BY <4>1, <4>2
    <3>2. CASE pc[o] # "report"
      <4>1. answers'[o] = answers[o]
        BY <2>0, <3>2 DEF WorkStep
      <4>2. pc'[o] \notin {"callback", "ended"} => pc[o] \notin {"callback", "ended"}
        BY <2>3, <2>5
      <4>3. QED
        BY <4>1, <4>2
    <3>3. QED
      BY <3>1, <3>2
  <2>7. AnsweredAtMostOnce'
    BY <2>1, <2>2, <2>6, SMTT(20)
  <2>8. \A q \in Operations : pc'[q] \notin {"callback", "ended"} /\ q \notin badFile' => answers'[q] = 0
    BY <2>1, <2>2, <2>6
  <2>9. \A u \in Threads : Starting(u)' =>
         /\ pc'[op'[u]] = "off"
         /\ phase'[u] = "load" => op'[u] \notin badFile'
         /\ \A v \in Threads : Starting(v)' /\ op'[v] = op'[u] => v = u
    BY <2>1, <2>2, <2>3, SMTT(20)
  <2>10. QED
    BY <2>7, <2>8, <2>9
<1>3. ASSUME NEW o \in Operations, InstallThrows(o) PROVE AnswerInv'
  BY <1>3 DEF InstallThrows
<1>4. CASE Destroy
  BY <1>4 DEF Destroy
<1>5. CASE DestroyThreads
  BY <1>5 DEF DestroyThreads
<1>6. CASE UNCHANGED vars
  BY <1>6 DEF vars
<1>7. QED
  BY <1>1, <1>2, <1>3, <1>4, <1>5, <1>6 DEF Next

LEMMA NextHost == Inv1 /\ HostInv /\ [Next]_vars => HostInv'
<1> SUFFICES ASSUME Inv1, HostInv, [Next]_vars PROVE HostInv'
  OBVIOUS
<1>b. \A t \in Threads : StartInstallToDevice(t) \/ StartRemoveFromDevice(t) => BeginStep(t)
  BY Begun
<1>w. \A o \in Operations : Work(o) => WorkStep(o)
  BY Worked
<1> USE DeviceInstallerAssumption DEF Threads, Operations, ThreadObjects
<1> USE DEF objectVars, workerVars, callVars, opVars, resultVars
<1> USE DEF Inv1, TypeOK, DataOK, FlagsOK, CallInv, HostInv, HostIsOwnOrLater
<1>1. ASSUME NEW t \in Threads, Caller(t) PROVE HostInv'
  <2>1. CASE StartInstallToDevice(t) \/ StartRemoveFromDevice(t)
    <3>0. BeginStep(t)
      BY <2>1, <1>b
    <3>1. QED
      BY <3>0, SMTT(30) DEF BeginStep
  <2>2. CASE LoadFile(t)
    BY <2>2 DEF LoadFile
  <2>3. CASE JoinRemover(t)
    BY <2>3 DEF JoinRemover, Joined, AfterRemover, Passed
  <2>4. CASE JoinInstaller(t)
    BY <2>4 DEF JoinInstaller, Joined, AfterInstaller, FlagReset, Passed
  <2>5. CASE JoinThrows(t)
    BY <2>5 DEF JoinThrows
  <2>6. CASE CreateThread(t)
    BY <2>6 DEF CreateThread
  <2>7. CASE AssignThread(t)
    BY <2>7 DEF AssignThread
  <2>8. QED
    BY <1>1, <2>1, <2>2, <2>3, <2>4, <2>5, <2>6, <2>7 DEF Caller, Continue
<1>2. ASSUME NEW o \in Operations, Work(o) PROVE HostInv'
  <2>0. WorkStep(o)
    BY <1>2, <1>w
  <2>1. UNCHANGED <<deviceInformation, ops, given>>
    BY <2>0 DEF WorkStep
  <2>2. \A q \in Operations : q # o => host'[q] = host[q]
    BY <2>0 DEF WorkStep
  <2>3. host'[o] = host[o] \/ host'[o] = deviceInformation
    BY <2>0 DEF WorkStep
  <2>4. o <= ops
    BY <2>0 DEF WorkStep, Runs
  <2>5. ASSUME host'[o] # NoDevice PROVE \E later \in o..ops : host'[o] = given[later]
    <3>1. CASE host'[o] = host[o]
      BY <2>5, <3>1
    <3>2. CASE host'[o] = deviceInformation
      BY <2>4, <3>2
    <3>3. QED
      BY <2>3, <3>1, <3>2
  <2>6. ASSUME NEW q \in Operations, host'[q] # NoDevice
        PROVE  \E later \in q..ops : host'[q] = given[later]
    <3>1. CASE q = o
      BY <2>5, <2>6, <3>1
    <3>2. CASE q # o
      <4>1. host'[q] = host[q]
        BY <2>2, <3>2
      <4>2. host[q] # NoDevice => \E later \in q..ops : host[q] = given[later]
        OBVIOUS
      <4>3. QED
        BY <2>6, <4>1, <4>2
    <3>3. QED
      BY <3>1, <3>2
  <2>7. QED
    BY <2>1, <2>6
<1>3. ASSUME NEW o \in Operations, InstallThrows(o) PROVE HostInv'
  BY <1>3 DEF InstallThrows
<1>4. CASE Destroy
  BY <1>4 DEF Destroy
<1>5. CASE DestroyThreads
  BY <1>5 DEF DestroyThreads
<1>6. CASE UNCHANGED vars
  BY <1>6 DEF vars
<1>7. QED
  BY <1>1, <1>2, <1>3, <1>4, <1>5, <1>6 DEF Next

LEMMA NextControl == Inv1 /\ ControlInv /\ [Next]_vars => ControlInv'
<1> SUFFICES ASSUME Inv1, ControlInv, [Next]_vars PROVE ControlInv'
  OBVIOUS
<1>b. \A t \in Threads : StartInstallToDevice(t) \/ StartRemoveFromDevice(t) => BeginStep(t)
  BY Begun
<1>w. \A o \in Operations : Work(o) => WorkStep(o)
  BY Worked
<1> USE DeviceInstallerAssumption DEF Threads, Operations, ThreadObjects
<1> USE DEF objectVars, workerVars, callVars, opVars, resultVars
<1> USE DEF Inv1, TypeOK, DataOK, FlagsOK, CallInv, Orderly, ControlInv, Control, Runs, Installs, ObjectOf
<1>1. ASSUME NEW t \in Threads, Caller(t) PROVE ControlInv'
  <2>1. CASE StartInstallToDevice(t) \/ StartRemoveFromDevice(t)
    <3>0. BeginStep(t)
      BY <2>1, <1>b
    <3> SUFFICES ASSUME Orderly' PROVE Control'
      OBVIOUS
    <3>1. Control /\ terminated = "no"
      BY <3>0, NextOrderly DEF BeginStep
    <3>2. \A o \in Operations : pc[o] # "off" => what'[o] = what[o]
      BY <3>0 DEF BeginStep
    <3>3. UNCHANGED <<pc, object, terminated>>
      BY <3>0 DEF BeginStep
    <3>4. \A o \in Operations : Runs(o) => ObjectOf(o)' = ObjectOf(o) /\ Installs(o)' = Installs(o)
      BY <3>2
    <3>5. \A u \in Threads : u # t => phase'[u] = phase[u] /\ op'[u] = op[u]
      BY <3>0 DEF BeginStep
    <3>6. phase[t] = "idle" /\ phase'[t] \in {"load", "joinRemover"}
      BY <3>0 DEF BeginStep
    <3>7. \A o \in Operations : phase[o] = "joinInstaller" => Runs(o)
      OBVIOUS
    <3>8. \A o \in Operations : Runs(o) => object'[ObjectOf(o)'] = o \/ (phase'[App] = "assign" /\ op'[App] = o)
      <4>1. \A o \in Operations : Runs(o) => object[ObjectOf(o)] = o \/ (phase[App] = "assign" /\ op[App] = o)
        BY <3>1
      <4>2. phase[App] = "assign" => phase'[App] = "assign" /\ op'[App] = op[App]
        BY <3>5, <3>6
      <4>3. QED
        BY <3>3, <3>4, <4>1, <4>2
    <3>9. \A o \in Operations : phase'[o] \in {"idle", "load", "joinRemover", "joinInstaller"} /\ (phase'[o] = "joinInstaller" => Installs(o)')
      BY <3>1, <3>4, <3>5, <3>6, <3>7
    <3>10. QED
      BY <3>1, <3>3, <3>5, <3>6, <3>8, <3>9
  <2>2. CASE LoadFile(t)
    BY <2>2 DEF LoadFile
  <2>3. CASE JoinRemover(t)
    <3> SUFFICES ASSUME Orderly' PROVE Control'
      OBVIOUS
    <3>1. Control /\ (t # App => what[t] = "install")
      BY <2>3, NextOrderly DEF JoinRemover, Passed
    <3>2. UNCHANGED <<pc, op, what, terminated>> /\ object' = [object EXCEPT ![Remover] = 0]
      BY <2>3 DEF JoinRemover
    <3>3. phase[t] = "joinRemover" /\ phase' = [phase EXCEPT ![t] = "joinInstaller"]
      BY <2>3 DEF JoinRemover, AfterRemover
    <3>4. \A o \in Operations : Runs(o) => object'[ObjectOf(o)] = o \/ (phase[App] = "assign" /\ op[App] = o)
      <4>1. \A o \in Operations : Runs(o) => o # object[Remover] /\ o # 0
        BY <2>3 DEF JoinRemover, Joined
      <4>2. QED
        BY <3>1, <3>2, <4>1
    <3>5. \A o \in Operations : phase'[o] \in {"idle", "load", "joinRemover", "joinInstaller"} /\ (phase'[o] = "joinInstaller" => Installs(o))
      BY <3>1, <3>3
    <3>6. \A o \in Operations : Runs(o)' <=> Runs(o)
      BY <3>2
    <3>7. phase'[App] = phase[App] \/ (phase[App] = "joinRemover" /\ phase'[App] = "joinInstaller")
      BY <3>3
    <3>8. QED
      BY <3>1, <3>2, <3>4, <3>5, <3>6, <3>7
  <2>4. CASE JoinInstaller(t)
    BY <2>4 DEF JoinInstaller, Joined, AfterInstaller, FlagReset, Passed
  <2>5. CASE JoinThrows(t)
    <3>1. UNCHANGED <<pc, op, what, object, overtaken>> /\ terminated' \in {terminated, "exception"}
      BY <2>5 DEF JoinThrows
    <3>2. phase' = phase \/ (phase' = [phase EXCEPT ![t] = "idle"] /\ phase[t] \in {"joinFirst", "joinRemover", "joinInstaller"})
      BY <2>5 DEF JoinThrows, Joins
    <3>3. QED
      BY <3>1, <3>2, ZenonT(30)
  <2>6. CASE CreateThread(t)
    BY <2>6 DEF CreateThread
  <2>7. CASE AssignThread(t)
    <3> SUFFICES ASSUME Orderly' PROVE Control'
      OBVIOUS
    <3>1. Control /\ t = App
      BY <2>7 DEF AssignThread
    <3>2. object' = [object EXCEPT ![ObjectOf(op[t])] = op[t]] /\ terminated' = terminated
      BY <2>7, <3>1 DEF AssignThread
    <3>3. UNCHANGED <<pc, op, what, overtaken>> /\ phase' = [phase EXCEPT ![t] = "idle"]
      BY <2>7 DEF AssignThread
    <3>4. QED
      BY <2>7, <3>1, <3>2, <3>3 DEF AssignThread
  <2>8. QED
    BY <1>1, <2>1, <2>2, <2>3, <2>4, <2>5, <2>6, <2>7 DEF Caller, Continue
<1>2. ASSUME NEW o \in Operations, Work(o) PROVE ControlInv'
  <2>0. WorkStep(o)
    BY <1>2, <1>w
  <2>1. UNCHANGED <<object, phase, op, what, terminated, overtaken>>
    BY <2>0 DEF WorkStep
  <2>2. \A q \in Operations : q # o => pc'[q] = pc[q]
    BY <2>0 DEF WorkStep
  <2>3. Runs(o)
    BY <2>0 DEF WorkStep
  <2>4. \A q \in Operations : Runs(q)' => Runs(q)
    BY <2>2, <2>3
  <2>5. QED
    BY <2>1, <2>4
<1>3. ASSUME NEW o \in Operations, InstallThrows(o) PROVE ControlInv'
  BY <1>3 DEF InstallThrows
<1>4. CASE Destroy
  <2>1. phase[App] = "idle" /\ phase' = [phase EXCEPT ![App] = "joinFirst"]
    BY <1>4 DEF Destroy
  <2>2. UNCHANGED <<pc, what, object, overtaken, terminated>>
    BY <1>4 DEF Destroy
  <2>3. \A o \in Operations : phase'[o] = phase[o]
    BY <2>1
  <2>4. QED
    BY <2>1, <2>2, <2>3
<1>5. CASE DestroyThreads
  BY <1>5 DEF DestroyThreads
<1>6. CASE UNCHANGED vars
  BY <1>6 DEF vars
<1>7. QED
  BY <1>1, <1>2, <1>3, <1>4, <1>5, <1>6 DEF Next

\* As long as starts are in order, one thread runs at a time, and none while the application
\* is about to create one.
LEMMA OneRuns ==
  Inv1 /\ ControlInv /\ Orderly =>
    /\ \A o, q \in Operations : Runs(o) /\ Runs(q) => o = q
    /\ phase[App] = "joined" => \A o \in Operations : ~Runs(o)
  BY DeviceInstallerAssumption DEF Inv1, CallInv, ControlInv, Control, ObjectOf, Operations

\* Then only a thread that joins itself can see its join fail.
LEMMA OneJoins ==
  Inv1 /\ ControlInv /\ Orderly =>
    \A t \in Threads : \A w \in ThreadObjects :
      Joins(t, w) /\ JoinedTwice(t, w) => JoinsItself(t, w)
<1> SUFFICES ASSUME Inv1, ControlInv, Orderly, NEW t \in Threads, NEW w \in ThreadObjects,
                    Joins(t, w), t # object[w], object[w] # 0,
                    NEW u \in Threads, u # t, u # object[w], Joins(u, w)
             PROVE  FALSE
  BY DEF JoinedTwice, JoinsItself
<1> USE DeviceInstallerAssumption DEF Threads, Operations, Inv1, TypeOK, DataOK, CallInv, ControlInv, Control, Runs
<1>1. ASSUME NEW o \in Operations, Joins(o, w), o # object[w] PROVE FALSE
  <2>1. Runs(o)
    BY <1>1 DEF Joins
  <2>2. object[ObjectOf(o)] = o
    BY <1>1, <2>1 DEF Joins, ThreadObjects
  <2>3. QED
    BY <1>1, <2>2 DEF Joins, ObjectOf, Installs, ThreadObjects
<1>2. CASE t = App
  BY <1>1, <1>2
<1>3. CASE t # App
  BY <1>1, <1>3
<1>4. QED
  BY <1>2, <1>3

LEMMA NextFlag == Inv1 /\ ControlInv /\ FlagInv /\ [Next]_vars => FlagInv'
<1> SUFFICES ASSUME Inv1, ControlInv, FlagInv, [Next]_vars PROVE FlagInv'
  OBVIOUS
<1>b. \A t \in Threads : StartInstallToDevice(t) \/ StartRemoveFromDevice(t) => BeginStep(t)
  BY Begun
<1>w. \A o \in Operations : Work(o) => WorkStep(o)
  BY Worked
<1>r. Orderly => /\ \A o, q \in Operations : Runs(o) /\ Runs(q) => o = q
                 /\ phase[App] = "joined" => \A o \in Operations : ~Runs(o)
  BY OneRuns
<1>j. Orderly => \A t \in Threads : \A w \in ThreadObjects :
                   Joins(t, w) /\ JoinedTwice(t, w) => JoinsItself(t, w)
  BY OneJoins
<1> USE DeviceInstallerAssumption DEF Threads, Operations, ThreadObjects
<1> USE DEF objectVars, workerVars, callVars, opVars, resultVars
<1> USE DEF Inv1, TypeOK, DataOK, FlagsOK, CallInv, Orderly, ControlInv, Control, Runs, Installs, ObjectOf, FlagInv, FlagIsForThisRun
<1>1. ASSUME NEW t \in Threads, Caller(t) PROVE FlagInv'
  <2>1. CASE StartInstallToDevice(t) \/ StartRemoveFromDevice(t)
    <3>0. BeginStep(t)
      BY <2>1, <1>b
    <3>1. \A o \in Operations : pc[o] # "off" => what'[o] = what[o]
      BY <3>0 DEF BeginStep
    <3>2. UNCHANGED <<pc, abortInstallThread, overtaken>>
      BY <3>0 DEF BeginStep
    <3>3. phase[t] = "idle" /\ \A u \in Threads : u # t => phase'[u] = phase[u]
      BY <3>0 DEF BeginStep
    <3>4. phase'[t] # "joined"
      BY <3>0 DEF BeginStep
    <3>5. QED
      BY <3>1, <3>2, <3>3, <3>4
  <2>2. CASE LoadFile(t)
    BY <2>2 DEF LoadFile
  <2>3. CASE JoinRemover(t)
    <3>1. UNCHANGED <<pc, what>> /\ phase[t] = "joinRemover" /\ phase' = [phase EXCEPT ![t] = "joinInstaller"]
      BY <2>3 DEF JoinRemover, AfterRemover
    <3>2. Orderly' => Orderly
      BY NextOrderly
    <3>3. Orderly /\ phase[App] = "joined" => FALSE
      BY <3>1, <1>r
    <3>4. QED
      BY <3>1, <3>2, <3>3
  <2>4. CASE JoinInstaller(t)
    BY <2>4 DEF JoinInstaller, Joined, AfterInstaller, FlagReset, Passed
  <2>5. CASE JoinThrows(t)
    <3> SUFFICES ASSUME Orderly PROVE FlagInv'
      BY <2>5 DEF JoinThrows
    <3>1. UNCHANGED <<pc, what, abortInstallThread, overtaken>>
      BY <2>5 DEF JoinThrows
    <3>2. PICK w \in ThreadObjects : Joins(t, w) /\ JoinsItself(t, w)
      BY <2>5, <1>j DEF JoinThrows
    <3>3. t # App /\ pc[t] = "callback"
      BY <3>2 DEF Joins, JoinsItself
    <3>4. \A o \in Operations : Runs(o) => pc[o] = "callback"
      BY <3>3, <1>r
    <3>5. phase'[App] = phase[App]
      BY <2>5, <3>3, ZenonT(30) DEF JoinThrows
    <3>6. QED
      BY <3>1, <3>4, <3>5
  <2>6. CASE CreateThread(t)
    BY <2>6 DEF CreateThread
  <2>7. CASE AssignThread(t)
    BY <2>7 DEF AssignThread
  <2>8. QED
    BY <1>1, <2>1, <2>2, <2>3, <2>4, <2>5, <2>6, <2>7 DEF Caller, Continue
<1>2. ASSUME NEW o \in Operations, Work(o) PROVE FlagInv'
  <2>0. WorkStep(o)
    BY <1>2, <1>w
  <2>1. UNCHANGED <<abortInstallThread, phase, what, overtaken>>
    BY <2>0 DEF WorkStep
  <2>2. \A q \in Operations : q # o => pc'[q] = pc[q]
    BY <2>0 DEF WorkStep
  <2>3. Runs(o) /\ (pc[o] = "callback" => pc'[o] = "ended")
    BY <2>0 DEF WorkStep
  <2>4. \A q \in Operations : Runs(q)' => Runs(q) /\ (pc[q] = "callback" => pc'[q] = "callback")
    BY <2>2, <2>3
  <2>5. QED
    BY <2>1, <2>4
<1>3. ASSUME NEW o \in Operations, InstallThrows(o) PROVE FlagInv'
  BY <1>3 DEF InstallThrows
<1>4. CASE Destroy
  BY <1>4 DEF Destroy
<1>5. CASE DestroyThreads
  BY <1>5 DEF DestroyThreads
<1>6. CASE UNCHANGED vars
  BY <1>6 DEF vars
<1>7. QED
  BY <1>1, <1>2, <1>3, <1>4, <1>5, <1>6 DEF Next

LEMMA NextSilent == Inv1 /\ AnswerInv /\ ControlInv /\ FlagInv /\ SilentInv /\ [Next]_vars => SilentInv'
<1> SUFFICES ASSUME Inv1, AnswerInv, ControlInv, FlagInv, SilentInv, [Next]_vars PROVE SilentInv'
  OBVIOUS
<1>b. \A t \in Threads : StartInstallToDevice(t) \/ StartRemoveFromDevice(t) => BeginStep(t)
  BY Begun
<1>w. \A o \in Operations : Work(o) => WorkStep(o)
  BY Worked
<1>r. Orderly => /\ \A o, q \in Operations : Runs(o) /\ Runs(q) => o = q
                 /\ phase[App] = "joined" => \A o \in Operations : ~Runs(o)
  BY OneRuns
<1> USE DeviceInstallerAssumption DEF Threads, Operations, ThreadObjects
<1> USE DEF objectVars, workerVars, callVars, opVars, resultVars
<1> USE DEF Inv1, TypeOK, DataOK, FlagsOK, CallInv, Orderly, SilentInv, SilentIsAborted, Starting, Installs, Destroying
<1>1. ASSUME NEW t \in Threads, Caller(t) PROVE SilentInv'
  <2>1. CASE StartInstallToDevice(t) \/ StartRemoveFromDevice(t)
    <3>0. BeginStep(t)
      BY <2>1, <1>b
    <3>1. \A o \in Operations : pc[o] # "off" => what'[o] = what[o]
      BY <3>0 DEF BeginStep
    <3>2. ops' = ops + 1 /\ UNCHANGED <<pc, answers, errors, overtaken>>
      BY <3>0 DEF BeginStep
    <3>3. phase[t] = "idle" /\ op' = [op EXCEPT ![t] = ops + 1] /\ \A u \in Threads : u # t => phase'[u] = phase[u]
      BY <3>0 DEF BeginStep
    <3>4. \A o \in Operations : pc[o] # "off" => o < ops + 1
      OBVIOUS
    <3>5. SilentIsAborted'
      BY <3>1, <3>2, <3>3, <3>4
    <3>6. QED
      BY <3>1, <3>2, <3>3, <3>4, <3>5
  <2>2. CASE LoadFile(t)
    <3>0. op[t] \in Operations
      BY <2>2 DEF LoadFile
    <3>1. UNCHANGED <<pc, op, ops, what, overtaken>> /\ errors \subseteq errors'
      BY <2>2 DEF LoadFile
    <3>2. \A o \in Operations : answers'[o] = answers[o] \/ answers'[o] = answers[o] + 1
      <4>1. answers' = answers \/ answers' = [answers EXCEPT ![op[t]] = @ + 1]
        BY <2>2 DEF LoadFile
      <4>2. answers \in [Operations -> Nat]
        OBVIOUS
      <4>3. QED
        BY <3>0, <4>1, <4>2
    <3>3. phase[t] = "load" /\ phase' = [phase EXCEPT ![t] = "joinRemover"]
      BY <2>2 DEF LoadFile
    <3>4. ASSUME NEW o \in Operations
          PROVE  (answers'[o] = 0 => answers[o] = 0) /\ (answers[o] > 0 => answers'[o] > 0)
      <4>1. answers[o] \in Nat
        OBVIOUS
      <4>2. QED
        BY <3>2, <4>1
    <3>5. \A o \in Operations : answers[o] > 0 => answers'[o] > 0
      BY <3>4
    <3>6. SilentIsAborted'
      BY <3>1, <3>3, <3>4
    <3>7. QED
      BY <3>1, <3>3, <3>5, <3>6
  <2>3. CASE JoinRemover(t)
    BY <2>3 DEF JoinRemover, Joined, AfterRemover, Passed
  <2>4. CASE JoinInstaller(t)
    BY <2>4 DEF JoinInstaller, Joined, AfterInstaller, FlagReset, Passed
  <2>5. CASE JoinThrows(t)
    <3>1. UNCHANGED <<pc, op, ops, what, answers, errors, overtaken>>
      BY <2>5 DEF JoinThrows
    <3>2. phase' = phase \/ (op[t] # 0 /\ phase' = [phase EXCEPT ![t] = "idle"])
      BY <2>5 DEF JoinThrows
    <3>3. QED
      BY <3>1, <3>2
  <2>6. CASE CreateThread(t)
    <3>1. op[t] \in Operations /\ Starting(t) /\ pc[op[t]] = "off"
      BY <2>6 DEF CreateThread, AnswerInv
    <3>2. pc' = [pc EXCEPT ![op[t]] = "type"] /\ phase' = [phase EXCEPT ![t] = "assign"]
      BY <2>6 DEF CreateThread
    <3>3. UNCHANGED <<op, ops, what, answers, errors, overtaken>>
      BY <2>6 DEF CreateThread
    <3>4. Orderly => \A u \in Threads : ~Starting(u)'
      <4>1. Orderly => t = App
        BY <2>6 DEF CreateThread, ControlInv, Control
      <4>2. Orderly => \A o \in Operations : phase[o] = "idle"
        BY <2>6, <4>1, <1>r DEF CreateThread, Runs
      <4>3. QED
        BY <3>2, <4>1, <4>2
    <3>5. SilentIsAborted'
      BY <3>1, <3>2, <3>3
    <3>6. QED
      BY <3>1, <3>2, <3>3, <3>4, <3>5
  <2>7. CASE AssignThread(t)
    BY <2>7 DEF AssignThread
  <2>8. QED
    BY <1>1, <2>1, <2>2, <2>3, <2>4, <2>5, <2>6, <2>7 DEF Caller, Continue
<1>2. ASSUME NEW o \in Operations, Work(o) PROVE SilentInv'
  <2>1. CASE CheckType(o)
    BY <2>1 DEF CheckType, Fails
  <2>2. CASE CheckIp(o)
    BY <2>2 DEF CheckIp, Fails
  <2>3. CASE Download(o)
    BY <2>3 DEF Download
  <2>4. CASE FindBinary(o)
    <3>1. UNCHANGED <<op, phase, ops, what, answers, overtaken>> /\ errors \subseteq errors'
      BY <2>4 DEF FindBinary
    <3>2. pc[o] = "binary" /\ pc' = [pc EXCEPT ![o] = pc'[o]]
      BY <2>4 DEF FindBinary, Ends
    <3>3. pc'[o] = "flag" \/ (pc'[o] = "ended" /\ o \in errors')
      BY <2>4 DEF FindBinary, Ends
    <3>4. QED
      BY <3>1, <3>2, <3>3
  <2>5. CASE TestAbort(o)
    <3>1. UNCHANGED <<op, phase, ops, what, answers, errors, overtaken>> /\ Installs(o)
      BY <2>5 DEF TestAbort
    <3>2. pc[o] \in {"flag", "flagConnected"} /\ pc' = [pc EXCEPT ![o] = pc'[o]]
      BY <2>5 DEF TestAbort, Ends
    <3>3. pc'[o] \in {"connect", "install"} \/ (abortInstallThread /\ pc'[o] = "ended")
      BY <2>5 DEF TestAbort, Ends
    <3>4. Orderly /\ abortInstallThread => ops > o \/ Destroying
      <4> SUFFICES ASSUME Orderly, abortInstallThread PROVE ops > o \/ Destroying
        OBVIOUS
      <4>1. PICK t \in Threads : phase[t] \in {"joinFirst", "joinInstaller"}
        BY <3>1, <3>2 DEF FlagInv, FlagIsForThisRun, Runs
      <4>2. CASE op[t] = 0
        BY <4>1, <4>2
      <4>3. CASE op[t] # 0
        <5>1. Starting(t)
          BY <4>1, <4>3
        <5>2. o < op[t]
          BY <3>2, <5>1
        <5>3. op[t] \in 0..ops /\ ops \in Nat
          OBVIOUS
        <5>4. QED
          BY <5>2, <5>3
      <4>4. QED
        BY <4>2, <4>3
    <3>5. QED
      BY <3>1, <3>2, <3>3, <3>4
  <2>6. CASE Connect(o)
    BY <2>6 DEF Connect, Fails
  <2>7. CASE Install(o)
    BY <2>7 DEF Install, Fails
  <2>8. CASE Remove(o)
    BY <2>8 DEF Remove, Fails
  <2>9. CASE Report(o)
    BY <2>9, SMTT(20) DEF Report
  <2>10. CASE CallbackReturns(o)
    BY <2>10 DEF CallbackReturns, AfterCallback
  <2>11. QED
    BY <1>2, <2>1, <2>2, <2>3, <2>4, <2>5, <2>6, <2>7, <2>8, <2>9, <2>10 DEF Work
<1>3. ASSUME NEW o \in Operations, InstallThrows(o) PROVE SilentInv'
  BY <1>3 DEF InstallThrows
<1>4. CASE Destroy
  BY <1>4 DEF Destroy
<1>5. CASE DestroyThreads
  BY <1>5 DEF DestroyThreads
<1>6. CASE UNCHANGED vars
  BY <1>6 DEF vars
<1>7. QED
  BY <1>1, <1>2, <1>3, <1>4, <1>5, <1>6 DEF Next

-----------------------------------------------------------------------------
LEMMA Inductive == Spec => [](Inv1 /\ AnswerInv /\ HostInv /\ ControlInv /\ FlagInv /\ SilentInv)
<1> DEFINE IInv == Inv1 /\ AnswerInv /\ HostInv /\ ControlInv /\ FlagInv /\ SilentInv
<1>1. Init => IInv
  BY InitInv
<1>2. IInv /\ [Next]_vars => IInv'
  BY NextFlagsOK, NextDataOK, NextCall, NextAnswer, NextHost, NextControl, NextFlag, NextSilent DEF Inv1, TypeOK
<1>3. QED
  BY <1>1, <1>2, PTL DEF Spec

\* Every reachable state is well typed.
THEOREM TypeCorrect == Spec => []TypeOK
<1>1. Inv1 /\ AnswerInv /\ HostInv /\ ControlInv /\ FlagInv /\ SilentInv => TypeOK
  BY DEF Inv1
<1>2. QED
  BY <1>1, Inductive, PTL

\* No two of the installing and removing threads run at the same time, as long as no start
\* overtook the assignment of its own thread (startInstall and startRemove abort and join both).
THEOREM OneWorkerAtATime == Spec => []OneWorker
<1>1. Inv1 /\ AnswerInv /\ HostInv /\ ControlInv /\ FlagInv /\ SilentInv => OneWorker
  BY OneRuns DEF OneWorker
<1>2. QED
  BY <1>1, Inductive, PTL

\* No joinable thread object is overwritten or destroyed, as long as no start overtook the
\* assignment of its own thread.
THEOREM NeverReassigned == Spec => []NoJoinableLost
<1>1. Inv1 /\ AnswerInv /\ HostInv /\ ControlInv /\ FlagInv /\ SilentInv => NoJoinableLost
  BY DEF ControlInv, Control, NoJoinableLost
<1>2. QED
  BY <1>1, Inductive, PTL

\* A raised abort flag is never left over for a later installation, in the same case.
THEOREM FlagBelongsToRun == Spec => []FlagIsForThisRun
<1>1. Inv1 /\ AnswerInv /\ HostInv /\ ControlInv /\ FlagInv /\ SilentInv => FlagIsForThisRun
  BY DEF FlagInv
<1>2. QED
  BY <1>1, Inductive, PTL

\* The destructor leaves no thread behind, in the same case.
THEOREM DestroyedQuiet == Spec => []DestroyedIsQuiet
<1>1. Inv1 /\ AnswerInv /\ HostInv /\ ControlInv /\ FlagInv /\ SilentInv => DestroyedIsQuiet
  BY DEF Inv1, CallInv, ControlInv, Control, DestroyedIsQuiet, ObjectOf, Operations
<1>2. QED
  BY <1>1, Inductive, PTL

\* sigInstallDone is fired at most once for an operation whose info file was read, whatever
\* the callbacks start.
THEOREM AnsweredOnceUnlessBadFile == Spec => []AnsweredAtMostOnce
<1>1. Inv1 /\ AnswerInv /\ HostInv /\ ControlInv /\ FlagInv /\ SilentInv => AnsweredAtMostOnce
  BY DEF AnswerInv
<1>2. QED
  BY <1>1, Inductive, PTL

\* No thread works on the device of an earlier call than its own, whatever the callbacks start.
THEOREM NeverEarlierDevice == Spec => []HostIsOwnOrLater
<1>1. Inv1 /\ AnswerInv /\ HostInv /\ ControlInv /\ FlagInv /\ SilentInv => HostIsOwnOrLater
  BY DEF HostInv
<1>2. QED
  BY <1>1, Inductive, PTL

\* As long as no start overtook the assignment of its own thread, one that ended without
\* sigInstallDone is an installation that failed to find its binary, or that a later call or
\* the destructor aborted (installThread).
THEOREM SilentAborted == Spec => []SilentIsAborted
<1>1. Inv1 /\ AnswerInv /\ HostInv /\ ControlInv /\ FlagInv /\ SilentInv => SilentIsAborted
  BY DEF SilentInv
<1>2. QED
  BY <1>1, Inductive, PTL

\* A start that the application calls from sigInstallCompleted never waits for a thread, as long
\* as none overtook the assignment of its own: the other object is not joinable, and the join of
\* its own thread throws or, before the assignment, is passed.  So no two threads wait for each
\* other.
THEOREM CallbackStartsNeverWait ==
  Spec => [](Orderly => \A o \in Operations : \A w \in ThreadObjects :
               Joins(o, w) => Joined(w) \/ JoinsItself(o, w))
<1>1. Inv1 /\ AnswerInv /\ HostInv /\ ControlInv /\ FlagInv /\ SilentInv =>
        (Orderly => \A o \in Operations : \A w \in ThreadObjects :
           Joins(o, w) => Joined(w) \/ JoinsItself(o, w))
  BY DeviceInstallerAssumption DEF Inv1, CallInv, ControlInv, Control, Joins, Joined, JoinsItself, ObjectOf, ThreadObjects, Operations, Runs
<1>2. QED
  BY <1>1, Inductive, PTL
=============================================================================
