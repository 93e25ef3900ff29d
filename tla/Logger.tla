-------------------------------- MODULE Logger --------------------------------
(***************************************************************************)
(* Log: any thread logs, registers an adapter or sets the level.  A record *)
(* goes to every adapter under mutexLog and, after that is released, to    *)
(* the subscribers of sigLog, who may log themselves.  An adapter writes   *)
(* the record, or fails with a recoverable exception, which is swallowed,  *)
(* or throws another one, which leaves addLog with the mutex locked.       *)
(***************************************************************************)
EXTENDS Naturals, Sequences

CONSTANTS
  Threads,   \* who logs
  Adapters,  \* what may be registered, each once
  Throwing,  \* the application's own adapters, which may throw anything
  Levels,    \* LogType; the higher, the less important
  MaxLogs,   \* bound: the number of records
  Free       \* no thread

ASSUME LoggerAssumption ==
  /\ Throwing \subseteq Adapters
  /\ Levels \subseteq Nat
  /\ \E l \in Levels : \A k \in Levels : k <= l
  /\ MaxLogs \in Nat
  /\ Free \notin Threads

VARIABLES
  logTypeLevel,
  logAdapterList,
  mutexLog,    \* the thread that has locked it, or Free
  place,       \* where a thread is in addLog
  stamp,       \* the record it logs, named by its time stamp
  it,          \* its position in the list
  clock,       \* the last time stamp
  written,     \* what every adapter has written
  registered,  \* history: the adapters there were when a record was stamped
  offered,     \* history: the adapters a record was given to
  signalled,   \* the records that subscribers were told of
  critical     \* history: an exception has left addLog

logVars == <<written, registered, offered, signalled>>
vars == <<logTypeLevel, logAdapterList, mutexLog, place, stamp, it, clock, logVars, critical>>

LOGTYPE_DEBUG == CHOOSE l \in Levels : \A k \in Levels : k <= l
Stamps == 1 .. MaxLogs
Registered == {logAdapterList[i] : i \in 1 .. Len(logAdapterList)}

TypeOK ==
  /\ logTypeLevel \in Levels
  /\ logAdapterList \in Seq(Adapters)
  /\ mutexLog \in Threads \cup {Free}
  /\ place \in [Threads -> {"idle", "lock", "adapters", "fire", "subscriber"}]
  /\ stamp \in [Threads -> 0 .. MaxLogs]
  /\ it \in [Threads -> Nat]
  /\ clock \in 0 .. MaxLogs
  /\ written \in [Adapters -> Seq(Stamps)]
  /\ registered \in [Stamps -> SUBSET Adapters]
  /\ offered \in [Stamps -> SUBSET Adapters]
  /\ signalled \subseteq 1 .. clock
  /\ critical \in BOOLEAN

Init ==
  /\ logTypeLevel = LOGTYPE_DEBUG
  /\ logAdapterList = <<>>
  /\ mutexLog = Free
  /\ place = [t \in Threads |-> "idle"]
  /\ stamp = [t \in Threads |-> 0]
  /\ it = [t \in Threads |-> 1]
  /\ clock = 0
  /\ written = [a \in Adapters |-> <<>>]
  /\ registered = [s \in Stamps |-> {}]
  /\ offered = [s \in Stamps |-> {}]
  /\ signalled = {}
  /\ critical = FALSE

-----------------------------------------------------------------------------
AnyMutex == TRUE
MutexFree == mutexLog = Free

\* The list would take an adapter twice; the library registers each of its adapters once, where it
\* makes the log (raumserverInstaller.cpp:51-62), which is the second conjunct.
RegisterAdapter(a) ==
  /\ MutexFree
  /\ a \notin Registered
  /\ logAdapterList' = Append(logAdapterList, a)
  /\ UNCHANGED <<logTypeLevel, mutexLog, place, stamp, it, clock, logVars, critical>>

SetLogLevel(l) ==
  /\ MutexFree
  /\ logTypeLevel' = l
  /\ UNCHANGED <<logAdapterList, mutexLog, place, stamp, it, clock, logVars, critical>>

\* The level is compared without the mutex; a record above it is not logged at all.
AddLog(t, type) ==
  /\ place[t] \in {"idle", "subscriber"}
  /\ type <= logTypeLevel
  /\ place' = [place EXCEPT ![t] = "lock"]
  /\ UNCHANGED <<logTypeLevel, logAdapterList, mutexLog, stamp, it, clock, logVars, critical>>

\* The record is stamped under the mutex.  A stamp is the place in the order of stamping; the
\* time the code takes is of the local clock, which may repeat itself or go back.
NextStamp == clock + 1
Lock(t) ==
  /\ place[t] = "lock" /\ clock < MaxLogs
  /\ MutexFree
  /\ mutexLog' = t
  /\ clock' = NextStamp
  /\ stamp' = [stamp EXCEPT ![t] = NextStamp]
  /\ it' = [it EXCEPT ![t] = 1]
  /\ registered' = [registered EXCEPT ![NextStamp] = Registered]
  /\ place' = [place EXCEPT ![t] = "adapters"]
  /\ UNCHANGED <<logTypeLevel, logAdapterList, written, offered, signalled, critical>>

InLoop(t) == place[t] = "adapters" /\ it[t] <= Len(logAdapterList)
Current(t) == logAdapterList[it[t]]
Offer(t) == offered' = [offered EXCEPT ![stamp[t]] = @ \cup {Current(t)}]

AdapterWrites(t) ==
  /\ InLoop(t)
  /\ written' = [written EXCEPT ![Current(t)] = Append(@, stamp[t])]
  /\ it' = [it EXCEPT ![t] = @ + 1]
  /\ Offer(t)
  /\ UNCHANGED <<logTypeLevel, logAdapterList, mutexLog, place, stamp, clock, registered, signalled,
                 critical>>

\* A recoverable exception, as that of a log file that cannot be opened; the next adapter's turn.
LoopLeft(t) == Len(logAdapterList) + 1
NextAdapter(t) == it[t] + 1
AdapterFails(t) ==
  /\ InLoop(t)
  /\ it' = [it EXCEPT ![t] = NextAdapter(t)]
  /\ Offer(t)
  /\ UNCHANGED <<logTypeLevel, logAdapterList, mutexLog, place, stamp, clock, written, registered,
                 signalled, critical>>

\* Any other exception leaves addLog, past unlock.
AdapterThrows(t) ==
  /\ InLoop(t) /\ Current(t) \in Throwing
  /\ place' = [place EXCEPT ![t] = "idle"]
  /\ critical' = TRUE
  /\ Offer(t)
  /\ UNCHANGED <<logTypeLevel, logAdapterList, mutexLog, stamp, it, clock, written, registered,
                 signalled>>

KeptLocked == mutexLog
Unlocked == Free
Unlock(t) ==
  /\ place[t] = "adapters" /\ it[t] > Len(logAdapterList)
  /\ mutexLog' = Unlocked
  /\ place' = [place EXCEPT ![t] = "fire"]
  /\ UNCHANGED <<logTypeLevel, logAdapterList, stamp, it, clock, logVars, critical>>

\* A subscriber may log, without the mutex; what it returns to only returns.
FireSigLog(t) ==
  /\ place[t] = "fire"
  /\ signalled' = signalled \cup {stamp[t]}
  /\ place' = [place EXCEPT ![t] = "subscriber"]
  /\ UNCHANGED <<logTypeLevel, logAdapterList, mutexLog, stamp, it, clock, written, registered, offered,
                 critical>>

Return(t) ==
  /\ place[t] = "subscriber"
  /\ place' = [place EXCEPT ![t] = "idle"]
  /\ UNCHANGED <<logTypeLevel, logAdapterList, mutexLog, stamp, it, clock, logVars, critical>>

-----------------------------------------------------------------------------
InAddLog(t) == AdapterWrites(t) \/ AdapterFails(t) \/ Unlock(t) \/ FireSigLog(t)

Next ==
  \/ \E a \in Adapters : RegisterAdapter(a)
  \/ \E l \in Levels : SetLogLevel(l)
  \/ \E t \in Threads :
       \/ \E type \in Levels : AddLog(t, type)
       \/ Lock(t) \/ InAddLog(t) \/ AdapterThrows(t) \/ Return(t)

\* Threads are scheduled, adapters return, and the mutex starves nobody.
Fairness == \A t \in Threads : WF_vars(InAddLog(t)) /\ SF_vars(Lock(t))
Spec == Init /\ [][Next]_vars /\ Fairness

-----------------------------------------------------------------------------
\* Every adapter, so the log file too, has the records in the order they were stamped, each
\* at most once, whatever threads log and however adapters fail.
WrittenInOrder ==
  \A a \in Adapters : \A i, j \in 1 .. Len(written[a]) : i < j => written[a][i] < written[a][j]

\* Subscribers are told of a record only when all adapters that were registered when it was
\* stamped have had it; one that fails does not hide it from the others.
SignalledWasOffered == \A s \in signalled : registered[s] \subseteq offered[s]

\* Who logs gets past the mutex, from inside a subscriber too, unless an adapter has thrown a
\* critical exception, which leaves the mutex locked for ever.
LogsReturn ==
  \A t \in Threads :
    place[t] = "lock" ~> (place[t] # "lock" \/ critical \/ clock = MaxLogs)
=============================================================================
