----------------------------- MODULE LoggerProofs -----------------------------
(***************************************************************************)
(* Theorems about Logger, for every number of threads, adapters and        *)
(* records.                                                                *)
(***************************************************************************)
EXTENDS Logger, TLAPS

\* Who goes over the adapters has the mutex, and logs the newest record; who fires does not
\* need it any more.
LockInv ==
  \A t \in Threads :
    /\ place[t] = "adapters" => mutexLog = t /\ stamp[t] = clock /\ clock \in Stamps /\ it[t] >= 1
    /\ place[t] = "fire" => stamp[t] \in 1 .. clock

\* No adapter is registered twice.
ListInv == \A i, j \in 1 .. Len(logAdapterList) : i < j => logAdapterList[i] # logAdapterList[j]

\* No adapter has written a record from the future; and those whose turn is still to come have
\* not written the newest.
WrittenInv ==
  /\ \A a \in Adapters : \A i \in 1 .. Len(written[a]) : written[a][i] <= clock
  /\ \A t \in Threads : place[t] = "adapters" =>
       \A n \in it[t] .. Len(logAdapterList) :
         \A i \in 1 .. Len(written[logAdapterList[n]]) : written[logAdapterList[n]][i] < clock

\* The adapters before the current one have had the record; the list is still that of the stamp.
OfferedInv ==
  \A t \in Threads :
    /\ place[t] = "adapters" =>
         /\ registered[stamp[t]] = Registered
         /\ \A n \in 1 .. Len(logAdapterList) : n < it[t] => logAdapterList[n] \in offered[stamp[t]]
    /\ place[t] = "fire" => registered[stamp[t]] \subseteq offered[stamp[t]]

IInv ==
  /\ TypeOK /\ LockInv /\ ListInv /\ WrittenInv /\ OfferedInv
  /\ WrittenInOrder /\ SignalledWasOffered

-----------------------------------------------------------------------------
LEMMA AppendElements ==
  ASSUME NEW S, NEW s \in Seq(S), NEW e \in S
  PROVE  /\ Append(s, e) \in Seq(S) /\ Len(Append(s, e)) = Len(s) + 1 /\ Len(s) \in Nat
         /\ \A i \in 1 .. Len(s) : Append(s, e)[i] = s[i]
         /\ Append(s, e)[Len(s) + 1] = e
OBVIOUS

LEMMA InitInv == Init => IInv
<1>1. SUFFICES ASSUME Init PROVE IInv
  OBVIOUS
<1>2. LOGTYPE_DEBUG \in Levels
  BY LoggerAssumption DEF LOGTYPE_DEBUG
<1>3. logAdapterList \in Seq(Adapters) /\ Len(logAdapterList) = 0
  BY <1>1 DEF Init
<1>4. written \in [Adapters -> Seq(Stamps)] /\ \A a \in Adapters : Len(written[a]) = 0
  BY <1>1 DEF Init
<1>5. clock \in 0 .. MaxLogs /\ 0 \in 0 .. MaxLogs /\ 1 \in Nat
  BY <1>1, LoggerAssumption DEF Init
<1>6. TypeOK
  BY <1>1, <1>2, <1>3, <1>4, <1>5 DEF Init, TypeOK
<1>7. LockInv /\ OfferedInv /\ SignalledWasOffered
  BY <1>1 DEF Init, LockInv, OfferedInv, SignalledWasOffered
<1>8. ListInv /\ WrittenInv /\ WrittenInOrder
  BY <1>1, <1>3, <1>4 DEF Init, ListInv, WrittenInv, WrittenInOrder
<1>9. QED
  BY <1>6, <1>7, <1>8 DEF IInv

\* The only thread that goes over the adapters.
LEMMA OneHolder ==
  ASSUME IInv, NEW t \in Threads, NEW u \in Threads, place[t] = "adapters", place[u] = "adapters"
  PROVE  u = t
BY DEF IInv, LockInv

LEMMA NobodyHolds ==
  ASSUME IInv, MutexFree, NEW t \in Threads
  PROVE  place[t] # "adapters"
BY LoggerAssumption DEF IInv, LockInv, MutexFree

LEMMA NextRegister ==
  ASSUME IInv, NEW a \in Adapters, RegisterAdapter(a)
  PROVE  IInv'
<1>1. /\ a \notin Registered /\ logAdapterList' = Append(logAdapterList, a)
      /\ UNCHANGED <<logTypeLevel, mutexLog, place, stamp, it, clock, written, registered, offered,
                     signalled, critical>>
  BY DEF RegisterAdapter, logVars
<1>2. \A t \in Threads : place[t] # "adapters"
  BY NobodyHolds DEF RegisterAdapter
<1>3. logAdapterList \in Seq(Adapters)
  BY DEF IInv, TypeOK
<1>4. /\ logAdapterList' \in Seq(Adapters) /\ Len(logAdapterList) \in Nat
      /\ Len(logAdapterList') = Len(logAdapterList) + 1
      /\ \A i \in 1 .. Len(logAdapterList) : logAdapterList'[i] = logAdapterList[i]
      /\ logAdapterList'[Len(logAdapterList) + 1] = a
  BY <1>1, <1>3, AppendElements
<1>5. TypeOK'
  BY <1>1, <1>4 DEF IInv, TypeOK
<1>6. ListInv'
  BY <1>1, <1>4 DEF IInv, ListInv, Registered
<1>7. LockInv' /\ WrittenInv' /\ OfferedInv' /\ WrittenInOrder' /\ SignalledWasOffered'
  BY <1>1, <1>2 DEF IInv, LockInv, WrittenInv, OfferedInv, WrittenInOrder, SignalledWasOffered
<1>8. QED
  BY <1>5, <1>6, <1>7 DEF IInv

LEMMA NextOutside ==
  ASSUME IInv,
         \/ \E l \in Levels : SetLogLevel(l)
         \/ \E t \in Threads : Return(t) \/ \E type \in Levels : AddLog(t, type)
         \/ UNCHANGED vars
  PROVE  IInv'
<1>1. /\ UNCHANGED <<logAdapterList, mutexLog, stamp, it, clock, written, registered, offered,
                     signalled, critical>>
      /\ logTypeLevel' \in Levels
      /\ \/ place' = place
         \/ \E t \in Threads : \E p \in {"idle", "lock"} : place' = [place EXCEPT ![t] = p]
  BY DEF SetLogLevel, AddLog, Return, vars, logVars, IInv, TypeOK
<1>2. \A u \in Threads : place'[u] \in {"adapters", "fire"} => place'[u] = place[u]
  BY <1>1 DEF IInv, TypeOK
<1>3. TypeOK'
  BY <1>1 DEF IInv, TypeOK
<1>4. LockInv' /\ ListInv' /\ WrittenInv' /\ WrittenInOrder' /\ SignalledWasOffered'
  BY <1>1, <1>2 DEF IInv, LockInv, ListInv, WrittenInv, WrittenInOrder, SignalledWasOffered
<1>5. OfferedInv'
  BY <1>1, <1>2 DEF IInv, OfferedInv, Registered
<1>6. QED
  BY <1>3, <1>4, <1>5 DEF IInv

LEMMA NextLock ==
  ASSUME IInv, NEW t \in Threads, Lock(t)
  PROVE  IInv'
<1>1. /\ clock' = clock + 1 /\ mutexLog' = t /\ clock \in Nat /\ clock' \in Stamps
      /\ stamp' = [stamp EXCEPT ![t] = clock'] /\ it' = [it EXCEPT ![t] = 1]
      /\ registered' = [registered EXCEPT ![clock'] = Registered]
      /\ place' = [place EXCEPT ![t] = "adapters"]
      /\ UNCHANGED <<logTypeLevel, logAdapterList, written, offered, signalled, critical>>
  BY LoggerAssumption DEF Lock, NextStamp, IInv, TypeOK, Stamps
<1>2. \A u \in Threads : place[u] # "adapters"
  BY NobodyHolds DEF Lock
<1>3. logAdapterList \in Seq(Adapters) /\ Len(logAdapterList) \in Nat
  BY DEF IInv, TypeOK
<1>4. Registered \subseteq Adapters /\ Registered' = Registered
  BY <1>1, <1>3 DEF Registered
<1>5. registered' \in [Stamps -> SUBSET Adapters]
  BY <1>1, <1>4 DEF IInv, TypeOK
<1>6. signalled' \subseteq 1 .. clock'
  BY <1>1 DEF IInv, TypeOK
<1>7. TypeOK'
  BY <1>1, <1>5, <1>6, LoggerAssumption DEF IInv, TypeOK, Stamps
<1>8. \A u \in Threads : /\ place'[u] = "adapters" => u = t
                         /\ place'[u] = "fire" => u # t /\ place[u] = "fire" /\ stamp'[u] = stamp[u]
  BY <1>1, <1>2 DEF IInv, TypeOK
<1>9. stamp'[t] = clock' /\ it'[t] = 1
  BY <1>1 DEF IInv, TypeOK
<1>10. LockInv'
  BY <1>1, <1>8, <1>9 DEF IInv, LockInv
<1>11. ListInv' /\ WrittenInOrder'
  BY <1>1 DEF IInv, ListInv, WrittenInOrder
<1>12. \A b \in Adapters : \A i \in 1 .. Len(written[b]) : written[b][i] < clock'
  <2>1. SUFFICES ASSUME NEW b \in Adapters, NEW i \in 1 .. Len(written[b]) PROVE written[b][i] < clock'
    OBVIOUS
  <2>2. written[b] \in Seq(Stamps) /\ written[b][i] <= clock
    BY DEF IInv, TypeOK, WrittenInv
  <2>3. written[b][i] \in Nat
    BY <2>2, LoggerAssumption DEF Stamps
  <2>4. QED
    BY <1>1, <2>2, <2>3
<1>13. \A n \in 1 .. Len(logAdapterList) : logAdapterList[n] \in Adapters
  BY <1>3
<1>14. WrittenInv'
  <2>1. \A b \in Adapters : \A i \in 1 .. Len(written[b]) : written[b][i] <= clock'
    <3>1. \A b \in Adapters : \A i \in 1 .. Len(written[b]) : written[b][i] <= clock
      BY DEF IInv, WrittenInv
    <3>2. \A b \in Adapters : \A i \in 1 .. Len(written[b]) : written[b][i] \in Nat
      BY LoggerAssumption DEF IInv, TypeOK, Stamps
    <3>3. QED
      BY <1>1, <3>1, <3>2
  <2>2. \A n \in 1 .. Len(logAdapterList) :
          \A i \in 1 .. Len(written[logAdapterList[n]]) : written[logAdapterList[n]][i] < clock'
    BY <1>12, <1>13
  <2>3. QED
    BY <1>1, <1>8, <1>9, <2>1, <2>2 DEF WrittenInv
<1>15. \A s \in 1 .. clock : registered'[s] = registered[s]
  BY <1>1 DEF IInv, TypeOK, Stamps
<1>16. registered'[clock'] = Registered
  BY <1>1 DEF IInv, TypeOK
<1>17. OfferedInv'
  BY <1>1, <1>4, <1>8, <1>9, <1>15, <1>16 DEF IInv, OfferedInv, LockInv
<1>18. SignalledWasOffered'
  BY <1>1, <1>15 DEF IInv, TypeOK, SignalledWasOffered
<1>19. QED
  BY <1>7, <1>10, <1>11, <1>14, <1>17, <1>18 DEF IInv

\* What the turn of one adapter does, whether it writes, fails or throws.
LEMMA Turn ==
  ASSUME IInv, NEW t \in Threads, InLoop(t)
  PROVE  /\ it[t] \in 1 .. Len(logAdapterList) /\ Current(t) \in Adapters
         /\ stamp[t] = clock /\ clock \in Stamps /\ clock \in Nat
         /\ \A u \in Threads : place[u] = "adapters" => u = t
<1>1. /\ it[t] \in Nat /\ it[t] >= 1 /\ logAdapterList \in Seq(Adapters)
      /\ stamp[t] = clock /\ clock \in Stamps /\ clock \in Nat /\ place[t] = "adapters"
  BY LoggerAssumption DEF InLoop, IInv, TypeOK, LockInv
<1>2. it[t] \in 1 .. Len(logAdapterList)
  BY <1>1 DEF InLoop
<1>3. Current(t) \in Adapters
  BY <1>1, <1>2 DEF Current
<1>4. QED
  BY <1>1, <1>2, <1>3, OneHolder

\* Offering keeps what is about offers, when the turn passes to the next adapter or to nobody.
LEMMA Offering ==
  ASSUME IInv, NEW t \in Threads, InLoop(t), Offer(t),
         UNCHANGED <<logAdapterList, stamp, registered, signalled>>,
         \/ place' = place /\ it' = [it EXCEPT ![t] = @ + 1]
         \/ place' = [place EXCEPT ![t] = "idle"] /\ it' = it
  PROVE  OfferedInv' /\ SignalledWasOffered' /\ offered' \in [Stamps -> SUBSET Adapters]
<1>1. /\ it[t] \in 1 .. Len(logAdapterList) /\ Current(t) \in Adapters
      /\ stamp[t] = clock /\ clock \in Stamps /\ clock \in Nat
      /\ \A u \in Threads : place[u] = "adapters" => u = t
  BY Turn
<1>2. offered' = [offered EXCEPT ![clock] = @ \cup {Current(t)}]
  BY <1>1 DEF Offer
<1>3. offered \in [Stamps -> SUBSET Adapters] /\ signalled \subseteq 1 .. clock
  BY DEF IInv, TypeOK
<1>4. offered' \in [Stamps -> SUBSET Adapters]
  BY <1>1, <1>2, <1>3
<1>5. \A s \in Stamps : offered[s] \subseteq offered'[s]
  BY <1>1, <1>2, <1>3
<1>6. Current(t) \in offered'[clock]
  BY <1>1, <1>2, <1>3
<1>7. 1 .. clock \subseteq Stamps
  BY <1>1, LoggerAssumption DEF Stamps
<1>8. SignalledWasOffered'
  BY <1>3, <1>5, <1>7 DEF IInv, SignalledWasOffered
<1>9. OfferedInv'
  <2>1. SUFFICES ASSUME NEW u \in Threads
        PROVE  /\ place'[u] = "adapters" =>
                    /\ registered'[stamp'[u]] = Registered'
                    /\ \A n \in 1 .. Len(logAdapterList)' :
                         n < it'[u] => logAdapterList'[n] \in offered'[stamp'[u]]
               /\ place'[u] = "fire" => registered'[stamp'[u]] \subseteq offered'[stamp'[u]]
    BY DEF OfferedInv
  <2>2. Registered' = Registered
    BY DEF Registered
  <2>3. CASE place'[u] = "fire"
    <3>1. place[u] = "fire"
      BY <2>3 DEF IInv, TypeOK
    <3>2. stamp[u] \in Stamps
      BY <1>7, <3>1 DEF IInv, LockInv
    <3>3. QED
      BY <1>5, <2>3, <3>1, <3>2 DEF IInv, OfferedInv
  <2>4. CASE place'[u] = "adapters"
    <3>1. u = t /\ place[u] = "adapters" /\ it'[t] = it[t] + 1
      BY <1>1, <2>4 DEF IInv, TypeOK, InLoop
    <3>2. registered[clock] = Registered
      BY <1>1, <3>1 DEF IInv, OfferedInv
    <3>3. ASSUME NEW n \in 1 .. Len(logAdapterList), n < it[t] + 1
          PROVE  logAdapterList[n] \in offered'[clock]
      <4>1. CASE n = it[t]
        BY <1>6, <4>1 DEF Current
      <4>2. CASE n < it[t]
        BY <1>1, <1>5, <3>1, <4>2 DEF IInv, OfferedInv
      <4>3. QED
        BY <1>1, <3>3, <4>1, <4>2
    <3>4. QED
      BY <1>1, <2>2, <2>4, <3>1, <3>2, <3>3
  <2>5. QED
    BY <2>3, <2>4
<1>10. QED
  BY <1>4, <1>8, <1>9

LEMMA NextWrites ==
  ASSUME IInv, NEW t \in Threads, AdapterWrites(t)
  PROVE  IInv'
<1>1. /\ it[t] \in 1 .. Len(logAdapterList) /\ Current(t) \in Adapters
      /\ stamp[t] = clock /\ clock \in Stamps /\ clock \in Nat
      /\ \A u \in Threads : place[u] = "adapters" => u = t
  BY Turn DEF AdapterWrites
<1>2. /\ written' = [written EXCEPT ![Current(t)] = Append(@, clock)]
      /\ it' = [it EXCEPT ![t] = @ + 1] /\ place[t] = "adapters"
      /\ UNCHANGED <<logTypeLevel, logAdapterList, mutexLog, place, stamp, clock, registered,
                     signalled, critical>>
  BY <1>1 DEF AdapterWrites, InLoop
<1>3. OfferedInv' /\ SignalledWasOffered' /\ offered' \in [Stamps -> SUBSET Adapters]
  BY <1>2, Offering DEF AdapterWrites
<1>4. written \in [Adapters -> Seq(Stamps)] /\ it \in [Threads -> Nat]
  BY DEF IInv, TypeOK
<1>5. PICK w \in Seq(Stamps) : w = written[Current(t)]
  BY <1>1, <1>4
<1>6. /\ Append(w, clock) \in Seq(Stamps) /\ Len(Append(w, clock)) = Len(w) + 1 /\ Len(w) \in Nat
      /\ \A i \in 1 .. Len(w) : Append(w, clock)[i] = w[i]
      /\ Append(w, clock)[Len(w) + 1] = clock
  BY <1>1, <1>5, AppendElements
<1>7. /\ written' \in [Adapters -> Seq(Stamps)]
      /\ written'[Current(t)] = Append(w, clock)
      /\ \A a \in Adapters : a # Current(t) => written'[a] = written[a]
  BY <1>1, <1>2, <1>4, <1>5, <1>6
<1>8. it' \in [Threads -> Nat] /\ it'[t] = it[t] + 1 /\ \A u \in Threads : u # t => it'[u] = it[u]
  BY <1>2, <1>4
<1>9. TypeOK'
  BY <1>2, <1>3, <1>7, <1>8 DEF IInv, TypeOK
<1>10. LockInv'
  BY <1>1, <1>2, <1>8 DEF IInv, LockInv
<1>11. ListInv'
  BY <1>2 DEF IInv, ListInv
<1>12. /\ \A i \in 1 .. Len(w) : w[i] < clock
       /\ \A i, j \in 1 .. Len(w) : i < j => w[i] < w[j]
  <2>1. it[t] \in it[t] .. Len(logAdapterList) /\ Current(t) = logAdapterList[it[t]]
    BY <1>1 DEF Current
  <2>2. \A i \in 1 .. Len(w) : w[i] < clock
    BY <1>2, <1>5, <2>1 DEF IInv, WrittenInv
  <2>3. \A i, j \in 1 .. Len(w) : i < j => w[i] < w[j]
    BY <1>1, <1>5 DEF IInv, WrittenInOrder
  <2>4. QED
    BY <2>2, <2>3
<1>13. WrittenInOrder'
  <2>1. SUFFICES ASSUME NEW a \in Adapters, NEW i \in 1 .. Len(written'[a]),
                        NEW j \in 1 .. Len(written'[a]), i < j
                 PROVE  written'[a][i] < written'[a][j]
    BY DEF WrittenInOrder
  <2>2. CASE a # Current(t)
    BY <1>7, <2>1, <2>2 DEF IInv, WrittenInOrder
  <2>3. CASE a = Current(t)
    <3>1. i \in 1 .. Len(w) /\ (j \in 1 .. Len(w) \/ j = Len(w) + 1)
      BY <1>6, <1>7, <2>1, <2>3
    <3>2. QED
      BY <1>6, <1>7, <1>12, <2>1, <2>3, <3>1
  <2>4. QED
    BY <2>2, <2>3
<1>14. WrittenInv'
  <2>1. ASSUME NEW a \in Adapters, NEW i \in 1 .. Len(written'[a])
        PROVE  written'[a][i] <= clock
    <3>1. CASE a # Current(t)
      BY <1>7, <2>1, <3>1 DEF IInv, WrittenInv
    <3>2. CASE a = Current(t)
      <4>1. i \in 1 .. Len(w) \/ i = Len(w) + 1
        BY <1>6, <1>7, <2>1, <3>2
      <4>2. \A k \in 1 .. Len(w) : w[k] <= clock
        BY <1>1, <1>5 DEF IInv, WrittenInv
      <4>3. QED
        BY <1>1, <1>6, <1>7, <3>2, <4>1, <4>2
    <3>3. QED
      BY <3>1, <3>2
  <2>2. ASSUME NEW n \in it[t] + 1 .. Len(logAdapterList),
               NEW i \in 1 .. Len(written'[logAdapterList[n]])
        PROVE  written'[logAdapterList[n]][i] < clock
    <3>1. n \in 1 .. Len(logAdapterList) /\ n \in it[t] .. Len(logAdapterList) /\ it[t] < n
      BY <1>1
    <3>2. logAdapterList[n] # Current(t)
      BY <1>1, <3>1 DEF IInv, ListInv, Current
    <3>3. logAdapterList[n] \in Adapters
      BY <3>1 DEF IInv, TypeOK
    <3>4. written'[logAdapterList[n]] = written[logAdapterList[n]]
      BY <1>7, <3>2, <3>3
    <3>5. QED
      BY <1>2, <2>2, <3>1, <3>4 DEF IInv, WrittenInv
  <2>3. QED
    BY <1>1, <1>2, <1>8, <2>1, <2>2 DEF WrittenInv
<1>15. QED
  BY <1>3, <1>9, <1>10, <1>11, <1>13, <1>14 DEF IInv

LEMMA NextFails ==
  ASSUME IInv, NEW t \in Threads, AdapterFails(t) \/ AdapterThrows(t)
  PROVE  IInv'
<1>1. InLoop(t) /\ Offer(t)
  BY DEF AdapterFails, AdapterThrows
<1>2. /\ \/ place' = place /\ it' = [it EXCEPT ![t] = @ + 1]
         \/ place' = [place EXCEPT ![t] = "idle"] /\ it' = it
      /\ UNCHANGED <<logTypeLevel, logAdapterList, mutexLog, stamp, clock, written, registered,
                     signalled>>
      /\ critical' \in BOOLEAN
  BY DEF AdapterFails, AdapterThrows, NextAdapter, IInv, TypeOK
<1>3. OfferedInv' /\ SignalledWasOffered' /\ offered' \in [Stamps -> SUBSET Adapters]
  BY <1>1, <1>2, Offering
<1>4. it \in [Threads -> Nat] /\ it[t] \in 1 .. Len(logAdapterList)
  BY <1>1, Turn DEF IInv, TypeOK
<1>5. it' \in [Threads -> Nat] /\ \A u \in Threads : it'[u] = it[u] \/ it'[u] = it[u] + 1
  BY <1>2, <1>4
<1>6. place' \in [Threads -> {"idle", "lock", "adapters", "fire", "subscriber"}]
      /\ \A u \in Threads : place'[u] \in {"adapters", "fire"} => place'[u] = place[u]
  BY <1>2 DEF IInv, TypeOK
<1>7. TypeOK'
  BY <1>2, <1>3, <1>5, <1>6 DEF IInv, TypeOK
<1>8. LockInv'
  BY <1>2, <1>4, <1>5, <1>6 DEF IInv, LockInv
<1>9. ListInv' /\ WrittenInOrder'
  BY <1>2 DEF IInv, ListInv, WrittenInOrder
<1>10. \A u \in Threads : it'[u] .. Len(logAdapterList) \subseteq it[u] .. Len(logAdapterList)
  BY <1>4, <1>5
<1>11. WrittenInv'
  BY <1>2, <1>6, <1>10 DEF IInv, WrittenInv
<1>12. QED
  BY <1>3, <1>7, <1>8, <1>9, <1>11 DEF IInv

LEMMA NextUnlocked ==
  ASSUME IInv, NEW t \in Threads, Unlock(t) \/ FireSigLog(t)
  PROVE  IInv'
<1>1. /\ UNCHANGED <<logTypeLevel, logAdapterList, stamp, it, clock, written, registered, offered,
                     critical>>
      /\ \E p \in {"fire", "subscriber"} : place' = [place EXCEPT ![t] = p]
  BY DEF Unlock, FireSigLog, logVars
<1>2. \A u \in Threads : u # t => place'[u] = place[u]
  BY <1>1 DEF IInv, TypeOK
<1>3. place'[t] = "subscriber" \/ (Unlock(t) /\ place'[t] = "fire")
  BY <1>1 DEF Unlock, FireSigLog, IInv, TypeOK
<1>4. \A u \in Threads : u # t /\ place[u] = "adapters" => mutexLog' = u
  BY DEF Unlock, FireSigLog, IInv, LockInv
<1>5. stamp[t] \in 1 .. clock /\ clock \in Nat
  BY LoggerAssumption DEF Unlock, FireSigLog, IInv, TypeOK, LockInv, Stamps
<1>6. registered[stamp[t]] \subseteq offered[stamp[t]]
  <2>1. CASE Unlock(t)
    <3>1. /\ registered[stamp[t]] = Registered /\ it[t] > Len(logAdapterList)
          /\ \A n \in 1 .. Len(logAdapterList) : n < it[t] => logAdapterList[n] \in offered[stamp[t]]
      BY <2>1 DEF Unlock, IInv, OfferedInv
    <3>2. it[t] \in Nat /\ Len(logAdapterList) \in Nat
      BY DEF IInv, TypeOK
    <3>3. QED
      BY <3>1, <3>2 DEF Registered
  <2>2. CASE FireSigLog(t)
    BY <2>2 DEF FireSigLog, IInv, OfferedInv
  <2>3. QED
    BY <2>1, <2>2
<1>7. mutexLog' \in Threads \cup {Free}
  BY DEF Unlock, Unlocked, FireSigLog, IInv, TypeOK
<1>8. signalled' = signalled \/ signalled' = signalled \cup {stamp[t]}
  BY DEF Unlock, FireSigLog, logVars
<1>9. TypeOK'
  BY <1>1, <1>5, <1>7, <1>8 DEF IInv, TypeOK
<1>10. LockInv'
  BY <1>1, <1>2, <1>3, <1>4, <1>5 DEF IInv, LockInv
<1>11. ListInv' /\ WrittenInOrder'
  BY <1>1 DEF IInv, ListInv, WrittenInOrder
<1>12. WrittenInv'
  BY <1>1, <1>2, <1>3 DEF IInv, WrittenInv
<1>13. OfferedInv'
  <2>1. Registered' = Registered
    BY <1>1 DEF Registered
  <2>2. \A u \in Threads : u # t => place'[u] = place[u]
    BY <1>2
  <2>3. QED
    BY <1>1, <1>3, <1>6, <2>1, <2>2 DEF IInv, OfferedInv
<1>14. SignalledWasOffered'
  BY <1>1, <1>6, <1>8 DEF IInv, SignalledWasOffered
<1>15. QED
  BY <1>9, <1>10, <1>11, <1>12, <1>13, <1>14 DEF IInv

LEMMA Inductive == IInv /\ [Next]_vars => IInv'
BY NextRegister, NextOutside, NextLock, NextWrites, NextFails, NextUnlocked DEF Next, InAddLog

LEMMA AlwaysIInv == Spec => []IInv
BY InitInv, Inductive, PTL DEF Spec

-----------------------------------------------------------------------------
\* The mutex, the list and the records keep their types.
THEOREM TypeCorrect == Spec => []TypeOK
<1>1. IInv => TypeOK
  BY DEF IInv
<1>2. QED
  BY <1>1, AlwaysIInv, PTL

\* Under any number of threads that log, nested in subscribers or not, every adapter has the
\* records in the order of their time stamps, each at most once.
THEOREM InOrder == Spec => []WrittenInOrder
<1>1. IInv => WrittenInOrder
  BY DEF IInv
<1>2. QED
  BY <1>1, AlwaysIInv, PTL

\* sigLog tells of a record only after every adapter registered at its stamp has had it,
\* though adapters are registered, fail and throw meanwhile.
THEOREM SignalledAfterOffers == Spec => []SignalledWasOffered
<1>1. IInv => SignalledWasOffered
  BY DEF IInv
<1>2. QED
  BY <1>1, AlwaysIInv, PTL
=============================================================================
