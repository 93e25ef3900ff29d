--------------------------- MODULE SignalsProofs ---------------------------
(***************************************************************************)
(* Theorems about Signals, for every set of connections, of firing and of  *)
(* disconnecting threads and every bound.                                  *)
(***************************************************************************)
EXTENDS Signals, FiniteSetTheorems, TLAPS

\* Typing, strengthened so that it is inductive: what a firing thread calls is counted.
TypeInv == TypeOK /\ RunningCountsCalls

\* The connections a disconnecting thread is through with stay disconnected.
BrokenInv ==
  \A b \in Breakers :
    /\ group[b] \subseteq made /\ waiting[b] \cap todo[b] = {}
    /\ break[b] \in {"idle", "unwaited", "waited"} => todo[b] = {} /\ waiting[b] = {}
    /\ break[b] \in {"all", "each", "waited"} => (group[b] \ todo[b]) \cap connected = {}

\* No callback runs on a connection a disconnecting thread has waited for.
QuietInv ==
  \A b \in Breakers, f \in Firers :
    /\ break[b] \in {"all", "each", "waited"}
    /\ calling[f] \in (group[b] \ todo[b]) \ waiting[b]
    => fire[f] \notin {"trigger", "callback"}

\* Taking away an element makes a set smaller by one: the calls of a connection, when one of
\* them ends.
LEMMA OneLess ==
  ASSUME NEW S, NEW T, NEW x, IsFiniteSet(S), x \in S, T = S \ {x}
  PROVE  Cardinality(T) = Cardinality(S) - 1
BY FS_RemoveElement

-----------------------------------------------------------------------------
\* The calls of a connection are finitely many.
LEMMA CallsFinite == \A c \in Connections : IsFiniteSet(CallsOf(c)) /\ Cardinality(CallsOf(c)) \in Nat
<1> SUFFICES ASSUME NEW c \in Connections PROVE IsFiniteSet(CallsOf(c)) /\ Cardinality(CallsOf(c)) \in Nat
  OBVIOUS
<1>1. CallsOf(c) \in SUBSET Firers
  BY DEF CallsOf
<1>2. IsFiniteSet(Firers)
  BY SignalsAssumption
<1>3. QED
  BY <1>1, <1>2, FS_Subset, FS_CardinalityType

\* The counter stays right when the counted calls stay the same, gain or lose one.
LEMMA SameCalls ==
  ASSUME RunningCountsCalls, UNCHANGED <<running, throws>>,
         \A c \in Connections : CallsOf(c)' = CallsOf(c)
  PROVE  RunningCountsCalls'
BY DEF RunningCountsCalls

LEMMA NoCalls == \A c \in Connections : Cardinality(CallsOf(c)) <= 0 => CallsOf(c) = {}
<1> SUFFICES ASSUME NEW c \in Connections, Cardinality(CallsOf(c)) <= 0 PROVE CallsOf(c) = {}
  OBVIOUS
<1>1. IsFiniteSet(CallsOf(c)) /\ Cardinality(CallsOf(c)) \in Nat
  BY CallsFinite
<1>2. Cardinality(CallsOf(c)) = 0
  BY <1>1
<1>3. QED
  BY <1>1, <1>2, FS_EmptySet

-----------------------------------------------------------------------------
LEMMA InitTypeInv == Init => TypeInv
<1> SUFFICES ASSUME Init PROVE TypeInv
  OBVIOUS
<1>1. TypeOK
  BY SignalsAssumption DEF Init, TypeOK
<1>2. ASSUME NEW c \in Connections PROVE running[c] = 0 /\ Cardinality(CallsOf(c)) = 0
  <2>1. CallsOf(c) = {}
    BY DEF Init, CallsOf, Counted
  <2>2. QED
    BY <2>1, FS_EmptySet DEF Init
<1>3. QED
  BY <1>1, <1>2 DEF TypeInv, RunningCountsCalls

LEMMA NextTypeOK == TypeOK /\ RunningCountsCalls /\ [Next]_vars => TypeOK'
<1> SUFFICES ASSUME TypeOK, RunningCountsCalls, [Next]_vars PROVE TypeOK'
  OBVIOUS
<1> USE SignalsAssumption DEF TypeOK, firerVars, breakerVars
<1>1. ASSUME NEW c \in Connections, Connect(c) PROVE TypeOK'
  BY <1>1 DEF Connect
<1>2. ASSUME NEW f \in Firers, Firer(f) PROVE TypeOK'
  <2>1. CASE Fire(f)
    BY <2>1 DEF Fire
  <2>2. CASE CallTest(f)
    BY <2>2 DEF CallTest
  <2>3. CASE CallEnter(f)
    BY <2>3 DEF CallEnter
  <2>4. CASE CallRetest(f)
    BY <2>4 DEF CallRetest, StillConnected
  <2>5. CASE CallTrigger(f)
    BY <2>5 DEF CallTrigger
  <2>6. CASE CallbackReturns(f)
    BY <2>6 DEF CallbackReturns
  <2>7. CASE CallbackThrows(f)
    BY <2>7 DEF CallbackThrows
  <2>8. CASE CallLeave(f)
    <3>1. f \in CallsOf(calling[f])
      BY <2>8 DEF CallLeave, CallsOf, Counted
    <3>2. running[calling[f]] \in Nat /\ running[calling[f]] >= 1
      <4>1. CallsOf(calling[f]) # {}
        BY <3>1
      <4>2. Cardinality(CallsOf(calling[f])) \in Nat /\ ~(Cardinality(CallsOf(calling[f])) <= 0)
        BY <4>1, NoCalls, CallsFinite
      <4>3. QED
        BY <4>2 DEF RunningCountsCalls
    <3>3. running[calling[f]] - 1 \in Nat
      BY <3>2
    <3>4. QED
      BY <2>8, <3>3 DEF CallLeave, Left
  <2>9. CASE Fired(f)
    BY <2>9 DEF Fired
  <2>10. QED
    BY <1>2, <2>1, <2>2, <2>3, <2>4, <2>5, <2>6, <2>7, <2>8, <2>9 DEF Firer
<1>3. ASSUME NEW b \in Breakers, Breaker(b) PROVE TypeOK'
  <2>1. CASE DisconnectOnly(b)
    BY <2>1 DEF DisconnectOnly
  <2>2. CASE DisconnectGroup(b)
    BY <2>2 DEF DisconnectGroup
  <2>3. CASE DisconnectSignal(b)
    BY <2>3 DEF DisconnectSignal
  <2>4. CASE BreakOne(b)
    BY <2>4 DEF BreakOne, Disconnecting
  <2>5. CASE WaitOne(b)
    BY <2>5 DEF WaitOne, Disconnecting, Quiet
  <2>6. CASE Disconnected(b)
    BY <2>6 DEF Disconnected, Disconnecting
  <2>7. QED
    BY <1>3, <2>1, <2>2, <2>3, <2>4, <2>5, <2>6 DEF Breaker
<1>4. CASE UNCHANGED vars
  BY <1>4 DEF vars
<1>5. QED
  BY <1>1, <1>2, <1>3, <1>4 DEF Next

LEMMA NextCounts == TypeOK /\ RunningCountsCalls /\ [Next]_vars => RunningCountsCalls'
<1> SUFFICES ASSUME TypeOK, RunningCountsCalls, [Next]_vars PROVE RunningCountsCalls'
  OBVIOUS
<1> USE SignalsAssumption DEF TypeOK, firerVars, breakerVars
<1>1. ASSUME NEW c \in Connections, Connect(c) PROVE RunningCountsCalls'
  <2>1. ASSUME NEW d \in Connections PROVE CallsOf(d)' = CallsOf(d)
    BY <1>1 DEF Connect, CallsOf, Counted
  <2>2. QED
    BY <1>1, <2>1, SameCalls DEF Connect
<1>2. ASSUME NEW f \in Firers, Firer(f) PROVE RunningCountsCalls'
  <2>1. CASE Fire(f)
    <3>1. ASSUME NEW c \in Connections PROVE CallsOf(c)' = CallsOf(c)
      BY <2>1 DEF Fire, CallsOf, Counted
    <3>2. QED
      BY <2>1, <3>1, SameCalls DEF Fire
  <2>2. CASE CallTest(f)
    <3>1. ASSUME NEW c \in Connections PROVE CallsOf(c)' = CallsOf(c)
      BY <2>2 DEF CallTest, CallsOf, Counted
    <3>2. QED
      BY <2>2, <3>1, SameCalls DEF CallTest
  <2>3. CASE CallEnter(f)
    <3> PICK c \in Connections : c = calling[f]
      OBVIOUS
    <3>1. CallsOf(c)' = CallsOf(c) \cup {f} /\ f \notin CallsOf(c)
      BY <2>3 DEF CallEnter, CallsOf, Counted
    <3>2. \A d \in Connections \ {c} : CallsOf(d)' = CallsOf(d) /\ running'[d] = running[d]
      BY <2>3 DEF CallEnter, CallsOf, Counted
    <3>3. Cardinality(CallsOf(c)') = Cardinality(CallsOf(c)) + 1
      BY <3>1, CallsFinite, FS_AddElement, ZenonT(30)
    <3>4. running'[c] = running[c] + 1 /\ throws' = throws
      BY <2>3 DEF CallEnter
    <3>5. running[c] >= Cardinality(CallsOf(c)) /\ (throws = 0 => running[c] = Cardinality(CallsOf(c)))
      BY DEF RunningCountsCalls
    <3>6. running[c] \in Nat /\ Cardinality(CallsOf(c)) \in Nat
      BY CallsFinite
    <3>7. running'[c] >= Cardinality(CallsOf(c)') /\ (throws' = 0 => running'[c] = Cardinality(CallsOf(c)'))
      BY <3>3, <3>4, <3>5, <3>6
    <3>8. QED
      BY <3>2, <3>4, <3>7 DEF RunningCountsCalls
  <2>4. CASE CallRetest(f)
    <3>1. ASSUME NEW c \in Connections PROVE CallsOf(c)' = CallsOf(c)
      BY <2>4 DEF CallRetest, StillConnected, CallsOf, Counted
    <3>2. QED
      BY <2>4, <3>1, SameCalls DEF CallRetest, StillConnected
  <2>5. CASE CallTrigger(f)
    <3>1. ASSUME NEW c \in Connections PROVE CallsOf(c)' = CallsOf(c)
      BY <2>5 DEF CallTrigger, CallsOf, Counted
    <3>2. QED
      BY <2>5, <3>1, SameCalls DEF CallTrigger
  <2>6. CASE CallbackReturns(f)
    <3>1. ASSUME NEW c \in Connections PROVE CallsOf(c)' = CallsOf(c)
      BY <2>6 DEF CallbackReturns, CallsOf, Counted
    <3>2. QED
      BY <2>6, <3>1, SameCalls DEF CallbackReturns
  <2>7. CASE CallbackThrows(f)
    <3> PICK c \in Connections : c = calling[f]
      OBVIOUS
    <3>1. CallsOf(c)' = CallsOf(c) \ {f} /\ f \in CallsOf(c)
      BY <2>7 DEF CallbackThrows, CallsOf, Counted
    <3>2. \A d \in Connections \ {c} : CallsOf(d)' = CallsOf(d)
      BY <2>7 DEF CallbackThrows, CallsOf, Counted
    <3>3. Cardinality(CallsOf(c)') = Cardinality(CallsOf(c)) - 1
      <4>1. IsFiniteSet(CallsOf(c))
        BY CallsFinite
      <4>2. QED
        BY <3>1, <4>1, OneLess
    <3>4. running' = running /\ throws' # 0
      BY <2>7 DEF CallbackThrows
    <3>5. \A d \in Connections : running[d] >= Cardinality(CallsOf(d))
      BY DEF RunningCountsCalls
    <3>6. running[c] \in Nat /\ Cardinality(CallsOf(c)) \in Nat
      BY CallsFinite
    <3>7. running[c] >= Cardinality(CallsOf(c)')
      BY <3>3, <3>5, <3>6
    <3>8. QED
      BY <3>2, <3>4, <3>5, <3>7 DEF RunningCountsCalls
  <2>8. CASE CallLeave(f)
    <3> PICK c \in Connections : c = calling[f]
      OBVIOUS
    <3>1. CallsOf(c)' = CallsOf(c) \ {f} /\ f \in CallsOf(c)
      BY <2>8 DEF CallLeave, CallsOf, Counted
    <3>2. \A d \in Connections \ {c} : CallsOf(d)' = CallsOf(d) /\ running'[d] = running[d]
      BY <2>8 DEF CallLeave, Left, CallsOf, Counted
    <3>3. Cardinality(CallsOf(c)') = Cardinality(CallsOf(c)) - 1
      <4>1. IsFiniteSet(CallsOf(c))
        BY CallsFinite
      <4>2. QED
        BY <3>1, <4>1, OneLess
    <3>4. running'[c] = running[c] - 1 /\ throws' = throws
      BY <2>8 DEF CallLeave, Left
    <3>5. running[c] >= Cardinality(CallsOf(c)) /\ (throws = 0 => running[c] = Cardinality(CallsOf(c)))
      BY DEF RunningCountsCalls
    <3>6. running[c] \in Nat /\ Cardinality(CallsOf(c)) \in Nat
      BY CallsFinite
    <3>7. running'[c] >= Cardinality(CallsOf(c)') /\ (throws' = 0 => running'[c] = Cardinality(CallsOf(c)'))
      BY <3>3, <3>4, <3>5, <3>6
    <3>8. QED
      BY <3>2, <3>4, <3>7 DEF RunningCountsCalls
  <2>9. CASE Fired(f)
    <3>1. ASSUME NEW c \in Connections PROVE CallsOf(c)' = CallsOf(c)
      BY <2>9 DEF Fired, CallsOf, Counted
    <3>2. QED
      BY <2>9, <3>1, SameCalls DEF Fired
  <2>10. QED
    BY <1>2, <2>1, <2>2, <2>3, <2>4, <2>5, <2>6, <2>7, <2>8, <2>9 DEF Firer
<1>3. ASSUME NEW b \in Breakers, Breaker(b) PROVE RunningCountsCalls'
  <2>1. CASE DisconnectOnly(b)
    <3>1. ASSUME NEW c \in Connections PROVE CallsOf(c)' = CallsOf(c)
      BY <2>1 DEF DisconnectOnly, CallsOf, Counted
    <3>2. QED
      BY <2>1, <3>1, SameCalls DEF DisconnectOnly
  <2>2. CASE DisconnectGroup(b)
    <3>1. ASSUME NEW c \in Connections PROVE CallsOf(c)' = CallsOf(c)
      BY <2>2 DEF DisconnectGroup, CallsOf, Counted
    <3>2. QED
      BY <2>2, <3>1, SameCalls DEF DisconnectGroup
  <2>3. CASE DisconnectSignal(b)
    <3>1. ASSUME NEW c \in Connections PROVE CallsOf(c)' = CallsOf(c)
      BY <2>3 DEF DisconnectSignal, CallsOf, Counted
    <3>2. QED
      BY <2>3, <3>1, SameCalls DEF DisconnectSignal
  <2>4. CASE BreakOne(b)
    <3>1. ASSUME NEW c \in Connections PROVE CallsOf(c)' = CallsOf(c)
      BY <2>4 DEF BreakOne, Disconnecting, CallsOf, Counted
    <3>2. QED
      BY <2>4, <3>1, SameCalls DEF BreakOne, Disconnecting
  <2>5. CASE WaitOne(b)
    <3>1. ASSUME NEW c \in Connections PROVE CallsOf(c)' = CallsOf(c)
      BY <2>5 DEF WaitOne, Disconnecting, Quiet, CallsOf, Counted
    <3>2. QED
      BY <2>5, <3>1, SameCalls DEF WaitOne, Disconnecting, Quiet
  <2>6. CASE Disconnected(b)
    <3>1. ASSUME NEW c \in Connections PROVE CallsOf(c)' = CallsOf(c)
      BY <2>6 DEF Disconnected, Disconnecting, CallsOf, Counted
    <3>2. QED
      BY <2>6, <3>1, SameCalls DEF Disconnected, Disconnecting
  <2>7. QED
    BY <1>3, <2>1, <2>2, <2>3, <2>4, <2>5, <2>6 DEF Breaker
<1>4. CASE UNCHANGED vars
  <2>1. ASSUME NEW c \in Connections PROVE CallsOf(c)' = CallsOf(c)
    BY <1>4 DEF vars, CallsOf, Counted
  <2>2. QED
    BY <1>4, <2>1, SameCalls DEF vars
<1>5. QED
  BY <1>1, <1>2, <1>3, <1>4 DEF Next

-----------------------------------------------------------------------------
LEMMA InitQuiet == Init => BrokenInv /\ QuietInv
BY DEF Init, BrokenInv, QuietInv

LEMMA NextBroken == TypeOK /\ BrokenInv /\ [Next]_vars => BrokenInv'
<1> SUFFICES ASSUME TypeOK, BrokenInv, [Next]_vars PROVE BrokenInv'
  OBVIOUS
<1> USE DEF TypeOK, BrokenInv, firerVars, breakerVars
<1>1. ASSUME NEW c \in Connections, Connect(c) PROVE BrokenInv'
  BY <1>1 DEF Connect
<1>2. ASSUME NEW f \in Firers, Firer(f) PROVE BrokenInv'
  <2>1. CASE Fire(f)
    BY <2>1 DEF Fire
  <2>2. CASE CallTest(f)
    BY <2>2 DEF CallTest
  <2>3. CASE CallEnter(f)
    BY <2>3 DEF CallEnter
  <2>4. CASE CallRetest(f)
    BY <2>4 DEF CallRetest, StillConnected
  <2>5. CASE CallTrigger(f)
    BY <2>5 DEF CallTrigger
  <2>6. CASE CallbackReturns(f)
    BY <2>6 DEF CallbackReturns
  <2>7. CASE CallbackThrows(f)
    BY <2>7 DEF CallbackThrows
  <2>8. CASE CallLeave(f)
    BY <2>8 DEF CallLeave, Left
  <2>9. CASE Fired(f)
    BY <2>9 DEF Fired
  <2>10. QED
    BY <1>2, <2>1, <2>2, <2>3, <2>4, <2>5, <2>6, <2>7, <2>8, <2>9 DEF Firer
<1>3. ASSUME NEW b \in Breakers, Breaker(b) PROVE BrokenInv'
  <2>1. CASE DisconnectOnly(b)
    BY <2>1 DEF DisconnectOnly
  <2>2. CASE DisconnectGroup(b)
    BY <2>2 DEF DisconnectGroup
  <2>3. CASE DisconnectSignal(b)
    BY <2>3 DEF DisconnectSignal
  <2>4. CASE BreakOne(b)
    BY <2>4 DEF BreakOne, Disconnecting
  <2>5. CASE WaitOne(b)
    BY <2>5 DEF WaitOne, Disconnecting, Quiet
  <2>6. CASE Disconnected(b)
    BY <2>6 DEF Disconnected, Disconnecting
  <2>7. QED
    BY <1>3, <2>1, <2>2, <2>3, <2>4, <2>5, <2>6 DEF Breaker
<1>4. CASE UNCHANGED vars
  BY <1>4 DEF vars
<1>5. QED
  BY <1>1, <1>2, <1>3, <1>4 DEF Next

LEMMA NextQuiet ==
  TypeOK /\ RunningCountsCalls /\ BrokenInv /\ QuietInv /\ [Next]_vars => QuietInv'
<1> SUFFICES ASSUME TypeOK, RunningCountsCalls, BrokenInv, QuietInv, [Next]_vars PROVE QuietInv'
  OBVIOUS
<1> USE DEF TypeOK, QuietInv, firerVars, breakerVars
<1>1. ASSUME NEW c \in Connections, Connect(c) PROVE QuietInv'
  BY <1>1 DEF Connect
<1>2. ASSUME NEW f \in Firers, Firer(f) PROVE QuietInv'
  <2>1. CASE Fire(f)
    BY <2>1 DEF Fire
  <2>2. CASE CallTest(f)
    BY <2>2 DEF CallTest
  <2>3. CASE CallEnter(f)
    BY <2>3 DEF CallEnter
  <2>4. CASE CallRetest(f)
    BY <2>4 DEF CallRetest, StillConnected, BrokenInv
  <2>5. CASE CallTrigger(f)
    BY <2>5 DEF CallTrigger
  <2>6. CASE CallbackReturns(f)
    BY <2>6 DEF CallbackReturns
  <2>7. CASE CallbackThrows(f)
    BY <2>7 DEF CallbackThrows
  <2>8. CASE CallLeave(f)
    BY <2>8 DEF CallLeave, Left
  <2>9. CASE Fired(f)
    BY <2>9 DEF Fired
  <2>10. QED
    BY <1>2, <2>1, <2>2, <2>3, <2>4, <2>5, <2>6, <2>7, <2>8, <2>9 DEF Firer
<1>3. ASSUME NEW b \in Breakers, Breaker(b) PROVE QuietInv'
  <2>1. CASE DisconnectOnly(b)
    BY <2>1 DEF DisconnectOnly
  <2>2. CASE DisconnectGroup(b)
    BY <2>2 DEF DisconnectGroup
  <2>3. CASE DisconnectSignal(b)
    BY <2>3 DEF DisconnectSignal
  <2>4. CASE BreakOne(b)
    BY <2>4 DEF BreakOne, Disconnecting
  <2>5. CASE WaitOne(b)
    <3>1. PICK c \in waiting[b] : Quiet(c) /\ waiting' = [waiting EXCEPT ![b] = @ \ {c}]
      BY <2>5 DEF WaitOne
    <3>2. running[c] \in Nat /\ running[c] <= 0 /\ c \in Connections
      BY <3>1 DEF Quiet
    <3>3. Cardinality(CallsOf(c)) <= 0
      BY <3>2, CallsFinite DEF RunningCountsCalls
    <3>4. \A f \in Firers : calling[f] = c => fire[f] \notin {"trigger", "callback"}
      BY <3>2, <3>3, NoCalls DEF CallsOf, Counted
    <3>5. QED
      BY <2>5, <3>1, <3>4 DEF WaitOne
  <2>6. CASE Disconnected(b)
    BY <2>6 DEF Disconnected, Disconnecting
  <2>7. QED
    BY <1>3, <2>1, <2>2, <2>3, <2>4, <2>5, <2>6 DEF Breaker
<1>4. CASE UNCHANGED vars
  BY <1>4 DEF vars
<1>5. QED
  BY <1>1, <1>2, <1>3, <1>4 DEF Next

-----------------------------------------------------------------------------
LEMMA Inductive == Spec => [](TypeInv /\ BrokenInv /\ QuietInv)
<1>1. Init => TypeInv /\ BrokenInv /\ QuietInv
  BY InitTypeInv, InitQuiet
<1>2. TypeInv /\ BrokenInv /\ QuietInv /\ [Next]_vars => (TypeInv /\ BrokenInv /\ QuietInv)'
  BY NextTypeOK, NextCounts, NextBroken, NextQuiet DEF TypeInv
<1>3. QED
  BY <1>1, <1>2, PTL DEF Spec

\* Every reachable state is well typed.
THEOREM TypeCorrect == Spec => []TypeOK
<1>1. TypeInv => TypeOK
  BY DEF TypeInv
<1>2. QED
  BY <1>1, Inductive, PTL

\* The counter a disconnecting thread polls bounds the calls there are, and is exact
\* without throwing callbacks.
THEOREM CounterBoundsCalls == Spec => []RunningCountsCalls
<1>1. TypeInv => RunningCountsCalls
  BY DEF TypeInv
<1>2. QED
  BY <1>1, Inductive, PTL

\* When a waiting disconnect has returned, none of its callbacks runs or will run.
THEOREM WaitedIsQuiet == Spec => []DisconnectedIsQuiet
<1>1. TypeInv /\ BrokenInv /\ QuietInv => DisconnectedIsQuiet
  BY DEF TypeInv, TypeOK, BrokenInv, QuietInv, DisconnectedIsQuiet
<1>2. QED
  BY <1>1, Inductive, PTL
=============================================================================
