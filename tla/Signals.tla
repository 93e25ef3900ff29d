------------------------------- MODULE Signals -------------------------------
(***************************************************************************)
(* The signals the components talk through: signal::connect and fire,      *)
(* connection::call and disconnect, connections::disconnect_all, and the   *)
(* destruction of a signal.  Firing threads run callbacks while other      *)
(* threads connect and disconnect; there is no lock around a call, only    *)
(* the two atomics of connection::data.                                    *)
(*                                                                         *)
(* Firers    threads that fire the signal                                  *)
(* Breakers  threads that disconnect: one connection (disconnect), the     *)
(*           tracked ones (connections::disconnect_all) or, as the         *)
(*           signal's destructor does, all targets of the signal           *)
(***************************************************************************)
EXTENDS Integers, FiniteSets

CONSTANTS
  Connections,  \* the connections that may be made
  Firers,       \* the threads that fire the signal
  Breakers,     \* the threads that disconnect
  MaxThrows     \* bound: how many callbacks throw an exception

ASSUME SignalsAssumption ==
  /\ MaxThrows \in Nat
  /\ IsFiniteSet(Firers)

VARIABLES
  made,       \* the connections made so far
  targets,    \* what m_targets of the signal points to
  connected,  \* connection::data::connected, as the set where it holds
  running,    \* connection::data::running
  fire,       \* where every firing thread is
  pending,    \* the targets of its copy of m_targets it has not called yet
  calling,    \* the connection it calls
  break,      \* where every disconnecting thread is
  group,      \* the connections a disconnecting thread works on
  todo,       \* of these, the ones it has still to disconnect
  waiting,    \* and the disconnected ones it has still to wait for
  throws      \* how many callbacks have thrown

firerVars == <<fire, pending, calling>>
breakerVars == <<break, group, todo, waiting>>
vars == <<made, targets, connected, running, firerVars, breakerVars, throws>>

-----------------------------------------------------------------------------
\* signal::connect: copy on write under m_write_targets_mutex.
Connect(c) ==
  /\ c \notin made
  /\ made' = made \cup {c}
  /\ targets' = targets \cup {c}
  /\ connected' = connected \cup {c}
  /\ UNCHANGED <<running, firerVars, breakerVars, throws>>

\* signal::fire: work on the targets the signal has now.  The code copies m_targets without the
\* mutex of its writers; here that is one atomic read.
Fire(f) ==
  /\ fire[f] = "idle"
  /\ pending' = [pending EXCEPT ![f] = targets]
  /\ fire' = [fire EXCEPT ![f] = "next"]
  /\ UNCHANGED <<made, targets, connected, running, calling, breakerVars, throws>>

\* connection::call, the first test of connected ...
CallTest(f) ==
  /\ fire[f] = "next"
  /\ \E c \in pending[f] :
       /\ pending' = [pending EXCEPT ![f] = @ \ {c}]
       /\ calling' = [calling EXCEPT ![f] = c]
       /\ fire' = [fire EXCEPT ![f] = IF c \in connected THEN "enter" ELSE "next"]
  /\ UNCHANGED <<made, targets, connected, running, breakerVars, throws>>

\* ... ++running ...
CallEnter(f) ==
  /\ fire[f] = "enter"
  /\ running' = [running EXCEPT ![calling[f]] = @ + 1]
  /\ fire' = [fire EXCEPT ![f] = "retest"]
  /\ UNCHANGED <<made, targets, connected, pending, calling, breakerVars, throws>>

\* ... the second test ...
StillConnected(c) == c \in connected
CallRetest(f) ==
  /\ fire[f] = "retest"
  /\ fire' = [fire EXCEPT ![f] = IF StillConnected(calling[f]) THEN "trigger" ELSE "leave"]
  /\ UNCHANGED <<made, targets, connected, running, pending, calling, breakerVars, throws>>

\* ... cb() is entered ...
CallTrigger(f) ==
  /\ fire[f] = "trigger"
  /\ fire' = [fire EXCEPT ![f] = "callback"]
  /\ UNCHANGED <<made, targets, connected, running, pending, calling, breakerVars, throws>>

\* ... and returns ...
CallbackReturns(f) ==
  /\ fire[f] = "callback"
  /\ fire' = [fire EXCEPT ![f] = "leave"]
  /\ UNCHANGED <<made, targets, connected, running, pending, calling, breakerVars, throws>>

\* ... or throws: the exception leaves call and fire, --running is skipped ...
CallbackThrows(f) ==
  /\ fire[f] = "callback"
  /\ throws < MaxThrows
  /\ throws' = throws + 1
  /\ fire' = [fire EXCEPT ![f] = "idle"]
  /\ pending' = [pending EXCEPT ![f] = {}]
  /\ UNCHANGED <<made, targets, connected, running, calling, breakerVars>>

\* ... --running.
LeaveUncounted(c) == running
Left(c) == [running EXCEPT ![c] = @ - 1]
CallLeave(f) ==
  /\ fire[f] = "leave"
  /\ running' = Left(calling[f])
  /\ fire' = [fire EXCEPT ![f] = "next"]
  /\ UNCHANGED <<made, targets, connected, pending, calling, breakerVars, throws>>

Fired(f) ==
  /\ fire[f] = "next"
  /\ pending[f] = {}
  /\ fire' = [fire EXCEPT ![f] = "idle"]
  /\ UNCHANGED <<made, targets, connected, running, pending, calling, breakerVars, throws>>

-----------------------------------------------------------------------------
\* connection::disconnect(false): no wait; it returns at once.
DisconnectOnly(b) ==
  /\ break[b] = "idle"
  /\ \E c \in made :
       /\ connected' = connected \ {c}
       /\ group' = [group EXCEPT ![b] = {c}]
  /\ break' = [break EXCEPT ![b] = "unwaited"]
  /\ UNCHANGED <<made, targets, running, firerVars, todo, waiting, throws>>

\* connections::disconnect_all(true) on the tracked connections, whichever they are.
DisconnectGroup(b) ==
  /\ break[b] = "idle"
  /\ \E g \in SUBSET made :
       /\ group' = [group EXCEPT ![b] = g]
       /\ todo' = [todo EXCEPT ![b] = g]
  /\ break' = [break EXCEPT ![b] = "all"]
  /\ UNCHANGED <<made, targets, connected, running, firerVars, waiting, throws>>

\* signal::disconnect_all(true): first the signal forgets its targets.
DisconnectSignal(b) ==
  /\ break[b] = "idle"
  /\ targets' = {}
  /\ group' = [group EXCEPT ![b] = targets]
  /\ todo' = [todo EXCEPT ![b] = targets]
  /\ break' = [break EXCEPT ![b] = "each"]
  /\ UNCHANGED <<made, connected, running, firerVars, waiting, throws>>

Disconnecting(b) == break[b] \in {"all", "each"}

\* connected.exchange(false); the signal waits for one connection before it
\* disconnects the next.
BreakOne(b) ==
  /\ Disconnecting(b)
  /\ break[b] = "each" => waiting[b] = {}
  /\ \E c \in todo[b] :
       /\ connected' = connected \ {c}
       /\ todo' = [todo EXCEPT ![b] = @ \ {c}]
       /\ waiting' = [waiting EXCEPT ![b] = @ \cup {c}]
  /\ UNCHANGED <<made, targets, running, firerVars, break, group, throws>>

\* while(running > 0) yield; the group waits when all of it is disconnected.
WaitSkipped(c) == TRUE
Quiet(c) == running[c] <= 0
WaitOne(b) ==
  /\ Disconnecting(b)
  /\ break[b] = "all" => todo[b] = {}
  /\ \E c \in waiting[b] : /\ Quiet(c)
                           /\ waiting' = [waiting EXCEPT ![b] = @ \ {c}]
  /\ UNCHANGED <<made, targets, connected, running, firerVars, break, group, todo, throws>>

Disconnected(b) ==
  /\ Disconnecting(b)
  /\ todo[b] = {} /\ waiting[b] = {}
  /\ break' = [break EXCEPT ![b] = "waited"]
  /\ UNCHANGED <<made, targets, connected, running, firerVars, group, todo, waiting, throws>>

-----------------------------------------------------------------------------
Init ==
  /\ made = {} /\ targets = {} /\ connected = {}
  /\ running = [c \in Connections |-> 0]
  /\ fire = [f \in Firers |-> "idle"]
  /\ pending = [f \in Firers |-> {}]
  /\ calling \in [Firers -> Connections]
  /\ break = [b \in Breakers |-> "idle"]
  /\ group = [b \in Breakers |-> {}]
  /\ todo = [b \in Breakers |-> {}] /\ waiting = [b \in Breakers |-> {}]
  /\ throws = 0

Firer(f) == \/ Fire(f) \/ CallTest(f) \/ CallEnter(f) \/ CallRetest(f) \/ CallTrigger(f)
            \/ CallbackReturns(f) \/ CallbackThrows(f) \/ CallLeave(f) \/ Fired(f)

Breaker(b) == \/ DisconnectOnly(b) \/ DisconnectGroup(b) \/ DisconnectSignal(b)
              \/ BreakOne(b) \/ WaitOne(b) \/ Disconnected(b)

Next == \/ \E c \in Connections : Connect(c)
        \/ \E f \in Firers : Firer(f)
        \/ \E b \in Breakers : Breaker(b)

Spec == Init /\ [][Next]_vars

\* Threads are scheduled and callbacks return; nobody has to start anything.
Fairness ==
  /\ \A f \in Firers :
       WF_vars(\/ CallTest(f) \/ CallEnter(f) \/ CallRetest(f) \/ CallTrigger(f)
               \/ CallbackReturns(f) \/ CallLeave(f) \/ Fired(f))
  /\ \A b \in Breakers : WF_vars(BreakOne(b) \/ WaitOne(b) \/ Disconnected(b))

FairSpec == Spec /\ Fairness

-----------------------------------------------------------------------------
\* The thread is between ++running and --running of its call.
Counted(f) == fire[f] \in {"retest", "trigger", "callback", "leave"}
CallsOf(c) == {f \in Firers : Counted(f) /\ calling[f] = c}

TypeOK ==
  /\ made \subseteq Connections /\ targets \subseteq made /\ connected \subseteq made
  /\ running \in [Connections -> Nat]
  /\ fire \in [Firers -> {"idle", "next", "enter", "retest", "trigger", "callback", "leave"}]
  /\ pending \in [Firers -> SUBSET Connections] /\ calling \in [Firers -> Connections]
  /\ break \in [Breakers -> {"idle", "unwaited", "all", "each", "waited"}]
  /\ group \in [Breakers -> SUBSET Connections]
  /\ todo \in [Breakers -> SUBSET Connections] /\ waiting \in [Breakers -> SUBSET Connections]
  /\ throws \in 0..MaxThrows

\* After a waiting disconnect has returned no thread is in one of its callbacks and
\* none will enter one (connection.hpp:53-56), although calls and disconnects
\* interleave without a lock.
DisconnectedIsQuiet ==
  \A b \in Breakers, f \in Firers :
    break[b] = "waited" /\ calling[f] \in group[b] => fire[f] \notin {"trigger", "callback"}

\* The counter of connection::data never says fewer calls than there are (the wait of
\* disconnect relies on it), and exactly how many there are as long as no callback has thrown.
RunningCountsCalls ==
  \A c \in Connections : /\ running[c] >= Cardinality(CallsOf(c))
                         /\ throws = 0 => running[c] = Cardinality(CallsOf(c))

\* A waiting disconnect returns as long as no callback throws, although it only polls
\* a counter that other threads move.
DisconnectReturns ==
  \A b \in Breakers : Disconnecting(b) ~> break[b] = "waited" \/ throws > 0
=============================================================================
