------------------------------ MODULE RelayHub ------------------------------
(***************************************************************************)
(* Sessions of the relay hub.  A goroutine per connection authenticates,    *)
(* registers and serves it; an operator may close a session; Shutdown stops *)
(* accepting, says goodbye, waits for the drain and closes what is left.    *)
(***************************************************************************)
EXTENDS Integers, FiniteSets

CONSTANTS
    RelayConns,      \* connections that may arrive
    SessionLimit     \* cfg.MaxSessions

ASSUME RelayAssumption ==
    /\ IsFiniteSet(RelayConns) /\ {"operator", "none"} \cap RelayConns = {}
    /\ SessionLimit \in Nat

VARIABLES
    peer,            \* connection -> where its goroutine stands
    sessions,        \* h.sessions
    closedOnce,      \* connections whose closeOnce has run
    broken,          \* connections closed by either side
    listening,       \* h.listener # nil
    drainDone,       \* h.drainDone is closed
    closer,          \* the operator's CloseSession
    signaller,       \* removers that have to close drainDone
    ended,           \* connection -> "disconnected" events published
    relayShutdown,   \* where RelayService.Shutdown stands
    doomed           \* sessions Close has copied

relayVars == <<peer, sessions, closedOnce, broken, listening, drainDone, closer, signaller,
               ended, relayShutdown, doomed>>

Removers == RelayConns \cup {"operator"}

RelayInit ==
    /\ peer = [k \in RelayConns |-> "none"] /\ sessions = {} /\ closedOnce = {} /\ broken = {}
    /\ listening = TRUE /\ drainDone = FALSE
    /\ closer = [pc |-> "idle", conn |-> "none"] /\ signaller = {}
    /\ ended = [k \in RelayConns |-> 0]
    /\ relayShutdown = "no" /\ doomed = {}

-----------------------------------------------------------------------------
(* A connection *)

Connect(k) ==
    /\ peer[k] = "none" /\ listening
    /\ peer' = [peer EXCEPT ![k] = "hello"]
    /\ UNCHANGED <<sessions, closedOnce, broken, listening, drainDone, closer, signaller, ended, relayShutdown, doomed>>

\* No proper HELLO came in time.
HelloFails(k) ==
    /\ peer[k] = "hello" /\ peer' = [peer EXCEPT ![k] = "over"]
    /\ UNCHANGED <<sessions, closedOnce, broken, listening, drainDone, closer, signaller, ended, relayShutdown, doomed>>

\* Mutant of Register: whether the hub still accepts is not looked at.
RegisterAnytime(k) ==
    /\ peer[k] = "hello"
    /\ IF Cardinality(sessions) < SessionLimit
       THEN peer' = [peer EXCEPT ![k] = "opened"] /\ sessions' = sessions \cup {k}
       ELSE peer' = [peer EXCEPT ![k] = "over"] /\ UNCHANGED sessions
    /\ UNCHANGED <<closedOnce, broken, listening, drainDone, closer, signaller, ended, relayShutdown, doomed>>

\* acceptConn, after the HELLO was verified.
Register(k) ==
    /\ peer[k] = "hello"
    /\ IF listening /\ Cardinality(sessions) < SessionLimit
       THEN peer' = [peer EXCEPT ![k] = "opened"] /\ sessions' = sessions \cup {k}
       ELSE peer' = [peer EXCEPT ![k] = "over"] /\ UNCHANGED sessions
    /\ UNCHANGED <<closedOnce, broken, listening, drainDone, closer, signaller, ended, relayShutdown, doomed>>

\* The session is recorded and acknowledged, or one of the two fails.
Acknowledge(k) ==
    /\ peer[k] = "opened"
    /\ \/ k \notin broken /\ peer' = [peer EXCEPT ![k] = "serving"]
       \/ peer' = [peer EXCEPT ![k] = "remove"]
    /\ UNCHANGED <<sessions, closedOnce, broken, listening, drainDone, closer, signaller, ended, relayShutdown, doomed>>

\* HandleConnection returns: BYE, a bad frame, or a closed connection.
StopServing(k) ==
    /\ peer[k] = "serving" /\ peer' = [peer EXCEPT ![k] = "remove"]
    /\ UNCHANGED <<sessions, closedOnce, broken, listening, drainDone, closer, signaller, ended, relayShutdown, doomed>>

-----------------------------------------------------------------------------
(* removeSession, run by the connection's goroutine or by the operator *)

Target(x) == IF x = "operator" THEN closer.conn ELSE x

PeerAt(x, pc) == IF x = "operator" THEN closer.pc = pc ELSE peer[x] = pc

RelayGoto(x, pc) ==
    IF x = "operator" THEN closer' = [closer EXCEPT !.pc = pc] /\ UNCHANGED peer
    ELSE peer' = [peer EXCEPT ![x] = pc] /\ UNCHANGED closer

\* Mutant of CloseOnce: every remover goes on.
CloseEachTime(x) ==
    /\ PeerAt(x, "remove")
    /\ closedOnce' = closedOnce \cup {Target(x)} /\ broken' = broken \cup {Target(x)}
    /\ RelayGoto(x, "delete")
    /\ UNCHANGED <<sessions, listening, drainDone, signaller, ended, relayShutdown, doomed>>

\* Only the first remover goes on.
CloseOnce(x) ==
    /\ PeerAt(x, "remove")
    /\ closedOnce' = closedOnce \cup {Target(x)} /\ broken' = broken \cup {Target(x)}
    /\ RelayGoto(x, IF Target(x) \in closedOnce THEN "over" ELSE "delete")
    /\ UNCHANGED <<sessions, listening, drainDone, signaller, ended, relayShutdown, doomed>>

\* Mutant of DeleteSession: the last session to leave signals nothing.
DeleteSilently(x) ==
    /\ PeerAt(x, "delete")
    /\ sessions' = sessions \ {Target(x)}
    /\ RelayGoto(x, "publish")
    /\ UNCHANGED <<closedOnce, broken, listening, drainDone, signaller, ended, relayShutdown, doomed>>

\* The map, its emptiness and the listener are looked at under one lock.
DeleteSession(x) ==
    /\ PeerAt(x, "delete")
    /\ sessions' = sessions \ {Target(x)}
    /\ signaller' = IF sessions' = {} /\ ~listening THEN signaller \cup {x} ELSE signaller
    /\ RelayGoto(x, "publish")
    /\ UNCHANGED <<closedOnce, broken, listening, drainDone, ended, relayShutdown, doomed>>

\* The event is broadcast, then the drain is signalled if it has to be.
PublishAndSignal(x) ==
    /\ PeerAt(x, "publish")
    /\ ended' = [ended EXCEPT ![Target(x)] = @ + 1]
    /\ drainDone' = (drainDone \/ x \in signaller)
    /\ signaller' = signaller \ {x}
    /\ RelayGoto(x, "over")
    /\ UNCHANGED <<sessions, closedOnce, broken, listening, relayShutdown, doomed>>

\* The operator looks the session up, says BYE and removes it.
CloseSession(k) ==
    /\ closer.pc = "idle" /\ k \in sessions
    /\ closer' = [pc |-> "remove", conn |-> k]
    /\ UNCHANGED <<peer, sessions, closedOnce, broken, listening, drainDone, signaller, ended, relayShutdown, doomed>>

-----------------------------------------------------------------------------
(* Shutdown of the service *)

StopAccepting ==
    /\ relayShutdown = "no"
    /\ listening' = FALSE
    /\ drainDone' = (drainDone \/ sessions = {})
    /\ relayShutdown' = "stopped"
    /\ UNCHANGED <<peer, sessions, closedOnce, broken, closer, signaller, ended, doomed>>

\* BYE to everybody; with nobody left there is nothing to wait for.
NotifyShutdown ==
    /\ relayShutdown = "stopped"
    /\ relayShutdown' = IF sessions = {} THEN "close" ELSE "drain"
    /\ UNCHANGED <<peer, sessions, closedOnce, broken, listening, drainDone, closer, signaller, ended, doomed>>

\* Drained, cancelled or timed out.
DrainEnds ==
    /\ relayShutdown = "drain" /\ relayShutdown' = "close"
    /\ UNCHANGED <<peer, sessions, closedOnce, broken, listening, drainDone, closer, signaller, ended, doomed>>

CloseCopies ==
    /\ relayShutdown = "close" /\ relayShutdown' = "closing" /\ doomed' = sessions
    /\ UNCHANGED <<peer, sessions, closedOnce, broken, listening, drainDone, closer, signaller, ended>>

\* Mutant of CloseConns: the connections are left to their peers.
CloseNoConns ==
    /\ relayShutdown = "closing" /\ relayShutdown' = "wait"
    /\ UNCHANGED <<peer, sessions, closedOnce, broken, listening, drainDone, closer, signaller, ended, doomed>>

CloseConns ==
    /\ relayShutdown = "closing" /\ relayShutdown' = "wait" /\ broken' = broken \cup doomed
    /\ UNCHANGED <<peer, sessions, closedOnce, listening, drainDone, closer, signaller, ended, doomed>>

\* wg.Wait: every connection's goroutine has ended.
CloseWaits ==
    /\ relayShutdown = "wait" /\ \A k \in RelayConns : peer[k] \in {"none", "over"}
    /\ relayShutdown' = "done"
    /\ UNCHANGED <<peer, sessions, closedOnce, broken, listening, drainDone, closer, signaller, ended, doomed>>

-----------------------------------------------------------------------------
ServeStep(k) ==
    \/ HelloFails(k) \/ Register(k) \/ Acknowledge(k) \/ (k \in broken /\ StopServing(k))

RemoveStep(x) == CloseOnce(x) \/ DeleteSession(x) \/ PublishAndSignal(x)

ShutdownStep == NotifyShutdown \/ DrainEnds \/ CloseCopies \/ CloseConns \/ CloseWaits

RelayNext ==
    \/ \E k \in RelayConns : Connect(k) \/ ServeStep(k) \/ StopServing(k) \/ CloseSession(k)
    \/ \E x \in Removers : RemoveStep(x)
    \/ StopAccepting \/ ShutdownStep

RelaySpec == RelayInit /\ [][RelayNext]_relayVars

\* A HELLO is answered or times out, a read of a closed connection returns, and
\* the drain has a timeout; a peer need not ever leave on its own.
RelayFairSpec ==
    /\ RelaySpec /\ WF_relayVars(ShutdownStep)
    /\ \A k \in RelayConns : WF_relayVars(ServeStep(k)) /\ WF_relayVars(RemoveStep(k))

-----------------------------------------------------------------------------
RelayTypeOK ==
    /\ sessions \subseteq RelayConns /\ Cardinality(sessions) <= SessionLimit
    /\ signaller \subseteq Removers /\ doomed \subseteq RelayConns

\* Once the drain is signalled no session is left and none is added, although
\* connections may still be authenticating.
DrainedMeansEmpty == drainDone => sessions = {}

\* The last session to leave and StopAccepting never both leave the signal to
\* the other: an empty hub that accepts nothing is drained or about to be.
DrainSignalled == ~listening /\ sessions = {} => drainDone \/ signaller # {}

\* However the goroutine and the operator race, a session ends once.
SessionEndsOnce == \A k \in RelayConns : ended[k] <= 1 /\ (ended[k] = 1 => k \notin sessions)

\* Close waits for goroutines it may not know of yet: it returns nevertheless.
RelayClosing == relayShutdown \notin {"no", "done"}

RelayCloses == []<>~RelayClosing
=============================================================================
