------------------------------- MODULE MCLive -------------------------------
(***************************************************************************)
(* The components whose promises are about what must eventually happen: the *)
(* iteration monitor, the gateway of Hermes runs, the relay hub, the Hermes *)
(* client, one SSE client, approvals with their announcement, and the start *)
(* of the server.  They share no state, so the run checks one at a time:    *)
(* focus is chosen at the start and stays, and the others keep their        *)
(* initial states.                                                          *)
(***************************************************************************)
EXTENDS IterationCards, Gateway, RelayHub, HermesClient, SSEClient, Approvals,
        ServerBoot, TLC

CONSTANT owner

OneOwner == [n \in Nodes |-> owner]

VARIABLE focus

liveVars == <<focus, iterVars, gwVars, relayVars, hermesVars, clientVars, vars, bootVars>>

LiveInit ==
    /\ focus \in {"iteration", "gateway", "relay", "call", "stream", "route", "client", "approval",
                 "boot"}
    /\ IterationInit /\ (focus # "iteration" => proc = "up")
    /\ GatewayInit /\ RelayInit /\ HermesInit /\ ClientInit /\ Init
    /\ BootInit /\ (focus # "boot" => binary = Newest)

LiveNext ==
    \/ /\ focus = "iteration" /\ IterationNext
       /\ UNCHANGED <<focus, gwVars, relayVars, hermesVars, clientVars, vars, bootVars>>
    \/ /\ focus = "gateway" /\ GatewayNext
       /\ UNCHANGED <<focus, iterVars, relayVars, hermesVars, clientVars, vars, bootVars>>
    \/ /\ focus = "relay" /\ RelayNext
       /\ UNCHANGED <<focus, iterVars, gwVars, hermesVars, clientVars, vars, bootVars>>
    \/ /\ focus = "call" /\ CallStep
       /\ UNCHANGED <<focus, iterVars, gwVars, relayVars, streamVars, routeVars, clientVars, vars, bootVars>>
    \/ /\ focus = "stream" /\ StreamStep
       /\ UNCHANGED <<focus, iterVars, gwVars, relayVars, callVars, routeVars, clientVars, vars, bootVars>>
    \/ /\ focus = "route" /\ RouteStep
       /\ UNCHANGED <<focus, iterVars, gwVars, relayVars, callVars, streamVars, clientVars, vars, bootVars>>
    \/ /\ focus = "client" /\ ClientNext
       /\ UNCHANGED <<focus, iterVars, gwVars, relayVars, hermesVars, vars, bootVars>>
    \/ /\ focus = "approval" /\ Steps
       /\ UNCHANGED <<focus, iterVars, gwVars, relayVars, hermesVars, clientVars, bootVars>>
    \/ /\ focus = "boot" /\ BootNext
       /\ UNCHANGED <<focus, iterVars, gwVars, relayVars, hermesVars, clientVars, vars>>

\* Each component's own fairness (its FairSpec), for the one in focus.
LiveFairness ==
    /\ \A c \in Callers : WF_iterVars(focus = "iteration" /\ IterationStep(c))
    /\ WF_iterVars(focus = "iteration" /\ PollSeesCrash)
    /\ WF_gwVars(focus = "gateway" /\ CloseReturn)
    /\ \A r \in GwRuns : WF_gwVars(focus = "gateway" /\ ObserverStep(r))
    /\ WF_relayVars(focus = "relay" /\ ShutdownStep)
    /\ \A k \in RelayConns :
         /\ WF_relayVars(focus = "relay" /\ ServeStep(k))
         /\ WF_relayVars(focus = "relay" /\ RemoveStep(k))
    /\ WF_callVars(focus = "call" /\ CallProgress)
    /\ WF_streamVars(focus = "stream" /\ LoopStep)
    /\ WF_streamVars(focus = "stream" /\ TakeDelta)
    /\ \A g \in Goroutines : WF_clientVars(focus = "client" /\ Finish(g))
    /\ WF_clientVars(focus = "client" /\ Handler)
    /\ WF_clientVars(focus = "client" /\ Drain)
    /\ \A g \in Calls : WF_vars(focus = "approval" /\ Progress(g))
    /\ WF_bootVars(focus = "boot" /\ BootStep)

LiveSpec == LiveInit /\ [][LiveNext]_liveVars /\ LiveFairness

-----------------------------------------------------------------------------
\* The gateway keeps its file and its browsers current: when nobody is about
\* to write, the file holds the registry, and a browser that streams live has
\* been given every event noted since it subscribed.
GatewayCurrent == GatewayTypeOK /\ SavedWhenQuiet /\ NoLiveEventMissed

\* What is over stays over, whatever call, event or stop is still under way: a
\* finished run of the gateway, a finished iteration, and an iteration that
\* was interrupted until somebody resumes it; nor does the gateway write its
\* file after Close has returned.
OverIsOver ==
    /\ OverStaysOver /\ NoWriteAfterClose
    /\ TerminalIsFinal /\ InterruptedUntilResumed

\* The relay hub drains: the drain is signalled when the last session has left
\* and only then, and every session's end is published once.
RelayDrains == RelayTypeOK /\ DrainedMeansEmpty /\ DrainSignalled /\ SessionEndsOnce

\* Nothing is passed off as whole or in order that is not: a Hermes stream that
\* was cut ends in an error, one profile is active after sets that did not
\* overlap, and the SSE client writes what it accepted in order, once, and is
\* closed by one goroutine.
StreamsWhole ==
    /\ IterationTypeOK /\ HermesTypeOK /\ ClientTypeOK
    /\ TruncationNoticed /\ OneActiveRoute
    /\ FifoUntilClosed /\ WireInOrder /\ OneCloser

\* A server that serves runs on the schema its binary was built for, and what
\* the database notes about its schema is true until somebody repairs it.
BootSound == BootTypeOK /\ ServingCurrent /\ RowTellsSchema

\* What must happen does: a blocking call comes back (the gateway's Close, the
\* relay's Shutdown, a request to Hermes, the goroutine of a Hermes stream its
\* caller gave up, Send to a slow SSE client, the drain its Close started), the
\* monitor notices a crashed process, a decision is announced, and a boot ends.
Pending ==
    \/ life = "closing" \/ RelayClosing
    \/ hcall.pc \notin {"idle", "done"} \/ reader.pc = "draining"
    \/ SendPending \/ CloseUnfinished
    \/ CrashUnnoticed \/ DecisionUnannounced
    \/ boot \in {"up", "body", "mark", "migrated", "user"}

NothingPendsForever == []<>~Pending
=============================================================================
