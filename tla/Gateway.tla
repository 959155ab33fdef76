------------------------------ MODULE Gateway ------------------------------
(***************************************************************************)
(* The gateway service: agent runs started on the Hermes gateway, observed  *)
(* over its event stream by a goroutine each, kept in a registry that is    *)
(* saved to a file at every status change, and streamed to browsers.  Every *)
(* step under the service's mutex is one action; the process may be closed, *)
(* or crash, and be started again.                                          *)
(***************************************************************************)
EXTENDS Integers, Sequences

CONSTANTS
    GwRuns,        \* run ids the gateway hands out
    GwCalls,       \* concurrent start and stop requests
    Browsers,      \* readers of a run's events
    SubBuffer,     \* maxSubscriberBuffer
    MaxOnWire      \* bound: events of a run sent and not yet read

ASSUME GatewayAssumption == SubBuffer \in Nat

VARIABLES
    remote,        \* run -> its state on the gateway
    wire,          \* run -> events sent and not yet read, and whether the stream ended
    registry,      \* run -> status of its record; "absent" when not registered
    disk,          \* run -> status in the state file
    gwCall,        \* request -> where it stands
    observer,      \* run -> where its goroutine stands
    browser,       \* browser -> its stream
    life,          \* "open", "closing", "closed", "down"
    gwReplies      \* run -> reply nodes posted with its output

gwVars == <<remote, wire, registry, disk, gwCall, observer, browser, life, gwReplies>>

GwFinal == {"completed", "failed"}   \* and cancelled, which is handled like failed

IsTerminal(status) == status \in GwFinal \cup {"disconnected", "not_found"}

CallIdle == [pc |-> "idle", run |-> "none", known |-> FALSE]

\* owed: some event noted so far is neither written to the browser nor in its
\* channel; chan: events in the channel; fresh: one of those is not written yet.
NoStream == [pc |-> "off", run |-> "none", owed |-> TRUE, chan |-> 0, fresh |-> FALSE, open |-> FALSE]

GatewayInit ==
    /\ remote = [r \in GwRuns |-> "none"]
    /\ wire = [r \in GwRuns |-> [events |-> <<>>, end |-> "no"]]
    /\ registry = [r \in GwRuns |-> "absent"]
    /\ disk = registry
    /\ gwCall = [c \in GwCalls |-> CallIdle]
    /\ observer = [r \in GwRuns |-> "none"]
    /\ browser = [b \in Browsers |-> NoStream]
    /\ life = "open" /\ gwReplies = [r \in GwRuns |-> 0]

-----------------------------------------------------------------------------
(* The gateway itself *)

\* A run makes progress, asks for an approval, or ends; its events go to the
\* stream in order, as long as somebody holds the connection.
RemoteEmits(r, e) ==
    /\ remote[r] = "running" /\ (observer[r] # "none" => wire[r].end = "no")
    /\ Len(wire[r].events) < MaxOnWire
    /\ wire' = IF life = "open" /\ observer[r] # "none" THEN [wire EXCEPT ![r].events = Append(@, e)] ELSE wire
    /\ remote' = IF e \in GwFinal THEN [remote EXCEPT ![r] = e] ELSE remote
    /\ UNCHANGED <<registry, disk, gwCall, observer, browser, life, gwReplies>>

\* The stream ends, with or without a final event, or breaks.
StreamEnds(r, how) ==
    /\ observer[r] # "none" /\ wire[r].end = "no"
    /\ wire' = [wire EXCEPT ![r].end = how]
    /\ UNCHANGED <<remote, registry, disk, gwCall, observer, browser, life, gwReplies>>

\* The gateway forgets runs that are over.
RemoteSweeps(r) ==
    /\ remote[r] \in GwFinal /\ remote' = [remote EXCEPT ![r] = "gone"]
    /\ UNCHANGED <<wire, registry, disk, gwCall, observer, browser, life, gwReplies>>

-----------------------------------------------------------------------------
(* The registry and its file *)

\* Mutant of persistLocked: a closed service still writes its file.
persistAlways == disk' = registry

\* The file is replaced by the registry, unless the service is closed.
persistLocked == disk' = IF life = "open" THEN registry ELSE disk

StartRun(c, r) ==
    /\ gwCall[c].pc = "idle" /\ life # "down" /\ remote[r] = "none"
    /\ remote' = [remote EXCEPT ![r] = "running"]
    /\ registry' = [registry EXCEPT ![r] = "started"]
    /\ observer' = IF life = "open" THEN [observer EXCEPT ![r] = "reading"] ELSE observer
    /\ gwCall' = [gwCall EXCEPT ![c] = [CallIdle EXCEPT !.pc = "persist"]]
    /\ UNCHANGED <<wire, disk, browser, life, gwReplies>>

\* A run that is not modelled otherwise starts when the registry is full, and r
\* is the record that goes: the oldest that is over or, when none is, the oldest.
pruneLocked(c, r) ==
    /\ gwCall[c].pc = "idle" /\ life # "down" /\ registry[r] # "absent"
    /\ registry' = [registry EXCEPT ![r] = "absent"]
    /\ gwCall' = [gwCall EXCEPT ![c] = [CallIdle EXCEPT !.pc = "persist"]]
    /\ UNCHANGED <<remote, wire, disk, observer, browser, life, gwReplies>>

CallPersists(c) ==
    /\ gwCall[c].pc = "persist"
    /\ persistLocked
    /\ gwCall' = [gwCall EXCEPT ![c] = CallIdle]
    /\ UNCHANGED <<remote, wire, registry, observer, browser, life, gwReplies>>

\* A run that is over needs no call.
StopRun(c, r) ==
    /\ gwCall[c].pc = "idle" /\ life # "down" /\ remote[r] # "none" /\ ~IsTerminal(registry[r])
    /\ gwCall' = [gwCall EXCEPT ![c] = [pc |-> "ask", run |-> r, known |-> registry[r] # "absent"]]
    /\ UNCHANGED <<remote, wire, registry, disk, observer, browser, life, gwReplies>>

\* The gateway accepts, no longer knows the run, or does not answer.
StopAnswered(c) ==
    LET q == gwCall[c] IN
    /\ q.pc = "ask"
    /\ \/ /\ remote[q.run] # "gone"
          /\ gwCall' = [gwCall EXCEPT ![c].pc = "stopping"]
       \/ /\ remote[q.run] = "gone"
          /\ gwCall' = [gwCall EXCEPT ![c] = IF q.known THEN [q EXCEPT !.pc = "notfound"] ELSE CallIdle]
       \/ gwCall' = [gwCall EXCEPT ![c] = CallIdle]
    /\ UNCHANGED <<remote, wire, registry, disk, observer, browser, life, gwReplies>>

\* Mutant of MarkStopping: without looking at the status again.
MarkStoppingAnyway(c) ==
    LET r == gwCall[c].run IN
    /\ gwCall[c].pc = "stopping"
    /\ registry' = IF registry[r] = "absent" THEN registry
                   ELSE [registry EXCEPT ![r] = "stopping"]
    /\ gwCall' = [gwCall EXCEPT ![c] = [CallIdle EXCEPT !.pc = "persist"]]
    /\ UNCHANGED <<remote, wire, disk, observer, browser, life, gwReplies>>

\* Mutant of MarkStopping: the file is left alone.
MarkStoppingUnsaved(c) ==
    LET r == gwCall[c].run IN
    /\ gwCall[c].pc = "stopping"
    /\ registry' = IF registry[r] = "absent" \/ IsTerminal(registry[r]) THEN registry
                   ELSE [registry EXCEPT ![r] = "stopping"]
    /\ gwCall' = [gwCall EXCEPT ![c] = CallIdle]
    /\ UNCHANGED <<remote, wire, disk, observer, browser, life, gwReplies>>

MarkStopping(c) ==
    LET r == gwCall[c].run IN
    /\ gwCall[c].pc = "stopping"
    /\ registry' = IF registry[r] = "absent" \/ IsTerminal(registry[r]) THEN registry
                   ELSE [registry EXCEPT ![r] = "stopping"]
    /\ gwCall' = [gwCall EXCEPT ![c] = [CallIdle EXCEPT !.pc = "persist"]]
    /\ UNCHANGED <<remote, wire, disk, observer, browser, life, gwReplies>>

\* Whatever was noted meanwhile is overwritten.
MarkNotFound(c) ==
    LET r == gwCall[c].run IN
    /\ gwCall[c].pc = "notfound"
    /\ registry' = IF registry[r] = "absent" THEN registry
                   ELSE [registry EXCEPT ![r] = "not_found"]
    /\ gwCall' = [gwCall EXCEPT ![c] = [CallIdle EXCEPT !.pc = "persist"]]
    /\ UNCHANGED <<remote, wire, disk, observer, browser, life, gwReplies>>

-----------------------------------------------------------------------------
(* Observation *)

StatusAfter(status, e) ==
    CASE e \in GwFinal                                                -> e
      [] e = "observe_error"                                          -> "failed"
      [] e = "stream_closed"                                          -> "disconnected"
      [] e = "approval"                                               -> "waiting_for_approval"
      [] e = "delta" /\ status \in {"started", "waiting_for_approval"} -> "running"
      [] OTHER                                                        -> status

\* A subscriber whose channel is full is dropped and its channel closed.
FanOut(r) ==
    [b \in Browsers |->
        LET s == browser[b] IN
        IF s.run # r THEN s
        ELSE IF ~s.open THEN [s EXCEPT !.owed = TRUE]
        ELSE IF s.chan < SubBuffer THEN [s EXCEPT !.chan = @ + 1, !.fresh = TRUE]
        ELSE [s EXCEPT !.open = FALSE, !.owed = TRUE]]

\* The observer saves the registry first and then goes on.
persistThen == [reading |-> "persist_reading", ending |-> "persist_ending", none |-> "persist_none"]

\* noteEvent, and where the observer goes next: to the sink, to the file, or on.
noteEvent(r, e, onward) ==
    LET before == registry[r]
        ignored == before = "absent"
                   \/ (e = "stream_closed" /\ (IsTerminal(before) \/ before = "stopping"))
        status == StatusAfter(before, e)
    IN  IF ignored
        THEN observer' = [observer EXCEPT ![r] = onward] /\ UNCHANGED <<registry, browser>>
        ELSE /\ registry' = [registry EXCEPT ![r] = status]
             /\ browser' = FanOut(r)
             /\ observer' = [observer EXCEPT ![r] =
                   IF e = "completed" THEN "sink"
                   ELSE IF status # before THEN persistThen[onward] ELSE onward]

ObserveEvent(r) ==
    /\ observer[r] = "reading" /\ wire[r].events # <<>>
    /\ wire' = [wire EXCEPT ![r].events = Tail(@)]
    /\ noteEvent(r, Head(wire[r].events), "reading")
    /\ UNCHANGED <<remote, disk, gwCall, life, gwReplies>>

\* The sink posts the output as a reply, or fails and leaves a warning.
PersistRunOutput(r) ==
    /\ observer[r] = "sink"
    /\ gwReplies' \in {gwReplies, [gwReplies EXCEPT ![r] = @ + 1]}
    /\ observer' = [observer EXCEPT ![r] = "persist_reading"]
    /\ UNCHANGED <<remote, wire, registry, disk, gwCall, browser, life>>

ObserverPersists(r) ==
    \E next \in DOMAIN persistThen :
        /\ observer[r] = persistThen[next]
        /\ persistLocked
        /\ observer' = [observer EXCEPT ![r] = next]
        /\ UNCHANGED <<remote, wire, registry, gwCall, browser, life, gwReplies>>

\* The stream ends; an error is noted as an event of its own.
StreamOver(r) ==
    /\ observer[r] = "reading" /\ wire[r].events = <<>>
    /\ \/ wire[r].end = "error" /\ noteEvent(r, "observe_error", "ending")
       \/ wire[r].end = "eof" /\ observer' = [observer EXCEPT ![r] = "ending"]
          /\ UNCHANGED <<registry, browser>>
    /\ UNCHANGED <<remote, wire, disk, gwCall, life, gwReplies>>

\* A run being stopped keeps its status; otherwise the close is noted.
NoteClosed(r) ==
    /\ observer[r] = "ending" /\ life = "open"
    /\ IF registry[r] = "stopping"
       THEN observer' = [observer EXCEPT ![r] = "none"] /\ UNCHANGED <<registry, browser>>
       ELSE noteEvent(r, "stream_closed", "none")
    /\ UNCHANGED <<remote, wire, disk, gwCall, life, gwReplies>>

HangUp(r) ==
    /\ observer' = [observer EXCEPT ![r] = "none"]
    /\ wire' = [wire EXCEPT ![r] = [events |-> <<>>, end |-> "eof"]]
    /\ UNCHANGED <<remote, registry, disk, gwCall, browser, life, gwReplies>>

\* Mutant of ObserveCancelled: the read is not tied to the service's context.
ObserveNotCancelled(r) == life # "open" /\ observer[r] = "ending" /\ HangUp(r)

\* A cancelled context ends the read and the connection; nothing is noted, and
\* what was sent and not yet read is lost.
ObserveCancelled(r) == life # "open" /\ observer[r] \in {"reading", "ending"} /\ HangUp(r)

-----------------------------------------------------------------------------
(* Browsers *)

\* Mutant of Subscribe: the history is read first.
SubscribeAfterReplay(b, r) ==
    /\ browser[b].pc = "off" /\ registry[r] # "absent"
    /\ browser' = [browser EXCEPT ![b] = [NoStream EXCEPT !.pc = "late", !.run = r, !.owed = FALSE]]
    /\ UNCHANGED <<remote, wire, registry, disk, gwCall, observer, life, gwReplies>>

Subscribe(b, r) ==
    /\ browser[b].pc = "off" /\ registry[r] # "absent"
    /\ browser' = [browser EXCEPT ![b] = [NoStream EXCEPT !.pc = "subscribed", !.run = r, !.open = TRUE]]
    /\ UNCHANGED <<remote, wire, registry, disk, gwCall, observer, life, gwReplies>>

\* Copies the history (and, for the mutant above, subscribes only now).
ReplayHistory(b) ==
    LET s == browser[b] IN
    /\ s.pc \in {"subscribed", "late"}
    /\ browser' = [browser EXCEPT ![b] =
          IF s.pc = "late" THEN [s EXCEPT !.pc = "replayed", !.open = TRUE]
          ELSE [s EXCEPT !.pc = "replayed", !.owed = FALSE, !.fresh = FALSE]]
    /\ UNCHANGED <<remote, wire, registry, disk, gwCall, observer, life, gwReplies>>

\* A terminal run has nothing left to stream.
CheckTerminal(b) ==
    LET s == browser[b] IN
    /\ s.pc = "replayed"
    /\ browser' = [browser EXCEPT ![b].pc = IF IsTerminal(registry[s.run]) THEN "complete" ELSE "live"]
    /\ UNCHANGED <<remote, wire, registry, disk, gwCall, observer, life, gwReplies>>

Forward(b) ==
    /\ browser[b].pc = "live" /\ browser[b].chan > 0
    /\ browser' = [browser EXCEPT ![b].chan = @ - 1, ![b].fresh = @ /\ browser[b].chan > 1]
    /\ UNCHANGED <<remote, wire, registry, disk, gwCall, observer, life, gwReplies>>

\* The deferred cancel closes the channel; closing it a second time panics.
LeaveStream(b) ==
    /\ browser[b].pc \in {"complete", "live"}
    /\ browser' = [browser EXCEPT ![b] = IF @.open THEN [NoStream EXCEPT !.pc = "left"]
                                         ELSE [NoStream EXCEPT !.pc = "panicked"]]
    /\ UNCHANGED <<remote, wire, registry, disk, gwCall, observer, life, gwReplies>>

-----------------------------------------------------------------------------
(* Life of the process *)

CloseBegin ==
    /\ life = "open" /\ life' = "closing"
    /\ UNCHANGED <<remote, wire, registry, disk, gwCall, observer, browser, gwReplies>>

\* wg.Wait
CloseReturn ==
    /\ life = "closing" /\ \A r \in GwRuns : observer[r] = "none"
    /\ life' = "closed"
    /\ UNCHANGED <<remote, wire, registry, disk, gwCall, observer, browser, gwReplies>>

\* What Backfill makes of a restored record when the gateway answers.
refreshStatus(r) ==
    IF disk[r] = "absent" \/ IsTerminal(disk[r]) THEN disk[r]
    ELSE IF remote[r] = "gone" THEN "not_found" ELSE remote[r]

\* The process is gone, after Close or without it, with all it had in memory.
Exit ==
    /\ life # "down" /\ life' = "down"
    /\ registry' = [r \in GwRuns |-> "absent"]
    /\ gwCall' = [c \in GwCalls |-> CallIdle] /\ observer' = [r \in GwRuns |-> "none"]
    /\ browser' = [b \in Browsers |-> [NoStream EXCEPT !.pc = "left"]]
    /\ wire' = [r \in GwRuns |-> [events |-> <<>>, end |-> "no"]]
    /\ UNCHANGED <<remote, disk, gwReplies>>

\* It starts again from its file; the gateway may be unreachable then.  No run
\* is observed again.
Restart ==
    /\ life = "down" /\ life' = "open"
    /\ \E reachable \in BOOLEAN :
          /\ disk' = IF reachable THEN [r \in GwRuns |-> refreshStatus(r)] ELSE disk
          /\ registry' = disk'
    /\ UNCHANGED <<remote, wire, gwCall, observer, browser, gwReplies>>

-----------------------------------------------------------------------------
ObserverStep(r) ==
    \/ ObserveEvent(r) \/ PersistRunOutput(r) \/ ObserverPersists(r) \/ StreamOver(r)
    \/ NoteClosed(r) \/ ObserveCancelled(r)

GatewayNext ==
    \/ \E r \in GwRuns :
          \/ \E e \in GwFinal \cup {"delta", "approval"} : RemoteEmits(r, e)
          \/ \E how \in {"eof", "error"} : StreamEnds(r, how)
          \/ RemoteSweeps(r) \/ ObserverStep(r)
    \/ \E c \in GwCalls :
          \/ \E r \in GwRuns : StartRun(c, r) \/ StopRun(c, r) \/ pruneLocked(c, r)
          \/ CallPersists(c) \/ StopAnswered(c) \/ MarkStopping(c) \/ MarkNotFound(c)
    \/ \E b \in Browsers :
          \/ \E r \in GwRuns : Subscribe(b, r)
          \/ ReplayHistory(b) \/ CheckTerminal(b) \/ Forward(b) \/ LeaveStream(b)
    \/ CloseBegin \/ CloseReturn \/ Exit \/ Restart

GatewaySpec == GatewayInit /\ [][GatewayNext]_gwVars

\* Goroutines run when they can; nothing is assumed of the gateway.
GatewayFairSpec ==
    GatewaySpec /\ WF_gwVars(CloseReturn) /\ \A r \in GwRuns : WF_gwVars(ObserverStep(r))

-----------------------------------------------------------------------------
GatewayTypeOK ==
    /\ \A r \in GwRuns : gwReplies[r] \in 0 .. 1
    /\ \A b \in Browsers : browser[b].chan <= SubBuffer
    /\ life \in {"open", "closing", "closed", "down"}

\* When nobody is about to write the file, the file holds the registry: no
\* status change of StartRun, StopRun or the observer is left unsaved.
SavedWhenQuiet ==
    life = "open"
    /\ (\A c \in GwCalls : gwCall[c].pc \in {"idle", "ask"})
    /\ (\A r \in GwRuns : observer[r] \in {"none", "reading", "ending"})
        => \A r \in GwRuns : disk[r] = registry[r]

\* A browser that streams live, and was not dropped, has been given or is about
\* to be given every event noted: subscribing before the replay leaves no gap.
NoLiveEventMissed ==
    \A b \in Browsers :
        browser[b].pc = "live" /\ browser[b].open => ~browser[b].owed

\* Once Close has returned, the file of this process is never written again,
\* although requests may still be under way.
NoWriteAfterClose == [][life = "closed" => disk' = disk]_gwVars

\* Within one process a run whose end was observed stays over, whatever a stop
\* under way, a late event or the end of the stream does.
OverStaysOver ==
    [][\A r \in GwRuns :
         registry[r] \in GwFinal \cup {"disconnected"}
            => registry'[r] = "absent" \/ IsTerminal(registry'[r])]_gwVars

\* IsTerminal (service.go:74) counts "not_found" among what ends a run, and a
\* poll never regresses it (service.go:431); but a run that a stop marked so
\* while its observer lagged behind goes back to "waiting_for_approval" when an
\* approval request is read that was sent before the end.
NotFoundStaysOver ==
    [][\A r \in GwRuns :
         registry[r] = "not_found" => registry'[r] \in {"absent", "completed", "failed", "not_found"}]_gwVars

\* Close returns, whatever the streams of the observed runs do.
CloseReturns == []<>(life # "closing")

\* No live event is missed: a stream that ends because its run is over has
\* delivered every event of the run.
NoEventMissed ==
    \A b \in Browsers : browser[b].pc = "complete" => ~browser[b].owed /\ ~browser[b].fresh
=============================================================================
