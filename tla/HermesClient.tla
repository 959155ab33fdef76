---------------------------- MODULE HermesClient ----------------------------
(***************************************************************************)
(* The client of the Hermes gateway: a request that is retried, a stream of *)
(* events that one goroutine reads into a channel while another watches for *)
(* cancellation and the caller drains, closes or leaves; and the profile    *)
(* that a workspace is routed to.                                           *)
(***************************************************************************)
EXTENDS Integers, Sequences, FiniteSets

CONSTANTS
    MaxRetries,      \* c.maxRetries
    StreamBuffer,    \* capacity of the channel of deltas
    MaxDeltas,       \* bound: deltas the gateway sends
    RouteSets,       \* requests to set the active profile
    Profiles         \* profile names

ASSUME HermesAssumption == MaxRetries \in Nat /\ StreamBuffer \in Nat

VARIABLES
    hcall,           \* the request: [pc, attempt, outcome, cancelled]
    upstream,          \* the gateway's side of the stream: [sent, ended]
    streamWire,            \* events on the connection
    bodyClosed,      \* body.closed
    canceled,        \* the caller's context is done
    loop,            \* streamLoop: [pc, sawDone, sawError, ev]
    chan,            \* the channel
    reader,          \* the caller: [pc, got]
    routes,          \* profile -> [active, used]; absent profiles are "none"
    routeSet,        \* request -> [pc, profile, at, resets]
    routeClock,      \* NOW() of the last transaction
    overlapped       \* the last sets ran at the same time

callVars == <<hcall>>
streamVars == <<upstream, streamWire, bodyClosed, canceled, loop, chan, reader>>
routeVars == <<routes, routeSet, routeClock, overlapped>>
hermesVars == <<callVars, streamVars, routeVars>>

HermesInit ==
    /\ hcall = [pc |-> "idle", attempt |-> 0, outcome |-> "none", cancelled |-> FALSE]
    /\ upstream = [sent |-> 0, ended |-> FALSE] /\ streamWire = <<>> /\ bodyClosed = FALSE /\ canceled = FALSE
    /\ loop = [pc |-> "read", sawDone |-> FALSE, sawError |-> FALSE, ev |-> "none"]
    /\ chan = <<>> /\ reader = [pc |-> "reading", got |-> {}]
    /\ routes = [p \in Profiles |-> [active |-> FALSE, used |-> 0]]
    /\ routeSet = [s \in RouteSets |-> [pc |-> "idle", profile |-> "none", at |-> 0]]
    /\ routeClock = 0 /\ overlapped = FALSE

-----------------------------------------------------------------------------
(* A request with retries *)

\* 429 and 5xx may be retried, no other status.
isRetryableStatus(status) == status \in {"429", "5xx"}

\* A caller has its request marshalled; the attempts begin.
BeginCall == hcall.pc = "idle" /\ hcall' = [hcall EXCEPT !.pc = "send"]

\* A cancelled context fails the attempt before anything is sent.
SendAttempt ==
    /\ hcall.pc = "send"
    /\ hcall' = IF hcall.cancelled THEN [hcall EXCEPT !.pc = "done", !.outcome = "cancelled"]
                ELSE [hcall EXCEPT !.pc = "sent"]

\* The gateway answers, or the connection or the timeout ends the attempt.
GatewayAnswers(status) ==
    /\ hcall.pc = "sent" /\ hcall' = [hcall EXCEPT !.pc = "answer", !.outcome = status]

\* Mutant of HandleAnswer: the attempts are not counted.
HandleAnswerForever ==
    /\ hcall.pc = "answer"
    /\ hcall' = IF hcall.outcome = "network" /\ hcall.cancelled THEN [hcall EXCEPT !.pc = "done", !.outcome = "cancelled"]
                ELSE IF hcall.outcome # "network" /\ ~isRetryableStatus(hcall.outcome) THEN [hcall EXCEPT !.pc = "done"]
                ELSE [hcall EXCEPT !.pc = "backoff"]

\* doWithRetry: what is not retryable is returned, so is the last failure.
HandleAnswer ==
    /\ hcall.pc = "answer"
    /\ hcall' = IF hcall.outcome = "network" /\ hcall.cancelled THEN [hcall EXCEPT !.pc = "done", !.outcome = "cancelled"]
                ELSE IF hcall.outcome # "network" /\ ~isRetryableStatus(hcall.outcome) THEN [hcall EXCEPT !.pc = "done"]
                ELSE IF hcall.attempt >= MaxRetries THEN [hcall EXCEPT !.pc = "done"]
                ELSE [hcall EXCEPT !.pc = "backoff"]

\* Both channels may be ready; either may be taken.
Backoff ==
    /\ hcall.pc = "backoff"
    /\ \/ hcall' = [hcall EXCEPT !.pc = "send", !.attempt = IF @ < MaxRetries + 1 THEN @ + 1 ELSE @]
       \/ hcall.cancelled /\ hcall' = [hcall EXCEPT !.pc = "done", !.outcome = "cancelled"]

CancelCall ==
    /\ hcall.pc # "done" /\ ~hcall.cancelled /\ hcall' = [hcall EXCEPT !.cancelled = TRUE]

CallProgress ==
    \/ SendAttempt \/ HandleAnswer \/ Backoff
    \/ \E status \in {"200", "400", "429", "5xx", "network"} : GatewayAnswers(status)

CallStep == BeginCall \/ CallProgress \/ CancelCall

-----------------------------------------------------------------------------
(* The stream *)

\* The gateway sends deltas, an error or done, and ends the response.
GatewayStreams(ev) ==
    /\ ~upstream.ended /\ Len(streamWire) < 2 /\ upstream.sent < MaxDeltas
    /\ upstream' = [upstream EXCEPT !.sent = @ + 1] /\ streamWire' = Append(streamWire, ev)
    /\ UNCHANGED <<bodyClosed, canceled, loop, chan, reader>>

\* The response ends, or the connection breaks.
GatewayEnds(how) ==
    /\ ~upstream.ended /\ Len(streamWire) < 2
    /\ upstream' = [upstream EXCEPT !.ended = TRUE] /\ streamWire' = Append(streamWire, how)
    /\ UNCHANGED <<bodyClosed, canceled, loop, chan, reader>>

\* parseSSE reads an event and emits it; a closed body ends the read.
parseSSE ==
    /\ loop.pc = "read"
    /\ IF bodyClosed THEN loop' = [loop EXCEPT !.pc = "judge", !.ev = "reset"] /\ UNCHANGED streamWire
       ELSE /\ streamWire # <<>> /\ streamWire' = Tail(streamWire)
            /\ loop' = IF Head(streamWire) \in {"eof", "reset"} THEN [loop EXCEPT !.pc = "judge", !.ev = Head(streamWire)]
                       ELSE [pc |-> "emit", ev |-> Head(streamWire), sawDone |-> loop.sawDone \/ Head(streamWire) = "done",
                             sawError |-> loop.sawError \/ Head(streamWire) = "error"]
    /\ UNCHANGED <<upstream, bodyClosed, canceled, chan, reader>>

\* The send blocks while the channel is full.
EmitDelta ==
    /\ loop.pc = "emit" /\ Len(chan) < StreamBuffer
    /\ chan' = Append(chan, loop.ev) /\ loop' = [loop EXCEPT !.pc = "read"]
    /\ UNCHANGED <<upstream, streamWire, bodyClosed, canceled, reader>>

\* Mutant of JudgeEnd: every proper end of the response is a clean one.
JudgeEndLoosely ==
    /\ loop.pc = "judge"
    /\ loop' = [loop EXCEPT !.pc =
          IF loop.ev = "eof" \/ bodyClosed \/ canceled \/ loop.sawError THEN "close" ELSE "report"]
    /\ UNCHANGED <<upstream, streamWire, bodyClosed, canceled, chan, reader>>

\* A clean end needs done; a stop of the caller's is no failure; an error is
\* reported once.
JudgeEnd ==
    /\ loop.pc = "judge"
    /\ loop' = [loop EXCEPT !.pc =
          IF (loop.ev = "eof" /\ loop.sawDone) \/ bodyClosed \/ canceled \/ loop.sawError THEN "close" ELSE "report"]
    /\ UNCHANGED <<upstream, streamWire, bodyClosed, canceled, chan, reader>>

ReportTruncation ==
    /\ loop.pc = "report" /\ Len(chan) < StreamBuffer
    /\ chan' = Append(chan, "error") /\ loop' = [loop EXCEPT !.pc = "close"]
    /\ UNCHANGED <<upstream, streamWire, bodyClosed, canceled, reader>>

\* The deferred closes: watcher, body, channel.
CloseStream ==
    /\ loop.pc = "close" /\ loop' = [loop EXCEPT !.pc = "over"] /\ bodyClosed' = TRUE
    /\ UNCHANGED <<upstream, streamWire, canceled, chan, reader>>

\* The watcher closes the body when the context is done.
WatchContext ==
    /\ canceled /\ ~bodyClosed /\ loop.pc # "over" /\ bodyClosed' = TRUE
    /\ UNCHANGED <<upstream, streamWire, canceled, loop, chan, reader>>

\* The caller takes a delta, or sees the closed channel.
TakeDelta ==
    /\ reader.pc \in {"reading", "draining"}
    /\ IF chan # <<>> THEN chan' = Tail(chan) /\ reader' = [reader EXCEPT !.got = @ \cup {Head(chan)}]
       ELSE loop.pc = "over" /\ reader' = [reader EXCEPT !.pc = IF @ = "reading" THEN "whole" ELSE "drained"] /\ UNCHANGED chan
    /\ UNCHANGED <<upstream, streamWire, bodyClosed, canceled, loop>>

\* The caller closes the body and drains what is left.
CloseAndDrain ==
    /\ reader.pc = "reading" /\ reader' = [reader EXCEPT !.pc = "draining"] /\ bodyClosed' = TRUE
    /\ UNCHANGED <<upstream, streamWire, canceled, loop, chan>>

CancelStream ==
    /\ ~canceled /\ reader.pc = "reading"
    /\ canceled' = TRUE /\ reader' = [reader EXCEPT !.pc = "draining"]
    /\ UNCHANGED <<upstream, streamWire, bodyClosed, loop, chan>>

\* Mutant of LoopStep: nobody watches the context.
LoopUnwatched == parseSSE \/ EmitDelta \/ JudgeEnd \/ ReportTruncation \/ CloseStream

LoopStep == parseSSE \/ EmitDelta \/ JudgeEnd \/ ReportTruncation \/ CloseStream \/ WatchContext

StreamStep ==
    \/ \E ev \in {"delta", "done", "error"} : GatewayStreams(ev)
    \/ \E how \in {"eof", "reset"} : GatewayEnds(how)
    \/ LoopStep \/ TakeDelta \/ CloseAndDrain \/ CancelStream

-----------------------------------------------------------------------------
(* The active profile of a workspace *)

Active == {p \in Profiles : routes[p].active}

InFlight == {s \in RouteSets : routeSet[s].pc \in {"reset", "upsert"}}

SetBegin(s, p) ==
    /\ routeSet[s].pc = "idle"
    /\ routeClock' = routeClock + 1
    /\ routeSet' = [routeSet EXCEPT ![s] = [pc |-> "reset", profile |-> p, at |-> routeClock']]
    /\ overlapped' = (InFlight # {}) /\ UNCHANGED routes

\* Mutant of ResetActive: the mapping in use is left active.
ResetNone(s) ==
    /\ routeSet[s].pc = "reset" /\ routeSet' = [routeSet EXCEPT ![s].pc = "upsert"]
    /\ UNCHANGED <<routes, routeClock, overlapped>>

\* The update sees the rows committed so far.  Its own changes and the upsert
\* become visible together; that the rows are reset here and not at the commit
\* only shows readers fewer active rows.
ResetActive(s) ==
    /\ routeSet[s].pc = "reset" /\ routeSet' = [routeSet EXCEPT ![s].pc = "upsert"]
    /\ routes' = [p \in Profiles |-> [routes[p] EXCEPT !.active = FALSE]]
    /\ UNCHANGED <<routeClock, overlapped>>

UpsertActive(s) ==
    /\ routeSet[s].pc = "upsert" /\ routeSet' = [routeSet EXCEPT ![s].pc = "done"]
    /\ routes' = [routes EXCEPT ![routeSet[s].profile] = [active |-> TRUE, used |-> routeSet[s].at]]
    /\ UNCHANGED <<routeClock, overlapped>>

RemoveProfile(p) ==
    /\ routes[p].used > 0 /\ InFlight = {}
    /\ routes' = [routes EXCEPT ![p] = [active |-> FALSE, used |-> 0]]
    /\ UNCHANGED <<routeSet, routeClock, overlapped>>

RouteStep ==
    \/ \E s \in RouteSets : ResetActive(s) \/ UpsertActive(s) \/ \E p \in Profiles : SetBegin(s, p)
    \/ \E p \in Profiles : RemoveProfile(p)

-----------------------------------------------------------------------------
HermesNext ==
    \/ (CallStep /\ UNCHANGED <<streamVars, routeVars>>)
    \/ (StreamStep /\ UNCHANGED <<callVars, routeVars>>)
    \/ (RouteStep /\ UNCHANGED <<callVars, streamVars>>)

HermesSpec == HermesInit /\ [][HermesNext]_hermesVars

\* Attempts time out, a closed body ends the read, the caller drains.
HermesFairSpec ==
    /\ HermesSpec
    /\ WF_hermesVars(CallProgress /\ UNCHANGED <<streamVars, routeVars>>)
    /\ WF_hermesVars(LoopStep /\ UNCHANGED <<callVars, routeVars>>)
    /\ WF_hermesVars(TakeDelta /\ UNCHANGED <<callVars, routeVars>>)

-----------------------------------------------------------------------------
HermesTypeOK ==
    /\ hcall.attempt \in 0 .. MaxRetries + 1 /\ Len(chan) <= StreamBuffer /\ bodyClosed \in BOOLEAN
    /\ Active \subseteq Profiles

\* A caller that read the stream to its end and stopped nothing has seen done
\* or an error: a truncated answer is never taken for a whole one.
TruncationNoticed == reader.pc = "whole" => {"done", "error"} \cap reader.got # {}

\* The channel is closed once the caller has stopped and drains: neither a full
\* channel nor a silent gateway keeps the goroutine.
StreamStops == []<>(reader.pc # "draining")

\* A request ends: it is given up after the retries, whatever the gateway does.
CallReturns == []<>(hcall.pc \in {"idle", "done"})

\* Sets that did not overlap leave one active profile, also when earlier ones
\* that did overlap had left two.
OneActiveRoute == InFlight = {} /\ ~overlapped => Cardinality(Active) <= 1
=============================================================================
