----------------------------- MODULE SSEStream ------------------------------
(***************************************************************************)
(* One browser's event stream, end to end: goroutines broadcast through    *)
(* the replay log (EventLog), the hub queues events on the browser's       *)
(* current connection, the handler replays what the Last-Event-ID header   *)
(* says was missed (internal/sse/sse_handler.go, sse_hub.go), and the      *)
(* browser reconnects with the id of the event it received last.           *)
(*                                                                         *)
(* Two kinds of event share the ids "tree:seq": logged ones, numbered and  *)
(* stored by the log, and those of the sync engine, numbered by the        *)
(* database and sent verbatim, unlogged (internal/sync/engine.go,          *)
(* Broadcast's SequenceNum # 0 path).                                      *)
(*                                                                         *)
(* A connection goes through the handler's phases:                         *)
(*   "opening"   subscribed, first flush;                                  *)
(*   "replaying" ReplaySince sends, nothing is flushed meanwhile;          *)
(*   "live"      the event loop flushes.                                   *)
(***************************************************************************)
EXTENDS EventLog, Sequences

CONSTANTS
  OutCap,     \* outbox capacity (EventBufferSize)
  MaxConns,   \* bound: connections the browser opens
  MaxSync     \* bound: events the sync engine sends

ASSUME OutCapAssumption == OutCap \in Nat \ {0}
ASSUME StreamBoundAssumption == MaxConns \in Nat /\ MaxSync \in Nat

VARIABLES
  sending,   \* per producer: the number it logged and has still to send, or 0
  synced,    \* the database's sequence for this tree
  syncing,   \* its events that are stored and have still to be sent
  current,      \* the current connection
  conns,     \* connections opened so far
  lastId,    \* Last-Event-ID: the id received last, 0 before the first
  got,       \* numbers of the logged events received
  start,     \* counter when the browser last subscribed without an id: a
             \* page load, which fetches the tree itself
  told       \* the browser was told that events may be missing

streamVars == <<logVars, sending, synced, syncing, current, conns, lastId, got, start, told>>

stream == <<sending, synced, syncing, current, conns, lastId, got, start, told>>

Overflow == [kind |-> "overflow", id |-> 0]

Event(k, n) == [kind |-> k, id |-> n]

NoConn == [phase |-> "none", outbox |-> <<>>, replay |-> {}, since |-> 0,
           had |-> {}, aborted |-> FALSE]

StreamInit ==
  /\ LogInit
  /\ sending = [p \in Producers |-> 0]
  /\ synced = 0
  /\ syncing = {}
  /\ current = NoConn
  /\ conns = 0
  /\ lastId = 0
  /\ got = {}
  /\ start = 0
  /\ told = FALSE

Up == current.phase # "none"

-----------------------------------------------------------------------------
(* Broadcasting.                                                           *)

\* Broadcast of an unnumbered event: log.Append ...
BroadcastNumber(p) == sending[p] = 0 /\ NextSeq(p) /\ UNCHANGED stream

BroadcastStamp(p) == Stamp(p) /\ UNCHANGED stream

BroadcastLog(p) ==
  /\ RingAppend(p)
  /\ sending' = [sending EXCEPT ![p] = call[p].seq]
  /\ UNCHANGED <<synced, syncing, current, conns, lastId, got, start, told>>

Queue(e) == [current EXCEPT !.outbox = Append(@, e), !.had = @ \cup {e}]

\* Mutants: a client is registered only when its replay is over; Send ignores
\* the outbox capacity.
DepositLiveOnly(e) ==
  current' = CASE current.phase # "live"                                -> current
            [] current.phase = "live" /\ Len(current.outbox) < OutCap   -> Queue(e)
            [] current.phase = "live" /\ Len(current.outbox) >= OutCap  -> NoConn
DepositUnbounded(e) == current' = IF Up THEN Queue(e) ELSE current

\* What a Send does to the connection: queue the event, or, when the outbox is
\* full, lose the connection as a slow client.
Deposit(e) ==
  current' = CASE ~Up                                -> current
            [] Up /\ Len(current.outbox) < OutCap    -> Queue(e)
            [] Up /\ Len(current.outbox) >= OutCap   -> NoConn

\* ... then the snapshot of the subscribers and the Send.
SendLogged(p) ==
  /\ sending[p] # 0
  /\ Deposit(Event("log", sending[p]))
  /\ sending' = [sending EXCEPT ![p] = 0]
  /\ UNCHANGED <<logVars, synced, syncing, conns, lastId, got, start, told>>

\* The sync engine: AppendEvent stores the event, which the database numbers ...
SyncAppend ==
  /\ synced < MaxSync
  /\ synced' = synced + 1
  /\ syncing' = syncing \cup {synced + 1}
  /\ UNCHANGED <<logVars, sending, current, conns, lastId, got, start, told>>

\* ... and the request's goroutine broadcasts it, in no order with others.
SyncBroadcast(n) ==
  /\ n \in syncing
  /\ syncing' = syncing \ {n}
  /\ Deposit(Event("sync", n))
  /\ UNCHANGED <<logVars, sending, synced, conns, lastId, got, start, told>>

-----------------------------------------------------------------------------
(* The handler.                                                            *)

\* Subscribe, before the headers are written and before any replay.
Connect ==
  /\ ~Up /\ conns < MaxConns
  /\ current' = [NoConn EXCEPT !.phase = "opening", !.since = lastId]
  /\ conns' = conns + 1
  /\ start' = IF lastId = 0 THEN counter ELSE start
  /\ UNCHANGED <<logVars, sending, synced, syncing, lastId, got, told>>

\* parseEventID: the number of the Last-Event-ID.
ReplayFrom == current.since

\* ReplaySince reads the log.  Without a Last-Event-ID nothing is replayed; a
\* truncated answer is announced with EVENT_BUFFER_OVERFLOW first.
Replay ==
  /\ current.phase = "opening"
  /\ LET r == Since(ReplayFrom, Cap) IN
       current' = [current EXCEPT
                  !.phase  = "replaying",
                  !.replay = IF current.since = 0 THEN {} ELSE r.events,
                  !.outbox = IF current.since # 0 /\ r.truncated /\ Len(@) < OutCap
                             THEN Append(@, Overflow) ELSE @]
  /\ UNCHANGED <<logVars, sending, synced, syncing, conns, lastId, got, start, told>>

\* The replayed events are sent in ascending order; the first one that does
\* not fit ends the replay, and the handler goes on to its event loop.
ReplaySend ==
  /\ current.phase = "replaying" /\ current.replay # {}
  /\ LET n == CHOOSE m \in current.replay : \A k \in current.replay : m =< k IN
       current' = IF Len(current.outbox) < OutCap
               THEN [Queue(Event("log", n)) EXCEPT !.replay = @ \ {n}]
               ELSE [current EXCEPT !.replay = {}, !.aborted = TRUE]
  /\ UNCHANGED <<logVars, sending, synced, syncing, conns, lastId, got, start, told>>

ReplayDone ==
  /\ current.phase = "replaying" /\ current.replay = {}
  /\ current' = [current EXCEPT !.phase = "live"]
  /\ UNCHANGED <<logVars, sending, synced, syncing, conns, lastId, got, start, told>>

\* Mutant: only the flushes around the replay drain the outbox.
FlushingOnceOnly == current.phase = "opening"

\* Flush runs before the replay and in the event loop, not during the replay.
Flushing == current.phase \in {"opening", "live"}

\* A flush hands the next queued event to the browser, which remembers its id.
Deliver ==
  /\ Flushing /\ current.outbox # <<>>
  /\ LET e == Head(current.outbox) IN
       /\ lastId' = IF e.kind = "overflow" THEN lastId ELSE e.id
       /\ got' = IF e.kind = "log" THEN got \cup {e.id} ELSE got
       /\ told' = (told \/ e.kind = "overflow")
  /\ current' = [current EXCEPT !.outbox = Tail(@)]
  /\ UNCHANGED <<logVars, sending, synced, syncing, conns, start>>

\* The connection breaks; what was queued on it is lost.
Disconnect ==
  /\ Up
  /\ current' = NoConn
  /\ UNCHANGED <<logVars, sending, synced, syncing, conns, lastId, got, start, told>>

LogTime == (Prune \/ Tick) /\ UNCHANGED stream

-----------------------------------------------------------------------------

Producer(p) ==
  BroadcastStamp(p) \/ BroadcastLog(p) \/ SendLogged(p)

Handler == Replay \/ ReplaySend \/ ReplayDone \/ Deliver

StreamNext ==
  \/ \E p \in Producers : BroadcastNumber(p) \/ Producer(p)
  \/ SyncAppend \/ \E n \in syncing : SyncBroadcast(n)
  \/ Connect
  \/ Handler
  \/ Disconnect
  \/ LogTime

\* A connection's handler keeps replaying and flushing while the connection
\* lasts; nobody has to connect or to broadcast.
StreamFairness == WF_streamVars(Handler)

StreamSpec == StreamInit /\ [][StreamNext]_streamVars /\ StreamFairness

-----------------------------------------------------------------------------
(* Properties.                                                             *)

StreamTypeOK ==
  /\ LogTypeOK
  /\ sending \in [Producers -> 0..MaxSeq]
  /\ synced \in 0..MaxSync
  /\ syncing \subseteq 1..synced
  /\ current.phase \in {"none", "opening", "replaying", "live"}
  /\ Len(current.outbox) =< OutCap
  /\ current.replay \subseteq 1..MaxSeq
  /\ conns \in 0..MaxConns
  /\ got \subseteq 1..MaxSeq
  /\ start \in 0..MaxSeq
  /\ told \in BOOLEAN

\* Numbers whose Broadcast has returned.
Sent == {n \in 1..counter : /\ \A p \in Producers : sending[p] # n
                            /\ n \notin Held}

\* Subscribing before the replay closes the gap between the two: once a
\* connection is live, every event past the id it came with whose
\* Broadcast has returned was put on this connection, by the replay or live,
\* unless the log no longer had it or the replay did not fit the outbox.
NoGapBetweenReplayAndLive ==
  current.phase = "live" /\ ~current.aborted /\ current.since # 0 =>
    \A n \in Sent : n > current.since /\ n \notin evicted \cup pruned =>
      Event("log", n) \in current.had

\* Everything queued on a connection reaches the browser or the connection
\* ends.
QueuedIsDelivered == current.outbox # <<>> ~> current.outbox = <<>>

Quiet ==
  /\ current.phase = "live" /\ current.outbox = <<>>
  /\ \A p \in Producers : sending[p] = 0 /\ call[p].at = "idle"
  /\ syncing = {}

\* "Stream missed events in order": a browser that is connected again, with
\* nothing under way, has received every event since its page load that the
\* log still holds, or was told that it missed some.
ResumeComplete ==
  Quiet /\ ~told /\ ~current.aborted =>
    \A n \in Logged : n > start => n \in got
=============================================================================
