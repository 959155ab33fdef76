----------------------------- MODULE CardStream -----------------------------
(***************************************************************************)
(* The event stream of one card: events are stored under the next sequence *)
(* number and published afterwards to the live subscribers, through        *)
(* bounded channels that drop; a browser connects with the last id it saw, *)
(* gets a replay of what is stored behind it and then the live events.     *)
(* The stream of a card and the stream of an iteration card differ in the  *)
(* watermark that removes duplicates and in the goroutine between the hub  *)
(* and the response.                                                       *)
(***************************************************************************)
EXTENDS Integers, Sequences, FiniteSets, SequencesExt

CONSTANTS
    MaxCardEvents,  \* bound: events the card ever gets
    CardBuffer,     \* capacity of a subscriber's channel
    BacklogLimit    \* events a replay may hold

VARIABLES
    stored,         \* number of stored events; an event is its sequence number
    unpublished,    \* stored events whose publication is still to come
    conn,           \* the browser's connection
    cursor,         \* the last id the browser saw
    received,       \* events the browser ever received
    lost            \* events a full channel, a cut replay or a late publication
                    \* kept from the connection

csVars == <<stored, unpublished, conn, cursor, received, lost>>

CsKinds == {"card", "iteration"}

ConnOff == [kind |-> "card", phase |-> "off", start |-> 0, hub |-> <<>>, out |-> <<>>,
            todo |-> <<>>, through |-> 0, framed |-> <<>>]

CardStreamInit ==
    /\ stored = 0 /\ unpublished = {} /\ conn = ConnOff
    /\ cursor = 0 /\ received = {} /\ lost = {}

\* Mutant of Subscribed: the subscription comes after the replay.
SubscribedLate == conn.phase = "live"

Subscribed == conn.phase \in {"subscribed", "replay", "live"}

\* SELECT ... WHERE sequence > after ORDER BY sequence LIMIT limit
ListCardEvents(after, limit) ==
    [i \in 1 .. IF stored - after > limit THEN limit ELSE IF stored > after THEN stored - after ELSE 0
        |-> after + i]

-----------------------------------------------------------------------------
AppendCardEvent ==
    /\ stored < MaxCardEvents
    /\ stored' = stored + 1 /\ unpublished' = unpublished \cup {stored + 1}
    /\ UNCHANGED <<conn, cursor, received, lost>>

\* A full channel is skipped.
Publish(s) ==
    /\ s \in unpublished
    /\ unpublished' = unpublished \ {s}
    /\ IF ~Subscribed THEN UNCHANGED <<conn, lost>>
       ELSE IF Len(conn.hub) < CardBuffer
            THEN conn' = [conn EXCEPT !.hub = Append(@, s)] /\ UNCHANGED lost
            ELSE lost' = lost \cup {s} /\ UNCHANGED conn
    /\ UNCHANGED <<stored, cursor, received>>

\* The goroutine of SubscribeCardEvents, between the hub and the response.
PumpEvent ==
    /\ conn.kind = "card" /\ conn.hub # <<>>
    /\ IF Len(conn.out) < CardBuffer
       THEN conn' = [conn EXCEPT !.hub = Tail(@), !.out = Append(@, Head(conn.hub))] /\ UNCHANGED lost
       ELSE conn' = [conn EXCEPT !.hub = Tail(@)] /\ lost' = lost \cup {Head(conn.hub)}
    /\ UNCHANGED <<stored, unpublished, cursor, received>>

-----------------------------------------------------------------------------
\* Card stream: the backlog is looked at before the subscription.  Iteration
\* stream: the subscription comes first.
OpenStream(k) ==
    /\ conn.phase = "off"
    /\ k = "card" => stored - cursor <= BacklogLimit
    /\ conn' = [ConnOff EXCEPT !.kind = k, !.start = cursor,
                               !.phase = IF k = "card" THEN "checked" ELSE "subscribed"]
    /\ lost' = {}
    /\ UNCHANGED <<stored, unpublished, cursor, received>>

SubscribeCardEvents ==
    /\ conn.phase = "checked"
    /\ conn' = [conn EXCEPT !.phase = "subscribed"]
    /\ UNCHANGED <<stored, unpublished, cursor, received, lost>>

\* The replay of a card stream is cut at the limit, and the watermark is the
\* highest number it wrote.
ReplayCard ==
    LET rows == ListCardEvents(cursor, BacklogLimit) IN
    /\ conn.kind = "card" /\ conn.phase = "subscribed"
    /\ conn' = [conn EXCEPT !.phase = "replay", !.todo = rows,
                            !.through = IF rows = <<>> THEN 0 ELSE Last(rows)]
    /\ lost' = lost \cup (cursor + Len(rows) + 1) .. stored
    /\ UNCHANGED <<stored, unpublished, cursor, received>>

\* A longer replay of an iteration stream is refused, and the watermark begins
\* at the cursor.
ReplayIteration ==
    LET rows == ListCardEvents(cursor, BacklogLimit + 1) IN
    /\ conn.kind = "iteration" /\ conn.phase = "subscribed"
    /\ conn' = IF Len(rows) > BacklogLimit THEN ConnOff
               ELSE [conn EXCEPT !.phase = "replay", !.todo = rows,
                                 !.through = IF rows = <<>> THEN cursor ELSE Last(rows)]
    /\ UNCHANGED <<stored, unpublished, cursor, received, lost>>

\* One frame reaches the browser, which keeps its id.
Framed(s) == received' = received \cup {s} /\ cursor' = s

WriteReplay ==
    /\ conn.phase = "replay"
    /\ IF conn.todo = <<>>
       THEN conn' = [conn EXCEPT !.phase = "live"] /\ UNCHANGED <<received, cursor>>
       ELSE /\ Framed(Head(conn.todo))
            /\ conn' = [conn EXCEPT !.todo = Tail(@), !.framed = Append(@, Head(conn.todo))]
    /\ UNCHANGED <<stored, unpublished, lost>>

\* Mutant of Duplicate: nothing is recognised as replayed.
NeverDuplicate(s) == FALSE

Duplicate(s) == s <= conn.through

StreamCardEvent ==
    LET s == Head(conn.out) IN
    /\ conn.kind = "card" /\ conn.phase = "live" /\ conn.out # <<>>
    /\ IF Duplicate(s)
       THEN conn' = [conn EXCEPT !.out = Tail(@)] /\ UNCHANGED <<received, cursor>>
       ELSE Framed(s) /\ conn' = [conn EXCEPT !.out = Tail(@), !.framed = Append(@, s)]
    /\ UNCHANGED <<stored, unpublished, lost>>

\* The iteration stream moves its watermark with every live event.
StreamIterationEvent ==
    LET s == Head(conn.hub) IN
    /\ conn.kind = "iteration" /\ conn.phase = "live" /\ conn.hub # <<>>
    /\ IF Duplicate(s)
       THEN /\ conn' = [conn EXCEPT !.hub = Tail(@)]
            /\ lost' = IF s \in received THEN lost ELSE lost \cup {s}
            /\ UNCHANGED <<received, cursor>>
       ELSE /\ Framed(s) /\ UNCHANGED lost
            /\ conn' = [conn EXCEPT !.hub = Tail(@), !.framed = Append(@, s), !.through = s]
    /\ UNCHANGED <<stored, unpublished>>

\* The browser goes away, a write fails or the server stops the request: the
\* subscription is released and what its channels hold is gone.
CloseStream ==
    /\ conn.phase # "off" /\ conn' = ConnOff
    /\ UNCHANGED <<stored, unpublished, cursor, received, lost>>

CardStreamNext ==
    \/ AppendCardEvent \/ \E s \in unpublished : Publish(s)
    \/ PumpEvent \/ SubscribeCardEvents \/ ReplayCard \/ ReplayIteration \/ WriteReplay
    \/ StreamCardEvent \/ StreamIterationEvent \/ CloseStream
    \/ \E k \in CsKinds : OpenStream(k)

CardStreamSpec == CardStreamInit /\ [][CardStreamNext]_csVars

-----------------------------------------------------------------------------
CardStreamTypeOK ==
    /\ stored \in 0 .. MaxCardEvents /\ cursor \in 0 .. stored
    /\ unpublished \cup received \cup lost \subseteq 1 .. stored
    /\ conn.kind \in CsKinds /\ Len(conn.hub) <= CardBuffer /\ Len(conn.out) <= CardBuffer

\* Although the subscription precedes the replay, so that an event may come
\* both ways, a connection never writes one sequence number twice.
EachSequenceOnce == IsInjective(conn.framed)

\* The subscription precedes the replay so that nothing falls between them:
\* once everything stored is published and written, a connection has had every
\* event behind its cursor that no full channel, cut replay or late
\* publication kept from it.
NothingSkipped ==
    /\ conn.phase = "live" /\ unpublished = {} /\ conn.hub = <<>> /\ conn.out = <<>>
    => (conn.start + 1) .. stored \subseteq ToSet(conn.framed) \cup lost

\* "Dropping is always recoverable": what a disconnected browser lacks is
\* behind its cursor, where the next replay reads it.
DroppedIsRecoverable == conn.phase = "off" => 1 .. cursor \subseteq received

(***************************************************************************)
(* Feedback of the user for the agent of one card: stored as an event,     *)
(* retained in memory until the agent acknowledges it, offered to the      *)
(* agent's subscription through a bounded channel that drops.  A           *)
(* subscription reads the stored items first and registers afterwards.     *)
(***************************************************************************)

CONSTANTS
    FeedbackIDs,    \* the items that may be submitted
    Agents,         \* the acknowledging calls
    FbBuffer        \* capacity of a subscription's channel

VARIABLES
    fbStored,       \* items with a user_feedback event
    fbAcked,        \* items with a feedback_acknowledged event
    fbPublishing,   \* items stored and not yet published by their request
    fbPending,      \* feedbackHub.pending
    fbSub,          \* the agent's subscription
    fbAck           \* agent call -> its acknowledgement under way

fbVars == <<fbStored, fbAcked, fbPublishing, fbPending, fbSub, fbAck>>

NoSub == [phase |-> "off", durable |-> {}, ch |-> <<>>, offered |-> {}, dropped |-> {}]

NoAck == [pc |-> "idle", item |-> {}]

FeedbackInit ==
    /\ fbStored = {} /\ fbAcked = {} /\ fbPublishing = {} /\ fbPending = {}
    /\ fbSub = NoSub /\ fbAck = [a \in Agents |-> NoAck]

durablePending == fbStored \ fbAcked

\* The items of set S go to the channel in any order, as far as it has room.
Offered(sub, S) ==
    {[sub EXCEPT !.ch = @ \o q,
                 !.offered = @ \cup {q[i] : i \in DOMAIN q},
                 !.dropped = @ \cup (S \ {q[i] : i \in DOMAIN q})] :
        q \in {p \in UNION {[1 .. n -> S] : n \in 0 .. FbBuffer} :
                  /\ \A i, j \in DOMAIN p : p[i] = p[j] => i = j
                  /\ LET room == FbBuffer - Len(sub.ch)
                     IN  Len(p) = IF Cardinality(S) <= room THEN Cardinality(S) ELSE room}}

-----------------------------------------------------------------------------
SubmitFeedbackEvent(f) ==
    /\ f \in FeedbackIDs \ fbStored
    /\ fbStored' = fbStored \cup {f} /\ fbPublishing' = fbPublishing \cup {f}
    /\ UNCHANGED <<fbAcked, fbPending, fbSub, fbAck>>

\* Retained, and offered to the subscription if its channel has room.
PublishFeedback(f) ==
    /\ f \in fbPublishing
    /\ fbPublishing' = fbPublishing \ {f}
    /\ fbPending' = fbPending \cup {f}
    /\ IF fbSub.phase = "on" THEN fbSub' \in Offered(fbSub, {f}) ELSE UNCHANGED fbSub
    /\ UNCHANGED <<fbStored, fbAcked, fbAck>>

\* SubscribeFeedback reads the stored items ...
ListPending ==
    /\ fbSub.phase = "off"
    /\ fbSub' = [NoSub EXCEPT !.phase = "listed", !.durable = durablePending]
    /\ UNCHANGED <<fbStored, fbAcked, fbPublishing, fbPending, fbAck>>

\* Mutant of SubscribeFeedback: only what was read is offered.
SubscribeDurableOnly ==
    /\ fbSub.phase = "listed"
    /\ fbPending' = fbPending \cup fbSub.durable
    /\ fbSub' \in Offered([fbSub EXCEPT !.phase = "on"], fbSub.durable)
    /\ UNCHANGED <<fbStored, fbAcked, fbPublishing, fbAck>>

\* ... and registers: what it read is retained and offered, and then what the
\* hub retains besides.
SubscribeFeedback ==
    /\ fbSub.phase = "listed"
    /\ fbPending' = fbPending \cup fbSub.durable
    /\ \E s \in Offered([fbSub EXCEPT !.phase = "on"], fbSub.durable) :
          fbSub' \in Offered(s, fbPending \ fbSub.durable)
    /\ UNCHANGED <<fbStored, fbAcked, fbPublishing, fbAck>>

TakeFeedback ==
    /\ fbSub.ch # <<>>
    /\ fbSub' = [fbSub EXCEPT !.ch = Tail(@)]
    /\ UNCHANGED <<fbStored, fbAcked, fbPublishing, fbPending, fbAck>>

CleanupSubscription ==
    /\ fbSub.phase # "off" /\ fbSub' = NoSub
    /\ UNCHANGED <<fbStored, fbAcked, fbPublishing, fbPending, fbAck>>

-----------------------------------------------------------------------------
\* Acknowledge looks for the item and its acknowledgement ...
Acknowledge(a, f) ==
    /\ fbAck[a].pc = "idle" /\ f \in fbStored \ fbAcked
    /\ fbAck' = [fbAck EXCEPT ![a] = [pc |-> "append", item |-> {f}]]
    /\ UNCHANGED <<fbStored, fbAcked, fbPublishing, fbPending, fbSub>>

\* Mutant of AppendAck: the item leaves memory before its event is stored.
AppendAckLate(a) ==
    /\ fbAck[a].pc = "append"
    /\ fbPending' = fbPending \ fbAck[a].item
    /\ fbAck' = [fbAck EXCEPT ![a].pc = "remove"]
    /\ UNCHANGED <<fbStored, fbAcked, fbPublishing, fbSub>>

\* ... appends the event ...
AppendAck(a) ==
    /\ fbAck[a].pc = "append"
    /\ fbAcked' = fbAcked \cup fbAck[a].item
    /\ fbAck' = [fbAck EXCEPT ![a].pc = "remove"]
    /\ UNCHANGED <<fbStored, fbPublishing, fbPending, fbSub>>

\* ... and removes the item from memory.
RemovePending(a) ==
    /\ fbAck[a].pc = "remove"
    /\ fbPending' = fbPending \ fbAck[a].item
    /\ fbAck' = [fbAck EXCEPT ![a] = NoAck]
    /\ UNCHANGED <<fbStored, fbAcked, fbPublishing, fbSub>>

\* The server restarts.
FeedbackRestart ==
    /\ fbPending' = {} /\ fbPublishing' = {} /\ fbSub' = NoSub
    /\ fbAck' = [a \in Agents |-> NoAck]
    /\ UNCHANGED <<fbStored, fbAcked>>

FeedbackNext ==
    \/ \E f \in FeedbackIDs : SubmitFeedbackEvent(f) \/ PublishFeedback(f)
    \/ ListPending \/ SubscribeFeedback \/ TakeFeedback \/ CleanupSubscription \/ FeedbackRestart
    \/ \E a \in Agents : \/ \E f \in FeedbackIDs : Acknowledge(a, f)
                         \/ AppendAck(a) \/ RemovePending(a)

FeedbackSpec == FeedbackInit /\ [][FeedbackNext]_fbVars

-----------------------------------------------------------------------------
FeedbackTypeOK ==
    /\ fbAcked \cup fbPending \cup fbPublishing \subseteq fbStored
    /\ fbStored \subseteq FeedbackIDs /\ Len(fbSub.ch) <= FbBuffer

\* A full or absent subscriber only delays feedback: an item without an
\* acknowledgement whose request has returned was offered to a live
\* subscription, although the subscription reads the stored items before it
\* registers, unless the channel was full.
NoFeedbackMissed ==
    fbSub.phase = "on" =>
        fbStored \ fbAcked \subseteq fbPublishing \cup fbSub.offered \cup fbSub.dropped

\* Memory forgets an item only after its acknowledgement is stored, or with
\* the server: while a server runs, what is stored, published and not
\* acknowledged is retained.
RetainedUntilAcknowledged ==
    [][\A f \in fbPending \ fbPending' : f \in fbAcked \/ FeedbackRestart]_fbVars
=============================================================================
