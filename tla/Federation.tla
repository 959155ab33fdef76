------------------------------ MODULE Federation ------------------------------
(***************************************************************************)
(* Events queued for a federated peer, delivered to it in chunks by several *)
(* goroutines at once, and the link they go over.  The sending server keeps *)
(* its queue in the database; the receiving one keeps half-received events  *)
(* and the session key in memory and may restart.                           *)
(***************************************************************************)
EXTENDS Integers, FiniteSets, FiniteSetsExt, Functions

CONSTANTS
    LastSequence,    \* sequence numbers of the events sent are 1 .. LastSequence
    Deliverers,      \* goroutines in DeliverPending: the loop, a dispatch, a handshake
    Chunks,          \* frames per event
    FailureLimit,    \* DefaultFailureLimit
    QueueDepth,      \* MaxPeerQueueDepth
    MaxRestarts,     \* restarts of the receiver
    MaxAttempts      \* failed attempts per event that are followed

ASSUME FederationAssumption == {LastSequence, Chunks, FailureLimit, QueueDepth, MaxAttempts} \subseteq Nat

VARIABLES
    queue,           \* federation_events: sequence -> [status, attempts]
    acked,           \* sequences some deliverer saw acknowledged
    cursor,          \* federation_replay_cursors
    link,            \* state of the peer's row, "none" without a row
    handshake,       \* AcceptFederationLink between its look-up and its write
    deliverer,       \* goroutine -> [pc, batch, frame]; batch: sequence -> attempts
    chunks,          \* receiver: sequence -> parts assembled so far
    session,         \* receiver: the shared secret is known
    applied,         \* receiver: events decrypted and applied
    receipts,        \* receiver: federation_event_receipts
    broadcasts,      \* receiver: sequence -> times put on its tree's stream
    restarts

fedVars == <<queue, acked, cursor, link, handshake, deliverer, chunks, session, applied, receipts, broadcasts, restarts>>
senderVars == <<queue, acked, cursor, link, handshake>>
receiverVars == <<chunks, session, applied, receipts, broadcasts, restarts>>

FedSequences == 1 .. LastSequence
Undelivered == {e \in FedSequences : queue[e].status \in {"pending", "failed"}}
IdleDeliverer == [pc |-> "idle", batch |-> <<>>, frame |-> 1]

FedInit ==
    /\ queue = [e \in FedSequences |-> [status |-> "none", attempts |-> 0]]
    /\ acked = {} /\ cursor = 0 /\ link = "none" /\ handshake = "idle"
    /\ deliverer = [d \in Deliverers |-> IdleDeliverer]
    /\ chunks = [e \in FedSequences |-> {}] /\ session = TRUE /\ applied = {} /\ receipts = {}
    /\ broadcasts = [e \in FedSequences |-> 0] /\ restarts = 0

-----------------------------------------------------------------------------
(* The link *)

\* One row per server and tree; a second link, revoked or not, is refused.
CreateFederationLink ==
    /\ link = "none" /\ link' = "connected"
    /\ UNCHANGED <<queue, acked, cursor, handshake, deliverer, receiverVars>>

\* A handshake looks for a revoked row ...
AcceptFederationLink ==
    /\ handshake = "idle" /\ link # "revoked" /\ handshake' = "upsert"
    /\ UNCHANGED <<queue, acked, cursor, link, deliverer, receiverVars>>

\* Mutant of UpsertAccepted: without WHERE state <> revoked.
UpsertAlways ==
    /\ handshake = "upsert" /\ handshake' = "idle" /\ link' = "connected"
    /\ UNCHANGED <<queue, acked, cursor, deliverer, receiverVars>>

\* ... and writes later: a row revoked since is left alone.
UpsertAccepted ==
    /\ handshake = "upsert" /\ handshake' = "idle"
    /\ link' = IF link = "revoked" THEN link ELSE "connected"
    /\ UNCHANGED <<queue, acked, cursor, deliverer, receiverVars>>

RevokeFederationLink ==
    /\ link # "none" /\ link' = "revoked"
    /\ UNCHANGED <<queue, acked, cursor, handshake, deliverer, receiverVars>>

-----------------------------------------------------------------------------
(* The sender's queue *)

\* The surplus is deleted: what was delivered first, then the oldest.
Surplus(q) ==
    LET rows == {e \in FedSequences : q[e].status # "none"}
        rank(e) == IF q[e].status = "delivered" THEN e ELSE e + LastSequence
    IN  {e \in rows : Cardinality({f \in rows : rank(f) > rank(e)}) >= QueueDepth}

\* Envelopes come numbered in order.
Enqueue(e) ==
    /\ link # "none" /\ queue[e].status = "none" /\ \A f \in 1 .. e - 1 : queue[f].status # "none"
    /\ LET q == [queue EXCEPT ![e].status = "pending"]
       IN  queue' = [f \in FedSequences |-> IF f \in Surplus(q) \/ q[f].status = "deleted"
                                            THEN [q[f] EXCEPT !.status = "deleted"] ELSE q[f]]
    /\ UNCHANGED <<acked, cursor, link, handshake, deliverer, receiverVars>>

\* The pending and the failed, with the attempts made so far.
Pending(d) ==
    /\ deliverer[d].pc = "idle" /\ link # "none" /\ Undelivered # {}
    /\ deliverer' = [deliverer EXCEPT ![d] = [IdleDeliverer EXCEPT !.pc = "send",
          !.batch = [e \in Undelivered |-> queue[e].attempts]]]
    /\ UNCHANGED <<senderVars, receiverVars>>

\* The batch is worked off in the order of the sequences.
Current(d) == Min(DOMAIN deliverer[d].batch)
Step(d, pc) == deliverer' = [deliverer EXCEPT ![d].pc = pc]
NextEvent(d) ==
    LET rest == DOMAIN deliverer[d].batch \ {Current(d)} IN
    deliverer' = [deliverer EXCEPT ![d] = IF rest = {} THEN IdleDeliverer
                                          ELSE [pc |-> "send", batch |-> Restrict(@.batch, rest), frame |-> 1]]

\* The peer did not acknowledge a frame: the event failed, and with it the
\* batch.  At the limit, by the attempts the batch was read with, the peer's
\* state is overwritten, whatever it is.
MarkFailed(e, attempts) ==
    /\ queue' = IF queue[e].status = "deleted" THEN queue
                ELSE [queue EXCEPT ![e] = [status |-> "failed", attempts |-> @.attempts + 1]]
    /\ link' = IF attempts + 1 >= FailureLimit THEN "disconnected" ELSE link

\* Mutant of GiveUp: the batch goes on with the next event.
GoOn(d) ==
    /\ deliverer[d].pc = "failed" /\ queue[Current(d)].attempts < MaxAttempts
    /\ MarkFailed(Current(d), deliverer[d].batch[Current(d)])
    /\ NextEvent(d)
    /\ UNCHANGED <<acked, cursor, handshake, receiverVars>>

GiveUp(d) ==
    /\ deliverer[d].pc = "failed" /\ queue[Current(d)].attempts < MaxAttempts
    /\ MarkFailed(Current(d), deliverer[d].batch[Current(d)])
    /\ deliverer' = [deliverer EXCEPT ![d] = IdleDeliverer]
    /\ UNCHANGED <<acked, cursor, handshake, receiverVars>>

\* Every frame was acknowledged: the row is marked, the cursor moves forward.
MarkDelivered(d) ==
    LET e == Current(d) IN
    /\ deliverer[d].pc = "acked"
    /\ acked' = acked \cup {e}
    /\ queue' = IF queue[e].status = "deleted" THEN queue ELSE [queue EXCEPT ![e].status = "delivered"]
    /\ cursor' = Max({cursor, e})
    /\ NextEvent(d)
    /\ UNCHANGED <<link, handshake, receiverVars>>

\* An answer of the receiver: the next frame, the end of the event, or the
\* sender does not get it.
Answered(d) ==
    \/ deliverer' = [deliverer EXCEPT ![d] = IF @.frame = Chunks THEN [@ EXCEPT !.pc = "acked"]
                                             ELSE [@ EXCEPT !.pc = "send", !.frame = deliverer[d].frame + 1]]
    \/ Step(d, "failed")

-----------------------------------------------------------------------------
(* The receiver *)

\* The parts of an event gather under its id until all are there.
acceptFrame(d) ==
    LET e == Current(d)  parts == chunks[e] \cup {deliverer[d].frame} IN
    /\ deliverer[d].pc = "send"
    /\ IF parts = 1 .. Chunks
       THEN chunks' = [chunks EXCEPT ![e] = {}] /\ Step(d, "receive")
       ELSE chunks' = [chunks EXCEPT ![e] = parts] /\ Answered(d)
    /\ UNCHANGED <<senderVars, session, applied, receipts, broadcasts, restarts>>

\* The frame does not reach the receiver, or is refused (the rate limit).
FrameLost(d) ==
    /\ deliverer[d].pc = "send" /\ Step(d, "failed")
    /\ UNCHANGED <<senderVars, receiverVars>>

\* The complete event is decrypted with the session's key and applied.
ReceiveEvent(d) ==
    /\ deliverer[d].pc = "receive"
    /\ IF session THEN applied' = applied \cup {Current(d)} /\ Step(d, "receipt")
                  ELSE Step(d, "failed") /\ UNCHANGED applied
    /\ UNCHANGED <<senderVars, chunks, session, receipts, broadcasts, restarts>>

\* Mutant of RecordReceipt: an event received before counts as fresh.
RecordAgain(d) ==
    /\ deliverer[d].pc = "receipt"
    /\ receipts' = receipts \cup {Current(d)} /\ Step(d, "broadcast")
    /\ UNCHANGED <<senderVars, chunks, session, applied, broadcasts, restarts>>

\* The receipt is inserted once; an event received before is acknowledged and
\* goes no further.
RecordReceipt(d) ==
    /\ deliverer[d].pc = "receipt"
    /\ receipts' = receipts \cup {Current(d)}
    /\ IF Current(d) \in receipts THEN Answered(d) ELSE Step(d, "broadcast")
    /\ UNCHANGED <<senderVars, chunks, session, applied, broadcasts, restarts>>

BroadcastRemote(d) ==
    /\ deliverer[d].pc = "broadcast"
    /\ broadcasts' = [broadcasts EXCEPT ![Current(d)] = @ + 1]
    /\ Answered(d)
    /\ UNCHANGED <<senderVars, chunks, session, applied, receipts, restarts>>

\* A restart ends the requests in flight and loses what was in memory.
RestartReceiver ==
    /\ restarts < MaxRestarts /\ restarts' = restarts + 1
    /\ chunks' = [e \in FedSequences |-> {}] /\ session' = FALSE
    /\ deliverer' = [d \in Deliverers |-> IF deliverer[d].pc \in {"receive", "receipt", "broadcast"}
                                          THEN [deliverer[d] EXCEPT !.pc = "failed"] ELSE deliverer[d]]
    /\ UNCHANGED <<senderVars, applied, receipts, broadcasts>>

\* The servers shake hands again, which makes a new key.
EstablishSession ==
    /\ ~session /\ session' = TRUE
    /\ UNCHANGED <<senderVars, deliverer, chunks, applied, receipts, broadcasts, restarts>>

FedNext ==
    \/ CreateFederationLink \/ AcceptFederationLink \/ UpsertAccepted \/ RevokeFederationLink
    \/ \E e \in FedSequences : Enqueue(e)
    \/ \E d \in Deliverers : Pending(d) \/ GiveUp(d) \/ MarkDelivered(d) \/ acceptFrame(d) \/ FrameLost(d)
                             \/ ReceiveEvent(d) \/ RecordReceipt(d) \/ BroadcastRemote(d)
    \/ RestartReceiver \/ EstablishSession

FedSpec == FedInit /\ [][FedNext]_fedVars

-----------------------------------------------------------------------------
FedTypeOK ==
    /\ \A e \in FedSequences : queue[e].status \in {"none", "pending", "failed", "delivered", "deleted"}
    /\ link \in {"none", "connected", "disconnected", "revoked"}
    /\ receipts \subseteq applied /\ cursor \in 0 .. LastSequence

\* "Never pass a failed sequence": an event is acknowledged after every earlier
\* one that was not deleted from a full queue, however goroutines overlap, and
\* the cursor is at an acknowledged event.
NoneOvertakes ==
    /\ \A e \in acked, f \in 1 .. LastSequence : f < e => f \in acked \/ queue[f].status = "deleted"
    /\ cursor # 0 => cursor \in acked

\* However often an event is delivered, its tree's stream shows it once.
ShownOnce == \A e \in FedSequences : broadcasts[e] <= 1

\* A handshake does not bring a revoked link back.
HandshakeKeepsRevoked == [][link = "revoked" => link' # "connected"]_fedVars

\* What SPEC-FTR-02 says of the relay: delivery at least once.  An event the
\* sender counts as delivered was received.
AtLeastOnce == \A e \in FedSequences : queue[e].status = "delivered" => e \in applied
=============================================================================
