----------------------------- MODULE SSEClient ------------------------------
(***************************************************************************)
(* One SSE connection, internal/sse/sse_client.go: the bounded outbox that *)
(* broadcasting goroutines fill with Send, the handler goroutine empties   *)
(* with Flush, and Close tears down while both may be running.             *)
(*                                                                         *)
(* Every test of the closed flag is a step of its own, apart from the      *)
(* channel operation it guards, because no lock covers the two.            *)
(*                                                                         *)
(* Messages are numbered by acceptance: message n is the n-th one Send put *)
(* into the outbox.  A goroutine whose Send fails closes the client, which *)
(* is what Broadcast does with its drop list (sse_hub.go:343-352); Forcer  *)
(* is Shutdown's forced close (sse_hub.go:475-488).                        *)
(***************************************************************************)
EXTENDS Integers, Sequences, FiniteSets

CONSTANTS
  Senders,   \* goroutines that call Send on this client
  Forcer,    \* the goroutine running the hub's Shutdown
  Cap,       \* outbox capacity (EventBufferSize)
  MaxMsgs    \* bound: messages accepted

ASSUME CapAssumption == Cap \in Nat \ {0}
ASSUME MaxMsgsAssumption == MaxMsgs \in Nat
ASSUME ForcerAssumption == Forcer \notin Senders
ASSUME SendersAssumption == IsFiniteSet(Senders)

Goroutines == Senders \cup {Forcer}

Nil == 0   \* what a receive from a closed, empty channel yields

VARIABLES
  closed,    \* the closed flag
  channel,   \* "open" or "closed": the outbox channel
  outbox,    \* its buffered messages
  accepted,  \* how many messages Send has queued
  written,   \* messages written to the network, in order
  goroutine, \* per goroutine: where it is inside Send or Close
  flush,     \* where the handler goroutine is: between flushes, in the drain
             \* loop, writing (holding mu), or gone
  msg,       \* the message the handler took from the outbox last
  drainer,   \* the goroutine Close starts: none, running or exited
  panicked   \* a send hit the closed channel

clientVars == <<closed, channel, outbox, accepted, written, goroutine, flush, msg, drainer, panicked>>

ClientInit ==
  /\ closed = FALSE
  /\ channel = "open"
  /\ outbox = <<>>
  /\ accepted = 0
  /\ written = <<>>
  /\ goroutine = [g \in Goroutines |-> "idle"]
  /\ flush = "between"
  /\ msg = Nil
  /\ drainer = "none"
  /\ panicked = FALSE

ClientGoto(g, l) == goroutine' = [goroutine EXCEPT ![g] = l]

-----------------------------------------------------------------------------
(* Send and SendRaw: the same flag test and the same non-blocking send.    *)

\* The test of the closed flag.  An error of either kind sends the caller on
\* to Close.
SendCheck(g) ==
  /\ goroutine[g] = "idle"
  /\ accepted + Cardinality({h \in Senders : goroutine[h] = "checked"}) < MaxMsgs
  /\ ClientGoto(g, IF closed THEN "drop" ELSE "checked")
  /\ UNCHANGED <<closed, channel, outbox, accepted, written, flush, msg, drainer, panicked>>

Put(g, queue) ==
  /\ goroutine[g] = "checked" /\ channel = "open"
  /\ outbox' = Append(queue, accepted + 1)
  /\ accepted' = accepted + 1
  /\ ClientGoto(g, "idle")
  /\ UNCHANGED <<closed, channel, written, flush, msg, drainer, panicked>>

\* Mutants: the outbox holds one message too many; a full outbox gives up its
\* oldest message to make room.
SendQueuedOverfull(g) == Len(outbox) =< Cap /\ Put(g, outbox)
SendQueuedOverwrites(g) == Put(g, IF Len(outbox) < Cap THEN outbox ELSE Tail(outbox))

\* case c.outbox <- line: there is room and the message is queued.
SendQueued(g) == Len(outbox) < Cap /\ Put(g, outbox)

\* Mutant: no default case, so a full outbox blocks the sender.
SendSlowBlocks(g) == FALSE

\* The default case: the outbox is full, ErrClientSlow.
SendSlow(g) ==
  /\ goroutine[g] = "checked" /\ channel = "open"
  /\ Len(outbox) >= Cap
  /\ ClientGoto(g, "drop")
  /\ UNCHANGED <<closed, channel, outbox, accepted, written, flush, msg, drainer, panicked>>

\* The channel was closed after the flag test: the send panics.
SendPanics(g) ==
  /\ goroutine[g] = "checked" /\ channel = "closed"
  /\ panicked' = TRUE
  /\ ClientGoto(g, "dead")
  /\ UNCHANGED <<closed, channel, outbox, accepted, written, flush, msg, drainer>>

SendPush(g) == SendQueued(g) \/ SendSlow(g) \/ SendPanics(g)

-----------------------------------------------------------------------------
(* Close.                                                                  *)

\* Shutdown reaches this client in its forced-close loop, once.
ForceClose ==
  /\ goroutine[Forcer] = "idle"
  /\ ClientGoto(Forcer, "drop")
  /\ UNCHANGED <<closed, channel, outbox, accepted, written, flush, msg, drainer, panicked>>

\* Mutant: the flag is tested and set without a compare-and-swap.
CloseSwapUnguarded(g) ==
  /\ goroutine[g] = "drop"
  /\ closed' = TRUE
  /\ ClientGoto(g, "flushing")
  /\ UNCHANGED <<channel, outbox, accepted, written, flush, msg, drainer, panicked>>

Return(g) == ClientGoto(g, IF g = Forcer THEN "done" ELSE "idle")

\* CompareAndSwap(false, true): only one caller goes on.
CloseSwap(g) ==
  /\ goroutine[g] = "drop"
  /\ closed' = TRUE
  /\ IF closed THEN Return(g) ELSE ClientGoto(g, "flushing")
  /\ UNCHANGED <<channel, outbox, accepted, written, flush, msg, drainer, panicked>>

\* bestEffortClose takes mu, which the handler holds while it writes.
CloseFlush(g) ==
  /\ goroutine[g] = "flushing"
  /\ flush # "writing"
  /\ ClientGoto(g, "signalling")
  /\ UNCHANGED <<closed, channel, outbox, accepted, written, flush, msg, drainer, panicked>>

\* close(doneCh) and the start of the draining goroutine.
CloseSignal(g) ==
  /\ goroutine[g] = "signalling"
  /\ drainer' = "running"
  /\ ClientGoto(g, "closing")
  /\ UNCHANGED <<closed, channel, outbox, accepted, written, flush, msg, panicked>>

\* Mutant: the outbox channel is never closed.
CloseOutboxSkipped(g) ==
  /\ goroutine[g] = "closing"
  /\ Return(g)
  /\ UNCHANGED <<closed, channel, outbox, accepted, written, flush, msg, drainer, panicked>>

\* close(outbox).  Closing it twice would panic too.
CloseOutbox(g) ==
  /\ goroutine[g] = "closing"
  /\ channel' = "closed"
  /\ panicked' = (panicked \/ channel = "closed")
  /\ Return(g)
  /\ UNCHANGED <<closed, outbox, accepted, written, flush, msg, drainer>>

\* for range c.outbox: drop what is left, exit once it is closed and empty.
Drain ==
  /\ drainer = "running"
  /\ \/ /\ outbox # <<>>
        /\ outbox' = Tail(outbox)
        /\ UNCHANGED drainer
     \/ /\ outbox = <<>> /\ channel = "closed"
        /\ drainer' = "exited"
        /\ UNCHANGED outbox
  /\ UNCHANGED <<closed, channel, accepted, written, goroutine, flush, msg, panicked>>

-----------------------------------------------------------------------------
(* Flush, run by the handler's loop.                                       *)

\* Flush's test of the closed flag; ErrClientClosed ends the handler.
FlushStart ==
  /\ flush = "between"
  /\ flush' = IF closed THEN "gone" ELSE "loop"
  /\ UNCHANGED <<closed, channel, outbox, accepted, written, goroutine, msg, drainer, panicked>>

\* The receive: a message, or nil from a channel closed since the test.
FlushTake ==
  /\ flush = "loop"
  /\ \/ /\ outbox # <<>>
        /\ msg' = Head(outbox)
        /\ outbox' = Tail(outbox)
     \/ /\ outbox = <<>> /\ channel = "closed"
        /\ msg' = Nil
        /\ UNCHANGED outbox
  /\ flush' = "writing"
  /\ UNCHANGED <<closed, channel, accepted, written, goroutine, drainer, panicked>>

\* Mutant: the message is written again after a successful write.
FlushWriteTwice ==
  /\ flush = "writing"
  /\ written' = IF msg = Nil THEN written ELSE written \o <<msg, msg>>
  /\ msg' = Nil
  /\ flush' = "loop"
  /\ UNCHANGED <<closed, channel, outbox, accepted, goroutine, drainer, panicked>>

\* writeAll under mu.  Writing nil writes nothing and cannot fail.
FlushWrite ==
  /\ flush = "writing"
  /\ \/ /\ written' = IF msg = Nil THEN written ELSE Append(written, msg)
        /\ msg' = Nil
        /\ flush' = "loop"
     \/ /\ msg # Nil        \* the peer is gone or the write deadline passed
        /\ flush' = "gone"
        /\ UNCHANGED <<written, msg>>
  /\ UNCHANGED <<closed, channel, outbox, accepted, goroutine, drainer, panicked>>

\* The default case: the outbox is empty, flushBuf, back to the handler.
FlushEnd ==
  /\ flush = "loop"
  /\ outbox = <<>> /\ channel = "open"
  /\ flush' = "between"
  /\ UNCHANGED <<closed, channel, outbox, accepted, written, goroutine, msg, drainer, panicked>>

\* The request's context is cancelled between two flushes; the handler
\* returns without closing the client.
HandlerReturn ==
  /\ flush = "between"
  /\ flush' = "gone"
  /\ UNCHANGED <<closed, channel, outbox, accepted, written, goroutine, msg, drainer, panicked>>

-----------------------------------------------------------------------------

Finish(g) == SendPush(g) \/ CloseSwap(g) \/ CloseFlush(g) \/ CloseSignal(g) \/ CloseOutbox(g)

Handler == FlushStart \/ FlushTake \/ FlushWrite \/ FlushEnd

ClientNext ==
  \/ \E g \in Senders : SendCheck(g)
  \/ \E g \in Goroutines : Finish(g)
  \/ ForceClose
  \/ Handler
  \/ HandlerReturn
  \/ Drain

\* Goroutines that are runnable run: a call of Send or Close goes on, the
\* handler's loop turns, the draining goroutine drains.  Nobody is obliged to
\* start a Send, to force a close, or to disconnect.
ClientFairness ==
  /\ \A g \in Goroutines : WF_clientVars(Finish(g))
  /\ WF_clientVars(Handler)
  /\ WF_clientVars(Drain)

ClientSpec == ClientInit /\ [][ClientNext]_clientVars /\ ClientFairness

-----------------------------------------------------------------------------
(* Properties.                                                             *)

ClientTypeOK ==
  /\ closed \in BOOLEAN
  /\ channel \in {"open", "closed"}
  /\ outbox \in Seq(1..MaxMsgs) /\ Len(outbox) =< Cap
  /\ accepted \in 0..MaxMsgs
  /\ written \in Seq(1..MaxMsgs)
  /\ goroutine \in [Goroutines -> {"idle", "checked", "drop", "flushing", "signalling",
                            "closing", "dead", "done"}]
  /\ flush \in {"between", "loop", "writing", "gone"}
  /\ msg \in Nil..MaxMsgs
  /\ drainer \in {"none", "running", "exited"}
  /\ panicked \in BOOLEAN

Taken == IF msg = Nil THEN <<>> ELSE <<msg>>

\* As long as nobody has closed the client, nothing Send accepted is lost,
\* duplicated or reordered: it has been written, is being written, or waits
\* in the outbox, in the order of acceptance.
FifoUntilClosed ==
  ~closed => written \o Taken \o outbox = [n \in 1..accepted |-> n]

\* Whatever closes the client and whenever, no message reaches the network
\* twice and none overtakes an earlier one.
WireInOrder ==
  \A i, j \in 1..Len(written) : i < j => written[i] < written[j]

\* Only one goroutine is ever inside Close past the compare-and-swap, so the
\* channels are closed by one owner.
OneCloser ==
  \A g, h \in Goroutines :
    goroutine[g] \in {"flushing", "signalling", "closing"} /\
    goroutine[h] \in {"flushing", "signalling", "closing"} => g = h

\* Send never waits for the network: a sender past the flag test finishes its
\* call even if the outbox is full and the handler has left for good.
SendPending == \E g \in Senders : goroutine[g] = "checked"

SendReturns == []<>~SendPending

\* A closed client is torn down completely: the outbox is closed and emptied
\* and the draining goroutine ends, so no goroutine is leaked by Close.
CloseUnfinished == closed /\ ~(drainer = "exited" /\ outbox = <<>>)

CloseDrains == []<>~CloseUnfinished

\* "Implementations must be safe for concurrent use" and "Subsequent Send
\* calls return ErrClientClosed": no send or close hits a closed channel.
NoPanic == ~panicked

\* "invoke Flush in a loop until Close is called": a Flush that has begun
\* comes back to the handler, with an error once the client is closed.
FlushReturns == flush = "loop" ~> flush \in {"between", "gone"}
=============================================================================
