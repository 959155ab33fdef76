-------------------------- MODULE TransportAdapters --------------------------
(***************************************************************************)
(* The adapters under the connection manager, each with its own goroutines: *)
(*   websocket_adapter.go  two pumps per socket, a bridge per Receive        *)
(*   sse_adapter.go        a consumer per remote stream that reconnects, or  *)
(*                         a client of the local hub                         *)
(*   nats_adapter.go, webrtc_adapter.go  callbacks that deliver under a      *)
(*                         lock, and Disconnect calls that may overlap       *)
(*   relay/client.go       a loop that dials the relay, and Close            *)
(* They share no state.  Messages are counted or numbered, never looked into.*)
(* A send on a closed channel panics and ends the process: crashed.          *)
(***************************************************************************)
EXTENDS Integers, Sequences, FiniteSets

CONSTANTS
    Sockets,       \* WebSocket connections
    Remotes,       \* connections of the SSE adapter
    LinksOf,       \* connections of the NATS and WebRTC adapters
    Leavers,       \* concurrent calls of their Disconnect
    AdapterBuffer, \* capacity of recvChan and sendChan (256 in the code)
    MaxFeed,       \* bound: events a remote stream publishes
    MaxWires,      \* bound: calls of the shared NATS client's Connect
    MaxLoops       \* bound: times the relay client is started

ASSUME AdaptersAssumption ==
    /\ AdapterBuffer \in Nat \ {0} /\ MaxFeed \in Nat
    /\ MaxWires \in Nat /\ MaxLoops \in Nat \ {0}

VARIABLES
    crashed,   \* a goroutine sent on a closed channel
    sockets,   \* WebSocket: wsConn, its Connection.State and its goroutines
    casting,   \* the connections BroadcastToTenant still has to visit
    remotes,   \* SSE: sseConnection and its consumer
    feed,      \* SSE: what the remote server has published, in order
    links,     \* NATS and WebRTC: the connection and its subscription or peer
    leavers,   \* NATS and WebRTC: calls of Disconnect
    wire,      \* NATS: which connection of the client is the current one
    drained,   \* NATS: the connections of the client that were drained
    loops,     \* relay client: its run loops, one per Start
    client     \* relay client: state, cancel, stopping, and the call of Close

socketVars == <<sockets, casting>>
remoteVars == <<remotes, feed>>
linkVars == <<links, leavers, wire, drained>>
clientVars == <<loops, client>>
adapterVars == <<crashed, socketVars, remoteVars, linkVars, clientVars>>

-----------------------------------------------------------------------------
(* WebSocket *)

NoSocket == [state |-> "none", listed |-> FALSE, done |-> 0, recv |-> 0, ws |-> "none", reader |-> "none",
             writer |-> "none", bridge |-> "none", in |-> 0, out |-> 0]

SocketsInit == sockets = [s \in Sockets |-> NoSocket] /\ casting = {}

\* closeOnce: the first to come closes its channel, the later ones do nothing.
\* done and recvChan share it.
CloseDone(k) == IF k.done + k.recv = 0 THEN [k EXCEPT !.done = 1] ELSE k
CloseRecv(k) == IF k.done + k.recv = 0 THEN [k EXCEPT !.recv = 1] ELSE k

WsBecomes(s, k) == sockets' = [sockets EXCEPT ![s] = k] /\ UNCHANGED <<crashed, casting>>

\* Connect registers a connection; one with a target was dialed and has pumps.
WsConnect(s) ==
    /\ sockets[s].state = "none"
    /\ \/ WsBecomes(s, [NoSocket EXCEPT !.state = "active", !.listed = TRUE])
       \/ WsBecomes(s, [NoSocket EXCEPT !.state = "active", !.listed = TRUE, !.ws = "open",
                                        !.reader = "read", !.writer = "run"])

\* ServeHTTP: an upgraded request.
WsServeHTTP(s) ==
    /\ sockets[s].state = "none"
    /\ WsBecomes(s, [NoSocket EXCEPT !.state = "active", !.listed = TRUE, !.ws = "open",
                                     !.reader = "read", !.writer = "run"])

\* Send found the connection, perhaps before it was removed, and waits for
\* room in sendChan; a connection that is done may be chosen either way.
WsSend(s) ==
    /\ sockets[s].state # "none" /\ sockets[s].out < AdapterBuffer
    /\ WsBecomes(s, [sockets[s] EXCEPT !.out = @ + 1])

\* BroadcastToTenant copies the room under the lock and sends without it; a
\* full channel is skipped.
BroadcastToTenant ==
    /\ casting = {} /\ casting' = {s \in Sockets : sockets[s].listed}
    /\ UNCHANGED <<crashed, sockets>>

BroadcastTo(s) ==
    /\ s \in casting /\ casting' = casting \ {s} /\ UNCHANGED crashed
    /\ \/ sockets[s].out < AdapterBuffer /\ sockets' = [sockets EXCEPT ![s].out = @ + 1]
       \/ (sockets[s].out = AdapterBuffer \/ sockets[s].done > 0) /\ UNCHANGED sockets

\* Receive starts a goroutine that closes recvChan when its context ends.
WsReceive(s) ==
    /\ sockets[s].listed /\ sockets[s].bridge = "none"
    /\ WsBecomes(s, [sockets[s] EXCEPT !.bridge = "wait"])

WsBridge(s) ==
    /\ sockets[s].bridge = "wait"
    /\ \/ WsBecomes(s, [CloseRecv(sockets[s]) EXCEPT !.bridge = "gone"])
       \/ sockets[s].done > 0 /\ WsBecomes(s, [sockets[s] EXCEPT !.bridge = "gone"])

WsTake(s) == sockets[s].in > 0 /\ WsBecomes(s, [sockets[s] EXCEPT !.in = @ - 1])

\* readPump: it reads a message, then waits for room in recvChan or for done.
\* Messages that do not parse or claim another tenant are skipped.
ReadPump(s) ==
    /\ sockets[s].reader = "read"
    /\ \/ sockets[s].ws = "open" /\ WsBecomes(s, [sockets[s] EXCEPT !.reader = "deliver"])
       \/ WsBecomes(s, [CloseDone(sockets[s]) EXCEPT !.reader = "gone"])

ReadPumpDelivers(s) ==
    /\ sockets[s].reader = "deliver"
    /\ \/ sockets[s].recv > 0 /\ crashed' = TRUE /\ UNCHANGED <<sockets, casting>>
       \/ /\ sockets[s].recv = 0 /\ sockets[s].in < AdapterBuffer
          /\ WsBecomes(s, [sockets[s] EXCEPT !.in = @ + 1, !.reader = "read"])
       \/ sockets[s].done > 0 /\ WsBecomes(s, [sockets[s] EXCEPT !.reader = "gone"])

\* writePump: it writes what it takes from sendChan and a ping now and then;
\* a write that fails ends it.
WritePump(s) ==
    /\ sockets[s].writer = "run"
    /\ \/ /\ sockets[s].out > 0 /\ sockets[s].ws = "open"
          /\ WsBecomes(s, [sockets[s] EXCEPT !.out = @ - 1])
       \/ WsBecomes(s, [CloseDone(sockets[s]) EXCEPT !.writer = "gone"])

\* Disconnect takes the connection out of the maps under the lock, which makes
\* a second call return, and tears it down without it.
WsDisconnect(s) ==
    /\ sockets[s].listed
    /\ WsBecomes(s, [sockets[s] EXCEPT !.listed = FALSE, !.state = "disconnecting"])

WsTeardown(s) ==
    /\ sockets[s].state = "disconnecting"
    /\ WsBecomes(s, [CloseDone(sockets[s]) EXCEPT !.state = "closed",
                                                  !.ws = IF @ = "open" THEN "closed" ELSE @])

SocketsNext ==
    /\ ~crashed
    /\ \/ BroadcastToTenant
       \/ \E s \in Sockets :
             \/ WsConnect(s) \/ WsServeHTTP(s) \/ WsSend(s) \/ BroadcastTo(s) \/ WsReceive(s)
             \/ WsBridge(s) \/ WsTake(s) \/ ReadPump(s) \/ ReadPumpDelivers(s) \/ WritePump(s)
             \/ WsDisconnect(s) \/ WsTeardown(s)

-----------------------------------------------------------------------------
(* SSE *)

EventKinds == {"message", "text", "foreign"}

NoRemote == [state |-> "none", mode |-> "none", listed |-> FALSE, cancelled |-> FALSE, recv |-> 0,
             at |-> "none", leave |-> "none", pos |-> 0, lastID |-> 0, got |-> <<>>, in |-> 0]

RemotesInit == remotes = [r \in Remotes |-> NoRemote] /\ feed = <<>>

SaBecomes(r, k) == remotes' = [remotes EXCEPT ![r] = k] /\ UNCHANGED <<crashed, feed>>

\* Another server's stream: a transport message, an event that is not JSON, or
\* JSON without an opcode.
RemotePublishes(e) ==
    /\ Len(feed) < MaxFeed /\ feed' = Append(feed, e)
    /\ UNCHANGED <<crashed, remotes>>

\* Connect: an HTTP target starts a consumer, a tree id subscribes to the hub.
SaConnect(r) ==
    /\ remotes[r].state = "none"
    /\ \/ SaBecomes(r, [NoRemote EXCEPT !.state = "active", !.mode = "http", !.listed = TRUE, !.at = "mark"])
       \/ SaBecomes(r, [NoRemote EXCEPT !.state = "active", !.mode = "hub", !.listed = TRUE, !.at = "hub"])

\* consumeHTTP, consumeOnce: the request asks for what follows lastID; without
\* one the server sends what it publishes from now on.
ConsumeHTTP(r) ==
    /\ remotes[r].at = "dial"
    /\ \/ SaBecomes(r, [remotes[r] EXCEPT !.state = "active", !.at = "read",
                                          !.pos = IF remotes[r].lastID = 0 THEN Len(feed) ELSE remotes[r].lastID])
       \/ SaBecomes(r, [remotes[r] EXCEPT !.at = "ended"])

\* readSSE: text is skipped, an unknown opcode ends the stream, and so does any
\* failure of it.
ReadSSE(r) ==
    /\ remotes[r].at = "read"
    /\ \/ /\ remotes[r].pos < Len(feed)
          /\ LET e == feed[remotes[r].pos + 1]
             IN  \/ e = "message" /\ SaBecomes(r, [remotes[r] EXCEPT !.at = "deliver"])
                 \/ e = "text" /\ SaBecomes(r, [remotes[r] EXCEPT !.pos = @ + 1])
                 \/ e = "foreign" /\ SaBecomes(r, [remotes[r] EXCEPT !.at = "ended"])
       \/ SaBecomes(r, [remotes[r] EXCEPT !.at = "ended"])

\* The hub calls Send of a client it still has.
HubSends(r) ==
    /\ remotes[r].at = "hub" /\ remotes[r].listed
    /\ SaBecomes(r, [remotes[r] EXCEPT !.at = "deliver"])

\* The select of a delivery: the message is taken, and only then its id is the
\* cursor; or the connection is over.  When recv was closed meanwhile both are
\* ready.
SaDeliver(r) ==
    LET hub == remotes[r].mode = "hub"
    IN  /\ remotes[r].at = "deliver"
        /\ \/ remotes[r].recv > 0 /\ crashed' = TRUE /\ UNCHANGED remoteVars
           \/ /\ remotes[r].recv = 0 /\ remotes[r].in < AdapterBuffer
              /\ SaBecomes(r, IF hub THEN [remotes[r] EXCEPT !.in = @ + 1, !.at = "hub"]
                              ELSE [remotes[r] EXCEPT !.in = @ + 1, !.at = "read", !.pos = @ + 1,
                                                      !.lastID = remotes[r].pos + 1,
                                                      !.got = Append(@, remotes[r].pos + 1)])
           \/ remotes[r].cancelled /\ SaBecomes(r, [remotes[r] EXCEPT !.at = IF hub THEN "hub" ELSE "ended"])

\* After a stream, and after the wait before the next one, a consumer looks
\* whether it is cancelled: then it closes recv and ends.  It writes the state
\* afterwards, perhaps over what Disconnect wrote meanwhile.
ConsumerGoesOn(r) ==
    \/ remotes[r].at = "ended" /\ ~remotes[r].cancelled /\ SaBecomes(r, [remotes[r] EXCEPT !.at = "judge"])
    \/ remotes[r].at = "judge" /\ SaBecomes(r, [remotes[r] EXCEPT !.at = "wait",
                                       !.state = IF @ = "active" THEN @ ELSE "degraded"])
    \/ remotes[r].at = "wait" /\ ~remotes[r].cancelled /\ SaBecomes(r, [remotes[r] EXCEPT !.at = "mark"])
    \/ remotes[r].at = "mark" /\ SaBecomes(r, [remotes[r] EXCEPT !.at = "dial", !.state = "connecting"])

ConsumerEnds(r) ==
    /\ remotes[r].cancelled /\ remotes[r].at \in {"ended", "wait"}
    /\ SaBecomes(r, [remotes[r] EXCEPT !.at = "gone", !.recv = IF @ = 0 THEN 1 ELSE @])

SaTake(r) == remotes[r].in > 0 /\ SaBecomes(r, [remotes[r] EXCEPT !.in = @ - 1])

\* Disconnect: out of the map, marked, cancelled (for the hub unsubscribed and
\* done), recv closed, marked closed.
SaDisconnect(r) ==
    /\ remotes[r].listed
    /\ SaBecomes(r, [remotes[r] EXCEPT !.listed = FALSE, !.leave = "cancel", !.state = "disconnecting"])

SaCancel(r) ==
    /\ remotes[r].leave = "cancel"
    /\ SaBecomes(r, [remotes[r] EXCEPT !.cancelled = TRUE, !.leave = "close"])

SaClose(r) ==
    /\ remotes[r].leave = "close"
    /\ SaBecomes(r, [remotes[r] EXCEPT !.recv = IF @ = 0 THEN 1 ELSE @, !.leave = "finish"])

SaFinish(r) ==
    /\ remotes[r].leave = "finish"
    /\ SaBecomes(r, [remotes[r] EXCEPT !.state = "closed", !.leave = "left"])

RemotesNext ==
    /\ ~crashed
    /\ \/ \E e \in EventKinds : RemotePublishes(e)
       \/ \E r \in Remotes :
             \/ SaConnect(r) \/ ConsumeHTTP(r) \/ ReadSSE(r) \/ HubSends(r) \/ SaDeliver(r)
             \/ ConsumerGoesOn(r) \/ ConsumerEnds(r) \/ SaTake(r)
             \/ SaDisconnect(r) \/ SaCancel(r) \/ SaClose(r) \/ SaFinish(r)

-----------------------------------------------------------------------------
(* NATS and WebRTC *)

NoLink == [kind |-> "none", state |-> "none", listed |-> FALSE, wire |-> 0, open |-> FALSE, at |-> "none",
           deal |-> "none", closed |-> FALSE, recv |-> 0, in |-> 0, reading |-> FALSE, stale |-> FALSE]

NobodyLeaves == [at |-> "idle", link |-> "none", held |-> FALSE, last |-> FALSE]

LinksInit ==
    /\ links = [c \in LinksOf |-> NoLink] /\ leavers = [k \in Leavers |-> NobodyLeaves]
    /\ wire = 0 /\ drained = {}

LinkBecomes(c, l) == links' = [links EXCEPT ![c] = l] /\ UNCHANGED <<crashed, leavers, wire, drained>>

Over == {"disconnecting", "closed"}

\* NATS Connect: the shared client makes another connection, which replaces the
\* one it had.
NATSConnect(c) ==
    /\ links[c].at = "none" /\ wire < MaxWires
    /\ wire' = wire + 1
    /\ links' = [links EXCEPT ![c] = [NoLink EXCEPT !.kind = "nats", !.state = "connecting", !.wire = wire + 1,
                                                    !.at = "subscribe"]]
    /\ UNCHANGED <<crashed, leavers, drained>>

\* Subscribe uses whatever connection the client has by now; when it fails the
\* client is drained.
NATSSubscribe(c) ==
    /\ links[c].at = "subscribe"
    /\ \/ wire \notin drained /\ LinkBecomes(c, [links[c] EXCEPT !.wire = wire, !.open = TRUE, !.at = "register"])
       \/ /\ drained' = drained \cup {wire} /\ links' = [links EXCEPT ![c].at = "failed"]
          /\ UNCHANGED <<crashed, leavers, wire>>

NATSRegister(c) ==
    /\ links[c].at = "register"
    /\ LinkBecomes(c, [links[c] EXCEPT !.listed = TRUE, !.at = "activate"])

NATSActivate(c) ==
    /\ links[c].at = "activate"
    /\ LinkBecomes(c, [links[c] EXCEPT !.state = "active", !.at = "up"])

\* WebRTC Connect: a peer connection, its callbacks and its signals; then it is
\* registered.  An offerer that cannot offer disconnects it again.
WebRTCConnect(c) ==
    /\ links[c].at = "none"
    /\ \E role \in {"offer", "up"} :
          LinkBecomes(c, [NoLink EXCEPT !.kind = "webrtc", !.state = "connecting", !.open = TRUE,
                                        !.listed = TRUE, !.at = role])

WebRTCOffer(c) ==
    /\ links[c].at = "offer"
    /\ \/ LinkBecomes(c, [links[c] EXCEPT !.at = "up", !.deal = IF @ = "none" THEN "offered" ELSE @])
       \/ LinkBecomes(c, [links[c] EXCEPT !.at = "failed"])

\* handleSignals: an answerer answers an offer, an offerer takes the answer, until
\* Disconnect cancels it.  Candidates and signals out of turn change nothing.
HandleSignals(c) ==
    /\ links[c].kind = "webrtc" /\ links[c].at = "up" /\ links[c].deal \in {"none", "offered"}
    /\ LinkBecomes(c, [links[c] EXCEPT !.deal = "settled"])

\* handleStatus, setPeerState: the library reports a state; a connection that
\* is being disconnected keeps its own.  A data channel opens when the two peers
\* have exchanged descriptions.
LinkStates == {"connecting", "active", "degraded"}

LinkStatus(c, s) ==
    /\ links[c].state \notin Over \cup {"none"}
    /\ \/ links[c].kind = "nats" /\ links[c].listed /\ s # "connecting"
       \/ links[c].kind = "webrtc" /\ (s = "active" => links[c].deal = "settled")
    /\ LinkBecomes(c, [links[c] EXCEPT !.state = s])

\* deliver holds the delivery lock for reading from the look at closed to the
\* send; a full channel drops the message.
DeliverBegins(c) ==
    /\ links[c].open /\ ~links[c].reading /\ ~links[c].closed
    /\ LinkBecomes(c, [links[c] EXCEPT !.reading = TRUE])

DeliverSends(c) ==
    /\ links[c].reading
    /\ IF links[c].recv > 0 THEN crashed' = TRUE /\ UNCHANGED linkVars
       ELSE LinkBecomes(c, [links[c] EXCEPT !.reading = FALSE, !.in = IF @ < AdapterBuffer THEN @ + 1 ELSE @])

LinkTake(c) == links[c].in > 0 /\ LinkBecomes(c, [links[c] EXCEPT !.in = @ - 1])

LeaverBecomes(k, q) == leavers' = [leavers EXCEPT ![k] = q]

\* Disconnect, of a user, of Receive's goroutine, of Shutdown or of a failed
\* offer: it takes the connection out of the map, ...
LinkDisconnect(k, c) ==
    /\ leavers[k].at = "idle"
    /\ \/ links[c].at = "up"
       \/ links[c].kind = "webrtc" /\ (links[c].at = "failed" \/ (links[c].at = "offer" /\ links[c].listed))
    /\ links' = [links EXCEPT ![c].listed = FALSE,
                              ![c].stale = @ \/ (\E j \in Leavers : leavers[j].link = c)]
    /\ LeaverBecomes(k, [at |-> "mark", link |-> c, held |-> links[c].listed,
                         last |-> links[c].kind = "nats"
                                  /\ (\A d \in LinksOf \ {c} : ~(links[d].kind = "nats" /\ links[d].listed))])
    /\ UNCHANGED <<crashed, wire, drained>>

\* ... returns when it is closed already, else marks it, ...
LinkMarks(k) ==
    LET c == leavers[k].link
    IN  /\ leavers[k].at = "mark"
        /\ \/ links[c].state = "closed" /\ LeaverBecomes(k, NobodyLeaves) /\ UNCHANGED links
           \/ /\ links[c].state # "closed" /\ links' = [links EXCEPT ![c].state = "disconnecting"]
              /\ LeaverBecomes(k, [leavers[k] EXCEPT !.at = IF leavers[k].held THEN "release" ELSE "drain"])
        /\ UNCHANGED <<crashed, wire, drained>>

\* ... ends the subscription, which only the call that took it out holds, ...
LinkReleases(k) ==
    LET c == leavers[k].link
    IN  /\ leavers[k].at = "release"
        /\ LeaverBecomes(k, [leavers[k] EXCEPT !.at = "close"])
        /\ links' = [links EXCEPT ![c].open = IF links[c].kind = "nats" THEN FALSE ELSE @,
                                  ![c].deal = "ended"]
        /\ UNCHANGED <<crashed, wire, drained>>

\* Mutant: recv is closed without the delivery lock.
LinkClosesUnlocked(k) ==
    LET c == leavers[k].link
    IN  /\ leavers[k].at = "close"
        /\ LeaverBecomes(k, [leavers[k] EXCEPT !.at = "drain"])
        /\ links' = [links EXCEPT ![c].closed = TRUE, ![c].recv = @ + 1, ![c].open = FALSE]
        /\ UNCHANGED <<crashed, wire, drained>>

\* ... closes recv under the delivery lock, and then the peer connection, ...
LinkCloses(k) ==
    LET c == leavers[k].link
    IN  /\ leavers[k].at = "close" /\ ~links[c].reading
        /\ LeaverBecomes(k, [leavers[k] EXCEPT !.at = "drain"])
        /\ links' = [links EXCEPT ![c].closed = TRUE, ![c].recv = @ + 1, ![c].open = FALSE]
        /\ UNCHANGED <<crashed, wire, drained>>

\* ... drains the client when no other connection was left, ...
LinkDrains(k) ==
    /\ leavers[k].at = "drain"
    /\ LeaverBecomes(k, [leavers[k] EXCEPT !.at = "finish"])
    /\ IF leavers[k].last
       THEN /\ drained' = drained \cup {wire}
            /\ links' = [c \in LinksOf |-> IF links[c].kind = "nats" /\ links[c].wire = wire
                                           THEN [links[c] EXCEPT !.open = FALSE] ELSE links[c]]
       ELSE UNCHANGED <<drained, links>>
    /\ UNCHANGED <<crashed, wire>>

\* ... and marks it closed.
LinkFinishes(k) ==
    /\ leavers[k].at = "finish"
    /\ links' = [links EXCEPT ![leavers[k].link].state = "closed"]
    /\ LeaverBecomes(k, NobodyLeaves)
    /\ UNCHANGED <<crashed, wire, drained>>

LinksNext ==
    /\ ~crashed
    /\ \/ \E c \in LinksOf :
             \/ NATSConnect(c) \/ NATSSubscribe(c) \/ NATSRegister(c) \/ NATSActivate(c)
             \/ WebRTCConnect(c) \/ WebRTCOffer(c) \/ DeliverBegins(c) \/ DeliverSends(c)
             \/ LinkTake(c)
             \/ HandleSignals(c) \/ \E s \in LinkStates : LinkStatus(c, s)
             \/ \E k \in Leavers : LinkDisconnect(k, c)
       \/ \E k \in Leavers :
             LinkMarks(k) \/ LinkReleases(k) \/ LinkCloses(k) \/ LinkDrains(k) \/ LinkFinishes(k)

-----------------------------------------------------------------------------
(* The relay's client *)

NoLoop == [at |-> "none", cancelled |-> FALSE, conn |-> FALSE, bye |-> FALSE]
Ended == {"none", "finished"}

\* client: cancel is the run loop whose cancel function it holds, 0 for none, and
\* done the one whose done channel; service is the status of the RelayService.
ClientStart == [state |-> "disconnected", cancel |-> 0, done |-> 0, stopping |-> FALSE,
                service |-> "disabled", handled |-> 0]

ClientLoopInit == loops = [g \in 1 .. MaxLoops |-> NoLoop] /\ client = ClientStart

LoopBecomes(g, l, s) ==
    /\ loops' = [loops EXCEPT ![g] = l] /\ client' = [client EXCEPT !.state = s] /\ UNCHANGED crashed

\* Start does nothing while there is a cancel function, be its loop over or not.
RcStart ==
    /\ client.service = "disabled" /\ client.cancel = 0 /\ client.done < MaxLoops
    /\ client' = [client EXCEPT !.cancel = client.done + 1, !.done = client.done + 1, !.service = "running"]
    /\ loops' = [loops EXCEPT ![client.done + 1] = [NoLoop EXCEPT !.at = "connect"]]
    /\ UNCHANGED crashed

RcConnect(g) == loops[g].at = "connect" /\ LoopBecomes(g, [loops[g] EXCEPT !.at = "dial"], "connecting")

\* A dial fails or yields a connection, on which the client says HELLO.
RcDial(g) ==
    /\ loops[g].at = "dial"
    /\ \/ ~loops[g].cancelled /\ LoopBecomes(g, [loops[g] EXCEPT !.at = "hello", !.conn = TRUE], client.state)
       \/ LoopBecomes(g, [loops[g] EXCEPT !.at = "over"], client.state)

RcHello(g) ==
    /\ loops[g].at = "hello"
    /\ \/ LoopBecomes(g, [loops[g] EXCEPT !.at = "serve"], "connected")
       \/ LoopBecomes(g, [loops[g] EXCEPT !.at = "over", !.conn = FALSE], client.state)

\* serve: a frame for the handler, BYE, a failed read or write, or the end of
\* the context.
RcServe(g) ==
    /\ loops[g].at = "serve"
    /\ \/ /\ client.handled = 0 /\ client' = [client EXCEPT !.handled = g] /\ UNCHANGED <<loops, crashed>>
       \/ LoopBecomes(g, [loops[g] EXCEPT !.at = "over", !.conn = FALSE, !.bye = TRUE], client.state)
       \/ LoopBecomes(g, [loops[g] EXCEPT !.at = "over", !.conn = FALSE], client.state)

\* The handler returns.
RcHandled == client.handled > 0 /\ client' = [client EXCEPT !.handled = 0] /\ UNCHANGED <<loops, crashed>>

\* After a connection, or none: BYE, the end of the context and StopAccepting
\* end the loop, else it waits and dials again.
RcOver(g) ==
    /\ loops[g].at = "over" /\ client.handled # g
    /\ IF loops[g].bye \/ loops[g].cancelled \/ client.stopping
       THEN LoopBecomes(g, [loops[g] EXCEPT !.at = "finished"], "disconnected")
       ELSE LoopBecomes(g, [loops[g] EXCEPT !.at = "backoff"], "backoff")

RcBackoff(g) ==
    /\ loops[g].at = "backoff"
    /\ \/ LoopBecomes(g, [loops[g] EXCEPT !.at = "connect"], client.state)
       \/ loops[g].cancelled /\ LoopBecomes(g, [loops[g] EXCEPT !.at = "finished"], "disconnected")

\* The relay service shuts down: no connection after the present one, ...
RcShutdown ==
    /\ client.service = "running"
    /\ client' = [client EXCEPT !.service = "draining", !.stopping = TRUE] /\ UNCHANGED <<loops, crashed>>

\* ... time for it to end by itself, and then Close: cancel, wait for the loop,
\* forget it.
RcClose ==
    /\ client.service = "draining"
    /\ client' = [client EXCEPT !.service = "closing"]
    /\ loops' = [g \in 1 .. MaxLoops |-> IF g = client.cancel THEN [loops[g] EXCEPT !.cancelled = TRUE] ELSE loops[g]]
    /\ UNCHANGED crashed

RcClosed ==
    /\ client.service = "closing" /\ loops[client.done].at = "finished"
    /\ client' = [client EXCEPT !.service = "disabled", !.cancel = 0]
    /\ UNCHANGED <<loops, crashed>>

ClientLoopNext ==
    \/ RcStart \/ RcHandled \/ RcShutdown \/ RcClose \/ RcClosed
    \/ \E g \in 1 .. MaxLoops :
          RcConnect(g) \/ RcDial(g) \/ RcHello(g) \/ RcServe(g) \/ RcOver(g) \/ RcBackoff(g)

-----------------------------------------------------------------------------
AdaptersInit == crashed = FALSE /\ SocketsInit /\ RemotesInit /\ LinksInit /\ ClientLoopInit

AdaptersTypeOK ==
    /\ crashed \in BOOLEAN /\ casting \subseteq Sockets /\ wire \in 0 .. MaxWires
    /\ \A s \in Sockets : sockets[s].in \in 0 .. AdapterBuffer /\ sockets[s].out \in 0 .. AdapterBuffer
    /\ \A r \in Remotes : remotes[r].in \in 0 .. AdapterBuffer /\ remotes[r].pos \in 0 .. Len(feed)
    /\ \A c \in LinksOf : links[c].in \in 0 .. AdapterBuffer

\* Closing a channel twice panics: however pumps, bridges, consumers and
\* Disconnect calls race, each channel is closed at most once.
ClosedOnce ==
    /\ \A s \in Sockets : sockets[s].done + sockets[s].recv <= 1
    /\ \A r \in Remotes : remotes[r].recv <= 1
    /\ \A c \in LinksOf : links[c].recv <= 1

\* The callbacks of NATS and WebRTC never send on a closed channel.  The read
\* pump of a WebSocket does when Receive's context ended first, and the SSE
\* consumer when Disconnect came in between.
OnlyReadersCrash ==
    crashed => \/ \E s \in Sockets : sockets[s].reader = "deliver" /\ sockets[s].bridge = "gone"
               \/ \E r \in Remotes : remotes[r].at = "deliver" /\ remotes[r].cancelled

\* However often its stream breaks, a remote's messages arrive in order, none
\* twice and none skipped from the first on.
FeedInOrder ==
    \A r \in Remotes : \A i \in 1 .. Len(remotes[r].got) - 1 :
        /\ remotes[r].got[i] < remotes[r].got[i + 1]
        /\ \A e \in remotes[r].got[i] + 1 .. remotes[r].got[i + 1] - 1 : feed[e] # "message"

\* A disconnected link is let go of, its subscription or peer and its channel
\* closed, unless two Disconnect calls overlapped.
LinksReleased ==
    \A c \in LinksOf :
        links[c].state = "closed" /\ ~links[c].stale /\ (\A k \in Leavers : leavers[k].link # c)
            => links[c].closed /\ ~links[c].open /\ ~links[c].listed

\* One run loop at a time, and once the service is shut down none,
\* nor a handler at work.
OneLoop ==
    /\ \A g, h \in 1 .. MaxLoops : loops[g].at \notin Ended /\ loops[h].at \notin Ended => g = h
    /\ client.service = "disabled" => client.state = "disconnected" /\ client.handled = 0
=============================================================================
