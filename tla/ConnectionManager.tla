------------------------- MODULE ConnectionManager -------------------------
(***************************************************************************)
(* Message routing of internal/transport/connection_manager.go for one     *)
(* peer: routers that run RouteMessage concurrently, connections that      *)
(* appear (OnConnect, which replays the offline queue), fail and go away,  *)
(* and the offline MessageQueue of message_queue.go.                       *)
(*                                                                         *)
(* RouteMessage holds no lock from end to end.  It looks a connection up   *)
(* under cm.mu, releases it, sends, takes it again to see whether the      *)
(* connection is still active, and queues under the queue's own lock: each *)
(* of these is a step.  So is every Send and every Enqueue of a replay.    *)
(***************************************************************************)
EXTENDS Naturals, Sequences, FiniteSets, Functions

CONSTANTS
  Routers,     \* goroutines that call RouteMessage
  Conns,       \* connections to the peer
  Chain,       \* the selector's priority list of transport types
  NoConn,      \* the nil connection
  HasRelay,    \* a relay adapter is registered
  QueueCap,    \* capacity of the offline queue
  MaxMsgs      \* bound: number of RouteMessage calls

ASSUME ConnsAssumption == IsFiniteSet(Conns) /\ NoConn \notin Conns
ASSUME QueueAssumption == QueueCap \in Nat \ {0} /\ MaxMsgs \in Nat
ASSUME RelayAssumption == HasRelay \in BOOLEAN

VARIABLES
  peers,    \* cm.connections[peer]
  older,    \* per connection: those registered before it that still are
  type,     \* Connection.TransportType, fixed when a connection is made
  state,    \* Connection.State
  health,   \* TransportSelector.health
  queue,    \* the offline queue, oldest first
  made,     \* cm.messageQueues has an entry for the peer
  route,    \* per router: its place in RouteMessage, its message and connection
  replay,   \* per connection: its OnConnect call's place and its pending list
  sent,     \* RouteMessage calls so far; a call's message is its number
  arrived,  \* how often the peer received each message over connections
  replayed, \* what it received from the offline queue, in order
  stored,   \* what the relay took over
  dropped,  \* what a full queue evicted
  answer    \* what RouteMessage returned for each message

routingVars == <<peers, older, type, state, health, queue, made, route, replay, sent, arrived, replayed,
          stored, dropped, answer>>

history == <<sent, arrived, replayed, stored, dropped, answer>>

Msgs == 1 .. MaxMsgs
Types == Range(Chain)
States == {"new", "active", "degraded", "closed"}

Idle == [at |-> "idle", msg |-> 0, conn |-> NoConn]
Quiet == [at |-> "idle", list |-> <<>>]

RoutingInit ==
  /\ peers = {}
  /\ older = [c \in Conns |-> {}]
  /\ type \in [Conns -> Types]
  /\ state = [c \in Conns |-> "new"]
  /\ health = [t \in Types |-> TRUE]
  /\ queue = <<>>
  /\ made = FALSE
  /\ route = [r \in Routers |-> Idle]
  /\ replay = [c \in Conns |-> Quiet]
  /\ sent = 0
  /\ arrived = [m \in Msgs |-> 0]
  /\ replayed = <<>>
  /\ stored = {}
  /\ dropped = {}
  /\ answer = [m \in Msgs |-> "none"]

-----------------------------------------------------------------------------
(* Choosing a connection, and the offline queue.                           *)

IsActive(c) == state[c] = "active"

(* TransportSelector.Select: the first healthy type of the priority list.  *)
Selected(t) ==
  \E i \in DOMAIN Chain :
    t = Chain[i] /\ health[t] /\ \A j \in 1 .. i - 1 : ~health[Chain[j]]

(* activeConnection: the first active connection of the selected type; nil *)
(* when that type has none, whatever other connections there are.          *)
Usable(c) == c \in peers /\ IsActive(c) /\ Selected(type[c])

FirstUsable(c) == Usable(c) /\ \A d \in older[c] : ~Usable(d)

ActiveConnection ==
  IF \E c \in Conns : FirstUsable(c) THEN CHOOSE c \in Conns : FirstUsable(c) ELSE NoConn

(* MessageQueue.Enqueue: a full queue drops its oldest message first.      *)
Enqueue(m) ==
  /\ queue' = Append(IF Len(queue) = QueueCap THEN Tail(queue) ELSE queue, m)
  /\ dropped' = IF Len(queue) = QueueCap THEN dropped \union {queue[1]} ELSE dropped
  /\ made' = TRUE

(* ... and reports the overflow although it kept the new message.          *)
EnqueueAnswer == IF Len(queue) = QueueCap THEN "err" ELSE "ok"

Arrives(m) == arrived' = [arrived EXCEPT ![m] = @ + 1]

Step(r, l) == route' = [route EXCEPT ![r].at = l]

Return(r, a) ==
  /\ answer' = [answer EXCEPT ![route[r].msg] = a]
  /\ route' = [route EXCEPT ![r] = Idle]

-----------------------------------------------------------------------------
(* RouteMessage.                                                           *)

RouteSelect(r) ==
  /\ route[r].at = "idle"
  /\ sent < MaxMsgs
  /\ sent' = sent + 1
  /\ route' = [route EXCEPT ![r] =
       [at |-> IF ActiveConnection = NoConn THEN "relay" ELSE "send",
        msg |-> sent + 1, conn |-> ActiveConnection]]
  /\ UNCHANGED <<type, peers, older, state, health, queue, made, replay, arrived, replayed, stored,
                 dropped, answer>>

(* routeViaRelay stores the message, or fails and the message is queued.   *)
RouteRelay(r) ==
  /\ route[r].at = "relay"
  /\ \/ HasRelay /\ stored' = stored \union {route[r].msg} /\ Return(r, "ok")
     \/ Step(r, "queue") /\ UNCHANGED <<stored, answer>>
  /\ UNCHANGED <<type, peers, older, state, health, queue, made, replay, sent, arrived, replayed, dropped>>

(* No relay took it, or the connection it went out on is no longer active. *)
RouteQueue(r) ==
  /\ route[r].at = "queue"
  /\ Enqueue(route[r].msg)
  /\ Return(r, EnqueueAnswer)
  /\ UNCHANGED <<type, peers, older, state, health, replay, sent, arrived, replayed, stored>>

(* The rate limiter, a cancelled context or a missing adapter: no effect.  *)
RouteRefuse(r) ==
  /\ route[r].at = "send"
  /\ Return(r, "err")
  /\ UNCHANGED <<type, peers, older, state, health, queue, made, replay, sent, arrived, replayed, stored,
                 dropped>>

(* adapter.Send on an active connection succeeds, or fails; a connection   *)
(* that stopped being active fails with ErrConnectionClosed.  Errors of    *)
(* that class go on to the fallback, any other is returned as it is.  An   *)
(* error is taken to mean that nothing was sent.                           *)
RouteSend(r) ==
  /\ route[r].at = "send"
  /\ \/ /\ IsActive(route[r].conn)
        /\ Arrives(route[r].msg)
        /\ Step(r, "confirm")
        /\ UNCHANGED answer
     \/ Step(r, "degrade") /\ UNCHANGED <<arrived, answer>>
     \/ IsActive(route[r].conn) /\ Return(r, "err") /\ UNCHANGED arrived
  /\ UNCHANGED <<type, peers, older, state, health, queue, made, replay, sent, replayed, stored, dropped>>

(* selector.MarkDegraded *)
RouteDegrade(r) ==
  /\ route[r].at = "degrade"
  /\ health' = [health EXCEPT ![type[route[r].conn]] = FALSE]
  /\ Step(r, "fallback")
  /\ UNCHANGED <<type, peers, older, state, queue, made, replay, history>>

RouteFallback(r) ==
  /\ route[r].at = "fallback"
  /\ route' = [route EXCEPT ![r].conn = ActiveConnection,
                            ![r].at = IF ActiveConnection = NoConn THEN "giveup" ELSE "retry"]
  /\ UNCHANGED <<type, peers, older, state, health, queue, made, replay, history>>

RouteRetry(r) ==
  /\ route[r].at = "retry"
  /\ \/ /\ IsActive(route[r].conn)
        /\ Arrives(route[r].msg)
        /\ Return(r, "ok")
     \/ Step(r, "giveup") /\ UNCHANGED <<arrived, answer>>
  /\ UNCHANGED <<type, peers, older, state, health, queue, made, replay, sent, replayed, stored, dropped>>

(* The message is queued, and the first error is returned all the same.    *)
RouteGiveUp(r) ==
  /\ route[r].at = "giveup"
  /\ Enqueue(route[r].msg)
  /\ Return(r, "err")
  /\ UNCHANGED <<type, peers, older, state, health, replay, sent, arrived, replayed, stored>>

(* After a successful Send: success is only reported while the connection  *)
(* is still active; otherwise the message, already sent, is queued too.    *)
RouteConfirm(r) ==
  /\ route[r].at = "confirm"
  /\ IF IsActive(route[r].conn) THEN Return(r, "ok")
                                ELSE Step(r, "queue") /\ UNCHANGED answer
  /\ UNCHANGED <<type, peers, older, state, health, queue, made, replay, sent, arrived, replayed, stored,
                 dropped>>

-----------------------------------------------------------------------------
(* Connections.                                                            *)

(* OnConnect under cm.mu: an active connection of the same type is closed  *)
(* and dropped, the new one appended.  A queue that exists is then         *)
(* replayed outside the lock.                                              *)
OnConnect(c) ==
  LET old == {d \in peers \ {c} : IsActive(d) /\ type[d] = type[c]}
  IN  /\ replay[c].at = "idle"
      /\ peers' = (peers \ old) \union {c}
      /\ older' = [d \in Conns |-> (IF d = c THEN peers ELSE older[d]) \ (old \union {c})]
      /\ state' = [d \in Conns |-> IF d = c THEN "active" ELSE IF d \in old THEN "closed"
                                                                         ELSE state[d]]
      /\ replay' = [replay EXCEPT ![c].at = IF made THEN "drain" ELSE "idle"]
      /\ UNCHANGED <<type, health, queue, made, route, history>>

(* MessageQueue.Drain *)
ReplayDrain(c) ==
  /\ replay[c].at = "drain"
  /\ replay' = [replay EXCEPT ![c] = [at |-> "send", list |-> queue]]
  /\ queue' = <<>>
  /\ UNCHANGED <<type, peers, older, state, health, made, route, history>>

(* Mutant: a message that could not be sent is skipped. *)
ReplaySendSkips(c) ==
  /\ replay[c].at = "send"
  /\ replay[c].list # <<>>
  /\ replay' = [replay EXCEPT ![c].list = Tail(@)]
  /\ \/ /\ IsActive(c)
        /\ Arrives(replay[c].list[1])
        /\ replayed' = Append(replayed, replay[c].list[1])
     \/ UNCHANGED <<arrived, replayed>>
  /\ UNCHANGED <<type, peers, older, state, health, queue, made, route, sent, stored, dropped, answer>>

(* One Send of the replay; the first failure ends it.                      *)
ReplaySend(c) ==
  /\ replay[c].at = "send"
  /\ replay[c].list # <<>>
  /\ \/ /\ IsActive(c)
        /\ Arrives(replay[c].list[1])
        /\ replayed' = Append(replayed, replay[c].list[1])
        /\ replay' = [replay EXCEPT ![c].list = Tail(@)]
     \/ replay' = [replay EXCEPT ![c].at = "requeue"] /\ UNCHANGED <<arrived, replayed>>
  /\ UNCHANGED <<type, peers, older, state, health, queue, made, route, sent, stored, dropped, answer>>

(* What was not sent goes back, behind whatever was queued meanwhile; an   *)
(* overflow here is not reported.                                          *)
ReplayRequeue(c) ==
  /\ replay[c].at = "requeue"
  /\ replay[c].list # <<>>
  /\ Enqueue(replay[c].list[1])
  /\ replay' = [replay EXCEPT ![c].list = Tail(@)]
  /\ UNCHANGED <<type, peers, older, state, health, route, sent, arrived, replayed, stored, answer>>

ReplayEnd(c) ==
  /\ replay[c].at \in {"send", "requeue"}
  /\ replay[c].list = <<>>
  /\ replay' = [replay EXCEPT ![c].at = "idle"]
  /\ UNCHANGED <<type, peers, older, state, health, queue, made, route, history>>

OnDisconnect(c) ==
  /\ c \in peers
  /\ peers' = peers \ {c}
  /\ older' = [d \in Conns |-> IF d = c THEN {} ELSE older[d] \ {c}]
  /\ state' = [state EXCEPT ![c] = "closed"]
  /\ UNCHANGED <<type, health, queue, made, route, replay, history>>

DegradeTransport(t) ==
  /\ \E c \in peers : type[c] = t /\ IsActive(c)
  /\ state' = [c \in Conns |->
       IF c \in peers /\ type[c] = t /\ state[c] # "closed" THEN "degraded" ELSE state[c]]
  /\ UNCHANGED <<type, peers, older, health, queue, made, route, replay, history>>

(* The adapter's reader loses its stream and later reconnects it.  It      *)
(* writes the state under the adapter's own lock and does not look whether *)
(* the manager closed the connection meanwhile.                            *)
AdapterReconnect(c) ==
  /\ state[c] # "new"
  /\ \E s \in {"active", "degraded"} \ {state[c]} : state' = [state EXCEPT ![c] = s]
  /\ UNCHANGED <<type, peers, older, health, queue, made, route, replay, history>>

(* HealthMonitor.Check crosses one of its thresholds.                      *)
SetHealthy(t) ==
  /\ health' = [health EXCEPT ![t] = ~@]
  /\ UNCHANGED <<type, peers, older, state, queue, made, route, replay, history>>

RouteStep(r) ==
  \/ RouteRelay(r) \/ RouteQueue(r) \/ RouteRefuse(r) \/ RouteSend(r) \/ RouteDegrade(r)
  \/ RouteFallback(r) \/ RouteRetry(r) \/ RouteGiveUp(r) \/ RouteConfirm(r)

ReplayStep(c) == ReplayDrain(c) \/ ReplaySend(c) \/ ReplayRequeue(c) \/ ReplayEnd(c)

RoutingNext ==
  \/ \E r \in Routers : RouteSelect(r) \/ RouteStep(r)
  \/ \E c \in Conns : OnConnect(c) \/ ReplayStep(c) \/ OnDisconnect(c) \/ AdapterReconnect(c)
  \/ \E t \in Types : DegradeTransport(t) \/ SetHealthy(t)

RoutingSpec == RoutingInit /\ [][RoutingNext]_routingVars

-----------------------------------------------------------------------------
(* Properties.                                                             *)

Listed(m, l) == \E i \in DOMAIN l : l[i] = m

Waiting(m) == Listed(m, queue) \/ \E c \in Conns : Listed(m, replay[c].list)

(* Types, and the queue never exceeds its capacity (MessageQueue.Enqueue). *)
RoutingTypeOK ==
  /\ peers \in SUBSET Conns /\ older \in [Conns -> SUBSET Conns]
  /\ type \in [Conns -> Types] /\ state \in [Conns -> States]
  /\ health \in [Types -> BOOLEAN]
  /\ queue \in Seq(Msgs) /\ Len(queue) <= QueueCap
  /\ made \in BOOLEAN
  /\ route \in [Routers -> [at : {"idle", "relay", "queue", "send", "degrade", "fallback",
                                   "retry", "giveup", "confirm"},
                            msg : 0 .. MaxMsgs, conn : Conns \union {NoConn}]]
  /\ replay \in [Conns -> [at : {"idle", "drain", "send", "requeue"}, list : Seq(Msgs)]]
  /\ sent \in 0 .. MaxMsgs
  /\ arrived \in [Msgs -> Nat] /\ replayed \in Seq(Msgs)
  /\ stored \in SUBSET Msgs /\ dropped \in SUBSET Msgs
  /\ answer \in [Msgs -> {"none", "ok", "err"}]

(* The registration order is an order: of two registered connections the   *)
(* one is older than the other or the other way round, never both.         *)
PeersOrdered ==
  /\ \A c \in Conns : older[c] \subseteq peers \ {c}
  /\ \A c, d \in peers : c # d => (c \in older[d] <=> d \notin older[c])

(* A message RouteMessage reported as sent has reached the peer, is at the *)
(* relay, or still waits in the queue or in a replay, unless a full queue  *)
(* had to evict it: no interleaving of routing, replay and disconnection   *)
(* loses it.                                                               *)
NoSilentLoss ==
  \A m \in Msgs : answer[m] = "ok" => arrived[m] > 0 \/ m \in stored \union dropped \/ Waiting(m)

Distinct(l) == \A i, j \in DOMAIN l : l[i] = l[j] => i = j

(* A message waits in at most one place: it is never both in the queue and *)
(* in a replay, nor twice in either, so a reconnect replays it once.       *)
WaitsOnce ==
  /\ Distinct(queue)
  /\ \A c \in Conns :
       /\ Distinct(replay[c].list)
       /\ \A m \in Msgs : Listed(m, replay[c].list) =>
            /\ ~Listed(m, queue)
            /\ \A d \in Conns \ {c} : ~Listed(m, replay[d].list)

(* The only way to a second copy is a connection that stops being active   *)
(* between a successful Send and the check after it: a message is received *)
(* at most twice, and only once by replay.                                 *)
ReceivedAtMostTwice == Distinct(replayed) /\ \A m \in Msgs : arrived[m] <= 2

(* A reported message is not lost, and none is multiplied: it waits in one *)
(* place and is received at most twice, the second time only when its      *)
(* connection failed after a successful Send.                              *)
RoutingSound ==
  /\ RoutingTypeOK /\ PeersOrdered
  /\ NoSilentLoss /\ WaitsOnce /\ ReceivedAtMostTwice
=============================================================================
