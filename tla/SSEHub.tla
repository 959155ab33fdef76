------------------------------- MODULE SSEHub -------------------------------
(***************************************************************************)
(* The registry of the SSE hub, internal/sse/sse_hub.go, with the          *)
(* goroutines that race on it: connection handlers that subscribe and      *)
(* leave, broadcasters that drop clients which cannot keep up, and the     *)
(* shutdown sequence.  Each critical section of h.mu is one step; the test *)
(* of the closed flag, which Subscribe and Broadcast make before they take *)
(* the lock, is a step of its own.                                         *)
(*                                                                         *)
(* Which clients fail a Send is chosen freely (SSEClient models why one    *)
(* does); a client that was closed always fails.                           *)
(***************************************************************************)
EXTENDS Integers, FiniteSets

CONSTANTS
  Clients,       \* connection attempts, each with a fresh client id
  Trees, Users,
  TreeOf,        \* the tree a connection asks for
  UserOf,        \* the user id its client carries
  Broadcasters,  \* goroutines that call Broadcast
  PerUser, PerTree, Total   \* the three connection limits

ASSUME ClientsAssumption == IsFiniteSet(Clients)
ASSUME OwnersAssumption == TreeOf \in [Clients -> Trees] /\ UserOf \in [Clients -> Users]
ASSUME LimitsAssumption ==
  PerUser \in Nat \ {0} /\ PerTree \in Nat \ {0} /\ Total \in Nat \ {0}

VARIABLES
  closed,       \* the closed flag
  clients,      \* keys of h.clients
  subscribers,  \* keys of h.subscribers[tree]
  byUser,       \* h.byUser
  total,        \* h.totalConnections
  conn,         \* per connection: where its handler is
  shut,         \* clients on which Close was called
  bcast,        \* per broadcaster: its place in Broadcast, the clients it has
                \* still to send to or to drop, and the one it is dropping
  down          \* the same for Shutdown and the clients it closes by force

vars == <<closed, clients, subscribers, byUser, total, conn, shut, bcast, down>>

registry == <<clients, subscribers, byUser, total>>

Resting == [at |-> "idle", list |-> {}, cur |-> {}]

Init ==
  /\ closed = FALSE
  /\ clients = {}
  /\ subscribers = [t \in Trees |-> {}]
  /\ byUser = [u \in Users |-> 0]
  /\ total = 0
  /\ conn = [c \in Clients |-> "new"]
  /\ shut = {}
  /\ bcast = [b \in Broadcasters |-> Resting]
  /\ down = Resting

Goto(c, l) == conn' = [conn EXCEPT ![c] = l]

-----------------------------------------------------------------------------
(* Connection handlers.                                                    *)

\* HandleTreeEvents answers 429 or 503 before it builds a client: a look at
\* the counts that no lock connects with the Subscribe that follows.
Arrive(c) ==
  /\ conn[c] = "new"
  /\ Goto(c, IF \/ Cardinality(subscribers[TreeOf[c]]) >= PerTree
                \/ total >= Total
             THEN "refused" ELSE "admitted")
  /\ UNCHANGED <<closed, clients, subscribers, byUser, total, shut, bcast, down>>

\* Subscribe, before the lock.  A handler whose Subscribe fails answers with
\* an error and closes the client it built.
SubscribeCheck(c) ==
  /\ conn[c] = "admitted"
  /\ Goto(c, IF closed THEN "refused" ELSE "subscribing")
  /\ shut' = IF closed THEN shut \cup {c} ELSE shut
  /\ UNCHANGED <<closed, clients, subscribers, byUser, total, bcast, down>>

\* Mutant: the limits are trusted from Arrive's look and not tested again.
AtLimitUnchecked(c) == FALSE

\* The limits Subscribe enforces under the lock.
AtLimit(c) ==
  \/ byUser[UserOf[c]] >= PerUser
  \/ total >= Total
  \/ Cardinality(subscribers[TreeOf[c]]) >= PerTree

SubscribeRefuse(c) ==
  /\ conn[c] = "subscribing"
  /\ AtLimit(c)
  /\ Goto(c, "refused")
  /\ shut' = shut \cup {c}
  /\ UNCHANGED <<closed, clients, subscribers, byUser, total, bcast, down>>

SubscribeAccept(c) ==
  /\ conn[c] = "subscribing"
  /\ ~AtLimit(c)
  /\ clients' = clients \cup {c}
  /\ subscribers' = [subscribers EXCEPT ![TreeOf[c]] = @ \cup {c}]
  /\ byUser' = [byUser EXCEPT ![UserOf[c]] = @ + 1]
  /\ total' = total + 1
  /\ Goto(c, "streaming")
  /\ UNCHANGED <<closed, shut, bcast, down>>

Remove(c) ==
  /\ clients' = clients \ {c}
  /\ subscribers' = [subscribers EXCEPT ![TreeOf[c]] = @ \ {c}]
  /\ byUser' = [byUser EXCEPT ![UserOf[c]] = IF @ > 0 THEN @ - 1 ELSE 0]
  /\ total' = total - 1

\* Mutant: no test whether the client is still registered.
UnsubscribeBlindly(c) == Remove(c)

\* Mutant: neither that test nor the guard of the user's count.
UnsubscribeUnclamped(c) ==
  /\ clients' = clients \ {c}
  /\ subscribers' = [subscribers EXCEPT ![TreeOf[c]] = @ \ {c}]
  /\ byUser' = [byUser EXCEPT ![UserOf[c]] = @ - 1]
  /\ total' = total - 1

\* Unsubscribe: nothing happens unless the client is registered; the user's
\* count is kept from going below zero.
Unsubscribe(c) == IF c \in clients THEN Remove(c) ELSE UNCHANGED registry

\* The handler returns (the peer left, a write failed, or the client was
\* closed) and its deferred Unsubscribe runs.
HandlerReturn(c) ==
  /\ conn[c] = "streaming"
  /\ Goto(c, "gone")
  /\ Unsubscribe(c)
  /\ UNCHANGED <<closed, shut, bcast, down>>

-----------------------------------------------------------------------------
(* Broadcast.                                                              *)

SetBcast(b, l, list, cur) ==
  bcast' = [bcast EXCEPT ![b] = [at |-> l, list |-> list, cur |-> cur]]

\* The test of the closed flag; the number is drawn from the event log next.
BroadcastCheck(b) ==
  /\ bcast[b].at = "idle"
  /\ ~closed
  /\ SetBcast(b, "checked", {}, {})
  /\ UNCHANGED <<closed, clients, subscribers, byUser, total, conn, shut, down>>

\* The subscribers of the tree are copied under the read lock.
BroadcastSnapshot(b, t) ==
  /\ bcast[b].at = "checked"
  /\ SetBcast(b, "sending", subscribers[t], {})
  /\ UNCHANGED <<closed, clients, subscribers, byUser, total, conn, shut, down>>

\* Every copied client gets a Send; those that fail form the drop list.
BroadcastSend(b) ==
  /\ bcast[b].at = "sending"
  /\ \E drop \in SUBSET bcast[b].list :
       /\ shut \cap bcast[b].list \subseteq drop
       /\ SetBcast(b, "dropping", drop, {})
  /\ UNCHANGED <<closed, clients, subscribers, byUser, total, conn, shut, down>>

\* Mutant: a dropped client stays in the registry until its handler leaves.
DropOneKeeps(b, c) ==
  /\ bcast[b].at = "dropping" /\ c \in bcast[b].list
  /\ SetBcast(b, "closing", bcast[b].list \ {c}, {c})
  /\ UNCHANGED <<closed, clients, subscribers, byUser, total, conn, shut, down>>

\* For each client of the drop list: Unsubscribe under the lock ...
DropOne(b, c) ==
  /\ bcast[b].at = "dropping" /\ c \in bcast[b].list
  /\ Unsubscribe(c)
  /\ SetBcast(b, "closing", bcast[b].list \ {c}, {c})
  /\ UNCHANGED <<closed, conn, shut, down>>

\* ... then Close.
DropClose(b) ==
  /\ bcast[b].at = "closing"
  /\ shut' = shut \cup bcast[b].cur
  /\ SetBcast(b, "dropping", bcast[b].list, {})
  /\ UNCHANGED <<closed, clients, subscribers, byUser, total, conn, down>>

BroadcastEnd(b) ==
  /\ bcast[b].at = "dropping" /\ bcast[b].list = {}
  /\ bcast' = [bcast EXCEPT ![b] = Resting]
  /\ UNCHANGED <<closed, clients, subscribers, byUser, total, conn, shut, down>>

-----------------------------------------------------------------------------
(* Shutdown.                                                               *)

SetDown(l, list, cur) == down' = [at |-> l, list |-> list, cur |-> cur]

\* The compare-and-swap; the done event goes to every client registered now.
ShutdownBegin ==
  /\ ~closed
  /\ closed' = TRUE
  /\ SetDown("draining", {}, {})
  /\ UNCHANGED <<clients, subscribers, byUser, total, conn, shut, bcast>>

\* The wait loop sees no connection left.
ShutdownDrained ==
  /\ down.at = "draining"
  /\ total = 0
  /\ SetDown("returned", {}, {})
  /\ UNCHANGED <<closed, clients, subscribers, byUser, total, conn, shut, bcast>>

\* Mutant: the wait loop has no deadline.
ShutdownTimeoutNever == FALSE

\* The drain window ends: the clients registered now are copied.
ShutdownTimeout ==
  /\ down.at = "draining"
  /\ SetDown("forcing", clients, {})
  /\ UNCHANGED <<closed, clients, subscribers, byUser, total, conn, shut, bcast>>

\* For each of them: Unsubscribe, then Close.
ForceOne(c) ==
  /\ down.at = "forcing" /\ c \in down.list
  /\ Unsubscribe(c)
  /\ SetDown("closing", down.list \ {c}, {c})
  /\ UNCHANGED <<closed, conn, shut, bcast>>

ForceClose ==
  /\ down.at = "closing"
  /\ shut' = shut \cup down.cur
  /\ SetDown("forcing", down.list, {})
  /\ UNCHANGED <<closed, clients, subscribers, byUser, total, conn, bcast>>

\* totalConnections.Store(0), whatever it was.
ShutdownReset ==
  /\ down.at = "forcing" /\ down.list = {}
  /\ total' = 0
  /\ SetDown("returned", {}, {})
  /\ UNCHANGED <<closed, clients, subscribers, byUser, conn, shut, bcast>>

-----------------------------------------------------------------------------

Shutdown ==
  \/ ShutdownDrained \/ ShutdownTimeout \/ ForceClose \/ ShutdownReset
  \/ \E c \in Clients : ForceOne(c)

Connection(c) ==
  Arrive(c) \/ SubscribeCheck(c) \/ SubscribeRefuse(c) \/ SubscribeAccept(c)

Broadcast(b) ==
  \/ \E t \in Trees : BroadcastSnapshot(b, t)
  \/ BroadcastSend(b) \/ DropClose(b) \/ BroadcastEnd(b)
  \/ \E c \in Clients : DropOne(b, c)

Next ==
  \/ \E c \in Clients : Connection(c) \/ HandlerReturn(c)
  \/ \E b \in Broadcasters : BroadcastCheck(b) \/ Broadcast(b)
  \/ ShutdownBegin
  \/ Shutdown

\* Shutdown's goroutine runs and its drain timer fires; Close, which it calls on
\* what is left, comes back because a write to a peer ends at the latest when the
\* connection does.  Nothing is assumed of handlers, peers and broadcasters.
Fairness == WF_vars(Shutdown)

Spec == Init /\ [][Next]_vars /\ Fairness

-----------------------------------------------------------------------------
(* Properties.                                                             *)

Work == [at : {"idle", "checked", "sending", "dropping", "closing", "draining",
               "forcing", "returned"},
         list : SUBSET Clients, cur : SUBSET Clients]

TypeOK ==
  /\ closed \in BOOLEAN
  /\ clients \subseteq Clients
  /\ subscribers \in [Trees -> SUBSET Clients]
  /\ byUser \in [Users -> Nat]
  /\ total \in Int
  /\ conn \in [Clients -> {"new", "admitted", "subscribing", "streaming", "refused", "gone"}]
  /\ shut \subseteq Clients
  /\ bcast \in [Broadcasters -> Work]
  /\ down \in Work

OfUser(u) == {c \in clients : UserOf[c] = u}

OfTree(t) == {c \in clients : TreeOf[c] = t}

\* The three maps of the hub tell the same story after any interleaving of
\* subscriptions, double unsubscriptions (drop and deferred), broadcasts and
\* the shutdown: each client is listed under its own tree, and each user's
\* count is the number of that user's registered clients.
RegistryConsistent ==
  /\ \A t \in Trees : subscribers[t] = OfTree(t)
  /\ \A u \in Users : byUser[u] = Cardinality(OfUser(u))

\* The lock-free count is exact until Shutdown overwrites it.
TotalExactBeforeReset == down.at # "returned" => total = Cardinality(clients)

\* The per-user, per-tree and server-wide limits are never exceeded, although
\* the handler's own look at the counts (Arrive) is stale when it subscribes.
LimitsHold ==
  /\ \A u \in Users : Cardinality(OfUser(u)) =< PerUser
  /\ \A t \in Trees : Cardinality(OfTree(t)) =< PerTree
  /\ down.at # "returned" => Cardinality(clients) =< Total

\* No closed client is registered: a broadcast that copies the subscribers
\* from now on does not send to it.
ClosedNotRegistered == shut \cap clients = {}

\* Shutdown comes back, whatever clients do: the drain window bounds the wait.
ShutdownReturns == down.at = "draining" ~> down.at = "returned"

\* "Shutdown sends a done event to every client, waits drainTimeout, then
\* closes every connection."
ShutdownClosesEveryConnection == down.at = "returned" => clients = {}
=============================================================================
