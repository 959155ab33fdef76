---------------------------- MODULE RoutingProofs ----------------------------
(***************************************************************************)
(* The routing of messages to one peer: RoutingSound for any routers,       *)
(* connections, types, capacity and number of messages.  The invariant says *)
(* where a message can be: with the router that carries it, in the queue or *)
(* one replay, or at the peer.  And the adapters that carry them:           *)
(* AdaptersSound for any connections, buffers and calls of Disconnect; the  *)
(* invariant says which goroutine may close a channel, and when.            *)
(***************************************************************************)
EXTENDS ConnectionManager, MCInterchange, FiniteSetTheorems, SequenceTheorems, TLAPS

Held(r) == route[r].at # "idle"

(* A router that looks at a connection has one.                            *)
RtConns ==
  \A r \in Routers :
    route[r].at \in {"send", "degrade", "fallback", "retry", "confirm"} => route[r].conn \in Conns

(* Every call carries its own message.                                     *)
RtApart ==
  \A r, s \in Routers : Held(r) /\ Held(s) /\ r # s => route[r].msg # route[s].msg

(* A message in a router's hand is nowhere else; it has been received once *)
(* if its Send succeeded and not at all if it failed.                      *)
RtInHand(r) ==
  LET m == route[r].msg
  IN  /\ m \in 1 .. sent
      /\ ~Waiting(m) /\ ~Listed(m, replayed)
      /\ answer[m] = "none" /\ arrived[m] <= 1
      /\ route[r].at = "confirm" => arrived[m] = 1
      /\ route[r].at \notin {"confirm", "queue"} => arrived[m] = 0

RtHeld == \A r \in Routers : Held(r) => RtInHand(r)

(* A message not yet routed is nowhere.                                    *)
RtUnsent ==
  \A m \in Msgs : m > sent =>
    arrived[m] = 0 /\ ~Waiting(m) /\ ~Listed(m, replayed) /\ answer[m] = "none"

(* A message that waits was not replayed and was received once at most.    *)
RtWaiting == \A m \in Msgs : Waiting(m) => ~Listed(m, replayed) /\ arrived[m] <= 1

(* A replay holds messages only while it sends or re-queues them.          *)
RtReplays == \A c \in Conns : replay[c].at \in {"idle", "drain"} => replay[c].list = <<>>

RtInv ==
  /\ RoutingTypeOK /\ PeersOrdered
  /\ NoSilentLoss /\ WaitsOnce /\ ReceivedAtMostTwice
  /\ RtConns /\ RtApart /\ RtHeld /\ RtUnsent /\ RtWaiting /\ RtReplays

-----------------------------------------------------------------------------
(* Lists of messages *)

LEMMA RtEmpty ==
  ASSUME NEW m PROVE ~Listed(m, <<>>) /\ Distinct(<<>>)
BY DEF Listed, Distinct

(* What is left behind the first element.                                  *)
LEMMA RtTail ==
  ASSUME NEW S, NEW s \in Seq(S), s # <<>>
  PROVE  /\ s[1] \in S /\ Tail(s) \in Seq(S) /\ Len(Tail(s)) = Len(s) - 1 /\ Len(s) \in Nat /\ Len(s) > 0
         /\ Listed(s[1], s)
         /\ \A m : Listed(m, s) <=> m = s[1] \/ Listed(m, Tail(s))
         /\ Distinct(s) => Distinct(Tail(s)) /\ ~Listed(s[1], Tail(s))
<1>1. /\ s[1] \in S /\ Tail(s) \in Seq(S) /\ Len(Tail(s)) = Len(s) - 1 /\ Len(s) \in Nat /\ Len(s) > 0
      /\ \A i \in 1 .. Len(s) - 1 : Tail(s)[i] = s[i + 1]
      /\ DOMAIN s = 1 .. Len(s) /\ DOMAIN Tail(s) = 1 .. Len(s) - 1
  OBVIOUS
<1>2. Listed(s[1], s)
  BY <1>1 DEF Listed
<1>3. ASSUME NEW m PROVE Listed(m, s) <=> m = s[1] \/ Listed(m, Tail(s))
  <2>1. ASSUME Listed(m, s) PROVE m = s[1] \/ Listed(m, Tail(s))
    <3>1. PICK i \in 1 .. Len(s) : s[i] = m
      BY <2>1, <1>1 DEF Listed
    <3>2. CASE i = 1
      BY <3>1, <3>2
    <3>3. CASE i # 1
      <4>1. i - 1 \in 1 .. Len(s) - 1 /\ Tail(s)[i - 1] = s[i]
        BY <3>3, <1>1
      <4> QED BY <4>1, <3>1, <1>1 DEF Listed
    <3> QED BY <3>2, <3>3
  <2>2. ASSUME Listed(m, Tail(s)) PROVE Listed(m, s)
    <3>1. PICK i \in 1 .. Len(s) - 1 : Tail(s)[i] = m
      BY <2>2, <1>1 DEF Listed
    <3>2. i + 1 \in 1 .. Len(s) /\ s[i + 1] = m
      BY <3>1, <1>1
    <3> QED BY <3>2, <1>1 DEF Listed
  <2> QED BY <2>1, <2>2, <1>2
<1>4. ASSUME Distinct(s) PROVE Distinct(Tail(s)) /\ ~Listed(s[1], Tail(s))
  <2>1. \A i \in 1 .. Len(s) - 1 : i + 1 \in 1 .. Len(s) /\ i + 1 # 1
    BY <1>1
  <2>2. Distinct(Tail(s))
    BY <1>4, <1>1, <2>1 DEF Distinct
  <2>3. ~Listed(s[1], Tail(s))
    BY <1>4, <1>1, <2>1 DEF Distinct, Listed
  <2> QED BY <2>2, <2>3
<1> QED BY <1>1, <1>2, <1>3, <1>4

LEMMA RtAppend ==
  ASSUME NEW S, NEW s \in Seq(S), NEW e \in S
  PROVE  /\ Append(s, e) \in Seq(S) /\ Len(Append(s, e)) = Len(s) + 1
         /\ \A m : Listed(m, Append(s, e)) <=> m = e \/ Listed(m, s)
         /\ Distinct(s) /\ ~Listed(e, s) => Distinct(Append(s, e))
<1>1. /\ Append(s, e) \in Seq(S) /\ Len(Append(s, e)) = Len(s) + 1 /\ Len(s) \in Nat
      /\ \A i \in 1 .. Len(s) : Append(s, e)[i] = s[i]
      /\ Append(s, e)[Len(s) + 1] = e
      /\ DOMAIN s = 1 .. Len(s) /\ DOMAIN Append(s, e) = 1 .. Len(s) + 1
  OBVIOUS
<1>2. \A i \in 1 .. Len(s) + 1 : i \in 1 .. Len(s) \/ i = Len(s) + 1
  BY <1>1
<1>3. ASSUME NEW m PROVE Listed(m, Append(s, e)) <=> m = e \/ Listed(m, s)
  <2>1. ASSUME Listed(m, Append(s, e)) PROVE m = e \/ Listed(m, s)
    BY <2>1, <1>1, <1>2 DEF Listed
  <2>2. ASSUME m = e \/ Listed(m, s) PROVE Listed(m, Append(s, e))
    <3>1. \A i \in 1 .. Len(s) : i \in 1 .. Len(s) + 1
      BY <1>1
    <3>2. Len(s) + 1 \in 1 .. Len(s) + 1
      BY <1>1
    <3> QED BY <2>2, <1>1, <3>1, <3>2 DEF Listed
  <2> QED BY <2>1, <2>2
<1>4. ASSUME Distinct(s), ~Listed(e, s) PROVE Distinct(Append(s, e))
  BY <1>4, <1>1, <1>2 DEF Distinct, Listed
<1> QED BY <1>1, <1>3, <1>4

LEMMA RtEnqueue ==
  ASSUME queue \in Seq(Msgs), Len(queue) <= QueueCap, NEW m \in Msgs, Enqueue(m)
  PROVE  /\ queue' \in Seq(Msgs) /\ Len(queue') <= QueueCap /\ made' = TRUE
         /\ dropped' \subseteq dropped \union Msgs /\ dropped \subseteq dropped'
         /\ Listed(m, queue')
         /\ \A x : Listed(x, queue') => x = m \/ Listed(x, queue)
         /\ \A x : Listed(x, queue) => Listed(x, queue') \/ x \in dropped'
         /\ Distinct(queue) /\ ~Listed(m, queue) => Distinct(queue')
<1>1. CASE Len(queue) = QueueCap
  <2>1. queue # <<>>
    BY <1>1, QueueAssumption
  <2> DEFINE t == Tail(queue)
  <2>2. /\ queue[1] \in Msgs /\ t \in Seq(Msgs) /\ Len(t) = Len(queue) - 1 /\ Len(queue) \in Nat
        /\ \A x : Listed(x, queue) <=> x = queue[1] \/ Listed(x, t)
        /\ Distinct(queue) => Distinct(t)
    BY <2>1, RtTail
  <2>3. queue' = Append(t, m) /\ dropped' = dropped \union {queue[1]} /\ made' = TRUE
    BY <1>1 DEF Enqueue
  <2>4. /\ Append(t, m) \in Seq(Msgs) /\ Len(Append(t, m)) = Len(t) + 1
        /\ \A x : Listed(x, Append(t, m)) <=> x = m \/ Listed(x, t)
        /\ Distinct(t) /\ ~Listed(m, t) => Distinct(Append(t, m))
    BY <2>2, RtAppend
  <2> HIDE DEF t
  <2> QED BY <1>1, <2>2, <2>3, <2>4, QueueAssumption
<1>2. CASE Len(queue) # QueueCap
  <2>1. queue' = Append(queue, m) /\ dropped' = dropped /\ made' = TRUE
    BY <1>2 DEF Enqueue
  <2>2. /\ Append(queue, m) \in Seq(Msgs) /\ Len(Append(queue, m)) = Len(queue) + 1
        /\ \A x : Listed(x, Append(queue, m)) <=> x = m \/ Listed(x, queue)
        /\ Distinct(queue) /\ ~Listed(m, queue) => Distinct(Append(queue, m))
    BY RtAppend
  <2>3. Len(queue) \in Nat
    OBVIOUS
  <2> QED BY <1>2, <2>1, <2>2, <2>3, QueueAssumption
<1> QED BY <1>1, <1>2

LEMMA RtActive == ActiveConnection \in Conns \union {NoConn}
<1>1. ASSUME \E c \in Conns : FirstUsable(c) PROVE (CHOOSE c \in Conns : FirstUsable(c)) \in Conns
  BY <1>1
<1> QED BY <1>1 DEF ActiveConnection

-----------------------------------------------------------------------------
(* Types and the order of connections *)

RtMoves == {"idle", "relay", "queue", "send", "degrade", "fallback", "retry", "giveup", "confirm"}
RtPlaces == [at : RtMoves, msg : 0 .. MaxMsgs, conn : Conns \union {NoConn}]

LEMMA RtRouted ==
  ASSUME RoutingTypeOK, NEW r \in Routers
  PROVE  /\ route[r] \in RtPlaces
         /\ \A l \in RtMoves, d \in Conns \union {NoConn} :
               /\ [route EXCEPT ![r].at = l] \in [Routers -> RtPlaces]
               /\ [route EXCEPT ![r].conn = d, ![r].at = l] \in [Routers -> RtPlaces]
         /\ [route EXCEPT ![r] = Idle] \in [Routers -> RtPlaces]
         /\ \A m \in Msgs, l \in RtMoves, d \in Conns \union {NoConn} :
               [route EXCEPT ![r] = [at |-> l, msg |-> m, conn |-> d]] \in [Routers -> RtPlaces]
<1>1. route \in [Routers -> RtPlaces]
  BY DEF RoutingTypeOK, RtPlaces, RtMoves
<1>2. Idle \in RtPlaces
  BY QueueAssumption DEF Idle, RtPlaces, RtMoves
<1>3. \A m \in Msgs, l \in RtMoves, d \in Conns \union {NoConn} :
        [at |-> l, msg |-> m, conn |-> d] \in RtPlaces
  BY QueueAssumption DEF RtPlaces, Msgs
<1>4. ASSUME NEW l \in RtMoves, NEW d \in Conns \union {NoConn}
      PROVE  [route EXCEPT ![r].conn = d, ![r].at = l] \in [Routers -> RtPlaces]
  BY <1>1 DEF RtPlaces
<1>5. ASSUME NEW l \in RtMoves PROVE [route EXCEPT ![r].at = l] \in [Routers -> RtPlaces]
  BY <1>1 DEF RtPlaces
<1> QED BY <1>1, <1>2, <1>3, <1>4, <1>5

(* The two halves of RoutingTypeOK: connections, and messages.             *)
RtPeersTyped ==
  /\ peers \in SUBSET Conns /\ older \in [Conns -> SUBSET Conns]
  /\ type \in [Conns -> Types] /\ state \in [Conns -> States]
  /\ health \in [Types -> BOOLEAN]

RtMsgsTyped ==
  /\ queue \in Seq(Msgs) /\ Len(queue) <= QueueCap /\ made \in BOOLEAN
  /\ route \in [Routers -> RtPlaces]
  /\ replay \in [Conns -> [at : {"idle", "drain", "send", "requeue"}, list : Seq(Msgs)]]
  /\ sent \in 0 .. MaxMsgs
  /\ arrived \in [Msgs -> Nat] /\ replayed \in Seq(Msgs)
  /\ stored \in SUBSET Msgs /\ dropped \in SUBSET Msgs
  /\ answer \in [Msgs -> {"none", "ok", "err"}]

LEMMA RtTypes == RoutingTypeOK <=> RtPeersTyped /\ RtMsgsTyped
BY DEF RoutingTypeOK, RtPeersTyped, RtMsgsTyped, RtPlaces, RtMoves

LEMMA RtPeersStep ==
  ASSUME RtPeersTyped, PeersOrdered, RtConns, [RoutingNext]_routingVars
  PROVE  RtPeersTyped' /\ PeersOrdered'
<1> USE DEF RtPeersTyped
<1>1. ASSUME UNCHANGED <<peers, older, type, state, health>>
      PROVE  RtPeersTyped' /\ PeersOrdered'
  BY <1>1 DEF PeersOrdered
<1>2. ASSUME NEW r \in Routers, RouteDegrade(r) PROVE RtPeersTyped' /\ PeersOrdered'
  BY <1>2 DEF PeersOrdered, RouteDegrade
<1>3. ASSUME NEW c \in Conns, OnConnect(c) PROVE RtPeersTyped' /\ PeersOrdered'
  <2> DEFINE old == {d \in peers \ {c} : IsActive(d) /\ type[d] = type[c]}
  <2>1. /\ peers' = (peers \ old) \union {c}
        /\ older' = [d \in Conns |-> (IF d = c THEN peers ELSE older[d]) \ (old \union {c})]
        /\ state' = [d \in Conns |-> IF d = c THEN "active" ELSE IF d \in old THEN "closed"
                                                                         ELSE state[d]]
        /\ type' = type /\ health' = health
    BY <1>3 DEF OnConnect
  <2>2. old \subseteq peers /\ c \notin old
    OBVIOUS
  <2> HIDE DEF old
  <2>3. RtPeersTyped'
    <3>1. older' \in [Conns -> SUBSET Conns] /\ peers' \in SUBSET Conns
      BY <2>1, <2>2
    <3>2. state' \in [Conns -> States]
      BY <2>1 DEF States
    <3> QED BY <3>1, <3>2, <2>1
  <2>4. ASSUME NEW d \in Conns PROVE older'[d] \subseteq peers' \ {d}
    <3>1. older'[d] = (IF d = c THEN peers ELSE older[d]) \ (old \union {c})
      BY <2>1
    <3>2. older[d] \subseteq peers \ {d}
      BY DEF PeersOrdered
    <3> QED BY <3>1, <3>2, <2>1
  <2>5. ASSUME NEW d \in peers', NEW e \in peers', d # e
        PROVE  d \in older'[e] <=> e \notin older'[d]
    <3>1. d \in Conns /\ e \in Conns
      BY <2>1
    <3>2. /\ older'[d] = (IF d = c THEN peers ELSE older[d]) \ (old \union {c})
          /\ older'[e] = (IF e = c THEN peers ELSE older[e]) \ (old \union {c})
      BY <2>1, <3>1
    <3>3. CASE d = c
      BY <3>2, <3>3, <2>5, <2>1
    <3>4. CASE e = c
      BY <3>2, <3>4, <2>5, <2>1
    <3>5. CASE d # c /\ e # c
      <4>1. d \in peers \ old /\ e \in peers \ old
        BY <3>5, <2>1
      <4>2. d \in older[e] <=> e \notin older[d]
        BY <4>1, <2>5 DEF PeersOrdered
      <4> QED BY <4>1, <4>2, <3>2, <3>5
    <3> QED BY <3>3, <3>4, <3>5
  <2> QED BY <2>3, <2>4, <2>5 DEF PeersOrdered
<1>4. ASSUME NEW c \in Conns, OnDisconnect(c) PROVE RtPeersTyped' /\ PeersOrdered'
  <2>1. /\ peers' = peers \ {c} /\ type' = type /\ health' = health
        /\ older' = [d \in Conns |-> IF d = c THEN {} ELSE older[d] \ {c}]
        /\ state' = [state EXCEPT ![c] = "closed"]
    BY <1>4 DEF OnDisconnect
  <2>2. RtPeersTyped'
    BY <2>1 DEF States
  <2>3. ASSUME NEW d \in Conns PROVE older'[d] \subseteq peers' \ {d}
    BY <2>1 DEF PeersOrdered
  <2>4. ASSUME NEW d \in peers', NEW e \in peers', d # e
        PROVE  d \in older'[e] <=> e \notin older'[d]
    <3>1. d \in peers /\ e \in peers /\ d # c /\ e # c /\ d \in Conns /\ e \in Conns
      BY <2>1
    <3>2. older'[d] = older[d] \ {c} /\ older'[e] = older[e] \ {c}
      BY <3>1, <2>1
    <3> QED BY <3>1, <3>2, <2>4 DEF PeersOrdered
  <2> QED BY <2>2, <2>3, <2>4 DEF PeersOrdered
<1>5. ASSUME NEW t \in Types, DegradeTransport(t) PROVE RtPeersTyped' /\ PeersOrdered'
  BY <1>5 DEF PeersOrdered, DegradeTransport, States
<1>6. ASSUME NEW c \in Conns, AdapterReconnect(c) PROVE RtPeersTyped' /\ PeersOrdered'
  BY <1>6 DEF PeersOrdered, AdapterReconnect, States
<1>7. ASSUME NEW t \in Types, SetHealthy(t) PROVE RtPeersTyped' /\ PeersOrdered'
  BY <1>7 DEF PeersOrdered, SetHealthy
<1>8. ASSUME NEW r \in Routers, RouteSelect(r) \/ RouteStep(r), ~RouteDegrade(r)
      PROVE  RtPeersTyped' /\ PeersOrdered'
  BY <1>8, <1>1 DEF RouteSelect, RouteStep, RouteRelay, RouteQueue, RouteRefuse, RouteSend,
       RouteFallback, RouteRetry, RouteGiveUp, RouteConfirm
<1>9. ASSUME NEW c \in Conns, ReplayStep(c) PROVE RtPeersTyped' /\ PeersOrdered'
  BY <1>9, <1>1 DEF ReplayStep, ReplayDrain, ReplaySend, ReplayRequeue, ReplayEnd
<1>10. CASE UNCHANGED routingVars
  BY <1>10, <1>1 DEF routingVars
<1> QED BY <1>2, <1>3, <1>4, <1>5, <1>6, <1>7, <1>8, <1>9, <1>10 DEF RoutingNext, RouteStep

-----------------------------------------------------------------------------
(* Where messages are *)

(* What a step has to keep of the messages.                                *)
RtMsgs ==
  /\ NoSilentLoss /\ WaitsOnce /\ ReceivedAtMostTwice
  /\ RtApart /\ RtHeld /\ RtUnsent /\ RtWaiting /\ RtReplays

(* A router in RouteMessage has a message.                                 *)
LEMMA RtHolds ==
  ASSUME RtMsgsTyped, RtHeld, NEW r \in Routers, Held(r)
  PROVE  /\ route[r].msg \in Msgs /\ route[r].msg <= sent
         /\ route[r] \in RtPlaces
BY QueueAssumption DEF RtMsgsTyped, RtHeld, RtInHand, Msgs

(* Steps that touch neither the lists of messages nor what was received:   *)
(* connections come, go and change, a replay ends.                         *)
LEMMA RtStill ==
  ASSUME RtMsgsTyped, RtMsgs, UNCHANGED <<queue, made, route, history>>,
         replay' \in [Conns -> [at : {"idle", "drain", "send", "requeue"}, list : Seq(Msgs)]],
         \A c \in Conns : replay'[c].list = replay[c].list,
         RtReplays'
  PROVE  RtMsgsTyped' /\ RtMsgs'
<1>1. RtMsgsTyped'
  BY DEF RtMsgsTyped, history
<1>2. \A m : Waiting(m)' <=> Waiting(m)
  BY DEF Waiting
<1>3. NoSilentLoss'
  BY <1>2 DEF RtMsgs, NoSilentLoss, history
<1>4. WaitsOnce'
  BY DEF RtMsgs, WaitsOnce
<1>5. ReceivedAtMostTwice' /\ RtApart'
  BY DEF RtMsgs, ReceivedAtMostTwice, RtApart, Held, history
<1>6. RtHeld' /\ RtUnsent' /\ RtWaiting'
  BY <1>2 DEF RtMsgs, RtHeld, RtInHand, RtUnsent, RtWaiting, Held, history
<1> QED BY <1>1, <1>3, <1>4, <1>5, <1>6 DEF RtMsgs

(* RouteMessage begins: a new message.                                     *)
LEMMA RtSelects ==
  ASSUME RtMsgsTyped, RtMsgs, RtConns, NEW r \in Routers, RouteSelect(r)
  PROVE  RtMsgsTyped' /\ RtMsgs' /\ RtConns'
<1> DEFINE m == sent + 1
<1> DEFINE l == IF ActiveConnection = NoConn THEN "relay" ELSE "send"
<1>1. /\ sent \in Nat /\ m \in Msgs /\ m > sent /\ sent' = m
      /\ route[r].at = "idle" /\ r \in DOMAIN route
  BY QueueAssumption DEF RouteSelect, RtMsgsTyped, Msgs
<1>2. route' = [route EXCEPT ![r] = [at |-> l, msg |-> m, conn |-> ActiveConnection]]
  BY DEF RouteSelect
<1>3. UNCHANGED <<queue, made, replay, arrived, replayed, stored, dropped, answer>>
  BY DEF RouteSelect
<1>4. [at |-> l, msg |-> m, conn |-> ActiveConnection] \in RtPlaces
  BY RtActive, <1>1, QueueAssumption DEF RtPlaces, RtMoves, Msgs
<1>5. route \in [Routers -> RtPlaces]
  BY DEF RtMsgsTyped
<1>6. RtMsgsTyped'
  BY <1>1, <1>2, <1>3, <1>4, <1>5 DEF RtMsgsTyped, Msgs
<1>7. \A x : Waiting(x)' <=> Waiting(x)
  BY <1>3 DEF Waiting
<1>8. /\ route'[r].at = l /\ route'[r].msg = m /\ route'[r].conn = ActiveConnection
      /\ \A s \in Routers : s # r => route'[s] = route[s]
  BY <1>2, <1>5
<1>9. arrived[m] = 0 /\ ~Waiting(m) /\ ~Listed(m, replayed) /\ answer[m] = "none"
  BY <1>1 DEF RtMsgs, RtUnsent
<1>10. \A s \in Routers : Held(s) => route[s].msg # m
  BY <1>1 DEF RtMsgs, RtHeld, RtInHand
<1>11. RtHeld'
  <2> SUFFICES ASSUME NEW s \in Routers, Held(s)' PROVE RtInHand(s)'
    BY DEF RtHeld
  <2>1. CASE s = r
    BY <2>1, <1>1, <1>3, <1>7, <1>8, <1>9 DEF RtInHand
  <2>2. CASE s # r
    <3>1. Held(s) /\ route'[s] = route[s]
      BY <2>2, <1>8 DEF Held
    <3> QED BY <3>1, <1>1, <1>3, <1>7 DEF RtMsgs, RtHeld, RtInHand
  <2> QED BY <2>1, <2>2
<1>12. RtApart'
  BY <1>1, <1>8, <1>10 DEF RtMsgs, RtApart, Held
<1>13. RtConns'
  BY <1>8, RtActive DEF RtConns
<1>14. NoSilentLoss' /\ RtUnsent' /\ RtWaiting'
  BY <1>1, <1>3, <1>7 DEF RtMsgs, NoSilentLoss, RtUnsent, RtWaiting, Msgs
<1>15. WaitsOnce' /\ ReceivedAtMostTwice' /\ RtReplays'
  BY <1>3 DEF RtMsgs, WaitsOnce, ReceivedAtMostTwice, RtReplays
<1> QED BY <1>6, <1>11, <1>12, <1>13, <1>14, <1>15 DEF RtMsgs

(* A router goes on, or returns, without a word to the queue: its message   *)
(* may have been received or stored.                                        *)
LEMMA RtCarries ==
  ASSUME RtMsgsTyped, RtMsgs, NEW r \in Routers, Held(r),
         NEW m, m = route[r].msg, NEW p \in RtPlaces,
         route' = [route EXCEPT ![r] = p],
         UNCHANGED <<queue, made, replay, sent, replayed, dropped>>,
         stored \subseteq stored', stored' \subseteq stored \union Msgs,
         \/ arrived' = arrived
         \/ arrived[m] = 0 /\ Arrives(m),
         \/ /\ p.at # "idle" /\ p.msg = m /\ answer' = answer
            /\ p.at = "confirm" => arrived'[m] = 1
            /\ p.at \notin {"confirm", "queue"} => arrived'[m] = 0
         \/ /\ p.at = "idle"
            /\ \E a \in {"ok", "err"} : answer' = [answer EXCEPT ![m] = a]
            /\ answer'[m] = "ok" => arrived'[m] > 0 \/ m \in stored'
  PROVE  RtMsgsTyped' /\ RtMsgs'
<1>1. m \in Msgs /\ m <= sent /\ m \in 1 .. sent
  BY RtHolds DEF RtMsgs, RtHeld, RtInHand
<1>2. /\ route \in [Routers -> RtPlaces] /\ arrived \in [Msgs -> Nat]
      /\ answer \in [Msgs -> {"none", "ok", "err"}] /\ sent \in Nat /\ sent <= MaxMsgs
  BY QueueAssumption DEF RtMsgsTyped
<1>3. ~Waiting(m) /\ ~Listed(m, replayed) /\ arrived[m] <= 1 /\ answer[m] = "none"
  BY DEF RtMsgs, RtHeld, RtInHand
<1>4. /\ arrived' \in [Msgs -> Nat] /\ arrived'[m] <= 1 /\ arrived[m] <= arrived'[m]
      /\ \A x \in Msgs : x # m => arrived'[x] = arrived[x]
  BY <1>1, <1>2, <1>3 DEF Arrives
<1>5. /\ answer' \in [Msgs -> {"none", "ok", "err"}]
      /\ \A x \in Msgs : x # m => answer'[x] = answer[x]
      /\ p.at # "idle" => answer'[m] = "none"
  BY <1>1, <1>2, <1>3
<1>6. /\ route' \in [Routers -> RtPlaces] /\ route'[r] = p
      /\ \A s \in Routers : s # r => route'[s] = route[s]
  BY <1>2
<1>7. RtMsgsTyped'
  BY <1>4, <1>5, <1>6 DEF RtMsgsTyped
<1>8. \A x : Waiting(x)' <=> Waiting(x)
  BY DEF Waiting
<1>9. \A s \in Routers : s # r /\ Held(s) => route[s].msg # m
  BY DEF RtMsgs, RtApart
<1>10. RtHeld'
  <2> SUFFICES ASSUME NEW s \in Routers, Held(s)' PROVE RtInHand(s)'
    BY DEF RtHeld
  <2>1. CASE s = r
    BY <2>1, <1>1, <1>3, <1>4, <1>5, <1>6, <1>8 DEF RtInHand, Held
  <2>2. CASE s # r
    <3>1. Held(s) /\ route'[s] = route[s] /\ route[s].msg # m
      BY <2>2, <1>6, <1>9 DEF Held
    <3>2. route[s].msg \in Msgs /\ RtInHand(s)
      BY <3>1, RtHolds DEF RtMsgs, RtHeld
    <3> QED BY <3>1, <3>2, <1>4, <1>5, <1>8 DEF RtInHand
  <2> QED BY <2>1, <2>2
<1>11. RtApart'
  BY <1>6, <1>9 DEF RtMsgs, RtApart, Held
<1>12. NoSilentLoss'
  <2> SUFFICES ASSUME NEW x \in Msgs, answer'[x] = "ok"
      PROVE  arrived'[x] > 0 \/ x \in stored' \union dropped' \/ Waiting(x)'
    BY DEF NoSilentLoss
  <2>1. CASE x = m
    BY <2>1, <1>5
  <2>2. CASE x # m
    BY <2>2, <1>4, <1>5, <1>8 DEF RtMsgs, NoSilentLoss
  <2> QED BY <2>1, <2>2
<1>13. RtUnsent'
  <2> SUFFICES ASSUME NEW x \in Msgs, x > sent
      PROVE  arrived'[x] = 0 /\ ~Waiting(x)' /\ ~Listed(x, replayed) /\ answer'[x] = "none"
    BY DEF RtUnsent
  <2>1. x # m
    BY <1>1, <1>2 DEF Msgs
  <2> QED BY <2>1, <1>4, <1>5, <1>8 DEF RtMsgs, RtUnsent
<1>14. RtWaiting'
  <2> SUFFICES ASSUME NEW x \in Msgs, Waiting(x) PROVE ~Listed(x, replayed) /\ arrived'[x] <= 1
    BY <1>8 DEF RtWaiting
  <2> QED BY <1>3, <1>4 DEF RtMsgs, RtWaiting
<1>15. WaitsOnce' /\ RtReplays'
  BY DEF RtMsgs, WaitsOnce, RtReplays
<1>16. ReceivedAtMostTwice'
  BY <1>4 DEF RtMsgs, ReceivedAtMostTwice
<1> QED BY <1>7, <1>10, <1>11, <1>12, <1>13, <1>14, <1>15, <1>16 DEF RtMsgs

(* A router puts its message into the offline queue and returns.            *)
LEMMA RtQueues ==
  ASSUME RtMsgsTyped, RtMsgs, NEW r \in Routers, Held(r),
         NEW m, m = route[r].msg, Enqueue(m),
         route' = [route EXCEPT ![r] = Idle],
         NEW a \in {"ok", "err"}, answer' = [answer EXCEPT ![m] = a],
         UNCHANGED <<replay, sent, arrived, replayed, stored>>
  PROVE  RtMsgsTyped' /\ RtMsgs'
<1>1. m \in Msgs /\ m <= sent /\ m \in 1 .. sent
  BY RtHolds DEF RtMsgs, RtHeld, RtInHand
<1>2. /\ route \in [Routers -> RtPlaces] /\ arrived \in [Msgs -> Nat] /\ queue \in Seq(Msgs)
      /\ answer \in [Msgs -> {"none", "ok", "err"}] /\ sent \in Nat /\ sent <= MaxMsgs
      /\ Len(queue) <= QueueCap
  BY QueueAssumption DEF RtMsgsTyped
<1>3. ~Waiting(m) /\ ~Listed(m, replayed) /\ arrived[m] <= 1
  BY DEF RtMsgs, RtHeld, RtInHand
<1>4. /\ queue' \in Seq(Msgs) /\ Len(queue') <= QueueCap /\ made' = TRUE
      /\ dropped' \subseteq dropped \union Msgs /\ dropped \subseteq dropped'
      /\ Listed(m, queue')
      /\ \A x : Listed(x, queue') => x = m \/ Listed(x, queue)
      /\ \A x : Listed(x, queue) => Listed(x, queue') \/ x \in dropped'
      /\ Distinct(queue) /\ ~Listed(m, queue) => Distinct(queue')
  BY <1>1, <1>2, RtEnqueue
<1>5. Idle \in RtPlaces /\ Idle.at = "idle"
  BY QueueAssumption DEF Idle, RtPlaces, RtMoves
<1>6. /\ route' \in [Routers -> RtPlaces] /\ ~Held(r)'
      /\ \A s \in Routers : s # r => route'[s] = route[s]
  BY <1>2, <1>5 DEF Held
<1>7. /\ answer' \in [Msgs -> {"none", "ok", "err"}]
      /\ \A x \in Msgs : x # m => answer'[x] = answer[x]
  BY <1>1, <1>2
<1>8. RtMsgsTyped'
  BY <1>4, <1>6, <1>7 DEF RtMsgsTyped
<1>9. /\ \A x : Waiting(x)' => x = m \/ Waiting(x)
      /\ \A x : Waiting(x) => Waiting(x)' \/ x \in dropped'
      /\ Waiting(m)'
  BY <1>4 DEF Waiting
<1>10. \A s \in Routers : s # r /\ Held(s) => route[s].msg # m
  BY DEF RtMsgs, RtApart
<1>11. RtHeld'
  <2> SUFFICES ASSUME NEW s \in Routers, Held(s)' PROVE RtInHand(s)'
    BY DEF RtHeld
  <2>1. s # r /\ Held(s) /\ route'[s] = route[s] /\ route[s].msg # m
    BY <1>6, <1>10 DEF Held
  <2>2. route[s].msg \in Msgs /\ RtInHand(s)
    BY <2>1, RtHolds DEF RtMsgs, RtHeld
  <2> QED BY <2>1, <2>2, <1>7, <1>9 DEF RtInHand
<1>12. RtApart'
  BY <1>6 DEF RtMsgs, RtApart, Held
<1>13. NoSilentLoss'
  <2> SUFFICES ASSUME NEW x \in Msgs, answer'[x] = "ok"
      PROVE  arrived'[x] > 0 \/ x \in stored' \union dropped' \/ Waiting(x)'
    BY DEF NoSilentLoss
  <2>1. CASE x = m
    BY <2>1, <1>9
  <2>2. CASE x # m
    BY <2>2, <1>4, <1>7, <1>9 DEF RtMsgs, NoSilentLoss
  <2> QED BY <2>1, <2>2
<1>14. RtUnsent'
  <2> SUFFICES ASSUME NEW x \in Msgs, x > sent
      PROVE  arrived[x] = 0 /\ ~Waiting(x)' /\ ~Listed(x, replayed) /\ answer'[x] = "none"
    BY DEF RtUnsent
  <2>1. x # m
    BY <1>1, <1>2 DEF Msgs
  <2> QED BY <2>1, <1>7, <1>9 DEF RtMsgs, RtUnsent
<1>15. RtWaiting'
  BY <1>3, <1>9 DEF RtMsgs, RtWaiting
<1>16. WaitsOnce'
  <2>1. Distinct(queue')
    BY <1>3, <1>4 DEF RtMsgs, WaitsOnce, Waiting
  <2>2. ASSUME NEW c \in Conns, NEW x \in Msgs, Listed(x, replay[c].list)
        PROVE  ~Listed(x, queue')
    <3>1. x # m
      BY <2>2, <1>3 DEF Waiting
    <3> QED BY <3>1, <2>2, <1>4 DEF RtMsgs, WaitsOnce
  <2> QED BY <2>1, <2>2 DEF RtMsgs, WaitsOnce
<1>17. ReceivedAtMostTwice' /\ RtReplays'
  BY DEF RtMsgs, ReceivedAtMostTwice, RtReplays
<1> QED BY <1>8, <1>11, <1>12, <1>13, <1>14, <1>15, <1>16, <1>17 DEF RtMsgs

(* A router goes on to its next step, on another connection or on the same. *)
LEMMA RtGoesOn ==
  ASSUME RtMsgsTyped, RtMsgs, NEW r \in Routers, Held(r),
         NEW m, m = route[r].msg, NEW l \in RtMoves, l # "idle",
         Step(r, l) \/ \E d \in Conns \union {NoConn} : route' = [route EXCEPT ![r].conn = d, ![r].at = l],
         UNCHANGED <<queue, made, replay, sent, replayed, stored, dropped, answer>>,
         \/ arrived' = arrived
         \/ arrived[m] = 0 /\ Arrives(m),
         l = "confirm" => arrived'[m] = 1,
         l \notin {"confirm", "queue"} => arrived'[m] = 0
  PROVE  RtMsgsTyped' /\ RtMsgs'
<1>1. route \in [Routers -> RtPlaces] /\ route[r] \in RtPlaces
  BY DEF RtMsgsTyped
<1>2. PICK p : route' = [route EXCEPT ![r] = p] /\ p \in RtPlaces /\ p.at = l /\ p.msg = m
  <2>1. CASE Step(r, l)
    <3> DEFINE q == [route[r] EXCEPT !.at = l]
    <3>1. q \in RtPlaces /\ q.at = l /\ q.msg = m
      BY <1>1 DEF RtPlaces
    <3>2. route' = [route EXCEPT ![r] = q]
      BY <2>1 DEF Step
    <3> QED BY <3>1, <3>2
  <2>2. CASE \E d \in Conns \union {NoConn} : route' = [route EXCEPT ![r].conn = d, ![r].at = l]
    <3>1. PICK d \in Conns \union {NoConn} : route' = [route EXCEPT ![r].conn = d, ![r].at = l]
      BY <2>2
    <3> DEFINE q == [[route[r] EXCEPT !.conn = d] EXCEPT !.at = l]
    <3>2. q \in RtPlaces /\ q.at = l /\ q.msg = m
      BY <1>1 DEF RtPlaces
    <3>3. route' = [route EXCEPT ![r] = q]
      BY <3>1, <1>1
    <3> QED BY <3>2, <3>3
  <2> QED BY <2>1, <2>2
<1>3. /\ p.at # "confirm" \/ arrived'[m] = 1
      /\ p.at \in {"confirm", "queue"} \/ arrived'[m] = 0
  BY <1>2
<1>4. stored' = stored /\ stored \subseteq stored' /\ stored' \subseteq stored \union Msgs
  OBVIOUS
<1> QED BY <1>2, <1>3, <1>4, RtCarries

(* A router returns without a word to the queue.                            *)
LEMMA RtReturns ==
  ASSUME RtMsgsTyped, RtMsgs, NEW r \in Routers, Held(r),
         NEW m, m = route[r].msg, NEW a \in {"ok", "err"}, Return(r, a),
         UNCHANGED <<queue, made, replay, sent, replayed, dropped>>,
         stored \subseteq stored', stored' \subseteq stored \union Msgs,
         \/ arrived' = arrived
         \/ arrived[m] = 0 /\ Arrives(m),
         a = "ok" => arrived'[m] > 0 \/ m \in stored'
  PROVE  RtMsgsTyped' /\ RtMsgs'
<1>1. answer' = [answer EXCEPT ![m] = a] /\ route' = [route EXCEPT ![r] = Idle]
  BY DEF Return
<1>2. m \in Msgs /\ answer \in [Msgs -> {"none", "ok", "err"}]
  BY RtHolds DEF RtMsgs, RtMsgsTyped
<1>3. answer'[m] = a
  BY <1>1, <1>2
<1>4. Idle \in RtPlaces /\ Idle.at = "idle"
  BY QueueAssumption DEF Idle, RtPlaces, RtMoves
<1> QED BY <1>1, <1>3, <1>4, RtCarries

(* Every step of RouteMessage after its start.                             *)
LEMMA RtRoutes ==
  ASSUME RtMsgsTyped, RtMsgs, RtConns, NEW r \in Routers, RouteStep(r)
  PROVE  RtMsgsTyped' /\ RtMsgs'
<1>1. Held(r)
  BY DEF RouteStep, RouteRelay, RouteQueue, RouteRefuse, RouteSend, RouteDegrade, RouteFallback,
         RouteRetry, RouteGiveUp, RouteConfirm, Held
<1>2. PICK m : m = route[r].msg
  OBVIOUS
<1>3. /\ route \in [Routers -> RtPlaces] /\ arrived \in [Msgs -> Nat]
      /\ answer \in [Msgs -> {"none", "ok", "err"}]
  BY DEF RtMsgsTyped
<1>4. /\ m \in Msgs /\ (route[r].at = "confirm" => arrived[m] = 1)
      /\ (route[r].at \notin {"confirm", "queue"} => arrived[m] = 0)
  BY <1>1, <1>2, RtHolds DEF RtMsgs, RtHeld, RtInHand
<1>5. ASSUME Arrives(m), arrived[m] = 0 PROVE arrived'[m] = 1 /\ arrived'[m] > 0
  BY <1>5, <1>4, <1>3 DEF Arrives
<1>6. {"idle", "queue", "degrade", "fallback", "retry", "giveup", "confirm"} \subseteq RtMoves
  BY DEF RtMoves
<1>7. stored \subseteq stored /\ stored \subseteq stored \union Msgs /\ stored \subseteq stored \union {m}
      /\ stored \union {m} \subseteq stored \union Msgs
  BY <1>4
<1>8. "ok" \in {"ok", "err"} /\ "err" \in {"ok", "err"} /\ EnqueueAnswer \in {"ok", "err"}
  BY DEF EnqueueAnswer
<1>10. CASE RouteRelay(r)
  <2>1. UNCHANGED <<queue, made, replay, sent, arrived, replayed, dropped>> /\ route[r].at = "relay"
    BY <1>10 DEF RouteRelay
  <2>2. CASE HasRelay /\ stored' = stored \union {m} /\ Return(r, "ok")
    <3>1. stored \subseteq stored' /\ stored' \subseteq stored \union Msgs /\ m \in stored'
      BY <2>2, <1>7
    <3> QED BY <2>1, <2>2, <3>1, <1>1, <1>2, <1>8, RtReturns
  <2>3. CASE Step(r, "queue") /\ UNCHANGED <<stored, answer>>
    <3>1. "queue" \in RtMoves
      BY <1>6
    <3> QED BY <2>1, <2>3, <3>1, <1>1, <1>2, RtGoesOn
  <2> QED BY <1>10, <1>2, <2>2, <2>3 DEF RouteRelay
<1>11. CASE RouteQueue(r)
  <2>1. /\ Enqueue(m) /\ UNCHANGED <<replay, sent, arrived, replayed, stored>>
        /\ route' = [route EXCEPT ![r] = Idle]
        /\ answer' = [answer EXCEPT ![m] = EnqueueAnswer]
    BY <1>11, <1>2 DEF RouteQueue, Return
  <2>2. PICK a \in {"ok", "err"} : a = EnqueueAnswer
    BY <1>8
  <2> QED BY <1>1, <1>2, <2>1, <2>2, RtQueues
<1>12. CASE RouteRefuse(r)
  <2>1. /\ UNCHANGED <<queue, made, replay, sent, arrived, replayed, stored, dropped>>
        /\ Return(r, "err")
    BY <1>12 DEF RouteRefuse
  <2>2. stored \subseteq stored' /\ stored' \subseteq stored \union Msgs
    BY <2>1
  <2> QED BY <2>1, <2>2, <1>1, <1>2, <1>8, RtReturns
<1>13. CASE RouteSend(r)
  <2>1. arrived[m] = 0 /\ UNCHANGED <<queue, made, replay, sent, replayed, stored, dropped>>
    BY <1>13, <1>4 DEF RouteSend
  <2>2. CASE Arrives(m) /\ Step(r, "confirm") /\ UNCHANGED answer
    <3>1. "confirm" \in RtMoves /\ arrived'[m] = 1
      BY <1>6, <1>5, <2>1, <2>2
    <3> QED BY <2>1, <2>2, <3>1, <1>1, <1>2, RtGoesOn
  <2>3. CASE Step(r, "degrade") /\ UNCHANGED <<arrived, answer>>
    <3>1. "degrade" \in RtMoves /\ arrived'[m] = 0
      BY <1>6, <2>1, <2>3
    <3> QED BY <2>1, <2>3, <3>1, <1>1, <1>2, RtGoesOn
  <2>4. CASE Return(r, "err") /\ UNCHANGED arrived
    <3>1. stored \subseteq stored' /\ stored' \subseteq stored \union Msgs
      BY <2>1
    <3> QED BY <2>1, <2>4, <3>1, <1>1, <1>2, <1>8, RtReturns
  <2> QED BY <1>13, <1>2, <2>2, <2>3, <2>4 DEF RouteSend
<1>14. CASE RouteDegrade(r)
  <2>1. /\ arrived[m] = 0 /\ Step(r, "fallback")
        /\ UNCHANGED <<queue, made, replay, sent, arrived, replayed, stored, dropped, answer>>
    BY <1>14, <1>4 DEF RouteDegrade, history
  <2>2. "fallback" \in RtMoves /\ arrived'[m] = 0
    BY <1>6, <2>1
  <2> QED BY <2>1, <2>2, <1>1, <1>2, RtGoesOn
<1>15. CASE RouteFallback(r)
  <2>1. PICK l : l = IF ActiveConnection = NoConn THEN "giveup" ELSE "retry"
    OBVIOUS
  <2>2. PICK d : d = ActiveConnection
    OBVIOUS
  <2>3. /\ arrived[m] = 0 /\ route' = [route EXCEPT ![r].conn = d, ![r].at = l]
        /\ UNCHANGED <<queue, made, replay, sent, arrived, replayed, stored, dropped, answer>>
    BY <1>15, <1>4, <2>1, <2>2 DEF RouteFallback, history
  <2>4. l \in RtMoves /\ l # "idle" /\ l # "confirm" /\ l # "queue" /\ arrived'[m] = 0
    BY <1>6, <2>1, <2>3
  <2>5. d \in Conns \union {NoConn}
    BY <2>2, RtActive
  <2> QED BY <2>3, <2>4, <2>5, <1>1, <1>2, RtGoesOn
<1>16. CASE RouteRetry(r)
  <2>1. arrived[m] = 0 /\ UNCHANGED <<queue, made, replay, sent, replayed, stored, dropped>>
    BY <1>16, <1>4 DEF RouteRetry
  <2>2. CASE Arrives(m) /\ Return(r, "ok")
    <3>1. arrived'[m] > 0 /\ stored \subseteq stored' /\ stored' \subseteq stored \union Msgs
      BY <1>5, <2>1, <2>2
    <3> QED BY <2>1, <2>2, <3>1, <1>1, <1>2, <1>8, RtReturns
  <2>3. CASE Step(r, "giveup") /\ UNCHANGED <<arrived, answer>>
    <3>1. "giveup" \in RtMoves /\ arrived'[m] = 0
      BY <1>6, <2>1, <2>3
    <3> QED BY <2>1, <2>3, <3>1, <1>1, <1>2, RtGoesOn
  <2> QED BY <1>16, <1>2, <2>2, <2>3 DEF RouteRetry
<1>17. CASE RouteGiveUp(r)
  <2>1. /\ Enqueue(m) /\ UNCHANGED <<replay, sent, arrived, replayed, stored>>
        /\ route' = [route EXCEPT ![r] = Idle]
        /\ answer' = [answer EXCEPT ![m] = "err"]
    BY <1>17, <1>2 DEF RouteGiveUp, Return
  <2> QED BY <1>1, <1>2, <1>8, <2>1, RtQueues
<1>18. CASE RouteConfirm(r)
  <2>1. arrived[m] = 1 /\ UNCHANGED <<queue, made, replay, sent, arrived, replayed, stored, dropped>>
    BY <1>18, <1>4 DEF RouteConfirm
  <2>2. CASE Return(r, "ok")
    <3>1. arrived'[m] > 0 /\ stored \subseteq stored' /\ stored' \subseteq stored \union Msgs
      BY <2>1
    <3> QED BY <2>1, <2>2, <3>1, <1>1, <1>2, <1>8, RtReturns
  <2>3. CASE Step(r, "queue") /\ UNCHANGED answer
    <3>1. "queue" \in RtMoves
      BY <1>6
    <3> QED BY <2>1, <2>3, <3>1, <1>1, <1>2, RtGoesOn
  <2> QED BY <1>18, <2>2, <2>3 DEF RouteConfirm
<1> QED BY <1>10, <1>11, <1>12, <1>13, <1>14, <1>15, <1>16, <1>17, <1>18 DEF RouteStep

LEMMA RtRoutesConns ==
  ASSUME RtMsgsTyped, RtConns, NEW r \in Routers, RouteStep(r)
  PROVE  RtConns'
<1>0. route \in [Routers -> RtPlaces]
  BY DEF RtMsgsTyped
<1> SUFFICES ASSUME NEW s \in Routers,
                    route'[s].at \in {"send", "degrade", "fallback", "retry", "confirm"}
             PROVE  route'[s].conn \in Conns
  BY DEF RtConns
<1>1. CASE s # r
  <2>1. route'[s] = route[s]
    BY <1>1, <1>0 DEF RouteStep, RouteRelay, RouteQueue, RouteRefuse, RouteSend, RouteDegrade,
         RouteFallback, RouteRetry, RouteGiveUp, RouteConfirm, Step, Return
  <2> QED BY <2>1 DEF RtConns
<1>2. CASE s = r
  <2>1. CASE RouteFallback(r)
    BY <2>1, <1>2, <1>0, RtActive DEF RouteFallback
  <2>2. CASE \E a \in {"ok", "err"} : Return(r, a)
    BY <2>2, <1>2, <1>0 DEF Return, Idle
  <2>3. CASE \E l \in {"queue", "giveup"} : Step(r, l)
    BY <2>3, <1>2, <1>0 DEF Step
  <2>4. CASE \E l \in RtMoves : Step(r, l) /\ route[r].at \in {"send", "degrade"}
    BY <2>4, <1>2, <1>0 DEF Step, RtConns
  <2>5. EnqueueAnswer \in {"ok", "err"}
    BY DEF EnqueueAnswer
  <2> QED BY <2>1, <2>2, <2>3, <2>4, <2>5 DEF RouteStep, RouteRelay, RouteQueue, RouteRefuse,
            RouteSend, RouteDegrade, RouteRetry, RouteGiveUp, RouteConfirm, RtMoves
<1> QED BY <1>1, <1>2

(* The list of a replay, and the lists of the others.                      *)
LEMMA RtLists ==
  ASSUME RtMsgsTyped, NEW c \in Conns, NEW a, a \in {"idle", "drain", "send", "requeue"},
         NEW l, l \in Seq(Msgs),
         \/ replay' = [replay EXCEPT ![c] = [at |-> a, list |-> l]]
         \/ replay' = [replay EXCEPT ![c].list = l] /\ a = replay[c].at
  PROVE  /\ replay' \in [Conns -> [at : {"idle", "drain", "send", "requeue"}, list : Seq(Msgs)]]
         /\ replay'[c].at = a /\ replay'[c].list = l
         /\ \A d \in Conns : d # c => replay'[d] = replay[d]
<1>1. /\ replay \in [Conns -> [at : {"idle", "drain", "send", "requeue"}, list : Seq(Msgs)]]
      /\ replay[c] \in [at : {"idle", "drain", "send", "requeue"}, list : Seq(Msgs)]
  BY DEF RtMsgsTyped
<1>2. CASE replay' = [replay EXCEPT ![c] = [at |-> a, list |-> l]]
  BY <1>1, <1>2
<1>3. CASE replay' = [replay EXCEPT ![c].list = l] /\ a = replay[c].at
  BY <1>1, <1>3
<1> QED BY <1>2, <1>3

(* A replay takes over the whole queue: nothing waits that did not, and    *)
(* nothing is lost.                                                        *)
LEMMA RtDrains ==
  ASSUME RtMsgsTyped, RtMsgs, NEW c \in Conns, ReplayDrain(c)
  PROVE  RtMsgsTyped' /\ RtMsgs'
<1>1. /\ replay[c].at = "drain" /\ queue' = <<>> /\ queue \in Seq(Msgs)
      /\ replay' = [replay EXCEPT ![c] = [at |-> "send", list |-> queue]]
      /\ UNCHANGED <<made, route, history>>
  BY DEF ReplayDrain, RtMsgsTyped
<1>2. /\ replay' \in [Conns -> [at : {"idle", "drain", "send", "requeue"}, list : Seq(Msgs)]]
      /\ replay'[c].at = "send" /\ replay'[c].list = queue
      /\ \A d \in Conns : d # c => replay'[d] = replay[d]
  <2>1. "send" \in {"idle", "drain", "send", "requeue"}
    OBVIOUS
  <2> QED BY <1>1, <2>1, RtLists
<1>3. replay[c].list = <<>> /\ \A x : ~Listed(x, <<>>)
  BY <1>1, RtEmpty DEF RtMsgs, RtReplays
<1>4. queue' \in Seq(Msgs) /\ Len(queue') <= QueueCap
  BY <1>1, QueueAssumption
<1>5. RtMsgsTyped'
  BY <1>1, <1>2, <1>4 DEF RtMsgsTyped, history
<1>6. \A x : Waiting(x)' <=> Waiting(x)
  <2> SUFFICES ASSUME NEW x PROVE Waiting(x)' <=> Waiting(x)
    OBVIOUS
  <2>1. Waiting(x)' <=> \E d \in Conns : Listed(x, replay'[d].list)
    BY <1>1, <1>3 DEF Waiting
  <2>2. ASSUME NEW d \in Conns, Listed(x, replay'[d].list) PROVE Waiting(x)
    BY <2>2, <1>2 DEF Waiting
  <2>3. ASSUME Waiting(x) PROVE \E d \in Conns : Listed(x, replay'[d].list)
    <3>1. CASE Listed(x, queue)
      BY <3>1, <1>2
    <3>2. ASSUME NEW d \in Conns, Listed(x, replay[d].list) PROVE Listed(x, replay'[d].list)
      BY <3>2, <1>2, <1>3
    <3> QED BY <2>3, <3>1, <3>2 DEF Waiting
  <2> QED BY <2>1, <2>2, <2>3
<1>7. WaitsOnce'
  <2>1. Distinct(queue')
    BY <1>1, RtEmpty
  <2>2. ASSUME NEW d \in Conns PROVE Distinct(replay'[d].list)
    BY <1>2 DEF RtMsgs, WaitsOnce
  <2>3. ASSUME NEW d \in Conns, NEW x \in Msgs, Listed(x, replay'[d].list)
        PROVE  ~Listed(x, queue') /\ \A e \in Conns \ {d} : ~Listed(x, replay'[e].list)
    <3>1. ~Listed(x, queue')
      BY <1>1, <1>3
    <3>2. ASSUME NEW e \in Conns \ {d} PROVE ~Listed(x, replay'[e].list)
      <4>1. CASE d = c
        BY <4>1, <2>3, <3>2, <1>2 DEF RtMsgs, WaitsOnce
      <4>2. CASE d # c /\ e = c
        BY <4>2, <2>3, <1>2 DEF RtMsgs, WaitsOnce
      <4>3. CASE d # c /\ e # c
        BY <4>3, <2>3, <3>2, <1>2 DEF RtMsgs, WaitsOnce
      <4> QED BY <4>1, <4>2, <4>3
    <3> QED BY <3>1, <3>2
  <2> QED BY <2>1, <2>2, <2>3 DEF WaitsOnce
<1>8. ReceivedAtMostTwice' /\ RtApart'
  BY <1>1 DEF RtMsgs, ReceivedAtMostTwice, RtApart, Held, history
<1>9. NoSilentLoss' /\ RtUnsent' /\ RtWaiting'
  BY <1>1, <1>6 DEF RtMsgs, NoSilentLoss, RtUnsent, RtWaiting, history
<1>10. RtHeld'
  BY <1>1, <1>6 DEF RtMsgs, RtHeld, RtInHand, Held, history
<1>11. RtReplays'
  BY <1>2 DEF RtMsgs, RtReplays
<1> QED BY <1>5, <1>7, <1>8, <1>9, <1>10, <1>11 DEF RtMsgs

(* A replay hands over its first message: it is received, waits no more,   *)
(* and no router has it.                                                   *)
LEMMA RtReplayed ==
  ASSUME RtMsgsTyped, RtMsgs, NEW c \in Conns, replay[c].at = "send", replay[c].list # <<>>,
         Arrives(replay[c].list[1]), replayed' = Append(replayed, replay[c].list[1]),
         replay' = [replay EXCEPT ![c].list = Tail(@)],
         UNCHANGED <<queue, made, route, sent, stored, dropped, answer>>
  PROVE  RtMsgsTyped' /\ RtMsgs'
<1>1. PICK l : l = replay[c].list
  OBVIOUS
<1>2. PICK m : m = l[1]
  OBVIOUS
<1>3. /\ l \in Seq(Msgs) /\ l # <<>> /\ replayed \in Seq(Msgs) /\ arrived \in [Msgs -> Nat]
      /\ replay \in [Conns -> [at : {"idle", "drain", "send", "requeue"}, list : Seq(Msgs)]]
  BY <1>1 DEF RtMsgsTyped
<1>4. /\ m \in Msgs /\ Tail(l) \in Seq(Msgs) /\ Listed(m, l)
      /\ \A x : Listed(x, l) <=> x = m \/ Listed(x, Tail(l))
      /\ Distinct(Tail(l)) /\ ~Listed(m, Tail(l))
  <2>1. Distinct(l)
    BY <1>1 DEF RtMsgs, WaitsOnce
  <2> QED BY <1>2, <1>3, <2>1, RtTail
<1>5. replay' = [replay EXCEPT ![c].list = Tail(l)] /\ replay[c].at = "send"
  BY <1>1
<1>6. /\ replay' \in [Conns -> [at : {"idle", "drain", "send", "requeue"}, list : Seq(Msgs)]]
      /\ replay'[c].at = "send" /\ replay'[c].list = Tail(l)
      /\ \A d \in Conns : d # c => replay'[d] = replay[d]
  <2>1. "send" \in {"idle", "drain", "send", "requeue"}
    OBVIOUS
  <2> QED BY <1>4, <1>5, <2>1, RtLists
<1>7. Waiting(m) /\ ~Listed(m, replayed) /\ arrived[m] <= 1
  BY <1>1, <1>4 DEF Waiting, RtMsgs, RtWaiting
<1>8. /\ replayed' \in Seq(Msgs) /\ Distinct(replayed')
      /\ \A x : Listed(x, replayed') <=> x = m \/ Listed(x, replayed)
  <2>1. replayed' = Append(replayed, m) /\ Distinct(replayed)
    BY <1>1, <1>2 DEF RtMsgs, ReceivedAtMostTwice
  <2> QED BY <1>3, <1>4, <1>7, <2>1, RtAppend
<1>9. /\ arrived' \in [Msgs -> Nat] /\ arrived'[m] = arrived[m] + 1 /\ arrived[m] \in Nat
      /\ \A x \in Msgs : x # m => arrived'[x] = arrived[x]
  BY <1>1, <1>2, <1>3, <1>4 DEF Arrives
<1>10. RtMsgsTyped'
  BY <1>6, <1>8, <1>9 DEF RtMsgsTyped
<1>11. ~Waiting(m)' /\ \A x \in Msgs : x # m => (Waiting(x)' <=> Waiting(x))
  <2>1. ~Listed(m, queue) /\ \A d \in Conns : d # c => ~Listed(m, replay[d].list)
    BY <1>1, <1>4 DEF RtMsgs, WaitsOnce
  <2>2. ~Waiting(m)'
    BY <2>1, <1>4, <1>6 DEF Waiting
  <2>3. ASSUME NEW x \in Msgs, x # m PROVE Waiting(x)' <=> Waiting(x)
    <3>1. ASSUME NEW d \in Conns PROVE Listed(x, replay'[d].list) <=> Listed(x, replay[d].list)
      BY <2>3, <1>1, <1>4, <1>6
    <3> QED BY <3>1 DEF Waiting
  <2> QED BY <2>2, <2>3
<1>12. ASSUME NEW r \in Routers, Held(r) PROVE route[r].msg \in Msgs /\ route[r].msg # m
  BY <1>12, <1>7, RtHolds DEF RtMsgs, RtHeld, RtInHand
<1>13. RtHeld'
  <2> SUFFICES ASSUME NEW r \in Routers, Held(r)' PROVE RtInHand(r)'
    BY DEF RtHeld
  <2>1. Held(r) /\ route'[r] = route[r]
    BY DEF Held
  <2> QED BY <2>1, <1>8, <1>9, <1>11, <1>12 DEF RtMsgs, RtHeld, RtInHand
<1>14. WaitsOnce'
  <2>1. ASSUME NEW d \in Conns PROVE Distinct(replay'[d].list)
    BY <1>4, <1>6 DEF RtMsgs, WaitsOnce
  <2>2. ASSUME NEW d \in Conns, NEW x \in Msgs PROVE Listed(x, replay'[d].list) => Listed(x, replay[d].list)
    BY <1>1, <1>4, <1>6
  <2> QED BY <2>1, <2>2 DEF RtMsgs, WaitsOnce
<1>15. ReceivedAtMostTwice'
  <2> SUFFICES ASSUME NEW x \in Msgs PROVE arrived'[x] <= 2
    BY <1>8 DEF ReceivedAtMostTwice
  <2> QED BY <1>7, <1>9 DEF RtMsgs, ReceivedAtMostTwice
<1>16. RtApart'
  BY DEF RtMsgs, RtApart, Held
<1>17. NoSilentLoss'
  <2> SUFFICES ASSUME NEW x \in Msgs, answer[x] = "ok"
      PROVE  arrived'[x] > 0 \/ x \in stored \union dropped \/ Waiting(x)'
    BY DEF NoSilentLoss
  <2>1. CASE x = m
    BY <2>1, <1>9
  <2>2. CASE x # m
    BY <2>2, <1>9, <1>11 DEF RtMsgs, NoSilentLoss
  <2> QED BY <2>1, <2>2
<1>18. RtUnsent'
  BY <1>7, <1>8, <1>9, <1>11 DEF RtMsgs, RtUnsent
<1>19. RtWaiting'
  BY <1>8, <1>9, <1>11 DEF RtMsgs, RtWaiting
<1>20. RtReplays'
  BY <1>6 DEF RtMsgs, RtReplays
<1> QED BY <1>10, <1>13, <1>14, <1>15, <1>16, <1>17, <1>18, <1>19, <1>20 DEF RtMsgs

(* A failed replay puts its first message back into the queue.             *)
LEMMA RtRequeues ==
  ASSUME RtMsgsTyped, RtMsgs, NEW c \in Conns, ReplayRequeue(c)
  PROVE  RtMsgsTyped' /\ RtMsgs'
<1>1. PICK l : l = replay[c].list
  OBVIOUS
<1>2. PICK m : m = l[1]
  OBVIOUS
<1>3. /\ l \in Seq(Msgs) /\ l # <<>> /\ queue \in Seq(Msgs) /\ Len(queue) <= QueueCap
      /\ replay \in [Conns -> [at : {"idle", "drain", "send", "requeue"}, list : Seq(Msgs)]]
      /\ replay[c].at = "requeue" /\ Enqueue(m)
      /\ UNCHANGED <<route, sent, arrived, replayed, stored, answer>>
  BY <1>1, <1>2 DEF RtMsgsTyped, ReplayRequeue
<1>4. /\ m \in Msgs /\ Tail(l) \in Seq(Msgs) /\ Listed(m, l)
      /\ \A x : Listed(x, l) <=> x = m \/ Listed(x, Tail(l))
      /\ Distinct(Tail(l)) /\ ~Listed(m, Tail(l))
  <2>1. Distinct(l)
    BY <1>1 DEF RtMsgs, WaitsOnce
  <2> QED BY <1>2, <1>3, <2>1, RtTail
<1>5. replay' = [replay EXCEPT ![c].list = Tail(l)] /\ replay[c].at = "requeue"
  BY <1>1, <1>3 DEF ReplayRequeue
<1>6. /\ replay' \in [Conns -> [at : {"idle", "drain", "send", "requeue"}, list : Seq(Msgs)]]
      /\ replay'[c].at = "requeue" /\ replay'[c].list = Tail(l)
      /\ \A d \in Conns : d # c => replay'[d] = replay[d]
  <2>1. "requeue" \in {"idle", "drain", "send", "requeue"}
    OBVIOUS
  <2> QED BY <1>4, <1>5, <2>1, RtLists
<1>7. /\ Waiting(m) /\ ~Listed(m, queue) /\ Distinct(queue)
      /\ \A d \in Conns : d # c => ~Listed(m, replay[d].list)
  BY <1>1, <1>4 DEF Waiting, RtMsgs, WaitsOnce
<1>8. /\ queue' \in Seq(Msgs) /\ Len(queue') <= QueueCap /\ made' = TRUE
      /\ dropped' \subseteq dropped \union Msgs /\ dropped \subseteq dropped'
      /\ Listed(m, queue')
      /\ \A x : Listed(x, queue') => x = m \/ Listed(x, queue)
      /\ \A x : Listed(x, queue) => Listed(x, queue') \/ x \in dropped'
      /\ Distinct(queue')
  BY <1>3, <1>4, <1>7, RtEnqueue
<1>9. RtMsgsTyped'
  BY <1>3, <1>6, <1>8 DEF RtMsgsTyped
<1>10. ASSUME NEW x, NEW d \in Conns
       PROVE  /\ Listed(x, replay'[d].list) => Listed(x, replay[d].list) /\ x # m
              /\ Listed(x, replay[d].list) => Listed(x, replay'[d].list) \/ x = m
  BY <1>1, <1>4, <1>6, <1>7
<1>11. ASSUME NEW x PROVE /\ Waiting(x)' => Waiting(x)
                          /\ Waiting(x) => Waiting(x)' \/ x \in dropped'
  <2>1. ASSUME Waiting(x)' PROVE Waiting(x)
    <3>1. CASE Listed(x, queue')
      BY <3>1, <1>7, <1>8 DEF Waiting
    <3>2. CASE \E d \in Conns : Listed(x, replay'[d].list)
      BY <3>2, <1>10 DEF Waiting
    <3> QED BY <2>1, <3>1, <3>2 DEF Waiting
  <2>2. ASSUME Waiting(x) PROVE Waiting(x)' \/ x \in dropped'
    <3>1. CASE Listed(x, queue)
      BY <3>1, <1>8 DEF Waiting
    <3>2. CASE \E d \in Conns : Listed(x, replay[d].list)
      BY <3>2, <1>8, <1>10 DEF Waiting
    <3> QED BY <2>2, <3>1, <3>2 DEF Waiting
  <2> QED BY <2>1, <2>2
<1>12. RtHeld'
  <2> SUFFICES ASSUME NEW r \in Routers, Held(r)' PROVE RtInHand(r)'
    BY DEF RtHeld
  <2>1. Held(r) /\ route'[r] = route[r]
    BY <1>3 DEF Held
  <2> QED BY <2>1, <1>3, <1>11 DEF RtMsgs, RtHeld, RtInHand
<1>13. WaitsOnce'
  <2>1. ASSUME NEW d \in Conns PROVE Distinct(replay'[d].list)
    BY <1>4, <1>6 DEF RtMsgs, WaitsOnce
  <2>2. ASSUME NEW d \in Conns, NEW x \in Msgs, Listed(x, replay'[d].list)
        PROVE  ~Listed(x, queue') /\ \A e \in Conns \ {d} : ~Listed(x, replay'[e].list)
    <3>1. Listed(x, replay[d].list) /\ x # m
      BY <2>2, <1>10
    <3>2. ~Listed(x, queue) /\ \A e \in Conns \ {d} : ~Listed(x, replay[e].list)
      BY <3>1 DEF RtMsgs, WaitsOnce
    <3> QED BY <3>1, <3>2, <1>8, <1>10
  <2> QED BY <2>1, <2>2, <1>8 DEF WaitsOnce
<1>14. ReceivedAtMostTwice' /\ RtApart'
  BY <1>3 DEF RtMsgs, ReceivedAtMostTwice, RtApart, Held
<1>15. NoSilentLoss'
  BY <1>3, <1>8, <1>11 DEF RtMsgs, NoSilentLoss
<1>16. RtUnsent' /\ RtWaiting'
  BY <1>3, <1>11 DEF RtMsgs, RtUnsent, RtWaiting
<1>17. RtReplays'
  BY <1>6 DEF RtMsgs, RtReplays
<1> QED BY <1>9, <1>12, <1>13, <1>14, <1>15, <1>16, <1>17 DEF RtMsgs

(* What a step keeps of the messages and of the connections looked at.      *)
LEMMA RtMsgsStep ==
  ASSUME RtMsgsTyped, RtMsgs, RtConns, [RoutingNext]_routingVars
  PROVE  RtMsgsTyped' /\ RtMsgs' /\ RtConns'
<1>1. ASSUME UNCHANGED route PROVE RtConns'
  BY <1>1 DEF RtConns
<1>2. ASSUME NEW r \in Routers, RouteSelect(r) PROVE RtMsgsTyped' /\ RtMsgs' /\ RtConns'
  BY <1>2, RtSelects
<1>3. ASSUME NEW r \in Routers, RouteStep(r) PROVE RtMsgsTyped' /\ RtMsgs' /\ RtConns'
  BY <1>3, RtRoutes, RtRoutesConns
<1>4. ASSUME UNCHANGED <<queue, made, route, history, replay>>
      PROVE  RtMsgsTyped' /\ RtMsgs' /\ RtConns'
  <2>1. /\ replay' \in [Conns -> [at : {"idle", "drain", "send", "requeue"}, list : Seq(Msgs)]]
        /\ \A c \in Conns : replay'[c].list = replay[c].list
        /\ RtReplays'
    BY <1>4 DEF RtMsgsTyped, RtMsgs, RtReplays
  <2> QED BY <1>1, <1>4, <2>1, RtStill
<1>5. ASSUME NEW c \in Conns, NEW a, a \in {"idle", "drain"}, replay[c].list = <<>>,
             replay' = [replay EXCEPT ![c].at = a], UNCHANGED <<queue, made, route, history>>
      PROVE  RtMsgsTyped' /\ RtMsgs' /\ RtConns'
  <2>1. /\ replay \in [Conns -> [at : {"idle", "drain", "send", "requeue"}, list : Seq(Msgs)]]
        /\ replay[c] \in [at : {"idle", "drain", "send", "requeue"}, list : Seq(Msgs)]
    BY DEF RtMsgsTyped
  <2>2. /\ replay' \in [Conns -> [at : {"idle", "drain", "send", "requeue"}, list : Seq(Msgs)]]
        /\ replay'[c].list = replay[c].list
        /\ \A d \in Conns : d # c => replay'[d] = replay[d]
    BY <1>5, <2>1
  <2>3. RtReplays'
    BY <1>5, <2>2 DEF RtMsgs, RtReplays
  <2> QED BY <1>1, <1>5, <2>2, <2>3, RtStill
<1>6. ASSUME NEW c \in Conns, ReplayStep(c) PROVE RtMsgsTyped' /\ RtMsgs' /\ RtConns'
  <2>1. RtConns'
    BY <1>1, <1>6 DEF ReplayStep, ReplayDrain, ReplaySend, ReplayRequeue, ReplayEnd
  <2>2. CASE ReplayDrain(c)
    BY <2>1, <2>2, RtDrains
  <2>3. CASE ReplayRequeue(c)
    BY <2>1, <2>3, RtRequeues
  <2>4. CASE ReplayEnd(c)
    BY <2>4, <1>5 DEF ReplayEnd
  <2>5. CASE ReplaySend(c)
    <3>1. /\ replay[c].at = "send" /\ replay[c].list # <<>>
          /\ UNCHANGED <<queue, made, route, sent, stored, dropped, answer>>
      BY <2>5 DEF ReplaySend
    <3>2. CASE /\ Arrives(replay[c].list[1])
               /\ replayed' = Append(replayed, replay[c].list[1])
               /\ replay' = [replay EXCEPT ![c].list = Tail(@)]
      BY <2>1, <3>1, <3>2, RtReplayed
    <3>3. CASE replay' = [replay EXCEPT ![c].at = "requeue"] /\ UNCHANGED <<arrived, replayed>>
      <4>1. /\ replay \in [Conns -> [at : {"idle", "drain", "send", "requeue"}, list : Seq(Msgs)]]
            /\ replay[c] \in [at : {"idle", "drain", "send", "requeue"}, list : Seq(Msgs)]
        BY DEF RtMsgsTyped
      <4>2. /\ replay' \in [Conns -> [at : {"idle", "drain", "send", "requeue"}, list : Seq(Msgs)]]
            /\ replay'[c].list = replay[c].list /\ replay'[c].at = "requeue"
            /\ \A d \in Conns : d # c => replay'[d] = replay[d]
        BY <3>3, <4>1
      <4>3. RtReplays'
        BY <4>2 DEF RtMsgs, RtReplays
      <4>4. UNCHANGED <<queue, made, route, history>>
        BY <3>1, <3>3 DEF history
      <4> QED BY <2>1, <4>2, <4>3, <4>4, RtStill
    <3> QED BY <2>5, <3>2, <3>3 DEF ReplaySend
  <2> QED BY <1>6, <2>2, <2>3, <2>4, <2>5 DEF ReplayStep
<1>7. ASSUME NEW c \in Conns, OnConnect(c) PROVE RtMsgsTyped' /\ RtMsgs' /\ RtConns'
  <2>1. /\ replay[c].at = "idle" /\ UNCHANGED <<queue, made, route, history>>
        /\ replay' = [replay EXCEPT ![c].at = IF made THEN "drain" ELSE "idle"]
    BY <1>7 DEF OnConnect
  <2>2. PICK a : a = IF made THEN "drain" ELSE "idle"
    OBVIOUS
  <2>3. a \in {"idle", "drain"} /\ replay' = [replay EXCEPT ![c].at = a]
    BY <2>1, <2>2
  <2>4. replay[c].list = <<>>
    BY <2>1 DEF RtMsgs, RtReplays
  <2> QED BY <2>1, <2>3, <2>4, <1>5
<1>8. ASSUME NEW c \in Conns, OnDisconnect(c) \/ AdapterReconnect(c)
      PROVE  RtMsgsTyped' /\ RtMsgs' /\ RtConns'
  BY <1>8, <1>4 DEF OnDisconnect, AdapterReconnect
<1>9. ASSUME NEW t \in Types, DegradeTransport(t) \/ SetHealthy(t)
      PROVE  RtMsgsTyped' /\ RtMsgs' /\ RtConns'
  BY <1>9, <1>4 DEF DegradeTransport, SetHealthy
<1>10. CASE UNCHANGED routingVars
  BY <1>10, <1>4 DEF routingVars, history
<1> QED BY <1>2, <1>3, <1>6, <1>7, <1>8, <1>9, <1>10 DEF RoutingNext

LEMMA RtStart == ASSUME RoutingInit PROVE RtInv
<1> USE RtEmpty, QueueAssumption
<1>1. \A c \in Conns : replay[c].at = "idle" /\ replay[c].list = <<>>
  BY DEF RoutingInit, Quiet
<1>2. \A r \in Routers : route[r].at = "idle" /\ ~Held(r)
  BY DEF RoutingInit, Idle, Held
<1>3. \A x : ~Waiting(x) /\ ~Listed(x, replayed)
  BY <1>1 DEF RoutingInit, Waiting
<1>4. RtPeersTyped /\ PeersOrdered
  BY DEF RoutingInit, RtPeersTyped, PeersOrdered, States
<1>5. RtMsgsTyped
  <2>1. Idle \in RtPlaces
    BY DEF Idle, RtPlaces, RtMoves
  <2>2. <<>> \in Seq(Msgs) /\ Len(<<>>) = 0
    OBVIOUS
  <2>3. replay \in [Conns -> [at : {"idle", "drain", "send", "requeue"}, list : Seq(Msgs)]]
    BY <2>2 DEF RoutingInit, Quiet
  <2>4. route \in [Routers -> RtPlaces]
    BY <2>1 DEF RoutingInit
  <2>5. /\ sent \in 0 .. MaxMsgs /\ stored \in SUBSET Msgs /\ dropped \in SUBSET Msgs
    BY DEF RoutingInit
  <2>7. arrived \in [Msgs -> Nat] /\ answer \in [Msgs -> {"none", "ok", "err"}]
    BY DEF RoutingInit
  <2>8. made \in BOOLEAN
    BY DEF RoutingInit
  <2>6. queue \in Seq(Msgs) /\ Len(queue) <= QueueCap /\ replayed \in Seq(Msgs)
    BY <2>2 DEF RoutingInit
  <2> QED BY <2>3, <2>4, <2>5, <2>6, <2>7, <2>8 DEF RtMsgsTyped
<1>6. NoSilentLoss /\ RtUnsent
  BY <1>3 DEF RoutingInit, NoSilentLoss, RtUnsent
<1>7. WaitsOnce /\ ReceivedAtMostTwice
  BY <1>1 DEF RoutingInit, WaitsOnce, ReceivedAtMostTwice
<1>8. RtConns /\ RtApart /\ RtHeld /\ RtWaiting /\ RtReplays
  BY <1>1, <1>2, <1>3 DEF RtConns, RtApart, RtHeld, RtWaiting, RtReplays
<1> QED BY <1>4, <1>5, <1>6, <1>7, <1>8, RtTypes DEF RtInv

(* The invariant of routing holds of every behaviour, for any routers,     *)
(* connections, transport types, queue capacity and number of messages.    *)
THEOREM RoutingInvariant == RoutingSpec => []RtInv
<1>1. RoutingInit => RtInv
  BY RtStart
<1>2. RtInv /\ [RoutingNext]_routingVars => RtInv'
  <2> SUFFICES ASSUME RtInv, [RoutingNext]_routingVars PROVE RtInv'
    OBVIOUS
  <2>1. RtPeersTyped /\ RtMsgsTyped /\ PeersOrdered /\ RtConns /\ RtMsgs
    BY RtTypes DEF RtInv, RtMsgs
  <2>2. RtPeersTyped' /\ PeersOrdered'
    BY <2>1, RtPeersStep
  <2>3. RtMsgsTyped' /\ RtMsgs' /\ RtConns'
    BY <2>1, RtMsgsStep
  <2>4. RoutingTypeOK'
    BY <2>2, <2>3 DEF RoutingTypeOK, RtPeersTyped, RtMsgsTyped, RtPlaces, RtMoves
  <2> QED BY <2>2, <2>3, <2>4 DEF RtInv, RtMsgs
<1> QED BY <1>1, <1>2, PTL DEF RoutingSpec

(* RoutingSound: a message RouteMessage reported as sent is received,       *)
(* stored, evicted by a full queue or still waiting; it waits in one place, *)
(* is replayed at most once and received at most twice.                     *)
THEOREM RoutingSoundAlways == RoutingSpec => []RoutingSound
<1>1. RtInv => RoutingSound
  BY DEF RtInv, RoutingSound
<1> QED BY <1>1, RoutingInvariant, PTL

-----------------------------------------------------------------------------
(* The adapters under the manager                                          *)

AdSockets ==
  [state : {"none", "active", "disconnecting", "closed"}, listed : BOOLEAN, done : 0 .. 1, recv : 0 .. 1,
   ws : {"none", "open", "closed"}, reader : {"none", "read", "deliver", "gone"}, writer : {"none", "run", "gone"},
   bridge : {"none", "wait", "gone"}, in : 0 .. AdapterBuffer, out : 0 .. AdapterBuffer]

(* One of the two channels of a socket is closed, recvChan by its bridge.  *)
AdSocketSound(x) ==
  /\ x \in AdSockets /\ x.done + x.recv <= 1
  /\ x.recv > 0 => x.bridge = "gone"

SkInv == casting \subseteq Sockets /\ sockets \in [Sockets -> AdSockets] /\ \A s \in Sockets : AdSocketSound(sockets[s])

AdRemotes ==
  [state : {"none", "active", "degraded", "connecting", "disconnecting", "closed"}, mode : {"none", "http", "hub"},
   listed : BOOLEAN, cancelled : BOOLEAN, recv : 0 .. 1,
   at : {"none", "mark", "dial", "read", "deliver", "ended", "judge", "wait", "gone", "hub"},
   leave : {"none", "cancel", "close", "finish", "left"}, pos : Nat, lastID : Nat, got : Seq(Nat), in : 0 .. AdapterBuffer]

(* Whoever closes a remote's channel was told to stop.                     *)
AdRemoteClosing(x) ==
  /\ x.recv > 0 => x.cancelled
  /\ x.leave \in {"close", "finish", "left"} => x.cancelled

(* Nothing between the events i and j of the feed was a message.           *)
NoneBetween(i, j) == \A e \in i + 1 .. j : feed[e] # "message"

(* The cursor is the last message taken, and a consumer that stands further *)
(* on has passed over no message.                                          *)
AdRemoteOrder(x) ==
  /\ x.pos <= Len(feed) /\ x.lastID <= Len(feed)
  /\ x.lastID = IF x.got = <<>> THEN 0 ELSE x.got[Len(x.got)]
  /\ x.at \in {"read", "deliver"} /\ x.mode # "hub" => x.lastID <= x.pos /\ (x.got # <<>> => NoneBetween(x.lastID, x.pos))
  /\ x.at = "deliver" /\ x.mode # "hub" => x.pos < Len(feed)
  /\ x.at = "hub" => x.mode = "hub"
  /\ \A i \in 1 .. Len(x.got) - 1 : x.got[i] < x.got[i + 1] /\ NoneBetween(x.got[i], x.got[i + 1] - 1)
  /\ \A i \in 1 .. Len(x.got) : x.got[i] \in 1 .. Len(feed)

RmInv ==
  /\ remotes \in [Remotes -> AdRemotes] /\ feed \in Seq(EventKinds)
  /\ \A r \in Remotes : AdRemoteClosing(remotes[r]) /\ AdRemoteOrder(remotes[r])

AdLinks ==
  [kind : {"none", "nats", "webrtc"}, state : {"none", "connecting", "active", "degraded", "disconnecting", "closed"},
   listed : BOOLEAN, wire : Nat, open : BOOLEAN,
   at : {"none", "subscribe", "register", "activate", "up", "offer", "failed"},
   deal : {"none", "offered", "settled", "ended"}, closed : BOOLEAN, recv : 0 .. 1, in : 0 .. AdapterBuffer,
   reading : BOOLEAN, stale : BOOLEAN]

(* A call of Disconnect on c, and one that will close its channel.         *)
Leaves(k, c) == leavers[k].at # "idle" /\ leavers[k].link = c
Holds(k, c) == leavers[k].held /\ leavers[k].link = c /\ leavers[k].at \in {"mark", "release", "close"}

AdLeavers ==
  [at : {"idle", "mark", "release", "close", "drain", "finish"}, link : LinksOf \union {"none"},
   held : BOOLEAN, last : BOOLEAN]

LkTypes ==
  /\ links \in [LinksOf -> AdLinks] /\ wire \in 0 .. MaxWires /\ leavers \in [Leavers -> AdLeavers]
  /\ \A k \in Leavers : leavers[k].at # "idle" => leavers[k].link \in LinksOf
  /\ \A k \in Leavers : leavers[k].at \in {"release", "close"} => leavers[k].held

(* The connection of a link is made once, and only then disconnected.      *)
LkMade(c, l) ==
  /\ l.at = "offer" => l.kind = "webrtc"
  /\ l.at \in {"subscribe", "register", "activate"} => l.kind = "nats"
  /\ l.at \in {"none", "subscribe", "register"} => ~l.listed /\ ~l.closed /\ l.state # "closed"
  /\ l.at = "activate" => l.listed /\ l.state # "closed"
  /\ l.kind = "nats" /\ l.at = "failed" => ~l.listed /\ ~l.closed /\ l.state # "closed"
  /\ (\E k \in Leavers : Leaves(k, c)) => ~l.listed /\ l.at \in {"up", "offer", "failed"} /\ (l.at = "failed" => l.kind = "webrtc")

(* The channel is open while the link is listed, somebody is about to close *)
(* it or a delivery is under way; one call at most is about to close it.   *)
LkChannel(c, l) ==
  /\ l.recv = IF l.closed THEN 1 ELSE 0
  /\ l.listed => ~l.closed /\ l.state # "closed"
  /\ \A k \in Leavers : Holds(k, c) => ~l.closed /\ ~l.listed /\ \A j \in Leavers : Holds(j, c) => j = k
  /\ l.reading => ~l.closed

(* When no two Disconnect calls overlapped, the one under way releases the *)
(* link before it is marked closed.                                        *)
LkGone(l) == l.closed /\ ~l.open /\ ~l.listed

LkAlone(c, l) ==
  ~l.stale =>
    /\ l.state = "closed" => LkGone(l)
    /\ \A j, k \in Leavers : Leaves(j, c) /\ Leaves(k, c) => j = k
    /\ \A k \in Leavers : Leaves(k, c) =>
         /\ leavers[k].at \in {"drain", "finish"} => LkGone(l)
         /\ leavers[k].at = "mark" /\ ~leavers[k].held => l.state = "closed"
         /\ Holds(k, c) => l.state # "closed"
    /\ l.at \in {"up", "offer", "failed"} /\ (l.at = "failed" => l.kind = "webrtc")
         /\ ~l.listed /\ (\A k \in Leavers : ~Leaves(k, c)) => l.state = "closed"

LkInv == LkTypes /\ \A c \in LinksOf : LkMade(c, links[c]) /\ LkChannel(c, links[c]) /\ LkAlone(c, links[c])

RcLoops ==
  [at : {"none", "connect", "dial", "hello", "serve", "over", "backoff", "finished"},
   cancelled : BOOLEAN, conn : BOOLEAN, bye : BOOLEAN]
RcClients ==
  [state : {"disconnected", "connecting", "connected", "backoff"}, cancel : 0 .. MaxLoops,
   done : 0 .. MaxLoops, stopping : BOOLEAN, service : {"disabled", "running", "draining", "closing"},
   handled : 0 .. MaxLoops]

RcTypes == loops \in [1 .. MaxLoops -> RcLoops] /\ client \in RcClients

(* Only the loop started last can run; the service is up while it may, and a *)
(* handler's frame keeps its loop.                                         *)
RcPlaces ==
  /\ \A g \in 1 .. MaxLoops : loops[g].at \notin Ended => g = client.done
  /\ \A g \in 1 .. MaxLoops : g > client.done => loops[g].at = "none"
  /\ client.done > 0 => loops[client.done].at # "none"

RcQuiet ==
  /\ client.done = 0 => client.state = "disconnected" /\ client.service = "disabled" /\ client.handled = 0
  /\ client.done > 0 /\ loops[client.done].at = "finished" => client.state = "disconnected"
  /\ client.handled > 0 => client.handled = client.done /\ loops[client.done].at \in {"serve", "over"}
  /\ client.service = "disabled" /\ client.done > 0 => loops[client.done].at = "finished"

RcInv == RcTypes /\ RcPlaces /\ RcQuiet

(* A goroutine that crashed the process stands where it did.               *)
AdInv == crashed \in BOOLEAN /\ OnlyReadersCrash /\ SkInv /\ RmInv /\ LkInv /\ RcInv


LEMMA SkBecomes ==
  ASSUME SkInv, NEW s \in Sockets, NEW x, AdSocketSound(x), sockets' = [sockets EXCEPT ![s] = x],
         casting' \subseteq Sockets
  PROVE  SkInv'
<1>1. x \in AdSockets
  BY DEF AdSocketSound
<1>2. \A q \in Sockets : AdSocketSound(sockets'[q])
  BY DEF SkInv
<1> QED BY <1>1, <1>2 DEF SkInv

\* Closing either channel of a socket closes one at most.
LEMMA SkCloses ==
  ASSUME NEW x, AdSocketSound(x)
  PROVE  /\ AdSocketSound(CloseDone(x))
         /\ CloseDone(x).recv = x.recv /\ CloseDone(x).bridge = x.bridge
         /\ CloseRecv(x) \in AdSockets /\ CloseRecv(x).done + CloseRecv(x).recv <= 1
  BY DEF AdSocketSound, AdSockets, CloseDone, CloseRecv

LEMMA SkStep ==
  ASSUME SkInv, crashed \in BOOLEAN, SocketsNext
  PROVE  /\ SkInv' /\ crashed' \in BOOLEAN
         /\ crashed' => \E s \in Sockets : sockets'[s].reader = "deliver" /\ sockets'[s].bridge = "gone"
<1>0. crashed = FALSE /\ AdapterBuffer \in Nat \ {0}
  BY AdaptersAssumption DEF SocketsNext
<1>1. CASE BroadcastToTenant
  BY <1>0, <1>1 DEF BroadcastToTenant, SkInv
<1>2. ASSUME NEW s \in Sockets,
             \/ WsConnect(s) \/ WsServeHTTP(s) \/ WsSend(s) \/ BroadcastTo(s) \/ WsReceive(s)
             \/ WsBridge(s) \/ WsTake(s) \/ ReadPump(s) \/ ReadPumpDelivers(s) \/ WritePump(s)
             \/ WsDisconnect(s) \/ WsTeardown(s)
      PROVE  /\ SkInv' /\ crashed' \in BOOLEAN
             /\ crashed' => \E q \in Sockets : sockets'[q].reader = "deliver" /\ sockets'[q].bridge = "gone"
  <2>0. PICK x : x = sockets[s]
    OBVIOUS
  <2>1. AdSocketSound(x) /\ x \in AdSockets /\ casting \subseteq Sockets
    BY <2>0 DEF SkInv
  <2>2. AdSocketSound(NoSocket) /\ NoSocket \in AdSockets
    BY <1>0 DEF AdSocketSound, AdSockets, NoSocket
  <2>3. ASSUME NEW y, AdSocketSound(y), WsBecomes(s, y)
        PROVE  SkInv' /\ crashed' = FALSE
    <3>1. sockets' = [sockets EXCEPT ![s] = y] /\ casting' = casting /\ crashed' = crashed
      BY <2>3 DEF WsBecomes
    <3> QED BY <1>0, <2>1, <2>3, <3>1, SkBecomes
  <2>4. CASE WsConnect(s) \/ WsServeHTTP(s)
    <3>1. PICK y \in {[NoSocket EXCEPT !.state = "active", !.listed = TRUE],
                      [NoSocket EXCEPT !.state = "active", !.listed = TRUE, !.ws = "open",
                                       !.reader = "read", !.writer = "run"]} : WsBecomes(s, y)
      BY <2>4 DEF WsConnect, WsServeHTTP
    <3>2. AdSocketSound(y)
      BY <2>2 DEF AdSocketSound, AdSockets, NoSocket
    <3> QED BY <2>3, <3>1, <3>2
  <2>5. CASE WsSend(s)
    <3>1. WsBecomes(s, [x EXCEPT !.out = @ + 1]) /\ x.out < AdapterBuffer
      BY <2>0, <2>5 DEF WsSend
    <3>2. AdSocketSound([x EXCEPT !.out = @ + 1])
      BY <1>0, <2>1, <3>1 DEF AdSocketSound, AdSockets
    <3> QED BY <2>3, <3>1, <3>2
  <2>6. CASE BroadcastTo(s)
    <3>1. casting' \subseteq Sockets /\ crashed' = FALSE
      BY <1>0, <2>1, <2>6 DEF BroadcastTo
    <3>2. CASE sockets' = sockets
      BY <2>1, <3>1, <3>2 DEF SkInv
    <3>3. CASE x.out < AdapterBuffer /\ sockets' = [sockets EXCEPT ![s].out = @ + 1]
      <4>1. sockets' = [sockets EXCEPT ![s] = [x EXCEPT !.out = @ + 1]]
        BY <2>0, <3>3
      <4>2. AdSocketSound([x EXCEPT !.out = @ + 1])
        BY <1>0, <2>1, <3>3 DEF AdSocketSound, AdSockets
      <4> QED BY <3>1, <4>1, <4>2, SkBecomes
    <3> QED BY <2>0, <2>6, <3>1, <3>2, <3>3 DEF BroadcastTo
  <2>7. CASE WsReceive(s)
    <3>1. WsBecomes(s, [x EXCEPT !.bridge = "wait"]) /\ x.bridge = "none"
      BY <2>0, <2>7 DEF WsReceive
    <3>2. AdSocketSound([x EXCEPT !.bridge = "wait"])
      BY <2>1, <3>1 DEF AdSocketSound, AdSockets
    <3> QED BY <2>3, <3>1, <3>2
  <2>8. CASE WsBridge(s)
    <3>1. PICK y \in {CloseRecv(x), x} : WsBecomes(s, [y EXCEPT !.bridge = "gone"])
      BY <2>0, <2>8 DEF WsBridge
    <3>2. y \in AdSockets /\ y.done + y.recv <= 1
      BY <2>1, SkCloses DEF AdSocketSound
    <3>3. AdSocketSound([y EXCEPT !.bridge = "gone"])
      BY <3>2 DEF AdSocketSound, AdSockets
    <3> QED BY <2>3, <3>1, <3>3
  <2>9. CASE WsTake(s)
    <3>1. WsBecomes(s, [x EXCEPT !.in = @ - 1]) /\ x.in > 0
      BY <2>0, <2>9 DEF WsTake
    <3>2. AdSocketSound([x EXCEPT !.in = @ - 1])
      BY <1>0, <2>1, <3>1 DEF AdSocketSound, AdSockets
    <3> QED BY <2>3, <3>1, <3>2
  <2>10. CASE ReadPump(s)
    <3>1. \/ WsBecomes(s, [x EXCEPT !.reader = "deliver"])
          \/ WsBecomes(s, [CloseDone(x) EXCEPT !.reader = "gone"])
      BY <2>0, <2>10 DEF ReadPump
    <3>2. AdSocketSound([x EXCEPT !.reader = "deliver"]) /\ AdSocketSound([CloseDone(x) EXCEPT !.reader = "gone"])
      BY <2>1, SkCloses DEF AdSocketSound, AdSockets
    <3> QED BY <2>3, <3>1, <3>2
  <2>11. CASE ReadPumpDelivers(s)
    <3>1. CASE x.recv > 0 /\ crashed' = TRUE /\ UNCHANGED <<sockets, casting>>
      BY <2>0, <2>1, <2>11, <3>1 DEF ReadPumpDelivers, SkInv, AdSocketSound
    <3>2. CASE x.in < AdapterBuffer /\ WsBecomes(s, [x EXCEPT !.in = @ + 1, !.reader = "read"])
      <4>1. AdSocketSound([x EXCEPT !.in = @ + 1, !.reader = "read"])
        <5>1. x.in + 1 \in 0 .. AdapterBuffer
          BY <1>0, <2>1, <3>2 DEF AdSockets
        <5> QED BY <2>1, <5>1 DEF AdSocketSound, AdSockets
      <4> QED BY <2>3, <3>2, <4>1
    <3>3. CASE WsBecomes(s, [x EXCEPT !.reader = "gone"])
      <4>1. AdSocketSound([x EXCEPT !.reader = "gone"])
        BY <2>1 DEF AdSocketSound, AdSockets
      <4> QED BY <2>3, <3>3, <4>1
    <3> QED BY <2>0, <2>11, <3>1, <3>2, <3>3 DEF ReadPumpDelivers
  <2>12. CASE WritePump(s)
    <3>1. \/ x.out > 0 /\ WsBecomes(s, [x EXCEPT !.out = @ - 1])
          \/ WsBecomes(s, [CloseDone(x) EXCEPT !.writer = "gone"])
      BY <2>0, <2>12 DEF WritePump
    <3>2. /\ x.out > 0 => AdSocketSound([x EXCEPT !.out = @ - 1])
          /\ AdSocketSound([CloseDone(x) EXCEPT !.writer = "gone"])
      BY <1>0, <2>1, SkCloses DEF AdSocketSound, AdSockets
    <3> QED BY <2>3, <3>1, <3>2
  <2>13. CASE WsDisconnect(s)
    <3>1. WsBecomes(s, [x EXCEPT !.listed = FALSE, !.state = "disconnecting"])
      BY <2>0, <2>13 DEF WsDisconnect
    <3>2. AdSocketSound([x EXCEPT !.listed = FALSE, !.state = "disconnecting"])
      BY <2>1 DEF AdSocketSound, AdSockets
    <3> QED BY <2>3, <3>1, <3>2
  <2>14. CASE WsTeardown(s)
    <3>1. PICK w \in {"none", "open", "closed"} : WsBecomes(s, [CloseDone(x) EXCEPT !.state = "closed", !.ws = w])
      <4>1. CloseDone(x).ws \in {"none", "open", "closed"}
        BY <2>1, SkCloses DEF AdSocketSound, AdSockets
      <4> QED BY <2>0, <2>14, <4>1 DEF WsTeardown
    <3>2. AdSocketSound([CloseDone(x) EXCEPT !.state = "closed", !.ws = w])
      <4>1. PICK y : y = CloseDone(x)
        OBVIOUS
      <4>2. y \in AdSockets /\ y.done + y.recv <= 1 /\ (y.recv > 0 => y.bridge = "gone")
        BY <2>1, <4>1, SkCloses DEF AdSocketSound
      <4>3. AdSocketSound([y EXCEPT !.state = "closed", !.ws = w])
        BY <4>2 DEF AdSocketSound, AdSockets
      <4> QED BY <4>1, <4>3
    <3> QED BY <2>3, <3>1, <3>2
  <2> QED BY <1>2, <2>4, <2>5, <2>6, <2>7, <2>8, <2>9, <2>10, <2>11, <2>12, <2>13, <2>14
<1> QED BY <1>1, <1>2 DEF SocketsNext

LEMMA RmBecomes ==
  ASSUME RmInv, NEW r \in Remotes, NEW x \in AdRemotes, AdRemoteClosing(x), AdRemoteOrder(x), SaBecomes(r, x)
  PROVE  RmInv'
<1>1. feed' = feed /\ remotes' = [remotes EXCEPT ![r] = x]
  BY DEF SaBecomes
<1>2. \A q \in Remotes : AdRemoteClosing(remotes'[q]) /\ AdRemoteOrder(remotes'[q])
  BY <1>1 DEF RmInv
<1>3. \A q \in Remotes : (AdRemoteOrder(remotes[q]))'
  BY <1>1, <1>2 DEF AdRemoteOrder, NoneBetween
<1>4. \A q \in Remotes : (AdRemoteClosing(remotes[q]))'
  BY <1>1, <1>2 DEF AdRemoteClosing
<1>5. remotes' \in [Remotes -> AdRemotes] /\ feed' \in Seq(EventKinds)
  BY <1>1 DEF RmInv
<1>6. (\A q \in Remotes : AdRemoteClosing(remotes[q]) /\ AdRemoteOrder(remotes[q]))'
  BY <1>3, <1>4
<1> QED BY <1>5, <1>6 DEF RmInv

\* A step that leaves cursor, position and messages alone keeps their order.
LEMMA RmSameOrder ==
  ASSUME NEW x \in AdRemotes, AdRemoteOrder(x), NEW y \in AdRemotes,
         y.pos = x.pos, y.lastID = x.lastID, y.got = x.got, y.mode = x.mode,
         y.at = x.at \/ y.at \notin {"read", "deliver", "hub"}
  PROVE  AdRemoteOrder(y)
  BY DEF AdRemoteOrder

\* What the remote server publishes comes after everything.
LEMMA RmPublished ==
  ASSUME RmInv, NEW e \in EventKinds, RemotePublishes(e)
  PROVE  RmInv'
<1>1. feed \in Seq(EventKinds) /\ feed' = Append(feed, e) /\ remotes' = remotes
  BY DEF RemotePublishes, RmInv
<1>2. /\ Len(feed') = Len(feed) + 1 /\ feed' \in Seq(EventKinds) /\ Len(feed) \in Nat
      /\ \A i \in 1 .. Len(feed) : feed'[i] = feed[i]
  BY <1>1
<1>3. ASSUME NEW r \in Remotes
      PROVE  (AdRemoteClosing(remotes[r]) /\ AdRemoteOrder(remotes[r]))'
  <2>0. PICK x : x = remotes[r]
    OBVIOUS
  <2>1. x \in AdRemotes /\ AdRemoteClosing(x) /\ AdRemoteOrder(x)
    BY <2>0 DEF RmInv
  <2>2. x.pos \in Nat /\ x.lastID \in Nat /\ x.got \in Seq(Nat) /\ Len(x.got) \in Nat
    BY <2>1 DEF AdRemotes
  <2>3. x.pos <= Len(feed) /\ x.lastID <= Len(feed)
    BY <2>1 DEF AdRemoteOrder
  <2>4. ASSUME NEW i \in Nat, NEW j \in Nat, j <= Len(feed), NoneBetween(i, j)
        PROVE  NoneBetween(i, j)'
    BY <1>2, <2>4 DEF NoneBetween
  <2>5. x.at \in {"read", "deliver"} /\ x.mode # "hub" =>
          x.lastID <= x.pos /\ (x.got # <<>> => NoneBetween(x.lastID, x.pos)')
    BY <2>1, <2>2, <2>3, <2>4 DEF AdRemoteOrder
  <2>6. \A i \in 1 .. Len(x.got) : x.got[i] \in 1 .. Len(feed)
    BY <2>1 DEF AdRemoteOrder
  <2>7. ASSUME NEW i \in 1 .. Len(x.got) - 1
        PROVE  x.got[i] < x.got[i + 1] /\ NoneBetween(x.got[i], x.got[i + 1] - 1)'
    <3>1. x.got[i] < x.got[i + 1] /\ NoneBetween(x.got[i], x.got[i + 1] - 1)
      BY <2>1, <2>7 DEF AdRemoteOrder
    <3>2. x.got[i] \in Nat /\ x.got[i + 1] - 1 \in Nat /\ x.got[i + 1] - 1 <= Len(feed)
      <4>1. i \in 1 .. Len(x.got) /\ i + 1 \in 1 .. Len(x.got)
        BY <2>2, <2>7
      <4>2. x.got[i] \in 1 .. Len(feed) /\ x.got[i + 1] \in 1 .. Len(feed)
        BY <2>6, <4>1
      <4> QED BY <1>2, <4>2
    <3> QED BY <2>4, <3>1, <3>2
  <2>8. \A i \in 1 .. Len(x.got) : x.got[i] \in 1 .. Len(feed')
    BY <1>2, <2>6
  <2>9. x.pos <= Len(feed') /\ x.lastID <= Len(feed') /\ (x.at = "deliver" /\ x.mode # "hub" => x.pos < Len(feed'))
    BY <1>2, <2>1, <2>2, <2>3 DEF AdRemoteOrder
  <2>10. (x.lastID = IF x.got = <<>> THEN 0 ELSE x.got[Len(x.got)]) /\ (x.at = "hub" => x.mode = "hub")
    BY <2>1 DEF AdRemoteOrder
  <2>11. x = remotes'[r]
    BY <1>1, <2>0
  <2>12. (AdRemoteOrder(remotes[r]))'
    BY <2>5, <2>7, <2>8, <2>9, <2>10, <2>11 DEF AdRemoteOrder
  <2> QED BY <2>1, <2>11, <2>12 DEF AdRemoteClosing
<1>4. remotes' \in [Remotes -> AdRemotes]
  BY <1>1 DEF RmInv
<1> QED BY <1>2, <1>3, <1>4 DEF RmInv

\* A delivered message becomes the last one.
LEMMA RmDelivered ==
  ASSUME NEW x \in AdRemotes, AdRemoteOrder(x), feed \in Seq(EventKinds),
         x.at = "deliver", x.mode # "hub", x.in < AdapterBuffer, AdapterBuffer \in Nat,
         NEW y, y = [x EXCEPT !.in = @ + 1, !.at = "read", !.pos = @ + 1, !.lastID = x.pos + 1,
                              !.got = Append(@, x.pos + 1)]
  PROVE  y \in AdRemotes /\ AdRemoteOrder(y)
<1>1. /\ x.pos \in Nat /\ x.lastID \in Nat /\ x.got \in Seq(Nat) /\ Len(x.got) \in Nat /\ Len(feed) \in Nat
      /\ x.in \in 0 .. AdapterBuffer
  BY DEF AdRemotes
<1>2. PICK n, p, g : n = x.in + 1 /\ p = x.pos + 1 /\ g = Append(x.got, x.pos + 1)
  OBVIOUS
<1>3. /\ g \in Seq(Nat) /\ Len(g) = Len(x.got) + 1 /\ g[Len(g)] = p
      /\ \A i \in 1 .. Len(x.got) : g[i] = x.got[i]
  BY <1>1, <1>2
<1>4. /\ y \in AdRemotes
      /\ y.pos = p /\ y.lastID = p /\ y.got = g /\ y.at = "read" /\ y.mode = x.mode
  <2>1. n \in 0 .. AdapterBuffer /\ p \in Nat
    BY <1>1, <1>2
  <2>2. y = [x EXCEPT !.in = n, !.at = "read", !.pos = p, !.lastID = p, !.got = g]
    BY <1>2
  <2>3. y \in AdRemotes
    BY <1>3, <2>1, <2>2 DEF AdRemotes
  <2> QED BY <2>2, <2>3 DEF AdRemotes
<1>5. x.pos < Len(feed) /\ x.lastID <= x.pos /\ (x.got # <<>> => NoneBetween(x.lastID, x.pos))
  BY DEF AdRemoteOrder
<1>6. p <= Len(feed) /\ g # <<>> /\ NoneBetween(p, p) /\ p \in Nat
  BY <1>1, <1>2, <1>3, <1>5 DEF NoneBetween
<1>7. ASSUME NEW i \in 1 .. Len(g)
      PROVE  g[i] \in 1 .. Len(feed)
  <2>1. CASE i \in 1 .. Len(x.got)
    BY <1>3, <2>1 DEF AdRemoteOrder
  <2>2. CASE i = Len(g)
    BY <1>1, <1>2, <1>3, <1>5, <2>2
  <2> QED BY <1>1, <1>3, <1>7, <2>1, <2>2
<1>8. ASSUME NEW i \in 1 .. Len(g) - 1
      PROVE  g[i] < g[i + 1] /\ NoneBetween(g[i], g[i + 1] - 1)
  <2>1. i \in 1 .. Len(x.got) /\ g[i] = x.got[i]
    BY <1>1, <1>3, <1>8
  <2>2. CASE i \in 1 .. Len(x.got) - 1
    <3>1. i + 1 \in 1 .. Len(x.got)
      <4>1. Len(x.got) \in Nat
        BY <1>1
      <4> QED BY <2>2, <4>1
    <3>2. g[i + 1] = x.got[i + 1]
      BY <1>3, <3>1
    <3>3. x.got[i] < x.got[i + 1] /\ NoneBetween(x.got[i], x.got[i + 1] - 1)
      BY <2>2 DEF AdRemoteOrder
    <3> QED BY <2>1, <3>2, <3>3
  <2>3. CASE i = Len(x.got)
    <3>1. g[i + 1] = p /\ x.got # <<>>
      BY <1>1, <1>3, <2>1, <2>3
    <3>2. g[i] = x.lastID
      BY <2>1, <2>3, <3>1 DEF AdRemoteOrder
    <3>3. p - 1 = x.pos /\ x.lastID < p
      <4>1. p = x.pos + 1 /\ x.lastID <= x.pos
        BY <1>2, <1>5
      <4> QED BY <1>1, <4>1
    <3> QED BY <1>5, <3>1, <3>2, <3>3
  <2>4. i \in 1 .. Len(x.got) - 1 \/ i = Len(x.got)
    BY <1>1, <2>1
  <2> QED BY <2>2, <2>3, <2>4
<1>9. AdRemoteOrder(y)
  <2>1. y.lastID = IF y.got = <<>> THEN 0 ELSE y.got[Len(y.got)]
    BY <1>3, <1>4, <1>6
  <2>2. y.pos <= Len(feed) /\ y.lastID <= Len(feed) /\ y.lastID <= y.pos /\ NoneBetween(y.lastID, y.pos)
    BY <1>4, <1>6
  <2>3. \A i \in 1 .. Len(y.got) - 1 : y.got[i] < y.got[i + 1] /\ NoneBetween(y.got[i], y.got[i + 1] - 1)
    BY <1>4, <1>8
  <2>4. \A i \in 1 .. Len(y.got) : y.got[i] \in 1 .. Len(feed)
    BY <1>4, <1>7
  <2>5. y.at = "read"
    BY <1>4
  <2> QED BY <2>1, <2>2, <2>3, <2>4, <2>5 DEF AdRemoteOrder
<1> QED BY <1>4, <1>9

LEMMA RmStep ==
  ASSUME RmInv, crashed \in BOOLEAN, RemotesNext
  PROVE  /\ RmInv' /\ crashed' \in BOOLEAN
         /\ crashed' => \E r \in Remotes : remotes'[r].at = "deliver" /\ remotes'[r].cancelled
<1>0. crashed = FALSE /\ AdapterBuffer \in Nat \ {0}
  BY AdaptersAssumption DEF RemotesNext
<1>1. ASSUME NEW e \in EventKinds, RemotePublishes(e)
      PROVE  RmInv' /\ crashed' = FALSE
  BY <1>0, <1>1, RmPublished DEF RemotePublishes
<1>2. ASSUME NEW r \in Remotes,
             \/ SaConnect(r) \/ ConsumeHTTP(r) \/ ReadSSE(r) \/ HubSends(r) \/ SaDeliver(r)
             \/ ConsumerGoesOn(r) \/ ConsumerEnds(r) \/ SaTake(r)
             \/ SaDisconnect(r) \/ SaCancel(r) \/ SaClose(r) \/ SaFinish(r)
      PROVE  /\ RmInv' /\ crashed' \in BOOLEAN
             /\ crashed' => \E q \in Remotes : remotes'[q].at = "deliver" /\ remotes'[q].cancelled
  <2>0. PICK x : x = remotes[r]
    OBVIOUS
  <2>1. x \in AdRemotes /\ AdRemoteClosing(x) /\ AdRemoteOrder(x) /\ feed \in Seq(EventKinds)
    BY <2>0 DEF RmInv
  <2>2. /\ x.pos \in Nat /\ x.lastID \in Nat /\ x.got \in Seq(Nat) /\ x.in \in 0 .. AdapterBuffer /\ Len(feed) \in Nat
        /\ x.pos <= Len(feed) /\ x.lastID <= Len(feed)
    BY <2>1 DEF AdRemotes, AdRemoteOrder
  <2>3. ASSUME NEW y \in AdRemotes, AdRemoteClosing(y), AdRemoteOrder(y), SaBecomes(r, y)
        PROVE  RmInv' /\ crashed' = FALSE
    BY <1>0, <2>3, RmBecomes DEF SaBecomes
  <2>4. CASE SaConnect(r)
    <3>1. PICK y \in {[NoRemote EXCEPT !.state = "active", !.mode = "http", !.listed = TRUE, !.at = "mark"],
                      [NoRemote EXCEPT !.state = "active", !.mode = "hub", !.listed = TRUE, !.at = "hub"]} : SaBecomes(r, y)
      BY <2>4 DEF SaConnect
    <3>2. /\ y.recv = 0 /\ y.leave = "none" /\ y.pos = 0 /\ y.lastID = 0 /\ y.got = <<>>
          /\ y.at \in {"mark", "hub"} /\ (y.at = "hub" => y.mode = "hub")
      BY DEF NoRemote
    <3>3. y \in AdRemotes
      <4>1. <<>> \in Seq(Nat) /\ 0 \in 0 .. AdapterBuffer
        BY <1>0
      <4>2. NoRemote \in AdRemotes
        BY <4>1 DEF NoRemote, AdRemotes
      <4>3. PICK m \in {"http", "hub"}, a \in {"mark", "hub"} :
              y = [NoRemote EXCEPT !.state = "active", !.mode = m, !.listed = TRUE, !.at = a]
        BY <3>1
      <4> QED BY <4>2, <4>3 DEF AdRemotes
    <3>4. AdRemoteClosing(y) /\ AdRemoteOrder(y)
      BY <2>2, <3>2 DEF AdRemoteClosing, AdRemoteOrder
    <3> QED BY <2>3, <3>1, <3>3, <3>4
  <2>5. CASE ConsumeHTTP(r)
    <3>1. CASE SaBecomes(r, [x EXCEPT !.at = "ended"])
      <4>1. PICK y : y = [x EXCEPT !.at = "ended"]
        OBVIOUS
      <4>2. y \in AdRemotes /\ AdRemoteClosing(y) /\ AdRemoteOrder(y)
        BY <2>1, <4>1, RmSameOrder DEF AdRemotes, AdRemoteClosing
      <4> QED BY <2>3, <3>1, <4>1, <4>2
    <3>2. CASE SaBecomes(r, [x EXCEPT !.state = "active", !.at = "read",
                                      !.pos = IF x.lastID = 0 THEN Len(feed) ELSE x.lastID])
      <4>1. PICK p : p = IF x.lastID = 0 THEN Len(feed) ELSE x.lastID
        OBVIOUS
      <4>2. PICK y : y = [x EXCEPT !.state = "active", !.at = "read", !.pos = p]
        OBVIOUS
      <4>3. p \in Nat /\ p <= Len(feed) /\ x.lastID <= p /\ (x.lastID # 0 => p = x.lastID)
        BY <2>2, <4>1
      <4>4. /\ y \in AdRemotes /\ AdRemoteClosing(y)
            /\ y.pos = p /\ y.lastID = x.lastID /\ y.got = x.got /\ y.at = "read" /\ y.mode = x.mode
        BY <2>1, <4>2, <4>3 DEF AdRemotes, AdRemoteClosing
      <4>5. x.got # <<>> => x.lastID # 0
        <5>1. x.got # <<>> => Len(x.got) \in 1 .. Len(x.got)
          BY <2>2
        <5> QED BY <2>1, <5>1 DEF AdRemoteOrder
      <4>6. x.got # <<>> => NoneBetween(x.lastID, p)
        BY <2>2, <4>3, <4>5 DEF NoneBetween
      <4>7. AdRemoteOrder(y)
        BY <2>1, <4>3, <4>4, <4>6 DEF AdRemoteOrder
      <4> QED BY <2>3, <3>2, <4>1, <4>2, <4>4, <4>7
    <3> QED BY <2>0, <2>5, <3>1, <3>2 DEF ConsumeHTTP
  <2>6. CASE ReadSSE(r)
    <3>1. CASE SaBecomes(r, [x EXCEPT !.at = "ended"])
      <4>1. PICK y : y = [x EXCEPT !.at = "ended"]
        OBVIOUS
      <4>2. y \in AdRemotes /\ AdRemoteClosing(y) /\ AdRemoteOrder(y)
        BY <2>1, <4>1, RmSameOrder DEF AdRemotes, AdRemoteClosing
      <4> QED BY <2>3, <3>1, <4>1, <4>2
    <3>2. CASE x.at = "read" /\ x.pos < Len(feed) /\ SaBecomes(r, [x EXCEPT !.at = "deliver"])
      <4>1. PICK y : y = [x EXCEPT !.at = "deliver"]
        OBVIOUS
      <4>2. /\ y \in AdRemotes /\ AdRemoteClosing(y)
            /\ y.pos = x.pos /\ y.lastID = x.lastID /\ y.got = x.got /\ y.at = "deliver" /\ y.mode = x.mode
        BY <2>1, <4>1 DEF AdRemotes, AdRemoteClosing
      <4>3. AdRemoteOrder(y)
        BY <2>1, <3>2, <4>2 DEF AdRemoteOrder
      <4> QED BY <2>3, <3>2, <4>1, <4>2, <4>3
    <3>3. CASE /\ x.at = "read" /\ x.pos < Len(feed) /\ feed[x.pos + 1] = "text"
               /\ SaBecomes(r, [x EXCEPT !.pos = @ + 1])
      <4>1. PICK y : y = [x EXCEPT !.pos = @ + 1]
        OBVIOUS
      <4>2. /\ y \in AdRemotes /\ AdRemoteClosing(y)
            /\ y.pos = x.pos + 1 /\ y.lastID = x.lastID /\ y.got = x.got /\ y.at = "read" /\ y.mode = x.mode
        <5>1. PICK p : p = x.pos + 1 /\ p \in Nat
          BY <2>2
        <5>2. y = [x EXCEPT !.pos = p]
          BY <4>1, <5>1
        <5>3. y \in AdRemotes
          BY <2>1, <5>1, <5>2 DEF AdRemotes
        <5>4. /\ y.recv = x.recv /\ y.cancelled = x.cancelled /\ y.leave = x.leave
              /\ y.pos = p /\ y.lastID = x.lastID /\ y.got = x.got /\ y.at = x.at /\ y.mode = x.mode
          BY <2>1, <5>2 DEF AdRemotes
        <5> QED BY <2>1, <3>3, <5>1, <5>3, <5>4 DEF AdRemoteClosing
      <4>3. NoneBetween(x.lastID, x.pos) => NoneBetween(x.lastID, x.pos + 1)
        <5>1. "text" # "message"
          OBVIOUS
        <5> QED BY <2>2, <3>3, <5>1 DEF NoneBetween
      <4>4. AdRemoteOrder(y)
        BY <2>1, <2>2, <3>3, <4>2, <4>3 DEF AdRemoteOrder
      <4> QED BY <2>3, <3>3, <4>1, <4>2, <4>4
    <3> QED BY <2>0, <2>6, <3>1, <3>2, <3>3 DEF ReadSSE
  <2>7. CASE HubSends(r)
    <3>1. PICK y : y = [x EXCEPT !.at = "deliver"]
      OBVIOUS
    <3>2. x.at = "hub" /\ SaBecomes(r, y)
      BY <2>0, <2>7, <3>1 DEF HubSends
    <3>3. /\ y \in AdRemotes /\ AdRemoteClosing(y)
          /\ y.pos = x.pos /\ y.lastID = x.lastID /\ y.got = x.got /\ y.at = "deliver" /\ y.mode = x.mode
      BY <2>1, <3>1 DEF AdRemotes, AdRemoteClosing
    <3>4. AdRemoteOrder(y)
      BY <2>1, <3>2, <3>3 DEF AdRemoteOrder
    <3> QED BY <2>3, <3>2, <3>3, <3>4
  <2>8. CASE SaDeliver(r)
    <3>1. CASE x.recv > 0 /\ crashed' = TRUE /\ UNCHANGED remoteVars
      <4>1. x.at = "deliver" /\ x.cancelled /\ remotes' = remotes /\ feed' = feed
        BY <2>0, <2>1, <2>8, <3>1 DEF SaDeliver, AdRemoteClosing, remoteVars
      <4>2. RmInv'
        BY <4>1 DEF RmInv, AdRemoteClosing, AdRemoteOrder, NoneBetween
      <4> QED BY <2>0, <3>1, <4>1, <4>2
    <3>2. CASE x.cancelled /\ SaBecomes(r, [x EXCEPT !.at = IF x.mode = "hub" THEN "hub" ELSE "ended"])
      <4>1. PICK y : y = [x EXCEPT !.at = IF x.mode = "hub" THEN "hub" ELSE "ended"]
        OBVIOUS
      <4>2. /\ y \in AdRemotes /\ AdRemoteClosing(y)
            /\ y.pos = x.pos /\ y.lastID = x.lastID /\ y.got = x.got /\ y.mode = x.mode
            /\ y.at \in {"hub", "ended"} /\ (y.at = "hub" => y.mode = "hub")
        BY <2>1, <4>1 DEF AdRemotes, AdRemoteClosing
      <4>3. AdRemoteOrder(y)
        BY <2>1, <4>2 DEF AdRemoteOrder
      <4> QED BY <2>3, <3>2, <4>1, <4>2, <4>3
    <3>3. CASE x.mode = "hub" /\ x.in < AdapterBuffer /\ SaBecomes(r, [x EXCEPT !.in = @ + 1, !.at = "hub"])
      <4>1. PICK y : y = [x EXCEPT !.in = @ + 1, !.at = "hub"]
        OBVIOUS
      <4>2. /\ y \in AdRemotes /\ AdRemoteClosing(y)
            /\ y.pos = x.pos /\ y.lastID = x.lastID /\ y.got = x.got /\ y.mode = "hub" /\ y.at = "hub"
        <5>1. x.in + 1 \in 0 .. AdapterBuffer
          BY <1>0, <2>2, <3>3
        <5> QED BY <2>1, <3>3, <4>1, <5>1 DEF AdRemotes, AdRemoteClosing
      <4>3. AdRemoteOrder(y)
        BY <2>1, <4>2 DEF AdRemoteOrder
      <4> QED BY <2>3, <3>3, <4>1, <4>2, <4>3
    <3>4. CASE /\ x.mode # "hub" /\ x.in < AdapterBuffer
               /\ SaBecomes(r, [x EXCEPT !.in = @ + 1, !.at = "read", !.pos = @ + 1,
                                         !.lastID = x.pos + 1, !.got = Append(@, x.pos + 1)])
      <4>1. PICK y : y = [x EXCEPT !.in = @ + 1, !.at = "read", !.pos = @ + 1,
                                   !.lastID = x.pos + 1, !.got = Append(@, x.pos + 1)]
        OBVIOUS
      <4>2. x.at = "deliver"
        BY <2>0, <2>8 DEF SaDeliver
      <4>3. y \in AdRemotes /\ AdRemoteOrder(y)
        BY <1>0, <2>1, <3>4, <4>1, <4>2, RmDelivered
      <4>4. AdRemoteClosing(y)
        BY <2>1, <4>1 DEF AdRemotes, AdRemoteClosing
      <4> QED BY <2>3, <3>4, <4>1, <4>3, <4>4
    <3> QED BY <2>0, <2>8, <3>1, <3>2, <3>3, <3>4 DEF SaDeliver
  <2>9. CASE \/ ConsumerGoesOn(r) \/ ConsumerEnds(r) \/ SaTake(r)
             \/ SaDisconnect(r) \/ SaCancel(r) \/ SaClose(r) \/ SaFinish(r)
    <3>1. \E y \in AdRemotes :
            /\ SaBecomes(r, y) /\ AdRemoteClosing(y)
            /\ y.pos = x.pos /\ y.lastID = x.lastID /\ y.got = x.got /\ y.mode = x.mode
            /\ y.at = x.at \/ y.at \notin {"read", "deliver", "hub"}
      <4>1. CASE ConsumerGoesOn(r)
        <5>1. PICK a \in {"judge", "wait", "mark", "dial"},
                   t \in {"none", "active", "degraded", "connecting", "disconnecting", "closed"} :
                SaBecomes(r, [x EXCEPT !.at = a, !.state = t])
          <6>1. x.state \in {"none", "active", "degraded", "connecting", "disconnecting", "closed"}
            BY <2>1 DEF AdRemotes
          <6>2. \A a : [x EXCEPT !.at = a] = [x EXCEPT !.at = a, !.state = x.state]
            BY <2>1 DEF AdRemotes
          <6> QED BY <2>0, <4>1, <6>1, <6>2 DEF ConsumerGoesOn
        <5>2. PICK y : y = [x EXCEPT !.at = a, !.state = t]
          OBVIOUS
        <5>3. y \in AdRemotes
          BY <2>1, <5>2 DEF AdRemotes
        <5>4. /\ y.recv = x.recv /\ y.cancelled = x.cancelled /\ y.leave = x.leave /\ y.at = a
              /\ y.pos = x.pos /\ y.lastID = x.lastID /\ y.got = x.got /\ y.mode = x.mode
          BY <2>1, <5>2 DEF AdRemotes
        <5>5. AdRemoteClosing(y)
          BY <2>1, <5>4 DEF AdRemoteClosing
        <5> QED BY <5>1, <5>2, <5>3, <5>4, <5>5
      <4>2. CASE ConsumerEnds(r)
        <5>1. PICK y : y = [x EXCEPT !.at = "gone", !.recv = 1]
          OBVIOUS
        <5>2. x.cancelled /\ SaBecomes(r, y)
          <6>1. x.recv # 0 => x.recv = 1
            BY <2>1 DEF AdRemotes
          <6>2. [x EXCEPT !.at = "gone", !.recv = IF x.recv = 0 THEN 1 ELSE x.recv] = y
            BY <5>1, <6>1
          <6> QED BY <2>0, <4>2, <6>2 DEF ConsumerEnds
        <5>3. y \in AdRemotes
          <6>1. PICK n : n = 1 /\ n \in 0 .. 1
            OBVIOUS
          <6>2. y = [x EXCEPT !.at = "gone", !.recv = n]
            BY <5>1, <6>1
          <6> QED BY <2>1, <6>1, <6>2 DEF AdRemotes
        <5>4. /\ y.recv = 1 /\ y.cancelled = x.cancelled /\ y.leave = x.leave /\ y.at = "gone"
              /\ y.pos = x.pos /\ y.lastID = x.lastID /\ y.got = x.got /\ y.mode = x.mode
          BY <2>1, <5>1 DEF AdRemotes
        <5>5. AdRemoteClosing(y)
          BY <2>1, <5>2, <5>4 DEF AdRemoteClosing
        <5> QED BY <5>2, <5>1, <5>3, <5>4, <5>5
      <4>3. CASE SaTake(r)
        <5>0. PICK n : n = x.in - 1
          OBVIOUS
        <5>1. PICK y : y = [x EXCEPT !.in = n]
          OBVIOUS
        <5>2. x.in > 0 /\ SaBecomes(r, y)
          BY <2>0, <4>3, <5>0, <5>1 DEF SaTake
        <5>6. n \in 0 .. AdapterBuffer
          BY <1>0, <2>2, <5>0, <5>2
        <5>3. y \in AdRemotes
          BY <2>1, <5>1, <5>6 DEF AdRemotes
        <5>4. /\ y.recv = x.recv /\ y.cancelled = x.cancelled /\ y.leave = x.leave /\ y.at = x.at
              /\ y.pos = x.pos /\ y.lastID = x.lastID /\ y.got = x.got /\ y.mode = x.mode
          BY <2>1, <5>1 DEF AdRemotes
        <5>5. AdRemoteClosing(y)
          BY <2>1, <5>4 DEF AdRemoteClosing
        <5> QED BY <5>2, <5>1, <5>3, <5>4, <5>5
      <4>4. CASE SaDisconnect(r)
        <5>1. PICK y : y = [x EXCEPT !.listed = FALSE, !.leave = "cancel", !.state = "disconnecting"]
          OBVIOUS
        <5>2. SaBecomes(r, y)
          BY <2>0, <4>4, <5>1 DEF SaDisconnect
        <5>3. y \in AdRemotes
          BY <2>1, <5>1 DEF AdRemotes
        <5>4. /\ y.recv = x.recv /\ y.cancelled = x.cancelled /\ y.leave = "cancel" /\ y.at = x.at
              /\ y.pos = x.pos /\ y.lastID = x.lastID /\ y.got = x.got /\ y.mode = x.mode
          BY <2>1, <5>1 DEF AdRemotes
        <5>5. AdRemoteClosing(y)
          BY <2>1, <5>4 DEF AdRemoteClosing
        <5> QED BY <5>2, <5>1, <5>3, <5>4, <5>5
      <4>5. CASE SaCancel(r)
        <5>1. PICK y : y = [x EXCEPT !.cancelled = TRUE, !.leave = "close"]
          OBVIOUS
        <5>2. SaBecomes(r, y)
          BY <2>0, <4>5, <5>1 DEF SaCancel
        <5>3. y \in AdRemotes
          BY <2>1, <5>1 DEF AdRemotes
        <5>4. /\ y.recv = x.recv /\ y.cancelled = TRUE /\ y.leave = "close" /\ y.at = x.at
              /\ y.pos = x.pos /\ y.lastID = x.lastID /\ y.got = x.got /\ y.mode = x.mode
          BY <2>1, <5>1 DEF AdRemotes
        <5>5. AdRemoteClosing(y)
          BY <2>1, <5>4 DEF AdRemoteClosing
        <5> QED BY <5>2, <5>1, <5>3, <5>4, <5>5
      <4>6. CASE SaClose(r)
        <5>1. PICK y : y = [x EXCEPT !.recv = 1, !.leave = "finish"]
          OBVIOUS
        <5>2. x.leave = "close" /\ SaBecomes(r, y)
          <6>1. x.recv # 0 => x.recv = 1
            BY <2>1 DEF AdRemotes
          <6>2. [x EXCEPT !.recv = IF x.recv = 0 THEN 1 ELSE x.recv, !.leave = "finish"] = y
            BY <5>1, <6>1
          <6> QED BY <2>0, <4>6, <6>2 DEF SaClose
        <5>3. y \in AdRemotes
          <6>1. PICK n : n = 1 /\ n \in 0 .. 1
            OBVIOUS
          <6>2. y = [x EXCEPT !.recv = n, !.leave = "finish"]
            BY <5>1, <6>1
          <6> QED BY <2>1, <6>1, <6>2 DEF AdRemotes
        <5>4. /\ y.recv = 1 /\ y.cancelled = x.cancelled /\ y.leave = "finish" /\ y.at = x.at
              /\ y.pos = x.pos /\ y.lastID = x.lastID /\ y.got = x.got /\ y.mode = x.mode
          BY <2>1, <5>1 DEF AdRemotes
        <5>5. AdRemoteClosing(y)
          BY <2>1, <5>2, <5>4 DEF AdRemoteClosing
        <5> QED BY <5>2, <5>1, <5>3, <5>4, <5>5
      <4>7. CASE SaFinish(r)
        <5>1. PICK y : y = [x EXCEPT !.state = "closed", !.leave = "left"]
          OBVIOUS
        <5>2. x.leave = "finish" /\ SaBecomes(r, y)
          BY <2>0, <4>7, <5>1 DEF SaFinish
        <5>3. y \in AdRemotes
          BY <2>1, <5>1 DEF AdRemotes
        <5>4. /\ y.recv = x.recv /\ y.cancelled = x.cancelled /\ y.leave = "left" /\ y.at = x.at
              /\ y.pos = x.pos /\ y.lastID = x.lastID /\ y.got = x.got /\ y.mode = x.mode
          BY <2>1, <5>1 DEF AdRemotes
        <5>5. AdRemoteClosing(y)
          BY <2>1, <5>2, <5>4 DEF AdRemoteClosing
        <5> QED BY <5>2, <5>1, <5>3, <5>4, <5>5
      <4> QED BY <2>9, <4>1, <4>2, <4>3, <4>4, <4>5, <4>6, <4>7
    <3> QED BY <2>1, <2>3, <3>1, RmSameOrder
  <2> QED BY <1>2, <2>4, <2>5, <2>6, <2>7, <2>8, <2>9
<1> QED BY <1>1, <1>2 DEF RemotesNext

LkSound(c, l) == LkMade(c, l) /\ LkChannel(c, l) /\ LkAlone(c, l)

\* A step of a link's own connection or deliveries.
LEMMA LkOwn ==
  ASSUME LkInv, NEW c \in LinksOf, NEW l \in AdLinks, links' = [links EXCEPT ![c] = l], leavers' = leavers,
         wire' \in 0 .. MaxWires, LkSound(c, l)
  PROVE  LkInv'
<1>1. LkTypes'
  BY DEF LkInv, LkTypes
<1>2. ASSUME NEW d \in LinksOf
      PROVE  LkSound(d, links'[d])
  BY DEF LkInv, LkTypes, LkSound
<1>3. \A d \in LinksOf : (LkMade(d, links[d]))' /\ (LkChannel(d, links[d]))' /\ (LkAlone(d, links[d]))'
  BY <1>2 DEF LkSound, LkMade, LkChannel, LkAlone, LkGone, Leaves, Holds
<1> QED BY <1>1, <1>3 DEF LkInv

\* ... that keeps what Disconnect looks at.
LEMMA LkSame ==
  ASSUME NEW c \in LinksOf, NEW x \in AdLinks, LkSound(c, x), NEW l,
         l.kind = x.kind, l.listed = x.listed, l.open = x.open, l.at = x.at,
         l.closed = x.closed, l.recv = x.recv, l.stale = x.stale,
         l.state = x.state \/ (l.state # "closed" /\ x.state # "closed"),
         l.reading => x.reading \/ ~x.closed
  PROVE  LkSound(c, l)
<1>1. l.state = "closed" <=> x.state = "closed"
  OBVIOUS
<1>2. LkMade(c, l)
  BY <1>1 DEF LkSound, LkMade
<1>3. LkChannel(c, l)
  BY <1>1 DEF LkSound, LkChannel
<1>4. LkAlone(c, l)
  BY <1>1 DEF LkSound, LkAlone, LkGone
<1> QED BY <1>2, <1>3, <1>4 DEF LkSound

\* Before its connection is up, nobody disconnects a link.
LEMMA LkYoung ==
  ASSUME NEW c \in LinksOf, NEW x, LkSound(c, x), x.at \in {"none", "subscribe", "register", "activate"},
         NEW l, l.recv = 0, ~l.closed, l.state # "closed",
         l.at \in {"up", "offer"} => l.listed,
         l.at \in {"none", "subscribe", "register"} => ~l.listed,
         l.at = "activate" => l.listed,
         l.at = "offer" => l.kind = "webrtc",
         l.at \in {"subscribe", "register", "activate"} => l.kind = "nats",
         l.at = "failed" => l.kind # "webrtc" /\ ~l.listed
  PROVE  LkSound(c, l)
<1>1. \A k \in Leavers : ~Leaves(k, c) /\ ~Holds(k, c)
  BY DEF LkSound, LkMade, Leaves, Holds
<1>2. LkMade(c, l) /\ LkChannel(c, l)
  BY <1>1 DEF LkMade, LkChannel
<1>3. LkAlone(c, l)
  BY <1>1 DEF LkAlone
<1> QED BY <1>2, <1>3 DEF LkSound

LEMMA LkConnects ==
  ASSUME LkInv, NEW c \in LinksOf,
         NATSConnect(c) \/ NATSSubscribe(c) \/ NATSRegister(c) \/ NATSActivate(c) \/ WebRTCConnect(c)
  PROVE  LkInv' /\ crashed' = crashed
<1>0. PICK x : x = links[c]
  OBVIOUS
<1>1. x \in AdLinks /\ LkSound(c, x) /\ wire \in 0 .. MaxWires /\ MaxWires \in Nat
  BY <1>0, AdaptersAssumption DEF LkInv, LkTypes, LkSound
<1>2. x.at \in {"none", "subscribe", "register", "activate"} => x.recv = 0 /\ ~x.closed /\ x.state # "closed"
  BY <1>1 DEF LkSound, LkMade, LkChannel
<1>3. /\ x.at \in {"none", "subscribe", "register"} => ~x.listed
      /\ x.at = "activate" => x.listed
      /\ x.at \in {"subscribe", "register", "activate"} => x.kind = "nats"
  BY <1>1 DEF LkSound, LkMade
<1>4. NoLink \in AdLinks
  <2>1. 0 \in 0 .. AdapterBuffer /\ 0 \in Nat /\ 0 \in 0 .. 1
    BY AdaptersAssumption
  <2> QED BY <2>1 DEF NoLink, AdLinks
<1>5. ASSUME NEW l \in AdLinks, links' = [links EXCEPT ![c] = l], leavers' = leavers, wire' \in 0 .. MaxWires,
             x.at \in {"none", "subscribe", "register", "activate"},
             l.recv = 0, ~l.closed, l.state # "closed",
             l.at \in {"up", "offer"} => l.listed,
             l.at \in {"none", "subscribe", "register"} => ~l.listed,
             l.at = "activate" => l.listed,
             l.at = "offer" => l.kind = "webrtc",
             l.at \in {"subscribe", "register", "activate"} => l.kind = "nats",
             l.at = "failed" => l.kind # "webrtc" /\ ~l.listed
      PROVE  LkInv'
  <2>1. LkSound(c, l)
    BY <1>1, <1>5, LkYoung
  <2> QED BY <1>5, <2>1, LkOwn
<1>6. CASE NATSConnect(c)
  <2>1. PICK w : w = wire + 1 /\ w \in 0 .. MaxWires /\ w \in Nat
    BY <1>1, <1>6 DEF NATSConnect
  <2>2. PICK l : l = [NoLink EXCEPT !.kind = "nats", !.state = "connecting", !.wire = w, !.at = "subscribe"]
    OBVIOUS
  <2>3. l \in AdLinks
    BY <1>4, <2>1, <2>2 DEF AdLinks
  <2>4. l.recv = 0 /\ ~l.closed /\ l.state = "connecting" /\ l.at = "subscribe" /\ ~l.listed /\ l.kind = "nats"
    BY <2>2 DEF NoLink
  <2>5. x.at = "none" /\ links' = [links EXCEPT ![c] = l] /\ leavers' = leavers /\ wire' = w /\ crashed' = crashed
    BY <1>0, <1>6, <2>1, <2>2 DEF NATSConnect
  <2> QED BY <1>5, <2>1, <2>3, <2>4, <2>5
<1>7. CASE NATSSubscribe(c)
  <2>0. x.at = "subscribe" /\ leavers' = leavers /\ wire' = wire /\ crashed' = crashed
    BY <1>0, <1>7 DEF NATSSubscribe, LinkBecomes
  <2>1. CASE links' = [links EXCEPT ![c] = [x EXCEPT !.wire = wire, !.open = TRUE, !.at = "register"]]
    <3>1. PICK l : l = [x EXCEPT !.wire = wire, !.open = TRUE, !.at = "register"]
      OBVIOUS
    <3>2. wire \in Nat
      BY <1>1
    <3>3. l \in AdLinks
      BY <1>1, <3>1, <3>2 DEF AdLinks
    <3>4. /\ l.recv = x.recv /\ l.closed = x.closed /\ l.state = x.state /\ l.at = "register"
          /\ l.listed = x.listed /\ l.kind = x.kind
      BY <1>1, <3>1 DEF AdLinks
    <3> QED BY <1>1, <1>2, <1>3, <1>5, <2>0, <2>1, <3>1, <3>3, <3>4
  <2>2. CASE links' = [links EXCEPT ![c] = [x EXCEPT !.at = "failed"]]
    <3>1. PICK l : l = [x EXCEPT !.at = "failed"]
      OBVIOUS
    <3>2. l \in AdLinks
      BY <1>1, <3>1 DEF AdLinks
    <3>3. /\ l.recv = x.recv /\ l.closed = x.closed /\ l.state = x.state /\ l.at = "failed"
          /\ l.listed = x.listed /\ l.kind = x.kind
      BY <1>1, <3>1 DEF AdLinks
    <3> QED BY <1>1, <1>2, <1>3, <1>5, <2>0, <2>2, <3>1, <3>2, <3>3
  <2> QED BY <1>0, <1>7, <2>0, <2>1, <2>2 DEF NATSSubscribe, LinkBecomes
<1>8. CASE NATSRegister(c)
  <2>1. PICK l : l = [x EXCEPT !.listed = TRUE, !.at = "activate"]
    OBVIOUS
  <2>2. /\ x.at = "register" /\ links' = [links EXCEPT ![c] = l] /\ leavers' = leavers /\ wire' = wire
        /\ crashed' = crashed
    BY <1>0, <1>8, <2>1 DEF NATSRegister, LinkBecomes
  <2>3. l \in AdLinks
    BY <1>1, <2>1 DEF AdLinks
  <2>4. /\ l.recv = x.recv /\ l.closed = x.closed /\ l.state = x.state /\ l.at = "activate"
        /\ l.listed /\ l.kind = x.kind
    BY <1>1, <2>1 DEF AdLinks
  <2> QED BY <1>1, <1>2, <1>3, <1>5, <2>2, <2>3, <2>4
<1>9. CASE NATSActivate(c)
  <2>1. PICK l : l = [x EXCEPT !.state = "active", !.at = "up"]
    OBVIOUS
  <2>2. /\ x.at = "activate" /\ links' = [links EXCEPT ![c] = l] /\ leavers' = leavers /\ wire' = wire
        /\ crashed' = crashed
    BY <1>0, <1>9, <2>1 DEF NATSActivate, LinkBecomes
  <2>3. l \in AdLinks
    BY <1>1, <2>1 DEF AdLinks
  <2>4. /\ l.recv = x.recv /\ l.closed = x.closed /\ l.state = "active" /\ l.at = "up"
        /\ l.listed = x.listed /\ l.kind = x.kind
    BY <1>1, <2>1 DEF AdLinks
  <2> QED BY <1>1, <1>2, <1>3, <1>5, <2>2, <2>3, <2>4
<1>10. CASE WebRTCConnect(c)
  <2>1. PICK role \in {"offer", "up"} :
          LinkBecomes(c, [NoLink EXCEPT !.kind = "webrtc", !.state = "connecting", !.open = TRUE,
                                        !.listed = TRUE, !.at = role])
    BY <1>10 DEF WebRTCConnect
  <2>2. PICK l : l = [NoLink EXCEPT !.kind = "webrtc", !.state = "connecting", !.open = TRUE,
                                    !.listed = TRUE, !.at = role]
    OBVIOUS
  <2>3. l \in AdLinks
    BY <1>4, <2>2 DEF AdLinks
  <2>4. l.recv = 0 /\ ~l.closed /\ l.state = "connecting" /\ l.at = role /\ l.listed /\ l.kind = "webrtc"
    BY <2>2 DEF NoLink
  <2>5. x.at = "none" /\ links' = [links EXCEPT ![c] = l] /\ leavers' = leavers /\ wire' = wire /\ crashed' = crashed
    BY <1>0, <1>10, <2>1, <2>2 DEF WebRTCConnect, LinkBecomes
  <2> QED BY <1>1, <1>5, <2>3, <2>4, <2>5
<1> QED BY <1>6, <1>7, <1>8, <1>9, <1>10

LEMMA LkDelivers ==
  ASSUME LkInv, NEW c \in LinksOf,
         \/ WebRTCOffer(c) \/ HandleSignals(c) \/ (\E s \in LinkStates : LinkStatus(c, s))
         \/ DeliverBegins(c) \/ DeliverSends(c) \/ LinkTake(c)
  PROVE  LkInv' /\ crashed' = crashed
<1>0. PICK x : x = links[c]
  OBVIOUS
<1>1. x \in AdLinks /\ LkSound(c, x) /\ wire \in 0 .. MaxWires /\ AdapterBuffer \in Nat \ {0}
  BY <1>0, AdaptersAssumption DEF LkInv, LkTypes, LkSound
<1>2. ASSUME NEW l \in AdLinks, LinkBecomes(c, l), LkSound(c, l)
      PROVE  LkInv' /\ crashed' = crashed
  BY <1>1, <1>2, LkOwn DEF LinkBecomes
<1>3. CASE WebRTCOffer(c)
  <2>1. PICK a \in {"up", "failed"}, d \in {"none", "offered", "settled", "ended"} :
          x.at = "offer" /\ LinkBecomes(c, [x EXCEPT !.at = a, !.deal = d])
    <3>1. x.deal \in {"none", "offered", "settled", "ended"}
      BY <1>1 DEF AdLinks
    <3>2. [x EXCEPT !.at = "failed"] = [x EXCEPT !.at = "failed", !.deal = x.deal]
      BY <1>1 DEF AdLinks
    <3> QED BY <1>0, <1>3, <3>1, <3>2 DEF WebRTCOffer
  <2>2. PICK l : l = [x EXCEPT !.at = a, !.deal = d]
    OBVIOUS
  <2>3. l \in AdLinks
    BY <1>1, <2>2 DEF AdLinks
  <2>4. /\ l.kind = x.kind /\ l.listed = x.listed /\ l.open = x.open /\ l.at \in {"up", "failed"} /\ l.stale = x.stale
        /\ l.closed = x.closed /\ l.recv = x.recv /\ l.state = x.state /\ l.reading = x.reading
    BY <1>1, <2>2 DEF AdLinks
  <2>5. LkMade(c, l) /\ LkChannel(c, l)
    BY <1>1, <2>1, <2>4 DEF LkSound, LkMade, LkChannel
  <2>6. LkAlone(c, l)
    BY <1>1, <2>1, <2>4 DEF LkSound, LkMade, LkAlone, LkGone
  <2> QED BY <1>2, <2>1, <2>2, <2>3, <2>5, <2>6 DEF LkSound
<1>4. ASSUME NEW l \in AdLinks, LinkBecomes(c, l),
             l.kind = x.kind, l.listed = x.listed, l.open = x.open, l.at = x.at,
             l.closed = x.closed, l.recv = x.recv, l.stale = x.stale,
             l.state = x.state \/ (l.state # "closed" /\ x.state # "closed"),
             l.reading => x.reading \/ ~x.closed
      PROVE  LkInv' /\ crashed' = crashed
  BY <1>1, <1>2, <1>4, LkSame
<1>5. CASE HandleSignals(c)
  <2>1. PICK l : l = [x EXCEPT !.deal = "settled"]
    OBVIOUS
  <2>2. l \in AdLinks
    BY <1>1, <2>1 DEF AdLinks
  <2>3. /\ l.kind = x.kind /\ l.listed = x.listed /\ l.open = x.open /\ l.at = x.at /\ l.stale = x.stale
        /\ l.closed = x.closed /\ l.recv = x.recv /\ l.state = x.state /\ l.reading = x.reading
    BY <1>1, <2>1 DEF AdLinks
  <2>4. LinkBecomes(c, l)
    BY <1>0, <1>5, <2>1 DEF HandleSignals
  <2> QED BY <1>4, <2>2, <2>3, <2>4
<1>6. ASSUME NEW s \in LinkStates, LinkStatus(c, s)
      PROVE  LkInv' /\ crashed' = crashed
  <2>1. PICK l : l = [x EXCEPT !.state = s]
    OBVIOUS
  <2>2. l \in AdLinks
    BY <1>1, <2>1 DEF AdLinks, LinkStates
  <2>3. /\ l.kind = x.kind /\ l.listed = x.listed /\ l.open = x.open /\ l.at = x.at /\ l.stale = x.stale
        /\ l.closed = x.closed /\ l.recv = x.recv /\ l.state = s /\ l.reading = x.reading
    BY <1>1, <2>1 DEF AdLinks
  <2>4. LinkBecomes(c, l) /\ x.state # "closed" /\ s # "closed"
    BY <1>0, <1>6, <2>1 DEF LinkStatus, LinkStates, Over
  <2> QED BY <1>4, <2>2, <2>3, <2>4
<1>7. CASE DeliverBegins(c)
  <2>1. PICK l : l = [x EXCEPT !.reading = TRUE]
    OBVIOUS
  <2>2. l \in AdLinks
    BY <1>1, <2>1 DEF AdLinks
  <2>3. /\ l.kind = x.kind /\ l.listed = x.listed /\ l.open = x.open /\ l.at = x.at /\ l.stale = x.stale
        /\ l.closed = x.closed /\ l.recv = x.recv /\ l.state = x.state
    BY <1>1, <2>1 DEF AdLinks
  <2>4. LinkBecomes(c, l) /\ ~x.closed
    BY <1>0, <1>7, <2>1 DEF DeliverBegins
  <2> QED BY <1>4, <2>2, <2>3, <2>4
<1>8. CASE DeliverSends(c)
  <2>1. x.reading /\ x.recv = 0
    BY <1>0, <1>1, <1>8 DEF DeliverSends, LkSound, LkChannel
  <2>2. PICK n : n = IF x.in < AdapterBuffer THEN x.in + 1 ELSE x.in
    OBVIOUS
  <2>3. n \in 0 .. AdapterBuffer
    <3>1. x.in \in 0 .. AdapterBuffer
      BY <1>1 DEF AdLinks
    <3> QED BY <1>1, <2>2, <3>1
  <2>4. PICK l : l = [x EXCEPT !.reading = FALSE, !.in = n]
    OBVIOUS
  <2>5. l \in AdLinks
    BY <1>1, <2>3, <2>4 DEF AdLinks
  <2>6. /\ l.kind = x.kind /\ l.listed = x.listed /\ l.open = x.open /\ l.at = x.at /\ l.stale = x.stale
        /\ l.closed = x.closed /\ l.recv = x.recv /\ l.state = x.state /\ ~l.reading
    BY <1>1, <2>4 DEF AdLinks
  <2>7. LinkBecomes(c, l)
    BY <1>0, <1>8, <2>1, <2>2, <2>4 DEF DeliverSends
  <2> QED BY <1>4, <2>5, <2>6, <2>7
<1>9. CASE LinkTake(c)
  <2>1. PICK n : n = x.in - 1
    OBVIOUS
  <2>2. PICK l : l = [x EXCEPT !.in = n]
    OBVIOUS
  <2>3. x.in > 0 /\ LinkBecomes(c, l)
    BY <1>0, <1>9, <2>1, <2>2 DEF LinkTake
  <2>4. n \in 0 .. AdapterBuffer
    <3>1. x.in \in 0 .. AdapterBuffer
      BY <1>1 DEF AdLinks
    <3> QED BY <1>1, <2>1, <2>3, <3>1
  <2>5. l \in AdLinks
    BY <1>1, <2>2, <2>4 DEF AdLinks
  <2>6. /\ l.kind = x.kind /\ l.listed = x.listed /\ l.open = x.open /\ l.at = x.at /\ l.stale = x.stale
        /\ l.closed = x.closed /\ l.recv = x.recv /\ l.state = x.state /\ l.reading = x.reading
    BY <1>1, <2>2 DEF AdLinks
  <2> QED BY <1>4, <2>3, <2>5, <2>6
<1> QED BY <1>3, <1>5, <1>6, <1>7, <1>8, <1>9

(* A step of one call of Disconnect on link c.                             *)
LeaverMoves(k, c, q, l) ==
  /\ leavers' = [leavers EXCEPT ![k] = q] /\ q \in AdLeavers
  /\ leavers[k].at = "idle" \/ leavers[k].link = c
  /\ q.at = "idle" \/ q.link = c
  /\ q.at \in {"release", "close"} => q.held
  /\ links' \in [LinksOf -> AdLinks] /\ links'[c] = l
  /\ \A d \in LinksOf \ {c} : links'[d] \in {links[d], [links[d] EXCEPT !.open = FALSE]}
  /\ wire' = wire

\* It changes nothing for the other links, and for c nothing about the others'
\* calls.
LEMMA LkLeaver ==
  ASSUME LkInv, NEW k \in Leavers, NEW c \in LinksOf, NEW q, NEW l, LeaverMoves(k, c, q, l),
         (LkSound(c, links[c]))'
  PROVE  LkInv'
<1>1. leavers \in [Leavers -> AdLeavers] /\ leavers' = [leavers EXCEPT ![k] = q] /\ q \in AdLeavers
  BY DEF LkInv, LkTypes, AdLeavers, LeaverMoves
<1>2. LkTypes'
  <2>1. leavers' \in [Leavers -> AdLeavers]
    BY <1>1
  <2>2. \A j \in Leavers : leavers'[j].at # "idle" => leavers'[j].link \in LinksOf
    BY <1>1 DEF LkInv, LkTypes, LeaverMoves
  <2>3. \A j \in Leavers : leavers'[j].at \in {"release", "close"} => leavers'[j].held
    BY <1>1 DEF LkInv, LkTypes, LeaverMoves
  <2>4. links' \in [LinksOf -> AdLinks] /\ wire' \in 0 .. MaxWires
    BY DEF LkInv, LkTypes, LeaverMoves
  <2> QED BY <2>1, <2>2, <2>3, <2>4 DEF LkTypes, AdLeavers
<1>3. ASSUME NEW d \in LinksOf, d # c
      PROVE  (LkSound(d, links[d]))'
  <2>1. PICK x, y : x = links[d] /\ y = links'[d]
    OBVIOUS
  <2>2. x \in AdLinks /\ LkMade(d, x) /\ LkChannel(d, x) /\ LkAlone(d, x)
    BY <2>1 DEF LkInv, LkTypes
  <2>3. y \in {x, [x EXCEPT !.open = FALSE]}
    BY <1>3, <2>1 DEF LeaverMoves
  <2>4. /\ y.kind = x.kind /\ y.listed = x.listed /\ (y.open => x.open) /\ y.at = x.at /\ y.stale = x.stale
        /\ y.closed = x.closed /\ y.recv = x.recv /\ y.state = x.state /\ y.reading = x.reading
        /\ x.open \in BOOLEAN
    BY <2>2, <2>3 DEF AdLinks
  <2>5. ~Leaves(k, d) /\ ~(Leaves(k, d))' /\ ~Holds(k, d) /\ ~(Holds(k, d))'
    BY <1>1, <1>3 DEF LeaverMoves, Leaves, Holds
  <2>6. \A j \in Leavers : j # k => leavers'[j] = leavers[j] /\ (Leaves(j, d) <=> (Leaves(j, d))') /\ (Holds(j, d) <=> (Holds(j, d))')
    BY <1>1 DEF Leaves, Holds
  <2>7. \A j \in Leavers : /\ (Leaves(j, d) <=> (Leaves(j, d))') /\ (Holds(j, d) <=> (Holds(j, d))')
                           /\ Leaves(j, d) => leavers'[j] = leavers[j]
    BY <2>5, <2>6
  <2>8. (LkMade(d, links[d]))'
    BY <2>1, <2>2, <2>4, <2>7 DEF LkMade
  <2>9. (LkChannel(d, links[d]))'
    BY <2>1, <2>2, <2>4, <2>7 DEF LkChannel
  <2>10. (LkAlone(d, links[d]))'
    BY <2>1, <2>2, <2>4, <2>7 DEF LkAlone, LkGone
  <2> QED BY <2>8, <2>9, <2>10 DEF LkSound
<1>4. \A d \in LinksOf : (LkSound(d, links[d]))'
  BY <1>3
<1> QED BY <1>2, <1>4 DEF LkInv, LkSound

LEMMA LkCalls ==
  ASSUME LkInv, NEW k \in Leavers, NEW c \in LinksOf, NEW q, NEW l, LeaverMoves(k, c, q, l)
  PROVE  /\ (Leaves(k, c))' <=> q.at # "idle"
         /\ (Holds(k, c))' <=> q.held /\ q.at \in {"mark", "release", "close"}
         /\ \A j \in Leavers : j # k => /\ leavers'[j] = leavers[j]
                                        /\ (Leaves(j, c))' <=> Leaves(j, c)
                                        /\ (Holds(j, c))' <=> Holds(j, c)
         /\ leavers'[k] = q /\ links'[c] = l
<1>1. leavers' = [leavers EXCEPT ![k] = q] /\ (q.at = "idle" \/ q.link = c) /\ links'[c] = l
  BY DEF LeaverMoves
<1>2. leavers'[k] = q /\ \A j \in Leavers : j # k => leavers'[j] = leavers[j]
  BY <1>1 DEF LkInv, LkTypes
<1> QED BY <1>1, <1>2 DEF Leaves, Holds

LEMMA LkReleases ==
  ASSUME LkInv, NEW k \in Leavers, LinkReleases(k)
  PROVE  LkInv' /\ crashed' = crashed
<1>0. PICK c, p, x : c = leavers[k].link /\ p = leavers[k] /\ x = links[c]
  OBVIOUS
<1>1. p \in AdLeavers /\ p.at = "release" /\ c \in LinksOf /\ x \in AdLinks /\ p.link = c
  BY <1>0 DEF LinkReleases, LkInv, LkTypes, AdLeavers
<1>2. LkMade(c, x) /\ LkChannel(c, x) /\ LkAlone(c, x) /\ Leaves(k, c)
  BY <1>0, <1>1 DEF LkInv, Leaves
<1>3. PICK o, q, l : /\ o = (IF x.kind = "nats" THEN FALSE ELSE x.open)
                     /\ q = [p EXCEPT !.at = "close"] /\ l = [x EXCEPT !.open = o, !.deal = "ended"]
  OBVIOUS
<1>4. /\ q \in AdLeavers /\ q.at = "close" /\ q.link = c /\ q.held = p.held
  BY <1>1, <1>3 DEF AdLeavers
<1>5. /\ l \in AdLinks
      /\ l.kind = x.kind /\ l.listed = x.listed /\ (l.open => x.open) /\ l.at = x.at /\ l.stale = x.stale
      /\ l.closed = x.closed /\ l.recv = x.recv /\ l.state = x.state /\ l.reading = x.reading
  <2>1. o \in BOOLEAN /\ (o => x.open)
    BY <1>1, <1>3 DEF AdLinks
  <2>2. l \in AdLinks
    BY <1>1, <1>3, <2>1 DEF AdLinks
  <2> QED BY <1>1, <1>3, <2>1, <2>2 DEF AdLinks
<1>6. p.held
  BY <1>0, <1>1 DEF LkInv, LkTypes
<1>7. /\ leavers' = [leavers EXCEPT ![k] = q] /\ links' = [links EXCEPT ![c] = l]
      /\ wire' = wire /\ crashed' = crashed
  BY <1>0, <1>3 DEF LinkReleases, LeaverBecomes
<1>8. LeaverMoves(k, c, q, l)
  BY <1>0, <1>1, <1>4, <1>5, <1>6, <1>7 DEF LeaverMoves, LkInv, LkTypes
<1>9. /\ (Leaves(k, c))' <=> q.at # "idle"
      /\ (Holds(k, c))' <=> q.held /\ q.at \in {"mark", "release", "close"}
      /\ \A j \in Leavers : j # k => /\ leavers'[j] = leavers[j]
                                     /\ (Leaves(j, c))' <=> Leaves(j, c)
                                     /\ (Holds(j, c))' <=> Holds(j, c)
      /\ leavers'[k] = q /\ links'[c] = l
  BY <1>1, <1>8, LkCalls
<1>10. Holds(k, c)
  BY <1>0, <1>1, <1>6 DEF Holds
<1>11. (LkMade(c, links[c]))'
  BY <1>2, <1>5, <1>9 DEF LkMade
<1>12. (LkChannel(c, links[c]))'
  BY <1>2, <1>5, <1>9, <1>10 DEF LkChannel
<1>13. (LkAlone(c, links[c]))'
  BY <1>2, <1>4, <1>5, <1>9, <1>10 DEF LkAlone, LkGone
<1> QED BY <1>1, <1>7, <1>8, <1>11, <1>12, <1>13, LkLeaver DEF LkSound

LEMMA LkCloses ==
  ASSUME LkInv, NEW k \in Leavers, LinkCloses(k)
  PROVE  LkInv' /\ crashed' = crashed
<1>0. PICK c, p, x : c = leavers[k].link /\ p = leavers[k] /\ x = links[c]
  OBVIOUS
<1>1. p \in AdLeavers /\ p.at = "close" /\ c \in LinksOf /\ x \in AdLinks /\ p.link = c
  BY <1>0 DEF LinkCloses, LkInv, LkTypes, AdLeavers
<1>2. LkMade(c, x) /\ LkChannel(c, x) /\ LkAlone(c, x) /\ Leaves(k, c)
  BY <1>0, <1>1 DEF LkInv, Leaves
<1>3. p.held /\ ~x.reading
  BY <1>0, <1>1 DEF LkInv, LkTypes, LinkCloses
<1>4. Holds(k, c) /\ x.recv = 0 /\ ~x.closed /\ ~x.listed
  <2>1. Holds(k, c)
    BY <1>0, <1>1, <1>3 DEF Holds
  <2> QED BY <1>2, <2>1 DEF LkChannel
<1>5. PICK q, l : /\ q = [p EXCEPT !.at = "drain"]
                  /\ l = [x EXCEPT !.closed = TRUE, !.recv = 1, !.open = FALSE]
  OBVIOUS
<1>6. q \in AdLeavers /\ q.at = "drain" /\ q.link = c
  BY <1>1, <1>5 DEF AdLeavers
<1>7. /\ l \in AdLinks
      /\ l.kind = x.kind /\ l.listed = x.listed /\ ~l.open /\ l.at = x.at /\ l.stale = x.stale
      /\ l.closed /\ l.recv = 1 /\ l.state = x.state /\ l.reading = x.reading
  <2>1. PICK n : n = 1 /\ n \in 0 .. 1
    OBVIOUS
  <2>2. l = [x EXCEPT !.closed = TRUE, !.recv = n, !.open = FALSE]
    BY <1>5, <2>1
  <2>3. l \in AdLinks
    BY <1>1, <2>1, <2>2 DEF AdLinks
  <2> QED BY <1>1, <2>1, <2>2, <2>3 DEF AdLinks
<1>8. /\ leavers' = [leavers EXCEPT ![k] = q] /\ links' = [links EXCEPT ![c] = l]
      /\ wire' = wire /\ crashed' = crashed
  <2>1. links' = [links EXCEPT ![c] = [x EXCEPT !.closed = TRUE, !.recv = x.recv + 1, !.open = FALSE]]
    BY <1>0 DEF LinkCloses
  <2>2. x.recv + 1 = 1
    BY <1>4
  <2> QED BY <1>0, <1>5, <2>1, <2>2 DEF LinkCloses, LeaverBecomes
<1>9. LeaverMoves(k, c, q, l)
  BY <1>0, <1>1, <1>6, <1>7, <1>8 DEF LeaverMoves, LkInv, LkTypes
<1>10. /\ (Leaves(k, c))' <=> q.at # "idle"
       /\ (Holds(k, c))' <=> q.held /\ q.at \in {"mark", "release", "close"}
       /\ \A j \in Leavers : j # k => /\ leavers'[j] = leavers[j]
                                      /\ (Leaves(j, c))' <=> Leaves(j, c)
                                      /\ (Holds(j, c))' <=> Holds(j, c)
       /\ leavers'[k] = q /\ links'[c] = l
  BY <1>1, <1>9, LkCalls
<1>11. x.at \in {"up", "offer", "failed"} /\ (x.at = "failed" => x.kind = "webrtc")
  BY <1>2 DEF LkMade
<1>12. (LkMade(c, links[c]))'
  <2>1. l.at \notin {"none", "subscribe", "register", "activate"} /\ ~(l.kind = "nats" /\ l.at = "failed") /\ ~l.listed
    BY <1>4, <1>7, <1>11
  <2>2. l.at = "offer" => l.kind = "webrtc"
    BY <1>2, <1>7 DEF LkMade
  <2> QED BY <1>7, <1>10, <1>11, <2>1, <2>2 DEF LkMade
<1>13. \A j \in Leavers : ~(Holds(j, c))'
  <2>1. \A j \in Leavers : Holds(j, c) => j = k
    BY <1>2, <1>4 DEF LkChannel
  <2> QED BY <1>6, <1>10, <2>1
<1>14. (LkChannel(c, links[c]))'
  BY <1>3, <1>4, <1>7, <1>10, <1>13 DEF LkChannel
<1>15. (LkAlone(c, links[c]))'
  <2>1. LkGone(l)
    BY <1>4, <1>7 DEF LkGone
  <2>2. ~x.stale => \A j \in Leavers : (Leaves(j, c))' => j = k
    BY <1>2, <1>10 DEF LkAlone
  <2>3. (Leaves(k, c))' /\ leavers'[k].at = "drain"
    BY <1>6, <1>10
  <2>4. (LkGone(links[c]))'
    BY <1>10, <2>1 DEF LkGone
  <2> QED BY <1>7, <1>10, <1>13, <2>2, <2>3, <2>4 DEF LkAlone
<1> QED BY <1>1, <1>8, <1>9, <1>12, <1>14, <1>15, LkLeaver DEF LkSound

LEMMA LkFinishes ==
  ASSUME LkInv, NEW k \in Leavers, LinkFinishes(k)
  PROVE  LkInv' /\ crashed' = crashed
<1>0. PICK c, p, x : c = leavers[k].link /\ p = leavers[k] /\ x = links[c]
  OBVIOUS
<1>1. p \in AdLeavers /\ p.at = "finish" /\ c \in LinksOf /\ x \in AdLinks /\ p.link = c
  BY <1>0 DEF LinkFinishes, LkInv, LkTypes, AdLeavers
<1>2. LkMade(c, x) /\ LkChannel(c, x) /\ LkAlone(c, x) /\ Leaves(k, c)
  BY <1>0, <1>1 DEF LkInv, Leaves
<1>3. PICK q, l : q = NobodyLeaves /\ l = [x EXCEPT !.state = "closed"]
  OBVIOUS
<1>4. q \in AdLeavers /\ q.at = "idle"
  BY <1>3 DEF AdLeavers, NobodyLeaves
<1>5. /\ l \in AdLinks
      /\ l.kind = x.kind /\ l.listed = x.listed /\ l.open = x.open /\ l.at = x.at /\ l.stale = x.stale
      /\ l.closed = x.closed /\ l.recv = x.recv /\ l.state = "closed" /\ l.reading = x.reading
  BY <1>1, <1>3 DEF AdLinks
<1>6. /\ leavers' = [leavers EXCEPT ![k] = q] /\ links' = [links EXCEPT ![c] = l]
      /\ wire' = wire /\ crashed' = crashed
  BY <1>0, <1>3 DEF LinkFinishes, LeaverBecomes
<1>7. LeaverMoves(k, c, q, l)
  BY <1>0, <1>1, <1>4, <1>5, <1>6 DEF LeaverMoves, LkInv, LkTypes
<1>8. /\ (Leaves(k, c))' <=> q.at # "idle"
      /\ (Holds(k, c))' <=> q.held /\ q.at \in {"mark", "release", "close"}
      /\ \A j \in Leavers : j # k => /\ leavers'[j] = leavers[j]
                                     /\ (Leaves(j, c))' <=> Leaves(j, c)
                                     /\ (Holds(j, c))' <=> Holds(j, c)
      /\ leavers'[k] = q /\ links'[c] = l
  BY <1>1, <1>7, LkCalls
<1>9. ~x.listed /\ (~x.stale => LkGone(x))
  BY <1>0, <1>1, <1>2 DEF LkMade, LkAlone
<1>10. (LkMade(c, links[c]))'
  BY <1>2, <1>5, <1>8 DEF LkMade
<1>11. (LkChannel(c, links[c]))'
  BY <1>2, <1>4, <1>5, <1>8, <1>9 DEF LkChannel
<1>12. (LkAlone(c, links[c]))'
  BY <1>2, <1>4, <1>5, <1>8, <1>9 DEF LkAlone, LkGone
<1> QED BY <1>1, <1>6, <1>7, <1>10, <1>11, <1>12, LkLeaver DEF LkSound

LEMMA LkMarks ==
  ASSUME LkInv, NEW k \in Leavers, LinkMarks(k)
  PROVE  LkInv' /\ crashed' = crashed
<1>0. PICK c, p, x : c = leavers[k].link /\ p = leavers[k] /\ x = links[c]
  OBVIOUS
<1>1. p \in AdLeavers /\ p.at = "mark" /\ c \in LinksOf /\ x \in AdLinks /\ p.link = c
  BY <1>0 DEF LinkMarks, LkInv, LkTypes, AdLeavers
<1>2. LkMade(c, x) /\ LkChannel(c, x) /\ LkAlone(c, x) /\ Leaves(k, c)
  BY <1>0, <1>1 DEF LkInv, Leaves
<1>3. CASE x.state = "closed" /\ LeaverBecomes(k, NobodyLeaves) /\ UNCHANGED links
  <2>1. PICK q, l : q = NobodyLeaves /\ l = x
    OBVIOUS
  <2>2. q \in AdLeavers /\ q.at = "idle"
    BY <2>1 DEF AdLeavers, NobodyLeaves
  <2>3. leavers' = [leavers EXCEPT ![k] = q] /\ links' = links /\ wire' = wire /\ crashed' = crashed
    BY <1>3, <2>1 DEF LinkMarks, LeaverBecomes
  <2>4. LeaverMoves(k, c, q, l)
    BY <1>0, <1>1, <2>1, <2>2, <2>3 DEF LeaverMoves, LkInv, LkTypes
  <2>5. /\ (Leaves(k, c))' <=> q.at # "idle"
        /\ (Holds(k, c))' <=> q.held /\ q.at \in {"mark", "release", "close"}
        /\ \A j \in Leavers : j # k => /\ leavers'[j] = leavers[j]
                                       /\ (Leaves(j, c))' <=> Leaves(j, c)
                                       /\ (Holds(j, c))' <=> Holds(j, c)
        /\ leavers'[k] = q /\ links'[c] = l
    BY <1>1, <2>4, LkCalls
  <2>6. (LkMade(c, links[c]))'
    BY <1>2, <2>1, <2>2, <2>5 DEF LkMade
  <2>7. (LkChannel(c, links[c]))'
    BY <1>2, <2>1, <2>2, <2>5 DEF LkChannel
  <2>8. (LkAlone(c, links[c]))'
    BY <1>2, <1>3, <2>1, <2>2, <2>5 DEF LkAlone, LkGone
  <2> QED BY <1>1, <2>3, <2>4, <2>6, <2>7, <2>8, LkLeaver DEF LkSound
<1>4. CASE /\ x.state # "closed" /\ links' = [links EXCEPT ![c].state = "disconnecting"]
           /\ LeaverBecomes(k, [p EXCEPT !.at = IF p.held THEN "release" ELSE "drain"])
  <2>1. PICK a, q, l : /\ a = (IF p.held THEN "release" ELSE "drain")
                       /\ q = [p EXCEPT !.at = a] /\ l = [x EXCEPT !.state = "disconnecting"]
    OBVIOUS
  <2>2. /\ a \in {"release", "drain"} /\ (a = "release" <=> p.held) /\ p.held \in BOOLEAN
        /\ q \in AdLeavers /\ q.at = a /\ q.link = c /\ q.held = p.held
    BY <1>1, <2>1 DEF AdLeavers
  <2>3. /\ l \in AdLinks
        /\ l.kind = x.kind /\ l.listed = x.listed /\ l.open = x.open /\ l.at = x.at /\ l.stale = x.stale
        /\ l.closed = x.closed /\ l.recv = x.recv /\ l.state = "disconnecting" /\ l.reading = x.reading
    BY <1>1, <2>1 DEF AdLinks
  <2>4. /\ leavers' = [leavers EXCEPT ![k] = q] /\ links' = [links EXCEPT ![c] = l]
        /\ wire' = wire /\ crashed' = crashed
    BY <1>0, <1>4, <2>1 DEF LinkMarks, LeaverBecomes
  <2>5. LeaverMoves(k, c, q, l)
    BY <1>0, <1>1, <2>2, <2>3, <2>4 DEF LeaverMoves, LkInv, LkTypes
  <2>6. /\ (Leaves(k, c))' <=> q.at # "idle"
        /\ (Holds(k, c))' <=> q.held /\ q.at \in {"mark", "release", "close"}
        /\ \A j \in Leavers : j # k => /\ leavers'[j] = leavers[j]
                                       /\ (Leaves(j, c))' <=> Leaves(j, c)
                                       /\ (Holds(j, c))' <=> Holds(j, c)
        /\ leavers'[k] = q /\ links'[c] = l
    BY <1>1, <2>5, LkCalls
  <2>7. (Holds(k, c))' => Holds(k, c)
    BY <1>0, <1>1, <2>2, <2>6 DEF Holds
  <2>8. (LkMade(c, links[c]))'
    BY <1>2, <2>3, <2>6 DEF LkMade
  <2>9. (LkChannel(c, links[c]))'
    BY <1>2, <2>3, <2>6, <2>7 DEF LkChannel
  <2>10. (LkAlone(c, links[c]))'
    <3>1. ~x.stale => p.held
      BY <1>0, <1>1, <1>2, <1>4 DEF LkAlone
    <3>2. ~x.stale => \A j \in Leavers : (Leaves(j, c))' => j = k
      BY <1>2, <2>6 DEF LkAlone
    <3>3. (Leaves(k, c))' /\ leavers'[k].at = a
      BY <2>2, <2>6
    <3> QED BY <2>2, <2>3, <2>6, <3>1, <3>2, <3>3 DEF LkAlone
  <2> QED BY <1>1, <2>4, <2>5, <2>8, <2>9, <2>10, LkLeaver DEF LkSound
<1> QED BY <1>0, <1>3, <1>4 DEF LinkMarks

LEMMA LkDrains ==
  ASSUME LkInv, NEW k \in Leavers, LinkDrains(k)
  PROVE  LkInv' /\ crashed' = crashed
<1>0. PICK c, p, x : c = leavers[k].link /\ p = leavers[k] /\ x = links[c]
  OBVIOUS
<1>1. p \in AdLeavers /\ p.at = "drain" /\ c \in LinksOf /\ x \in AdLinks /\ p.link = c
  BY <1>0 DEF LinkDrains, LkInv, LkTypes, AdLeavers
<1>2. LkMade(c, x) /\ LkChannel(c, x) /\ LkAlone(c, x) /\ Leaves(k, c)
  BY <1>0, <1>1 DEF LkInv, Leaves
<1>3. PICK q, l : q = [p EXCEPT !.at = "finish"] /\ l = links'[c]
  OBVIOUS
<1>4. q \in AdLeavers /\ q.at = "finish" /\ q.link = c
  BY <1>1, <1>3 DEF AdLeavers
<1>5. /\ links' \in [LinksOf -> AdLinks]
      /\ \A d \in LinksOf : links'[d] \in {links[d], [links[d] EXCEPT !.open = FALSE]}
  <2>1. links \in [LinksOf -> AdLinks]
    BY DEF LkInv, LkTypes
  <2>2. \A y \in AdLinks : [y EXCEPT !.open = FALSE] \in AdLinks
    BY DEF AdLinks
  <2>3. CASE p.last
    <3>1. links' = [d \in LinksOf |-> IF links[d].kind = "nats" /\ links[d].wire = wire
                                      THEN [links[d] EXCEPT !.open = FALSE] ELSE links[d]]
      BY <1>0, <2>3 DEF LinkDrains
    <3> QED BY <2>1, <2>2, <3>1
  <2>4. CASE ~p.last
    <3>1. links' = links
      BY <1>0, <2>4 DEF LinkDrains
    <3> QED BY <2>1, <3>1
  <2> QED BY <2>3, <2>4
<1>6. /\ l \in AdLinks
      /\ l.kind = x.kind /\ l.listed = x.listed /\ (l.open => x.open) /\ l.at = x.at /\ l.stale = x.stale
      /\ l.closed = x.closed /\ l.recv = x.recv /\ l.state = x.state /\ l.reading = x.reading
  <2>1. l \in {x, [x EXCEPT !.open = FALSE]} /\ x.open \in BOOLEAN
    BY <1>0, <1>1, <1>3, <1>5 DEF AdLinks
  <2> QED BY <1>1, <2>1 DEF AdLinks
<1>7. leavers' = [leavers EXCEPT ![k] = q] /\ wire' = wire /\ crashed' = crashed
  BY <1>0, <1>3 DEF LinkDrains, LeaverBecomes
<1>8. LeaverMoves(k, c, q, l)
  BY <1>0, <1>1, <1>3, <1>4, <1>5, <1>7 DEF LeaverMoves
<1>9. /\ (Leaves(k, c))' <=> q.at # "idle"
      /\ (Holds(k, c))' <=> q.held /\ q.at \in {"mark", "release", "close"}
      /\ \A j \in Leavers : j # k => /\ leavers'[j] = leavers[j]
                                     /\ (Leaves(j, c))' <=> Leaves(j, c)
                                     /\ (Holds(j, c))' <=> Holds(j, c)
      /\ leavers'[k] = q /\ links'[c] = l
  BY <1>1, <1>8, LkCalls
<1>10. (LkMade(c, links[c]))'
  BY <1>2, <1>6, <1>9 DEF LkMade
<1>11. (LkChannel(c, links[c]))'
  BY <1>2, <1>4, <1>6, <1>9 DEF LkChannel
<1>12. (LkAlone(c, links[c]))'
  <2>1. ~x.stale => LkGone(x) /\ \A j \in Leavers : Leaves(j, c) => j = k
    BY <1>0, <1>1, <1>2 DEF LkAlone
  <2>2. LkGone(x) => LkGone(l)
    BY <1>6 DEF LkGone
  <2> QED BY <1>4, <1>6, <1>9, <2>1, <2>2 DEF LkAlone, LkGone
<1> QED BY <1>1, <1>7, <1>8, <1>10, <1>11, <1>12, LkLeaver DEF LkSound

LEMMA LkDisconnects ==
  ASSUME LkInv, NEW k \in Leavers, NEW c \in LinksOf, LinkDisconnect(k, c)
  PROVE  LkInv' /\ crashed' = crashed
<1>0. PICK x, z, b : /\ x = links[c] /\ z = (x.stale \/ \E j \in Leavers : leavers[j].link = c)
                     /\ b = (x.kind = "nats" /\ \A d \in LinksOf \ {c} : ~(links[d].kind = "nats" /\ links[d].listed))
  OBVIOUS
<1>1. x \in AdLinks /\ z \in BOOLEAN /\ b \in BOOLEAN /\ x.listed \in BOOLEAN
  BY <1>0 DEF LkInv, LkTypes, AdLinks
<1>2. LkMade(c, x) /\ LkChannel(c, x) /\ LkAlone(c, x)
  BY <1>0 DEF LkInv
<1>3. leavers[k].at = "idle" /\ x.at \in {"up", "offer", "failed"} /\ (x.at = "failed" => x.kind = "webrtc")
  BY <1>0 DEF LinkDisconnect
<1>4. PICK q, l : /\ q = [at |-> "mark", link |-> c, held |-> x.listed, last |-> b]
                  /\ l = [x EXCEPT !.listed = FALSE, !.stale = z]
  OBVIOUS
<1>5. q \in AdLeavers /\ q.at = "mark" /\ q.link = c /\ q.held = x.listed
  BY <1>1, <1>4 DEF AdLeavers
<1>6. /\ l \in AdLinks
      /\ l.kind = x.kind /\ ~l.listed /\ l.open = x.open /\ l.at = x.at /\ l.stale = z
      /\ l.closed = x.closed /\ l.recv = x.recv /\ l.state = x.state /\ l.reading = x.reading
  BY <1>1, <1>4 DEF AdLinks
<1>7. /\ leavers' = [leavers EXCEPT ![k] = q] /\ links' = [links EXCEPT ![c] = l]
      /\ wire' = wire /\ crashed' = crashed
  BY <1>0, <1>4 DEF LinkDisconnect, LeaverBecomes
<1>8. LeaverMoves(k, c, q, l)
  BY <1>3, <1>5, <1>6, <1>7 DEF LeaverMoves, LkInv, LkTypes
<1>9. /\ (Leaves(k, c))' <=> q.at # "idle"
      /\ (Holds(k, c))' <=> q.held /\ q.at \in {"mark", "release", "close"}
      /\ \A j \in Leavers : j # k => /\ leavers'[j] = leavers[j]
                                     /\ (Leaves(j, c))' <=> Leaves(j, c)
                                     /\ (Holds(j, c))' <=> Holds(j, c)
      /\ leavers'[k] = q /\ links'[c] = l
  BY <1>8, LkCalls
<1>10. (LkMade(c, links[c]))'
  BY <1>2, <1>3, <1>6, <1>9 DEF LkMade
<1>11. (LkChannel(c, links[c]))'
  <2>1. (Holds(k, c))' => x.listed
    BY <1>5, <1>9
  <2>2. x.listed => \A j \in Leavers : ~Holds(j, c)
    BY <1>2 DEF LkChannel
  <2> QED BY <1>2, <1>6, <1>9, <2>1, <2>2 DEF LkChannel
<1>12. (LkAlone(c, links[c]))'
  <2>1. ~z => ~x.stale /\ \A j \in Leavers : ~Leaves(j, c)
    BY <1>0 DEF Leaves
  <2>2. ~z /\ ~x.listed => x.state = "closed"
    BY <1>2, <1>3, <2>1 DEF LkAlone
  <2>3. ~z /\ x.state = "closed" => LkGone(l)
    BY <1>2, <1>6, <2>1 DEF LkAlone, LkGone
  <2>4. x.listed => x.state # "closed"
    BY <1>2 DEF LkChannel
  <2>5. (Leaves(k, c))' /\ leavers'[k].at = "mark" /\ leavers'[k].held = x.listed
    BY <1>5, <1>9
  <2>6. ~z => \A j \in Leavers : (Leaves(j, c))' => j = k
    BY <1>9, <2>1
  <2>7. (Holds(k, c))' => x.listed
    BY <1>5, <1>9
  <2> QED BY <1>6, <1>9, <2>2, <2>3, <2>4, <2>5, <2>6, <2>7 DEF LkAlone, LkGone
<1> QED BY <1>7, <1>8, <1>10, <1>11, <1>12, LkLeaver DEF LkSound

LEMMA LkStep ==
  ASSUME LkInv, crashed \in BOOLEAN, LinksNext
  PROVE  LkInv' /\ crashed' = FALSE
<1>1. crashed = FALSE
  BY DEF LinksNext
<1> QED BY <1>1, LkConnects, LkDelivers, LkDisconnects, LkMarks, LkReleases, LkCloses, LkDrains, LkFinishes DEF LinksNext

\* A step of the running loop.
LEMMA RcLoop ==
  ASSUME RcInv, NEW g \in 1 .. MaxLoops, NEW l \in RcLoops,
         NEW s \in {"disconnected", "connecting", "connected", "backoff"}, LoopBecomes(g, l, s),
         loops[g].at \notin Ended, l.at # "none",
         l.at = "finished" => s = "disconnected",
         l.at \in {"serve", "over"} \/ client.handled # g
  PROVE  RcInv' /\ crashed' = crashed
<1>1. client \in RcClients /\ loops \in [1 .. MaxLoops -> RcLoops] /\ g = client.done /\ MaxLoops \in Nat
  BY AdaptersAssumption DEF RcInv, RcTypes, RcPlaces
<1>2. loops' = [loops EXCEPT ![g] = l] /\ client' = [client EXCEPT !.state = s] /\ crashed' = crashed
  BY DEF LoopBecomes
<1>3. /\ client' \in RcClients /\ client'.state = s /\ client'.cancel = client.cancel /\ client'.done = client.done
      /\ client'.service = client.service /\ client'.handled = client.handled
  BY <1>1, <1>2 DEF RcClients
<1>4. RcTypes'
  BY <1>1, <1>2, <1>3 DEF RcTypes
<1>5. RcPlaces'
  BY <1>1, <1>2, <1>3 DEF RcInv, RcPlaces
<1>6. RcQuiet'
  BY <1>1, <1>2, <1>3 DEF RcInv, RcQuiet, Ended
<1> QED BY <1>2, <1>4, <1>5, <1>6 DEF RcInv

LEMMA RcLoopStep ==
  ASSUME RcInv, NEW g \in 1 .. MaxLoops,
         RcConnect(g) \/ RcDial(g) \/ RcHello(g) \/ RcOver(g) \/ RcBackoff(g)
  PROVE  RcInv' /\ crashed' = crashed
<1>1. client \in RcClients /\ loops[g] \in RcLoops /\ client.state \in {"disconnected", "connecting", "connected", "backoff"}
  BY DEF RcInv, RcTypes, RcClients
<1>2. client.handled = g => loops[g].at \in {"serve", "over"}
  BY AdaptersAssumption DEF RcInv, RcQuiet
<1>4. \A a : [loops[g] EXCEPT !.at = a] = [loops[g] EXCEPT !.at = a, !.conn = loops[g].conn] /\ loops[g].conn \in BOOLEAN
  BY <1>1 DEF RcLoops
<1>5. \E a \in {"dial", "hello", "serve", "over", "backoff", "finished", "connect"}, o \in BOOLEAN,
         s \in {"disconnected", "connecting", "connected", "backoff"} :
        /\ LoopBecomes(g, [loops[g] EXCEPT !.at = a, !.conn = o], s)
        /\ loops[g].at \notin Ended
        /\ a = "finished" => s = "disconnected"
        /\ a \in {"serve", "over"} \/ client.handled # g
  <2>1. CASE RcConnect(g)
    BY <1>1, <1>2, <1>4, <2>1 DEF RcConnect, Ended
  <2>2. CASE RcDial(g)
    BY <1>1, <1>2, <1>4, <2>2 DEF RcDial, Ended
  <2>3. CASE RcHello(g)
    BY <1>1, <1>2, <1>4, <2>3 DEF RcHello, Ended
  <2>4. CASE RcOver(g)
    BY <1>1, <1>2, <1>4, <2>4 DEF RcOver, Ended
  <2>5. CASE RcBackoff(g)
    BY <1>1, <1>2, <1>4, <2>5 DEF RcBackoff, Ended
  <2> QED BY <2>1, <2>2, <2>3, <2>4, <2>5
<1>6. PICK a \in {"dial", "hello", "serve", "over", "backoff", "finished", "connect"}, o \in BOOLEAN,
           s \in {"disconnected", "connecting", "connected", "backoff"} :
        /\ LoopBecomes(g, [loops[g] EXCEPT !.at = a, !.conn = o], s)
        /\ loops[g].at \notin Ended
        /\ a = "finished" => s = "disconnected"
        /\ a \in {"serve", "over"} \/ client.handled # g
  BY <1>5
<1>7. PICK m : m = [loops[g] EXCEPT !.at = a, !.conn = o]
  OBVIOUS
<1>8. m \in RcLoops /\ m.at = a /\ a # "none"
  BY <1>1, <1>7 DEF RcLoops
<1> QED BY <1>6, <1>7, <1>8, RcLoop

\* A step that only says who is handled or what the service is doing.
LEMMA RcSays ==
  ASSUME RcInv, NEW n \in 0 .. MaxLoops, NEW t \in {"disabled", "running", "draining", "closing"},
         client' \in RcClients, client'.state = client.state, client'.done = client.done,
         client'.service = t, client'.handled = n,
         loops' \in [1 .. MaxLoops -> RcLoops], \A g \in 1 .. MaxLoops : loops'[g].at = loops[g].at,
         client.done = 0 => t = "disabled" /\ n = 0,
         n > 0 => n = client.done /\ loops[client.done].at \in {"serve", "over"},
         t = "disabled" /\ client.done > 0 => loops[client.done].at = "finished"
  PROVE  RcInv'
<1>1. client.done \in 0 .. MaxLoops /\ MaxLoops \in Nat
  BY AdaptersAssumption DEF RcInv, RcTypes, RcClients
<1>2. client.done > 0 => client.done \in 1 .. MaxLoops /\ loops'[client.done].at = loops[client.done].at
  BY <1>1
<1>3. RcPlaces'
  BY <1>1, <1>2 DEF RcInv, RcPlaces
<1>4. RcQuiet'
  BY <1>1, <1>2 DEF RcInv, RcQuiet
<1> QED BY <1>3, <1>4 DEF RcInv, RcTypes

LEMMA RcStep ==
  ASSUME RcInv, ClientLoopNext
  PROVE  RcInv' /\ crashed' = crashed
<1>1. /\ client \in RcClients /\ loops \in [1 .. MaxLoops -> RcLoops] /\ MaxLoops \in Nat
      /\ client.done \in 0 .. MaxLoops /\ client.handled \in 0 .. MaxLoops /\ client.cancel \in 0 .. MaxLoops
      /\ client.service \in {"disabled", "running", "draining", "closing"}
  BY AdaptersAssumption DEF RcInv, RcTypes, RcClients
<1>2. /\ client.done = 0 => client.service = "disabled" /\ client.handled = 0
      /\ client.handled > 0 => client.handled = client.done /\ loops[client.done].at \in {"serve", "over"}
      /\ client.service = "disabled" /\ client.done > 0 => loops[client.done].at = "finished"
  BY DEF RcInv, RcQuiet
<1>3. CASE RcStart
  <2>1. PICK n : n = client.done + 1 /\ n \in 1 .. MaxLoops
    BY <1>1, <1>3 DEF RcStart
  <2>2. client' = [client EXCEPT !.cancel = n, !.done = n, !.service = "running"] /\ crashed' = crashed
    BY <1>3, <2>1 DEF RcStart
  <2>3. PICK l : l = [NoLoop EXCEPT !.at = "connect"]
    OBVIOUS
  <2>4. loops' = [loops EXCEPT ![n] = l] /\ l \in RcLoops /\ l.at = "connect"
    BY <1>3, <2>1, <2>3 DEF RcStart, NoLoop, RcLoops
  <2>5. n \in 0 .. MaxLoops
    BY <2>1
  <2>6. client' \in RcClients
    BY <1>1, <2>2, <2>5 DEF RcClients
  <2>7. client'.done = n /\ client'.service = "running" /\ client'.handled = client.handled /\ client'.state = client.state
    BY <1>1, <2>2 DEF RcClients
  <2>8. client.handled = 0
    BY <1>1, <1>2, <1>3 DEF RcStart
  <2>9. \A g \in 1 .. MaxLoops : loops[g].at \in Ended
    BY <1>1, <1>2, <1>3 DEF RcStart, RcInv, RcPlaces, Ended
  <2>10. \A g \in 1 .. MaxLoops : g # n => loops'[g] = loops[g]
    BY <1>1, <2>4
  <2>11. loops'[n].at = "connect"
    BY <1>1, <2>1, <2>4
  <2>12. RcPlaces'
    BY <1>1, <2>1, <2>7, <2>9, <2>10, <2>11 DEF RcInv, RcPlaces
  <2>13. RcQuiet'
    BY <2>1, <2>7, <2>8, <2>11 DEF RcQuiet
  <2>14. RcTypes'
    BY <1>1, <2>4, <2>6 DEF RcTypes
  <2> QED BY <2>2, <2>12, <2>13, <2>14 DEF RcInv
<1>4. CASE RcHandled
  <2>1. PICK n : n = 0 /\ n \in 0 .. MaxLoops
    BY <1>1
  <2>2. client' = [client EXCEPT !.handled = n] /\ loops' = loops /\ crashed' = crashed
    BY <1>4, <2>1 DEF RcHandled
  <2>3. /\ client' \in RcClients /\ client'.state = client.state /\ client'.done = client.done
        /\ client'.service = client.service /\ client'.handled = n
    BY <1>1, <2>1, <2>2 DEF RcClients
  <2> QED BY <1>1, <1>2, <2>1, <2>2, <2>3, RcSays
<1>5. CASE RcShutdown
  <2>1. client' = [client EXCEPT !.service = "draining", !.stopping = TRUE] /\ loops' = loops /\ crashed' = crashed
    BY <1>5 DEF RcShutdown
  <2>2. /\ client' \in RcClients /\ client'.state = client.state /\ client'.done = client.done
        /\ client'.service = "draining" /\ client'.handled = client.handled
    BY <1>1, <2>1 DEF RcClients
  <2>3. client.done # 0
    BY <1>2, <1>5 DEF RcShutdown
  <2> QED BY <1>1, <1>2, <2>1, <2>2, <2>3, RcSays
<1>6. CASE RcClose
  <2>1. client' = [client EXCEPT !.service = "closing"] /\ crashed' = crashed
    BY <1>6 DEF RcClose
  <2>2. /\ client' \in RcClients /\ client'.state = client.state /\ client'.done = client.done
        /\ client'.service = "closing" /\ client'.handled = client.handled
    BY <1>1, <2>1 DEF RcClients
  <2>3. client.done # 0
    BY <1>2, <1>6 DEF RcClose
  <2>4. \A l \in RcLoops : [l EXCEPT !.cancelled = TRUE] \in RcLoops /\ [l EXCEPT !.cancelled = TRUE].at = l.at
    BY DEF RcLoops
  <2>5. loops' \in [1 .. MaxLoops -> RcLoops] /\ \A g \in 1 .. MaxLoops : loops'[g].at = loops[g].at
    BY <1>1, <1>6, <2>4 DEF RcClose
  <2> QED BY <1>1, <1>2, <2>1, <2>2, <2>3, <2>5, RcSays
<1>7. CASE RcClosed
  <2>1. PICK n : n = 0 /\ n \in 0 .. MaxLoops
    BY <1>1
  <2>2. client' = [client EXCEPT !.service = "disabled", !.cancel = n] /\ loops' = loops /\ crashed' = crashed
    BY <1>7, <2>1 DEF RcClosed
  <2>3. /\ client' \in RcClients /\ client'.state = client.state /\ client'.done = client.done
        /\ client'.service = "disabled" /\ client'.handled = client.handled
    BY <1>1, <2>1, <2>2 DEF RcClients
  <2>4. loops[client.done].at = "finished"
    BY <1>7 DEF RcClosed
  <2> QED BY <1>1, <1>2, <2>2, <2>3, <2>4, RcSays
<1>8. ASSUME NEW g \in 1 .. MaxLoops, RcServe(g)
      PROVE  RcInv' /\ crashed' = crashed
  <2>1. CASE client.handled = 0 /\ client' = [client EXCEPT !.handled = g] /\ UNCHANGED <<loops, crashed>>
    <3>1. g \in 0 .. MaxLoops /\ g = client.done /\ loops[g].at = "serve"
      BY <1>8 DEF RcServe, RcInv, RcPlaces, Ended
    <3>2. /\ client' \in RcClients /\ client'.state = client.state /\ client'.done = client.done
          /\ client'.service = client.service /\ client'.handled = g
      BY <1>1, <2>1, <3>1 DEF RcClients
    <3> QED BY <1>1, <1>2, <2>1, <3>1, <3>2, RcSays
  <2>2. CASE \E b \in BOOLEAN : LoopBecomes(g, [loops[g] EXCEPT !.at = "over", !.conn = FALSE, !.bye = b], client.state)
    <3>1. PICK b \in BOOLEAN : LoopBecomes(g, [loops[g] EXCEPT !.at = "over", !.conn = FALSE, !.bye = b], client.state)
      BY <2>2
    <3>2. PICK l : l = [loops[g] EXCEPT !.at = "over", !.conn = FALSE, !.bye = b]
      OBVIOUS
    <3>3. l \in RcLoops /\ l.at = "over" /\ loops[g].at \notin Ended
      BY <1>1, <1>8, <3>2 DEF RcLoops, RcServe, Ended
    <3>4. client.state \in {"disconnected", "connecting", "connected", "backoff"}
      BY <1>1 DEF RcClients
    <3> QED BY <3>1, <3>2, <3>3, <3>4, RcLoop
  <2>3. [loops[g] EXCEPT !.at = "over", !.conn = FALSE]
          = [loops[g] EXCEPT !.at = "over", !.conn = FALSE, !.bye = loops[g].bye] /\ loops[g].bye \in BOOLEAN
    BY <1>1 DEF RcLoops
  <2> QED BY <1>8, <2>1, <2>2, <2>3 DEF RcServe
<1> QED BY <1>3, <1>4, <1>5, <1>6, <1>7, <1>8, RcLoopStep DEF ClientLoopNext

LEMMA AdInit == AdaptersInit => AdInv
<1> SUFFICES ASSUME AdaptersInit PROVE AdInv
  OBVIOUS
<1>0. /\ AdapterBuffer \in Nat \ {0} /\ 0 \in 0 .. AdapterBuffer /\ 0 \in 0 .. MaxWires /\ MaxLoops \in Nat
      /\ 0 \in 0 .. MaxLoops
  BY AdaptersAssumption
<1>1. SkInv
  <2>1. AdSocketSound(NoSocket)
    BY <1>0 DEF AdSocketSound, AdSockets, NoSocket
  <2> QED BY <2>1 DEF AdaptersInit, SocketsInit, SkInv, AdSocketSound
<1>2. RmInv
  <2>1. <<>> \in Seq(Nat) /\ <<>> \in Seq(EventKinds) /\ Len(<<>>) = 0
    OBVIOUS
  <2>2. NoRemote \in AdRemotes
    BY <1>0, <2>1 DEF AdRemotes, NoRemote
  <2>3. feed = <<>> /\ remotes = [r \in Remotes |-> NoRemote]
    BY DEF AdaptersInit, RemotesInit
  <2>4. AdRemoteClosing(NoRemote) /\ AdRemoteOrder(NoRemote)
    BY <2>1, <2>3 DEF AdRemoteClosing, AdRemoteOrder, NoRemote
  <2> QED BY <2>1, <2>2, <2>3, <2>4 DEF RmInv
<1>3. LkInv
  <2>1. NoLink \in AdLinks /\ NobodyLeaves \in AdLeavers
    BY <1>0 DEF AdLinks, NoLink, AdLeavers, NobodyLeaves
  <2>2. links = [c \in LinksOf |-> NoLink] /\ leavers = [k \in Leavers |-> NobodyLeaves] /\ wire = 0
    BY DEF AdaptersInit, LinksInit
  <2>3. \A c \in LinksOf, k \in Leavers : ~Leaves(k, c) /\ ~Holds(k, c)
    BY <2>2 DEF Leaves, Holds, NobodyLeaves
  <2>4. LkTypes
    BY <1>0, <2>1, <2>2 DEF LkTypes, AdLeavers, NobodyLeaves
  <2>5. ASSUME NEW c \in LinksOf
        PROVE  LkMade(c, links[c]) /\ LkChannel(c, links[c]) /\ LkAlone(c, links[c])
    BY <2>2, <2>3 DEF LkMade, LkChannel, LkAlone, NoLink
  <2> QED BY <2>4, <2>5 DEF LkInv
<1>4. RcInv
  <2>1. loops = [g \in 1 .. MaxLoops |-> NoLoop] /\ client = ClientStart
    BY DEF AdaptersInit, ClientLoopInit
  <2>2. NoLoop \in RcLoops /\ ClientStart \in RcClients
    BY <1>0 DEF NoLoop, RcLoops, ClientStart, RcClients
  <2> QED BY <1>0, <2>1, <2>2 DEF RcInv, RcTypes, RcPlaces, RcQuiet, NoLoop, ClientStart, Ended
<1> QED BY <1>1, <1>2, <1>3, <1>4 DEF AdInv, AdaptersInit, OnlyReadersCrash

LEMMA AdSound ==
  ASSUME AdInv
  PROVE  AdaptersTypeOK /\ ClosedOnce /\ OnlyReadersCrash /\ FeedInOrder /\ LinksReleased /\ OneLoop
<1>1. AdaptersTypeOK
  <2>1. \A s \in Sockets : sockets[s].in \in 0 .. AdapterBuffer /\ sockets[s].out \in 0 .. AdapterBuffer
    BY DEF AdInv, SkInv, AdSockets
  <2>2. \A r \in Remotes : remotes[r].in \in 0 .. AdapterBuffer /\ remotes[r].pos \in 0 .. Len(feed)
    <3>1. \A r \in Remotes : remotes[r].in \in 0 .. AdapterBuffer /\ remotes[r].pos \in Nat
      BY DEF AdInv, RmInv, AdRemotes
    <3>2. \A r \in Remotes : remotes[r].pos <= Len(feed)
      BY DEF AdInv, RmInv, AdRemoteOrder
    <3>3. Len(feed) \in Nat
      BY DEF AdInv, RmInv
    <3> QED BY <3>1, <3>2, <3>3
  <2>3. \A c \in LinksOf : links[c].in \in 0 .. AdapterBuffer
    BY DEF AdInv, LkInv, LkTypes, AdLinks
  <2>4. crashed \in BOOLEAN /\ casting \subseteq Sockets /\ wire \in 0 .. MaxWires
    BY DEF AdInv, SkInv, LkInv, LkTypes
  <2> QED BY <2>1, <2>2, <2>3, <2>4 DEF AdaptersTypeOK
<1>2. ClosedOnce
  <2>1. \A s \in Sockets : sockets[s].done + sockets[s].recv <= 1
    BY DEF AdInv, SkInv, AdSocketSound
  <2>2. \A r \in Remotes : remotes[r].recv <= 1
    BY DEF AdInv, RmInv, AdRemotes
  <2>3. \A c \in LinksOf : links[c].recv <= 1
    BY DEF AdInv, LkInv, LkTypes, AdLinks
  <2> QED BY <2>1, <2>2, <2>3 DEF ClosedOnce
<1>3. FeedInOrder
  BY DEF AdInv, RmInv, AdRemoteOrder, NoneBetween, FeedInOrder
<1>4. LinksReleased
  BY DEF AdInv, LkInv, LkTypes, LkAlone, LkGone, LinksReleased
<1>5. OneLoop
  BY DEF AdInv, RcInv, RcTypes, RcClients, RcPlaces, RcQuiet, OneLoop, Ended
<1> QED BY <1>1, <1>2, <1>3, <1>4, <1>5 DEF AdInv

LEMMA AdStep == AdInv /\ [InterchangeNext]_interchangeVars => AdInv'
<1> SUFFICES ASSUME AdInv, [InterchangeNext]_interchangeVars PROVE AdInv'
  OBVIOUS
<1>1. UNCHANGED socketVars => (SkInv <=> SkInv')
  BY DEF socketVars, SkInv
<1>2. UNCHANGED remoteVars => (RmInv <=> RmInv')
  BY DEF remoteVars, RmInv, AdRemoteOrder, NoneBetween
<1>3. UNCHANGED linkVars => (LkInv <=> LkInv')
  BY DEF linkVars, LkInv, LkTypes, LkMade, LkChannel, LkAlone, Leaves, Holds
<1>4. UNCHANGED clientVars => (RcInv <=> RcInv')
  BY DEF clientVars, RcInv, RcTypes, RcPlaces, RcQuiet
<1>5. UNCHANGED <<socketVars, remoteVars>> => (crashed' = crashed => OnlyReadersCrash')
  BY DEF AdInv, OnlyReadersCrash, socketVars, remoteVars
<1>6. CASE UNCHANGED adapterVars
  BY <1>1, <1>2, <1>3, <1>4, <1>5, <1>6 DEF AdInv, adapterVars
<1>7. CASE SocketsNext /\ UNCHANGED <<remoteVars, linkVars, clientVars>>
  <2>1. SkInv' /\ crashed' \in BOOLEAN /\ OnlyReadersCrash'
    BY <1>7, SkStep DEF AdInv, OnlyReadersCrash
  <2> QED BY <1>2, <1>3, <1>4, <1>7, <2>1 DEF AdInv
<1>8. CASE RemotesNext /\ UNCHANGED <<socketVars, linkVars, clientVars>>
  <2>1. RmInv' /\ crashed' \in BOOLEAN /\ OnlyReadersCrash'
    BY <1>8, RmStep DEF AdInv, OnlyReadersCrash
  <2> QED BY <1>1, <1>3, <1>4, <1>8, <2>1 DEF AdInv
<1>9. CASE LinksNext /\ UNCHANGED <<socketVars, remoteVars, clientVars>>
  <2>1. LkInv' /\ crashed' = FALSE
    BY <1>9, LkStep DEF AdInv
  <2> QED BY <1>1, <1>2, <1>4, <1>9, <2>1 DEF AdInv, OnlyReadersCrash
<1>10. CASE ClientLoopNext /\ UNCHANGED <<socketVars, remoteVars, linkVars>>
  <2>1. RcInv' /\ crashed' = crashed
    BY <1>10, RcStep DEF AdInv
  <2> QED BY <1>1, <1>2, <1>3, <1>5, <1>10, <2>1 DEF AdInv
<1>11. CASE UNCHANGED interchangeVars
  BY <1>6, <1>11 DEF interchangeVars
<1> QED BY <1>6, <1>7, <1>8, <1>9, <1>10, <1>11 DEF InterchangeNext

(* The invariant of the adapters: who may close a channel, what was         *)
(* delivered of a feed, who releases a link, and which loop runs.           *)
THEOREM AdaptersInvariant == InterchangeSpec => []AdInv
<1>1. InterchangeInit => AdInv
  BY AdInit DEF InterchangeInit
<1> QED BY <1>1, AdStep, PTL DEF InterchangeSpec

(* AdaptersSound: no channel is closed twice and only a reader meets a      *)
(* closed one, a remote's messages arrive in order without a gap, a         *)
(* disconnected link is let go of, and the relay client runs one loop.      *)
THEOREM AdaptersSoundAlways == InterchangeSpec => []AdaptersSound
<1>1. AdInv => AdaptersSound
  BY AdSound DEF AdaptersSound
<1> QED BY <1>1, AdaptersInvariant, PTL

=============================================================================
