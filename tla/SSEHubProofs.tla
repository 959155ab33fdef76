---------------------------- MODULE SSEHubProofs ----------------------------
(***************************************************************************)
(* The registry of SSEHub for any number of connections, trees, users and  *)
(* broadcasters and any limits.                                            *)
(***************************************************************************)
EXTENDS SSEHub, FiniteSetTheorems, TLAPS

(* Where handlers, drop lists and the shutdown stand with respect to the   *)
(* registry.  A registered client's handler is streaming; whatever a drop  *)
(* list or the shutdown works on has subscribed before, so it cannot       *)
(* subscribe again; a client between its Unsubscribe and its Close is not  *)
(* registered; and the shutdown has not begun while the flag is down.      *)
Places ==
  /\ \A c \in clients : conn[c] = "streaming"
  /\ \A c \in shut : conn[c] \in {"refused", "streaming", "gone"}
  /\ \A b \in Broadcasters : \A c \in bcast[b].list \cup bcast[b].cur :
       conn[c] \in {"streaming", "gone"}
  /\ \A c \in down.list \cup down.cur : conn[c] \in {"streaming", "gone"}
  /\ \A b \in Broadcasters : bcast[b].cur \cap clients = {}
  /\ down.cur \cap clients = {}
  /\ ~closed => down.at = "idle"

IInv ==
  /\ TypeOK
  /\ RegistryConsistent
  /\ TotalExactBeforeReset
  /\ LimitsHold
  /\ Places
  /\ ClosedNotRegistered

-----------------------------------------------------------------------------
(* Sizes.                                                                  *)

(* The registered clients, and those of one user or one tree, are finite   *)
(* sets with a size.                                                       *)
LEMMA Sizes ==
  ASSUME clients \subseteq Clients
  PROVE  /\ IsFiniteSet(clients) /\ Cardinality(clients) \in Nat
         /\ \A u \in Users : IsFiniteSet(OfUser(u)) /\ Cardinality(OfUser(u)) \in Nat
         /\ \A t \in Trees : IsFiniteSet(OfTree(t)) /\ Cardinality(OfTree(t)) \in Nat
<1>1. IsFiniteSet(clients)
  BY ClientsAssumption, FS_Subset
<1>2. \A u \in Users : OfUser(u) \subseteq clients
  BY DEF OfUser
<1>3. \A t \in Trees : OfTree(t) \subseteq clients
  BY DEF OfTree
<1>4. \A S : S \subseteq clients => IsFiniteSet(S) /\ Cardinality(S) \in Nat
  BY <1>1, FS_Subset, FS_CardinalityType
<1> QED
  BY <1>1, <1>2, <1>3, <1>4

(* Taking one member out of a finite set.                                  *)
LEMMA OneLess ==
  ASSUME NEW S, IsFiniteSet(S), NEW x \in S
  PROVE  /\ Cardinality(S \ {x}) = Cardinality(S) - 1
         /\ Cardinality(S) > 0
         /\ Cardinality(S \ {x}) \in Nat
<1>1. Cardinality(S \ {x}) = Cardinality(S) - 1
  BY FS_RemoveElement
<1>2. IsFiniteSet(S \ {x})
  BY FS_RemoveElement
<1>3. Cardinality(S \ {x}) \in Nat /\ Cardinality(S) \in Nat
  BY <1>2, FS_CardinalityType
<1> QED
  BY <1>1, <1>3

(* Putting one in.                                                         *)
LEMMA OneMore ==
  ASSUME NEW S, IsFiniteSet(S), NEW x, x \notin S
  PROVE  Cardinality(S \cup {x}) = Cardinality(S) + 1
BY FS_AddElement

-----------------------------------------------------------------------------
(* The two changes of the registry.                                        *)

(* Unsubscribe takes the client out of all three maps and out of the       *)
(* count, once, and leaves every other client alone.                       *)
LEMMA UnsubscribeStep ==
  ASSUME TypeOK, RegistryConsistent, NEW c \in Clients, Unsubscribe(c)
  PROVE  /\ clients' = clients \ {c}
         /\ subscribers' \in [Trees -> SUBSET Clients]
         /\ byUser' \in [Users -> Nat]
         /\ total' \in Int
         /\ RegistryConsistent'
         /\ total = Cardinality(clients) => total' = Cardinality(clients')
         /\ Cardinality(clients') =< Cardinality(clients)
         /\ \A u \in Users : Cardinality(OfUser(u)') =< Cardinality(OfUser(u))
         /\ \A t \in Trees : Cardinality(OfTree(t)') =< Cardinality(OfTree(t))
<1>0. clients \subseteq Clients
  BY DEF TypeOK
<1>s. /\ IsFiniteSet(clients) /\ Cardinality(clients) \in Nat
      /\ \A u \in Users : IsFiniteSet(OfUser(u)) /\ Cardinality(OfUser(u)) \in Nat
      /\ \A t \in Trees : IsFiniteSet(OfTree(t)) /\ Cardinality(OfTree(t)) \in Nat
  BY <1>0, Sizes
<1>o. TreeOf[c] \in Trees /\ UserOf[c] \in Users
  BY OwnersAssumption
<1>1. CASE c \notin clients
  <2>1. UNCHANGED registry
    BY <1>1 DEF Unsubscribe
  <2> QED
    BY <1>1, <2>1, <1>s DEF registry, TypeOK, RegistryConsistent, OfUser, OfTree
<1>2. CASE c \in clients
  <2>1. Remove(c)
    BY <1>2 DEF Unsubscribe
  <2>2. clients' = clients \ {c}
    BY <2>1 DEF Remove
  <2>3. OfUser(UserOf[c])' = OfUser(UserOf[c]) \ {c} /\ c \in OfUser(UserOf[c])
    BY <2>2, <1>2 DEF OfUser
  <2>4. \A u \in Users \ {UserOf[c]} : OfUser(u)' = OfUser(u)
    BY <2>2, <1>2 DEF OfUser
  <2>5. OfTree(TreeOf[c])' = OfTree(TreeOf[c]) \ {c} /\ c \in OfTree(TreeOf[c])
    BY <2>2, <1>2 DEF OfTree
  <2>6. \A t \in Trees \ {TreeOf[c]} : OfTree(t)' = OfTree(t)
    BY <2>2, <1>2 DEF OfTree
  <2>7. /\ Cardinality(OfUser(UserOf[c])') = Cardinality(OfUser(UserOf[c])) - 1
        /\ Cardinality(OfUser(UserOf[c])) > 0
    BY <2>3, <1>s, <1>o, OneLess
  <2>8. Cardinality(OfTree(TreeOf[c])') = Cardinality(OfTree(TreeOf[c])) - 1
    BY <2>5, <1>s, <1>o, OneLess
  <2>9. Cardinality(clients') = Cardinality(clients) - 1
    BY <2>2, <1>2, <1>s, OneLess
  <2>10. byUser[UserOf[c]] = Cardinality(OfUser(UserOf[c]))
    BY <1>o DEF RegistryConsistent
  <2>11. byUser' = [byUser EXCEPT ![UserOf[c]] = Cardinality(OfUser(UserOf[c])')]
    <3>1. byUser' = [byUser EXCEPT ![UserOf[c]] =
                       IF byUser[UserOf[c]] > 0 THEN byUser[UserOf[c]] - 1 ELSE 0]
      BY <2>1 DEF Remove
    <3> QED
      BY <3>1, <2>7, <2>10
  <2>12. \A u \in Users : byUser'[u] = Cardinality(OfUser(u)')
    <3> TAKE u \in Users
    <3>1. byUser \in [Users -> Nat]
      BY DEF TypeOK
    <3>2. CASE u = UserOf[c]
      BY <2>11, <3>1, <3>2
    <3>3. CASE u # UserOf[c]
      <4>1. byUser'[u] = byUser[u]
        BY <2>11, <3>1, <3>3
      <4>2. OfUser(u)' = OfUser(u)
        BY <2>4, <3>3
      <4> QED
        BY <4>1, <4>2 DEF RegistryConsistent
    <3> QED
      BY <3>2, <3>3
  <2>13. \A t \in Trees : subscribers'[t] = OfTree(t)'
    <3> TAKE t \in Trees
    <3>1. subscribers' = [subscribers EXCEPT ![TreeOf[c]] = subscribers[TreeOf[c]] \ {c}]
      BY <2>1 DEF Remove
    <3>2. subscribers \in [Trees -> SUBSET Clients] /\ subscribers[t] = OfTree(t)
      BY DEF TypeOK, RegistryConsistent
    <3>3. CASE t = TreeOf[c]
      BY <2>5, <3>1, <3>2, <3>3
    <3>4. CASE t # TreeOf[c]
      BY <2>6, <3>1, <3>2, <3>4
    <3> QED
      BY <3>3, <3>4
  <2>14. subscribers' \in [Trees -> SUBSET Clients]
    BY <2>1, <1>o DEF Remove, TypeOK
  <2>15. byUser' \in [Users -> Nat]
    <3>1. Cardinality(OfUser(UserOf[c])') \in Nat
      BY <2>7, <1>s, <1>o
    <3> QED
      BY <3>1, <2>11 DEF TypeOK
  <2>16. total' = total - 1 /\ total \in Int
    BY <2>1 DEF Remove, TypeOK
  <2>17. RegistryConsistent'
    BY <2>12, <2>13 DEF RegistryConsistent
  <2>18. \A u \in Users : Cardinality(OfUser(u)') =< Cardinality(OfUser(u))
    BY <2>4, <2>7, <1>s, <1>o
  <2>19. \A t \in Trees : Cardinality(OfTree(t)') =< Cardinality(OfTree(t))
    BY <2>6, <2>8, <1>s, <1>o
  <2> QED
    BY <2>2, <2>9, <2>14, <2>15, <2>16, <2>17, <2>18, <2>19, <1>s
<1> QED
  BY <1>1, <1>2

(* Unsubscribe keeps what the registry promises.                           *)
LEMMA UnsubscribeKeeps ==
  ASSUME IInv, NEW c \in Clients, Unsubscribe(c),
         down'.at # "returned" => down.at # "returned"
  PROVE  RegistryConsistent' /\ TotalExactBeforeReset' /\ LimitsHold'
<1>1. TypeOK /\ RegistryConsistent /\ TotalExactBeforeReset /\ LimitsHold
  BY DEF IInv
<1>2. /\ RegistryConsistent'
      /\ total = Cardinality(clients) => total' = Cardinality(clients')
      /\ Cardinality(clients') =< Cardinality(clients)
      /\ \A u \in Users : Cardinality(OfUser(u)') =< Cardinality(OfUser(u))
      /\ \A t \in Trees : Cardinality(OfTree(t)') =< Cardinality(OfTree(t))
      /\ clients' = clients \ {c}
  BY <1>1, UnsubscribeStep
<1>3. clients \subseteq Clients /\ clients' \subseteq Clients
  BY <1>1, <1>2 DEF TypeOK
<1>4. /\ Cardinality(clients) \in Nat
      /\ \A u \in Users : Cardinality(OfUser(u)) \in Nat
      /\ \A t \in Trees : Cardinality(OfTree(t)) \in Nat
  BY <1>3, Sizes
<1>5. \A S : S \subseteq Clients => Cardinality(S) \in Nat
  BY ClientsAssumption, FS_Subset, FS_CardinalityType
<1>6. /\ Cardinality(clients') \in Nat
      /\ \A u \in Users : Cardinality(OfUser(u)') \in Nat
      /\ \A t \in Trees : Cardinality(OfTree(t)') \in Nat
  <2>1. \A u \in Users : OfUser(u)' \subseteq Clients
    BY <1>3 DEF OfUser
  <2>2. \A t \in Trees : OfTree(t)' \subseteq Clients
    BY <1>3 DEF OfTree
  <2> QED
    BY <1>3, <1>5, <2>1, <2>2
<1>7. TotalExactBeforeReset'
  BY <1>1, <1>2 DEF TotalExactBeforeReset
<1>8. LimitsHold'
  <2>1. \A u \in Users : Cardinality(OfUser(u)') =< PerUser
    BY <1>1, <1>2, <1>4, <1>6, LimitsAssumption DEF LimitsHold
  <2>2. \A t \in Trees : Cardinality(OfTree(t)') =< PerTree
    BY <1>1, <1>2, <1>4, <1>6, LimitsAssumption DEF LimitsHold
  <2>3. down'.at # "returned" => Cardinality(clients') =< Total
    BY <1>1, <1>2, <1>4, <1>6, LimitsAssumption DEF LimitsHold
  <2> QED
    BY <2>1, <2>2, <2>3 DEF LimitsHold
<1> QED
  BY <1>2, <1>7, <1>8

(* A step that leaves the registry alone keeps what it promises.           *)
LEMMA QuietKeeps ==
  ASSUME IInv, UNCHANGED registry,
         down'.at # "returned" => down.at # "returned"
  PROVE  RegistryConsistent' /\ TotalExactBeforeReset' /\ LimitsHold'
<1>1. RegistryConsistent'
  BY DEF IInv, RegistryConsistent, OfUser, OfTree, registry
<1>2. TotalExactBeforeReset'
  BY DEF IInv, TotalExactBeforeReset, registry
<1>3. LimitsHold'
  BY DEF IInv, LimitsHold, OfUser, OfTree, registry
<1> QED
  BY <1>1, <1>2, <1>3

(* Subscribe puts a client that was not registered into all three maps,    *)
(* and only if there was room in each.                                     *)
LEMMA AcceptKeeps ==
  ASSUME IInv, NEW c \in Clients, SubscribeAccept(c)
  PROVE  /\ subscribers' \in [Trees -> SUBSET Clients]
         /\ byUser' \in [Users -> Nat]
         /\ RegistryConsistent' /\ TotalExactBeforeReset' /\ LimitsHold'
<1>0. TypeOK /\ RegistryConsistent /\ TotalExactBeforeReset /\ LimitsHold /\ Places
  BY DEF IInv
<1>1. c \notin clients
  BY <1>0 DEF Places, SubscribeAccept
<1>s. /\ IsFiniteSet(clients) /\ Cardinality(clients) \in Nat
      /\ \A u \in Users : IsFiniteSet(OfUser(u)) /\ Cardinality(OfUser(u)) \in Nat
      /\ \A t \in Trees : IsFiniteSet(OfTree(t)) /\ Cardinality(OfTree(t)) \in Nat
  <2>1. clients \subseteq Clients
    BY <1>0 DEF TypeOK
  <2> QED
    BY <2>1, Sizes
<1>o. TreeOf[c] \in Trees /\ UserOf[c] \in Users
  BY OwnersAssumption
<1>2. clients' = clients \cup {c}
  BY DEF SubscribeAccept
<1>3. OfUser(UserOf[c])' = OfUser(UserOf[c]) \cup {c} /\ c \notin OfUser(UserOf[c])
  BY <1>1, <1>2 DEF OfUser
<1>4. \A u \in Users \ {UserOf[c]} : OfUser(u)' = OfUser(u)
  BY <1>2 DEF OfUser
<1>5. OfTree(TreeOf[c])' = OfTree(TreeOf[c]) \cup {c} /\ c \notin OfTree(TreeOf[c])
  BY <1>1, <1>2 DEF OfTree
<1>6. \A t \in Trees \ {TreeOf[c]} : OfTree(t)' = OfTree(t)
  BY <1>2 DEF OfTree
<1>7. Cardinality(OfUser(UserOf[c])') = Cardinality(OfUser(UserOf[c])) + 1
  BY <1>3, <1>s, <1>o, OneMore
<1>8. Cardinality(OfTree(TreeOf[c])') = Cardinality(OfTree(TreeOf[c])) + 1
  BY <1>5, <1>s, <1>o, OneMore
<1>9. Cardinality(clients') = Cardinality(clients) + 1
  BY <1>1, <1>2, <1>s, OneMore
<1>10. /\ byUser[UserOf[c]] = Cardinality(OfUser(UserOf[c]))
       /\ subscribers[TreeOf[c]] = OfTree(TreeOf[c])
  BY <1>0, <1>o DEF RegistryConsistent
<1>11. /\ byUser' = [byUser EXCEPT ![UserOf[c]] = byUser[UserOf[c]] + 1]
       /\ subscribers' = [subscribers EXCEPT ![TreeOf[c]] = subscribers[TreeOf[c]] \cup {c}]
       /\ total' = total + 1
       /\ down' = down
  BY DEF SubscribeAccept
<1>12. /\ ~(Cardinality(OfUser(UserOf[c])) >= PerUser)
       /\ ~(total >= Total)
       /\ ~(Cardinality(OfTree(TreeOf[c])) >= PerTree)
  BY <1>10 DEF SubscribeAccept, AtLimit
<1>13. \A u \in Users : byUser'[u] = Cardinality(OfUser(u)')
  <2> TAKE u \in Users
  <2>1. byUser \in [Users -> Nat]
    BY <1>0 DEF TypeOK
  <2>2. CASE u = UserOf[c]
    BY <1>7, <1>10, <1>11, <2>1, <2>2
  <2>3. CASE u # UserOf[c]
    <3>1. byUser'[u] = byUser[u]
      BY <1>11, <2>1, <2>3
    <3>2. OfUser(u)' = OfUser(u)
      BY <1>4, <2>3
    <3> QED
      BY <3>1, <3>2, <1>0 DEF RegistryConsistent
  <2> QED
    BY <2>2, <2>3
<1>14. \A t \in Trees : subscribers'[t] = OfTree(t)'
  <2> TAKE t \in Trees
  <2>1. subscribers \in [Trees -> SUBSET Clients] /\ subscribers[t] = OfTree(t)
    BY <1>0 DEF TypeOK, RegistryConsistent
  <2>2. CASE t = TreeOf[c]
    BY <1>5, <1>11, <2>1, <2>2
  <2>3. CASE t # TreeOf[c]
    BY <1>6, <1>11, <2>1, <2>3
  <2> QED
    BY <2>2, <2>3
<1>15. subscribers' \in [Trees -> SUBSET Clients]
  BY <1>0, <1>11, <1>o DEF TypeOK
<1>16. byUser' \in [Users -> Nat]
  <2>1. byUser[UserOf[c]] + 1 \in Nat
    BY <1>10, <1>s, <1>o
  <2> QED
    BY <2>1, <1>0, <1>11 DEF TypeOK
<1>17. RegistryConsistent'
  BY <1>13, <1>14 DEF RegistryConsistent
<1>18. TotalExactBeforeReset'
  BY <1>0, <1>9, <1>11 DEF TotalExactBeforeReset
<1>19. LimitsHold'
  <2>1. \A u \in Users : Cardinality(OfUser(u)') =< PerUser
    <3> TAKE u \in Users
    <3>1. CASE u = UserOf[c]
      BY <3>1, <1>7, <1>12, <1>s, <1>o, LimitsAssumption
    <3>2. CASE u # UserOf[c]
      BY <3>2, <1>4, <1>0 DEF LimitsHold
    <3> QED
      BY <3>1, <3>2
  <2>2. \A t \in Trees : Cardinality(OfTree(t)') =< PerTree
    <3> TAKE t \in Trees
    <3>1. CASE t = TreeOf[c]
      BY <3>1, <1>8, <1>12, <1>s, <1>o, LimitsAssumption
    <3>2. CASE t # TreeOf[c]
      BY <3>2, <1>6, <1>0 DEF LimitsHold
    <3> QED
      BY <3>1, <3>2
  <2>3. down'.at # "returned" => Cardinality(clients') =< Total
    BY <1>0, <1>9, <1>11, <1>12, <1>s, LimitsAssumption DEF TotalExactBeforeReset
  <2> QED
    BY <2>1, <2>2, <2>3 DEF LimitsHold
<1> QED
  BY <1>15, <1>16, <1>17, <1>18, <1>19

-----------------------------------------------------------------------------
(* The steps: one lemma for the handlers, one for broadcasters, one for    *)
(* the shutdown.                                                           *)

(* Handlers: a client enters the registry when it starts to stream, and is *)
(* out of it when its handler is gone.                                     *)
LEMMA ConnectionStep ==
  ASSUME IInv, NEW c \in Clients, Connection(c) \/ HandlerReturn(c)
  PROVE  IInv'
<1>0. TypeOK /\ RegistryConsistent /\ Places /\ ClosedNotRegistered
  BY DEF IInv
<1>1. CASE Arrive(c)
  <2>1. RegistryConsistent' /\ TotalExactBeforeReset' /\ LimitsHold'
    BY <1>1, QuietKeeps DEF Arrive, registry
  <2>2. TypeOK'
    BY <1>0, <1>1 DEF TypeOK, Arrive, Goto
  <2>3. Places' /\ ClosedNotRegistered'
    BY <1>0, <1>1 DEF TypeOK, Places, ClosedNotRegistered, Arrive, Goto
  <2> QED
    BY <2>1, <2>2, <2>3 DEF IInv
<1>2. CASE SubscribeCheck(c)
  <2>1. RegistryConsistent' /\ TotalExactBeforeReset' /\ LimitsHold'
    BY <1>2, QuietKeeps DEF SubscribeCheck, registry
  <2>2. TypeOK'
    BY <1>0, <1>2 DEF TypeOK, SubscribeCheck, Goto
  <2>3. Places' /\ ClosedNotRegistered'
    BY <1>0, <1>2 DEF TypeOK, Places, ClosedNotRegistered, SubscribeCheck, Goto
  <2> QED
    BY <2>1, <2>2, <2>3 DEF IInv
<1>3. CASE SubscribeRefuse(c)
  <2>1. RegistryConsistent' /\ TotalExactBeforeReset' /\ LimitsHold'
    BY <1>3, QuietKeeps DEF SubscribeRefuse, registry
  <2>2. TypeOK'
    BY <1>0, <1>3 DEF TypeOK, SubscribeRefuse, Goto
  <2>3. Places' /\ ClosedNotRegistered'
    BY <1>0, <1>3 DEF TypeOK, Places, ClosedNotRegistered, SubscribeRefuse, Goto
  <2> QED
    BY <2>1, <2>2, <2>3 DEF IInv
<1>4. CASE SubscribeAccept(c)
  <2>1. /\ subscribers' \in [Trees -> SUBSET Clients]
        /\ byUser' \in [Users -> Nat]
        /\ RegistryConsistent' /\ TotalExactBeforeReset' /\ LimitsHold'
    BY <1>4, AcceptKeeps
  <2>2. TypeOK'
    BY <1>0, <1>4, <2>1 DEF TypeOK, SubscribeAccept, Goto
  <2>3. Places' /\ ClosedNotRegistered'
    BY <1>0, <1>4 DEF TypeOK, Places, ClosedNotRegistered, SubscribeAccept, Goto
  <2> QED
    BY <2>1, <2>2, <2>3 DEF IInv
<1>5. CASE HandlerReturn(c)
  <2>0. Unsubscribe(c) /\ down' = down
    BY <1>5 DEF HandlerReturn
  <2>1. RegistryConsistent' /\ TotalExactBeforeReset' /\ LimitsHold'
    BY <2>0, UnsubscribeKeeps
  <2>2. /\ clients' = clients \ {c}
        /\ subscribers' \in [Trees -> SUBSET Clients]
        /\ byUser' \in [Users -> Nat]
        /\ total' \in Int
    BY <1>0, <2>0, UnsubscribeStep
  <2>3. TypeOK'
    BY <1>0, <1>5, <2>2 DEF TypeOK, HandlerReturn, Goto
  <2>4. Places' /\ ClosedNotRegistered'
    BY <1>0, <1>5, <2>2 DEF TypeOK, Places, ClosedNotRegistered, HandlerReturn, Goto
  <2> QED
    BY <2>1, <2>3, <2>4 DEF IInv
<1> QED
  BY <1>1, <1>2, <1>3, <1>4, <1>5 DEF Connection

(* Broadcasters: a client on a drop list is taken out of the registry      *)
(* before it is closed, although the list was copied long before.          *)
LEMMA BroadcastStep ==
  ASSUME IInv, NEW b \in Broadcasters, BroadcastCheck(b) \/ Broadcast(b)
  PROVE  IInv'
<1>0. TypeOK /\ RegistryConsistent /\ Places /\ ClosedNotRegistered
  BY DEF IInv
<1>1. CASE BroadcastCheck(b)
  <2>1. RegistryConsistent' /\ TotalExactBeforeReset' /\ LimitsHold'
    BY <1>1, QuietKeeps DEF BroadcastCheck, registry
  <2>2. TypeOK'
    BY <1>0, <1>1 DEF TypeOK, Work, BroadcastCheck, SetBcast
  <2>3. Places' /\ ClosedNotRegistered'
    BY <1>0, <1>1 DEF TypeOK, Places, ClosedNotRegistered, BroadcastCheck, SetBcast
  <2> QED
    BY <2>1, <2>2, <2>3 DEF IInv
<1>2. ASSUME NEW t \in Trees, BroadcastSnapshot(b, t)
      PROVE  IInv'
  <2>1. RegistryConsistent' /\ TotalExactBeforeReset' /\ LimitsHold'
    BY <1>2, QuietKeeps DEF BroadcastSnapshot, registry
  <2>2. subscribers[t] \subseteq clients /\ subscribers[t] \subseteq Clients
    BY <1>0 DEF TypeOK, RegistryConsistent, OfTree
  <2>3. TypeOK'
    BY <1>0, <1>2, <2>2 DEF TypeOK, Work, BroadcastSnapshot, SetBcast
  <2>4. Places' /\ ClosedNotRegistered'
    BY <1>0, <1>2, <2>2 DEF TypeOK, Places, ClosedNotRegistered, BroadcastSnapshot, SetBcast
  <2> QED
    BY <2>1, <2>3, <2>4 DEF IInv
<1>3. CASE BroadcastSend(b)
  <2>1. RegistryConsistent' /\ TotalExactBeforeReset' /\ LimitsHold'
    BY <1>3, QuietKeeps DEF BroadcastSend, registry
  <2>2. PICK drop \in SUBSET bcast[b].list : SetBcast(b, "dropping", drop, {})
    BY <1>3 DEF BroadcastSend
  <2>3. bcast[b] \in Work
    BY <1>0 DEF TypeOK
  <2>4. TypeOK'
    BY <1>0, <1>3, <2>2, <2>3 DEF TypeOK, Work, BroadcastSend, SetBcast
  <2>5. Places' /\ ClosedNotRegistered'
    BY <1>0, <1>3, <2>2 DEF TypeOK, Places, ClosedNotRegistered, BroadcastSend, SetBcast
  <2> QED
    BY <2>1, <2>4, <2>5 DEF IInv
<1>4. ASSUME NEW c \in Clients, DropOne(b, c)
      PROVE  IInv'
  <2>0. Unsubscribe(c) /\ down' = down
    BY <1>4 DEF DropOne
  <2>1. RegistryConsistent' /\ TotalExactBeforeReset' /\ LimitsHold'
    BY <2>0, UnsubscribeKeeps
  <2>2. /\ clients' = clients \ {c}
        /\ subscribers' \in [Trees -> SUBSET Clients]
        /\ byUser' \in [Users -> Nat]
        /\ total' \in Int
    BY <1>0, <2>0, UnsubscribeStep
  <2>3. bcast[b] \in Work
    BY <1>0 DEF TypeOK
  <2>4. TypeOK'
    BY <1>0, <1>4, <2>2, <2>3 DEF TypeOK, Work, DropOne, SetBcast
  <2>5. Places' /\ ClosedNotRegistered'
    BY <1>0, <1>4, <2>2 DEF TypeOK, Places, ClosedNotRegistered, DropOne, SetBcast
  <2> QED
    BY <2>1, <2>4, <2>5 DEF IInv
<1>5. CASE DropClose(b)
  <2>1. RegistryConsistent' /\ TotalExactBeforeReset' /\ LimitsHold'
    BY <1>5, QuietKeeps DEF DropClose, registry
  <2>2. bcast[b] \in Work
    BY <1>0 DEF TypeOK
  <2>3. TypeOK'
    BY <1>0, <1>5, <2>2 DEF TypeOK, Work, DropClose, SetBcast
  <2>4. Places' /\ ClosedNotRegistered'
    BY <1>0, <1>5 DEF TypeOK, Places, ClosedNotRegistered, DropClose, SetBcast
  <2> QED
    BY <2>1, <2>3, <2>4 DEF IInv
<1>6. CASE BroadcastEnd(b)
  <2>1. RegistryConsistent' /\ TotalExactBeforeReset' /\ LimitsHold'
    BY <1>6, QuietKeeps DEF BroadcastEnd, registry
  <2>2. TypeOK'
    BY <1>0, <1>6 DEF TypeOK, Work, BroadcastEnd, Resting
  <2>3. Places' /\ ClosedNotRegistered'
    BY <1>0, <1>6 DEF TypeOK, Places, ClosedNotRegistered, BroadcastEnd, Resting
  <2> QED
    BY <2>1, <2>2, <2>3 DEF IInv
<1> QED
  BY <1>1, <1>2, <1>3, <1>4, <1>5, <1>6 DEF Broadcast

(* The shutdown: what it copied is taken out before it is closed, and the  *)
(* count it overwrites at the end is not relied on afterwards.             *)
LEMMA ShutdownStep ==
  ASSUME IInv, ShutdownBegin \/ Shutdown
  PROVE  IInv'
<1>0. TypeOK /\ RegistryConsistent /\ Places /\ ClosedNotRegistered /\ LimitsHold
  BY DEF IInv
<1>1. CASE ShutdownBegin
  <2>1. down.at = "idle"
    BY <1>0, <1>1 DEF Places, ShutdownBegin, SetDown
  <2>2. RegistryConsistent' /\ TotalExactBeforeReset' /\ LimitsHold'
    BY <1>1, <2>1, QuietKeeps DEF ShutdownBegin, SetDown, registry
  <2>3. TypeOK'
    BY <1>0, <1>1 DEF TypeOK, Work, ShutdownBegin, SetDown, Resting
  <2>4. Places' /\ ClosedNotRegistered'
    BY <1>0, <1>1 DEF TypeOK, Places, ClosedNotRegistered, ShutdownBegin, SetDown, Resting
  <2> QED
    BY <2>2, <2>3, <2>4 DEF IInv
<1>2. CASE ShutdownDrained
  <2>0. down \in Work /\ closed
    BY <1>0, <1>2 DEF TypeOK, Places, ShutdownDrained, SetDown
  <2>1. RegistryConsistent' /\ TotalExactBeforeReset' /\ LimitsHold'
    BY <1>2, <2>0, QuietKeeps DEF ShutdownDrained, SetDown, registry, Work
  <2>2. TypeOK'
    BY <1>0, <1>2, <2>0 DEF TypeOK, Work, ShutdownDrained, SetDown
  <2>3. Places' /\ ClosedNotRegistered'
    BY <1>0, <1>2, <2>0 DEF TypeOK, Work, Places, ClosedNotRegistered, ShutdownDrained, SetDown
  <2> QED
    BY <2>1, <2>2, <2>3 DEF IInv
<1>3. CASE ShutdownTimeout
  <2>0. closed
    BY <1>0, <1>3 DEF Places, ShutdownTimeout, SetDown
  <2>1. RegistryConsistent' /\ TotalExactBeforeReset' /\ LimitsHold'
    BY <1>3, QuietKeeps DEF ShutdownTimeout, SetDown, registry
  <2>2. TypeOK'
    BY <1>0, <1>3 DEF TypeOK, Work, ShutdownTimeout, SetDown
  <2>3. Places' /\ ClosedNotRegistered'
    BY <1>0, <1>3, <2>0 DEF TypeOK, Places, ClosedNotRegistered, ShutdownTimeout, SetDown
  <2> QED
    BY <2>1, <2>2, <2>3 DEF IInv
<1>4. ASSUME NEW c \in Clients, ForceOne(c)
      PROVE  IInv'
  <2>0. Unsubscribe(c) /\ down.at # "returned" /\ closed /\ down \in Work
    BY <1>0, <1>4 DEF ForceOne, SetDown, Places, TypeOK
  <2>1. RegistryConsistent' /\ TotalExactBeforeReset' /\ LimitsHold'
    BY <2>0, UnsubscribeKeeps
  <2>2. /\ clients' = clients \ {c}
        /\ subscribers' \in [Trees -> SUBSET Clients]
        /\ byUser' \in [Users -> Nat]
        /\ total' \in Int
    BY <1>0, <2>0, UnsubscribeStep
  <2>3. TypeOK'
    BY <1>0, <1>4, <2>0, <2>2 DEF TypeOK, Work, ForceOne, SetDown
  <2>4. Places' /\ ClosedNotRegistered'
    BY <1>0, <1>4, <2>0, <2>2 DEF TypeOK, Places, ClosedNotRegistered, ForceOne, SetDown
  <2> QED
    BY <2>1, <2>3, <2>4 DEF IInv
<1>5. CASE ForceClose
  <2>0. down \in Work /\ closed
    BY <1>0, <1>5 DEF TypeOK, Places, ForceClose, SetDown
  <2>1. RegistryConsistent' /\ TotalExactBeforeReset' /\ LimitsHold'
    BY <1>5, <2>0, QuietKeeps DEF ForceClose, SetDown, registry, Work
  <2>2. TypeOK'
    BY <1>0, <1>5, <2>0 DEF TypeOK, Work, ForceClose, SetDown
  <2>3. Places' /\ ClosedNotRegistered'
    BY <1>0, <1>5, <2>0 DEF TypeOK, Work, Places, ClosedNotRegistered, ForceClose, SetDown
  <2> QED
    BY <2>1, <2>2, <2>3 DEF IInv
<1>6. CASE ShutdownReset
  <2>0. down \in Work /\ closed
    BY <1>0, <1>6 DEF TypeOK, Places, ShutdownReset, SetDown
  <2>1. down'.at = "returned"
    BY <1>6, <2>0 DEF ShutdownReset, SetDown, Work
  <2>2. RegistryConsistent'
    BY <1>0, <1>6 DEF RegistryConsistent, OfUser, OfTree, ShutdownReset, SetDown
  <2>3. TotalExactBeforeReset'
    BY <2>1 DEF TotalExactBeforeReset
  <2>4. LimitsHold'
    BY <1>0, <1>6, <2>1 DEF LimitsHold, OfUser, OfTree, ShutdownReset, SetDown
  <2>5. TypeOK'
    BY <1>0, <1>6, <2>0 DEF TypeOK, Work, ShutdownReset, SetDown
  <2>6. Places' /\ ClosedNotRegistered'
    BY <1>0, <1>6, <2>0 DEF TypeOK, Work, Places, ClosedNotRegistered, ShutdownReset, SetDown
  <2> QED
    BY <2>2, <2>3, <2>4, <2>5, <2>6 DEF IInv
<1> QED
  BY <1>1, <1>2, <1>3, <1>4, <1>5, <1>6 DEF Shutdown

-----------------------------------------------------------------------------
(* The theorems.                                                           *)

(* A new hub (NewHubWithConfig) has an empty registry.                     *)
LEMMA InitIInv == Init => IInv
<1> SUFFICES ASSUME Init PROVE IInv
  OBVIOUS
<1>1. TypeOK
  <2>1. Resting \in Work
    BY DEF Work, Resting
  <2>2. closed \in BOOLEAN /\ clients \subseteq Clients /\ shut \subseteq Clients
    BY DEF Init
  <2>3. subscribers \in [Trees -> SUBSET Clients]
    BY DEF Init
  <2>4. byUser \in [Users -> Nat] /\ total \in Int
    BY DEF Init
  <2>5. conn \in [Clients -> {"new", "admitted", "subscribing", "streaming", "refused", "gone"}]
    BY DEF Init
  <2>6. bcast \in [Broadcasters -> Work] /\ down \in Work
    BY <2>1 DEF Init
  <2> QED
    BY <2>2, <2>3, <2>4, <2>5, <2>6 DEF TypeOK
<1>2. /\ \A u \in Users : OfUser(u) = {}
      /\ \A t \in Trees : OfTree(t) = {}
  BY DEF Init, OfUser, OfTree
<1>3. Cardinality({}) = 0
  BY FS_EmptySet
<1>4. RegistryConsistent
  BY <1>2, <1>3 DEF Init, RegistryConsistent
<1>5. TotalExactBeforeReset
  BY <1>3 DEF Init, TotalExactBeforeReset
<1>6. LimitsHold
  <2>1. 0 =< PerUser /\ 0 =< PerTree /\ 0 =< Total
    BY LimitsAssumption
  <2>2. \A u \in Users : Cardinality(OfUser(u)) =< PerUser
    BY <1>2, <1>3, <2>1
  <2>3. \A t \in Trees : Cardinality(OfTree(t)) =< PerTree
    BY <1>2, <1>3, <2>1
  <2>4. Cardinality(clients) =< Total
    BY <1>3, <2>1 DEF Init
  <2> QED
    BY <2>2, <2>3, <2>4 DEF LimitsHold
<1>7. Places /\ ClosedNotRegistered
  BY DEF Init, Places, ClosedNotRegistered, Resting
<1> QED
  BY <1>1, <1>4, <1>5, <1>6, <1>7 DEF IInv

(* Every critical section of the hub, in any order and by any number of    *)
(* goroutines, keeps the inductive invariant.                              *)
LEMMA NextIInv == IInv /\ [Next]_vars => IInv'
<1> SUFFICES ASSUME IInv, [Next]_vars PROVE IInv'
  OBVIOUS
<1>1. ASSUME NEW c \in Clients, Connection(c) \/ HandlerReturn(c) PROVE IInv'
  BY <1>1, ConnectionStep
<1>2. ASSUME NEW b \in Broadcasters, BroadcastCheck(b) \/ Broadcast(b) PROVE IInv'
  BY <1>2, BroadcastStep
<1>3. CASE ShutdownBegin \/ Shutdown
  BY <1>3, ShutdownStep
<1>4. CASE UNCHANGED vars
  BY <1>4 DEF vars, IInv, TypeOK, Work, RegistryConsistent, OfUser, OfTree,
              TotalExactBeforeReset, LimitsHold, Places, ClosedNotRegistered
<1> QED
  BY <1>1, <1>2, <1>3, <1>4 DEF Next

(* The invariant holds in every state of the hub.                          *)
THEOREM HubInvariant == Spec => []IInv
  BY InitIInv, NextIInv, PTL DEF Spec

(* Types: no count of a user goes below zero (Unsubscribe's guard is never *)
(* needed for it), and no goroutine works on an unknown client.            *)
THEOREM HubTypeCorrect == Spec => []TypeOK
<1>1. IInv => TypeOK
  BY DEF IInv
<1> QED
  BY <1>1, HubInvariant, PTL

(* The hub's maps agree with each other, however Subscribe, the double     *)
(* Unsubscribe of dropped clients, Broadcast and Shutdown interleave.      *)
THEOREM RegistryConsistentAlways == Spec => []RegistryConsistent
<1>1. IInv => RegistryConsistent
  BY DEF IInv
<1> QED
  BY <1>1, HubInvariant, PTL

(* The lock-free count is the size of the registry until the shutdown ends.*)
THEOREM TotalExactAlways == Spec => []TotalExactBeforeReset
<1>1. IInv => TotalExactBeforeReset
  BY DEF IInv
<1> QED
  BY <1>1, HubInvariant, PTL

(* Subscribe's limits hold for any number of racing connections.           *)
THEOREM LimitsHoldAlways == Spec => []LimitsHold
<1>1. IInv => LimitsHold
  BY DEF IInv
<1> QED
  BY <1>1, HubInvariant, PTL

(* No client is registered once it is closed, by whomever.                 *)
THEOREM ClosedNotRegisteredAlways == Spec => []ClosedNotRegistered
<1>1. IInv => ClosedNotRegistered
  BY DEF IInv
<1> QED
  BY <1>1, HubInvariant, PTL
=============================================================================
