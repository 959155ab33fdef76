----------------------------- MODULE LiveProofs -----------------------------
(***************************************************************************)
(* Proofs about the start of the server, the relay hub, the gateway, the    *)
(* iteration monitor, the Hermes client and one SSE client: the safety part *)
(* of what the run of MCLive checks, for any number of runs, connections,   *)
(* calls, profiles and senders.  Each part has an inductive invariant, of   *)
(* which the properties of the run are conjuncts or consequences:           *)
(*                                                                         *)
(*   BtInv   a boot that goes on is not behind its own row                  *)
(*   RlInv   whoever removed a session from the map has still to publish    *)
(*           its end, and whoever emptied the map has to signal the drain   *)
(*   GwInv   the end of a run is the last event on its wire, and a registry *)
(*           that differs from the file has somebody about to write it      *)
(*   ItInv   a call carries the revision it read, which is no later one     *)
(*   HmCall, HmStream, HmRoutes  the three parts of the Hermes client       *)
(*   ClInv   what is written, in hand and queued counts on without a gap    *)
(*                                                                         *)
(* What must eventually happen stays with the run.                          *)
(***************************************************************************)
EXTENDS MCLive, FiniteSetTheorems, SequenceTheorems, TLAPS

-----------------------------------------------------------------------------
(* The start of the server *)

LEMMA NewestIs == Newest \in Binaries /\ Newest \in Nat /\ \A b \in Binaries : b \in 1 .. Newest
<1>1. Newest \in Binaries /\ \A c \in Binaries : c <= Newest
  BY BinaryAssumption DEF Newest
<1>. QED
  BY <1>1, BinaryAssumption

\* While a boot goes on, the row is not ahead of its binary; while a migration
\* runs, the row names it and is dirty, and after its body the schema has it,
\* unless some boot had to repair.  The user comes before its workspace.
BtRow ==
  /\ boot # "down" => ledger.version <= binary
  /\ boot \in {"body", "mark"} => ledger.dirty /\ ledger.version >= 1
  /\ boot = "mark" /\ ~repaired => ledger.version \in schema
  /\ ~repaired => repair = Off
  /\ boot = "user" => "user" \in provisioned

BtInv == BootTypeOK /\ ServingCurrent /\ RowTellsSchema /\ BtRow

LEMMA BtInvStep == BtInv /\ [BootNext]_bootVars => BtInv'
<1>. SUFFICES ASSUME BtInv, [BootNext]_bootVars PROVE BtInv'
  OBVIOUS
<1>a. /\ BootTypeOK /\ ServingCurrent /\ RowTellsSchema /\ BtRow
      /\ binary \in 1 .. Newest /\ Newest \in Nat
  BY NewestIs DEF BtInv, BootTypeOK
<1>b. PICK v \in 0 .. Newest, d \in BOOLEAN : ledger = [version |-> v, dirty |-> d]
  BY <1>a DEF BootTypeOK
<1>c. ledger.version = v /\ ledger.dirty = d
  BY <1>b
<1>1. CASE StartServer
  <2>. USE DEF StartServer, EmbeddedMaxVersion, SchemaVersion, Off
  <2>1. BootTypeOK'
    BY <1>1, <1>a, <1>b, <1>c, NewestIs DEF BootTypeOK, BtRow
  <2>2. ServingCurrent'
    BY <1>1, <1>a, <1>b, <1>c DEF ServingCurrent, BtRow, DevRows
  <2>3. RowTellsSchema'
    BY <1>1, <1>a, <1>b, <1>c DEF RowTellsSchema, BtRow, BootTypeOK
  <2>4. BtRow'
    BY <1>1, <1>a, <1>b, <1>c, NewestIs DEF BtRow, RowTellsSchema
  <2>. QED
    BY <2>1, <2>2, <2>3, <2>4 DEF BtInv
<1>2. CASE Kill
  <2>. USE DEF Kill, EmbeddedMaxVersion, SchemaVersion, Off
  <2>1. BootTypeOK'
    BY <1>2, <1>a, <1>b, <1>c DEF BootTypeOK, BtRow
  <2>2. ServingCurrent'
    BY <1>2, <1>a, <1>b, <1>c DEF ServingCurrent, BtRow, DevRows
  <2>3. RowTellsSchema'
    BY <1>2, <1>a, <1>b, <1>c DEF RowTellsSchema, BtRow, BootTypeOK
  <2>4. BtRow'
    BY <1>2, <1>a, <1>b, <1>c DEF BtRow, RowTellsSchema
  <2>. QED
    BY <2>1, <2>2, <2>3, <2>4 DEF BtInv
<1>3. CASE UpDirty
  <2>. USE DEF UpDirty, ForceVersion, EmbeddedMaxVersion, SchemaVersion, Off
  <2>0. PICK w \in 0 .. Newest, e \in BOOLEAN : ledger' = [version |-> w, dirty |-> e]
    <3>1. ledger' \in {[version |-> v, dirty |-> FALSE], [version |-> 0, dirty |-> FALSE], ledger}
      BY <1>3, <1>c
    <3>2. 0 \in 0 .. Newest /\ FALSE \in BOOLEAN
      BY <1>a
    <3>3. CASE ledger' = [version |-> v, dirty |-> FALSE]
      BY <3>3, <1>b
    <3>4. CASE ledger' = [version |-> 0, dirty |-> FALSE]
      BY <3>4, <3>2
    <3>5. CASE ledger' = ledger
      BY <3>5, <1>b
    <3>. QED
      BY <3>1, <3>3, <3>4, <3>5
  <2>e. ledger'.version = w /\ ledger'.dirty = e
    BY <2>0
  <2>1. BootTypeOK'
    BY <1>3, <1>a, <1>b, <1>c, <2>0, <2>e DEF BootTypeOK, BtRow
  <2>2. ServingCurrent'
    BY <1>3, <1>a, <1>b, <1>c, <2>0, <2>e DEF ServingCurrent, BtRow, DevRows
  <2>3. RowTellsSchema'
    BY <1>3, <1>a, <1>b, <1>c, <2>0, <2>e DEF RowTellsSchema, BtRow, BootTypeOK
  <2>4. BtRow'
    BY <1>3, <1>a, <1>b, <1>c, <2>0, <2>e DEF BtRow, RowTellsSchema
  <2>. QED
    BY <2>1, <2>2, <2>3, <2>4 DEF BtInv
<1>4. CASE UpNext
  <2>. USE DEF UpNext, EmbeddedMaxVersion, SchemaVersion, Off
  <2>0. PICK w \in 0 .. Newest, e \in BOOLEAN : ledger' = [version |-> w, dirty |-> e]
    <3>1. v < binary => v + 1 \in 0 .. Newest
      BY <1>a
    <3>2. \/ v < binary /\ ledger' = [version |-> v + 1, dirty |-> TRUE]
          \/ ledger' = ledger
      BY <1>4, <1>c
    <3>. QED
      BY <3>1, <3>2, <1>b
  <2>e. ledger'.version = w /\ ledger'.dirty = e
    BY <2>0
  <2>1. BootTypeOK'
    BY <1>4, <1>a, <1>b, <1>c, <2>0, <2>e DEF BootTypeOK, BtRow
  <2>2. ServingCurrent'
    <3>1. boot' = "migrated" => v >= binary /\ ledger' = ledger
      BY <1>4, <1>c
    <3>2. v <= binary /\ boot' # "serving" /\ boot' # "user" /\ provisioned' = provisioned /\ binary' = binary
      BY <1>4, <1>a, <1>c DEF BtRow
    <3>3. boot' = "migrated" => ledger' = [version |-> binary, dirty |-> FALSE]
      BY <3>1, <3>2, <1>4, <1>a, <1>b, <1>c
    <3>. QED
      BY <3>2, <3>3, <1>a DEF ServingCurrent
  <2>3. RowTellsSchema'
    BY <1>4, <1>a, <1>b, <1>c, <2>0, <2>e DEF RowTellsSchema, BtRow, BootTypeOK
  <2>4. BtRow'
    BY <1>4, <1>a, <1>b, <1>c, <2>0, <2>e DEF BtRow, RowTellsSchema
  <2>. QED
    BY <2>1, <2>2, <2>3, <2>4 DEF BtInv
<1>5. CASE RunBody
  <2>. USE DEF RunBody, EmbeddedMaxVersion, SchemaVersion, Off
  <2>1. BootTypeOK'
    BY <1>5, <1>a, <1>b, <1>c DEF BootTypeOK, BtRow
  <2>2. ServingCurrent'
    BY <1>5, <1>a, <1>b, <1>c DEF ServingCurrent, BtRow, DevRows
  <2>3. RowTellsSchema'
    BY <1>5, <1>a, <1>b, <1>c DEF RowTellsSchema, BtRow, BootTypeOK
  <2>4. BtRow'
    BY <1>5, <1>a, <1>b, <1>c DEF BtRow, RowTellsSchema
  <2>. QED
    BY <2>1, <2>2, <2>3, <2>4 DEF BtInv
<1>6. CASE MarkClean
  <2>. USE DEF MarkClean, EmbeddedMaxVersion, SchemaVersion, Off
  <2>0. PICK w \in 0 .. Newest, e \in BOOLEAN : ledger' = [version |-> w, dirty |-> e]
    BY <1>6, <1>a, <1>b, <1>c DEF BtRow
  <2>e. ledger'.version = w /\ ledger'.dirty = e
    BY <2>0
  <2>1. BootTypeOK'
    BY <1>6, <1>a, <1>b, <1>c, <2>0, <2>e DEF BootTypeOK, BtRow
  <2>2. ServingCurrent'
    BY <1>6, <1>a, <1>b, <1>c, <2>0, <2>e DEF ServingCurrent, BtRow, DevRows
  <2>3. RowTellsSchema'
    BY <1>6, <1>a, <1>b, <1>c, <2>0, <2>e DEF RowTellsSchema, BtRow, BootTypeOK
  <2>4. BtRow'
    BY <1>6, <1>a, <1>b, <1>c, <2>0, <2>e DEF BtRow, RowTellsSchema
  <2>. QED
    BY <2>1, <2>2, <2>3, <2>4 DEF BtInv
<1>7. CASE BodyFails
  <2>. USE DEF BodyFails, ForceVersion, EmbeddedMaxVersion, SchemaVersion, Off
  <2>0. PICK w \in 0 .. Newest, e \in BOOLEAN : ledger' = [version |-> w, dirty |-> e]
    <3>2. \/ ~(v >= binary) /\ ledger' = [version |-> v + 1, dirty |-> FALSE]
          \/ ledger' = [version |-> v, dirty |-> FALSE]
          \/ ledger' = ledger
      BY <1>7, <1>c
    <3>3. ~(v >= binary) => v + 1 \in 0 .. Newest
      BY <1>a
    <3>. QED
      BY <3>2, <3>3, <1>b
  <2>e. ledger'.version = w /\ ledger'.dirty = e
    BY <2>0
  <2>1. BootTypeOK'
    BY <1>7, <1>a, <1>b, <1>c, <2>0, <2>e DEF BootTypeOK, BtRow
  <2>2. ServingCurrent'
    <3>1. boot' = "migrated" => v >= binary /\ ledger' = [version |-> v, dirty |-> FALSE]
      BY <1>7, <1>c
    <3>2. v <= binary /\ boot' # "serving" /\ boot' # "user" /\ provisioned' = provisioned /\ binary' = binary
      BY <1>7, <1>a, <1>c DEF BtRow
    <3>3. boot' = "migrated" => ledger' = [version |-> binary, dirty |-> FALSE]
      BY <3>1, <3>2, <1>a, <1>b, <1>c
    <3>. QED
      BY <3>2, <3>3, <1>a DEF ServingCurrent
  <2>3. RowTellsSchema'
    BY <1>7, <1>a, <1>b, <1>c, <2>0, <2>e DEF RowTellsSchema, BtRow, BootTypeOK
  <2>4. BtRow'
    BY <1>7, <1>a, <1>b, <1>c, <2>0, <2>e DEF BtRow, RowTellsSchema
  <2>. QED
    BY <2>1, <2>2, <2>3, <2>4 DEF BtInv
<1>8. CASE EnsureDevJWTUser
  <2>. USE DEF EnsureDevJWTUser, EmbeddedMaxVersion, SchemaVersion, Off
  <2>1. BootTypeOK'
    BY <1>8, <1>a, <1>b, <1>c DEF BootTypeOK, BtRow
  <2>2. ServingCurrent'
    BY <1>8, <1>a, <1>b, <1>c DEF ServingCurrent, BtRow, DevRows
  <2>3. RowTellsSchema'
    BY <1>8, <1>a, <1>b, <1>c DEF RowTellsSchema, BtRow, BootTypeOK
  <2>4. BtRow'
    BY <1>8, <1>a, <1>b, <1>c DEF BtRow, RowTellsSchema
  <2>. QED
    BY <2>1, <2>2, <2>3, <2>4 DEF BtInv
<1>9. CASE EnsureDevWorkspaceProfile
  <2>. USE DEF EnsureDevWorkspaceProfile, EmbeddedMaxVersion, SchemaVersion, Off
  <2>1. BootTypeOK'
    BY <1>9, <1>a, <1>b, <1>c DEF BootTypeOK, BtRow
  <2>2. ServingCurrent'
    <3>1. provisioned' = provisioned \cup DevRows /\ "user" \in provisioned /\ provisioned \subseteq {"user"} \cup DevRows
      BY <1>9, <1>a DEF BtRow, BootTypeOK
    <3>2. provisioned' = {"user"} \cup DevRows
      BY <3>1
    <3>3. provisioned' \cap DevRows = DevRows
      BY <3>1
    <3>4. ledger' = [version |-> binary', dirty |-> FALSE]
      BY <1>9, <1>a DEF ServingCurrent
    <3>. QED
      BY <3>2, <3>3, <3>4 DEF ServingCurrent
  <2>3. RowTellsSchema'
    BY <1>9, <1>a, <1>b, <1>c DEF RowTellsSchema, BtRow, BootTypeOK
  <2>4. BtRow'
    BY <1>9, <1>a, <1>b, <1>c DEF BtRow, RowTellsSchema
  <2>. QED
    BY <2>1, <2>2, <2>3, <2>4 DEF BtInv
<1>10. CASE UNCHANGED bootVars
  BY <1>10, <1>a DEF bootVars, BtInv, BootTypeOK, ServingCurrent, RowTellsSchema, BtRow,
     EmbeddedMaxVersion, DevRows
<1>. QED
  BY <1>1, <1>2, <1>3, <1>4, <1>5, <1>6, <1>7, <1>8, <1>9, <1>10 DEF BootNext, BootStep

LEMMA BootStarts == BootInit => BtInv
<1>. SUFFICES ASSUME BootInit PROVE BtInv
  OBVIOUS
<1>1. binary \in Binaries /\ Newest \in Nat /\ ledger.version = 0 /\ ledger.dirty = FALSE /\ schema = {} /\ provisioned = {}
  BY NewestIs DEF BootInit, Off
<1>2. BootTypeOK
  <2>1. repair = -1 /\ repaired = FALSE /\ boot = "down" /\ ledger = [version |-> 0, dirty |-> FALSE]
    BY DEF BootInit, Off
  <2>2. ledger \in [version : 0 .. Newest, dirty : BOOLEAN]
    BY <1>1, <2>1
  <2>3. repair \in Off .. Newest
    BY <1>1, <2>1 DEF Off
  <2>. QED
    BY <1>1, <2>1, <2>2, <2>3 DEF BootTypeOK
<1>3. ServingCurrent
  BY <1>1 DEF BootInit, ServingCurrent
<1>4. RowTellsSchema
  BY <1>1 DEF BootInit, RowTellsSchema
<1>5. BtRow
  BY <1>1, NewestIs DEF BootInit, BtRow
<1>. QED
  BY <1>2, <1>3, <1>4, <1>5 DEF BtInv

\* The start, kills at any point and starts of other binaries included.
THEOREM BootInvariant == BootSpec => []BtInv
  BY BootStarts, BtInvStep, PTL DEF BootSpec

-----------------------------------------------------------------------------
(* The relay hub *)

\* Where a remover stands and whose session it removes.  A session's end is
\* published by the one remover whose closeOnce ran, after it took the session
\* out of the map; whoever has to signal the drain is that remover.
RlTypes ==
  /\ peer \in [RelayConns -> {"none", "hello", "opened", "serving", "remove", "delete", "publish", "over"}]
  /\ closer \in [pc : {"idle", "remove", "delete", "publish", "over"}, conn : RelayConns \cup {"none"}]
  /\ (closer.pc # "idle" => closer.conn \in RelayConns)
  /\ sessions \subseteq RelayConns /\ closedOnce \subseteq RelayConns
  /\ signaller \subseteq Removers /\ doomed \subseteq RelayConns
  /\ ended \in [RelayConns -> Nat]
  /\ listening \in BOOLEAN /\ drainDone \in BOOLEAN

Deleting(k) == peer[k] \in {"delete", "publish"} \/ (closer.pc \in {"delete", "publish"} /\ closer.conn = k)

RlEnds ==
  \A k \in RelayConns :
    /\ peer[k] \in {"none", "hello"} => k \notin sessions /\ k \notin closedOnce /\ ended[k] = 0
    /\ (closer.pc # "idle" /\ closer.conn = k => peer[k] \notin {"none", "hello"})
    /\ Deleting(k) => k \in closedOnce /\ ended[k] = 0
    /\ ~(peer[k] \in {"delete", "publish"} /\ closer.pc \in {"delete", "publish"} /\ closer.conn = k)
    /\ (peer[k] = "publish" \/ (closer.pc = "publish" /\ closer.conn = k) => k \notin sessions)
    /\ k \notin closedOnce => ended[k] = 0
    /\ k \in sessions => ended[k] = 0
    /\ ended[k] <= 1

RlDrain ==
  /\ drainDone => ~listening
  /\ \A x \in signaller : ~listening /\ sessions = {}
  /\ DrainedMeansEmpty /\ DrainSignalled

RlInv == RlTypes /\ RlEnds /\ RlDrain /\ Cardinality(sessions) <= SessionLimit

\* A remover moves, and nobody else.
LEMMA RlGoto ==
  ASSUME RlTypes, NEW x \in Removers, NEW pc \in {"delete", "publish", "over"}, RelayGoto(x, pc)
  PROVE  \/ x = "operator" /\ closer' = [pc |-> pc, conn |-> closer.conn] /\ peer' = peer
         \/ x \in RelayConns /\ peer' = [peer EXCEPT ![x] = pc] /\ closer' = closer
<1>1. CASE x = "operator"
  <2>1. closer' = [closer EXCEPT !.pc = pc] /\ peer' = peer
    BY <1>1 DEF RelayGoto
  <2>2. closer' = [pc |-> pc, conn |-> closer.conn]
    BY <2>1 DEF RlTypes
  <2>. QED
    BY <1>1, <2>1, <2>2
<1>2. CASE x # "operator"
  BY <1>2 DEF RelayGoto, Removers
<1>. QED
  BY <1>1, <1>2

LEMMA RlStep == RlInv /\ [RelayNext]_relayVars => RlInv'
<1>. SUFFICES ASSUME RlInv, [RelayNext]_relayVars PROVE RlInv'
  OBVIOUS
<1>. USE RelayAssumption
<1>a. RlTypes /\ RlEnds /\ RlDrain /\ Cardinality(sessions) <= SessionLimit /\ IsFiniteSet(sessions)
  BY FS_Subset DEF RlInv, RlTypes
<1>1. ASSUME NEW k \in RelayConns, Connect(k) PROVE RlInv'
  <2>1. RlTypes'
    BY <1>1, <1>a DEF Connect, RlTypes
  <2>2. RlEnds'
    BY <1>1, <1>a DEF Connect, RlTypes, RlEnds, Deleting
  <2>3. RlDrain'
    BY <1>1, <1>a DEF Connect, RlDrain, DrainedMeansEmpty, DrainSignalled
  <2>4. Cardinality(sessions)' <= SessionLimit
    BY <1>1, <1>a DEF Connect
  <2>. QED
    BY <2>1, <2>2, <2>3, <2>4 DEF RlInv
<1>2. ASSUME NEW k \in RelayConns, HelloFails(k) PROVE RlInv'
  <2>1. RlTypes'
    BY <1>2, <1>a DEF HelloFails, RlTypes
  <2>2. RlEnds'
    BY <1>2, <1>a DEF HelloFails, RlTypes, RlEnds, Deleting
  <2>3. RlDrain'
    BY <1>2, <1>a DEF HelloFails, RlDrain, DrainedMeansEmpty, DrainSignalled
  <2>4. Cardinality(sessions)' <= SessionLimit
    BY <1>2, <1>a DEF HelloFails
  <2>. QED
    BY <2>1, <2>2, <2>3, <2>4 DEF RlInv
<1>3. ASSUME NEW k \in RelayConns, Register(k) PROVE RlInv'
  <2>1. RlTypes'
    BY <1>3, <1>a DEF Register, RlTypes
  <2>2. RlEnds'
    BY <1>3, <1>a DEF Register, RlTypes, RlEnds, Deleting
  <2>3. RlDrain'
    BY <1>3, <1>a DEF Register, RlDrain, DrainedMeansEmpty, DrainSignalled
  <2>4. Cardinality(sessions)' <= SessionLimit
    <3>1. PICK n \in Nat : n = Cardinality(sessions)
      BY <1>a, FS_CardinalityType
    <3>2. Cardinality(sessions \cup {k}) \in {n, n + 1}
      BY <1>a, <3>1, FS_AddElement
    <3>3. \/ sessions' = sessions \cup {k} /\ n < SessionLimit
          \/ sessions' = sessions
      BY <1>3, <3>1 DEF Register
    <3>4. PICK m \in {n, n + 1} : m = Cardinality(sessions \cup {k})
      BY <3>2
    <3>5. CASE sessions' = sessions
      BY <3>5, <1>a
    <3>6. CASE sessions' = sessions \cup {k} /\ n < SessionLimit
      <4>1. m <= SessionLimit
        BY <3>6, <3>4
      <4>. QED
        BY <4>1, <3>6, <3>4
    <3>. QED
      BY <3>3, <3>5, <3>6
  <2>. QED
    BY <2>1, <2>2, <2>3, <2>4 DEF RlInv
<1>4. ASSUME NEW k \in RelayConns, Acknowledge(k) PROVE RlInv'
  <2>1. RlTypes'
    BY <1>4, <1>a DEF Acknowledge, RlTypes
  <2>2. RlEnds'
    BY <1>4, <1>a DEF Acknowledge, RlTypes, RlEnds, Deleting
  <2>3. RlDrain'
    BY <1>4, <1>a DEF Acknowledge, RlDrain, DrainedMeansEmpty, DrainSignalled
  <2>4. Cardinality(sessions)' <= SessionLimit
    BY <1>4, <1>a DEF Acknowledge
  <2>. QED
    BY <2>1, <2>2, <2>3, <2>4 DEF RlInv
<1>5. ASSUME NEW k \in RelayConns, StopServing(k) PROVE RlInv'
  <2>1. RlTypes'
    BY <1>5, <1>a DEF StopServing, RlTypes
  <2>2. RlEnds'
    BY <1>5, <1>a DEF StopServing, RlTypes, RlEnds, Deleting
  <2>3. RlDrain'
    BY <1>5, <1>a DEF StopServing, RlDrain, DrainedMeansEmpty, DrainSignalled
  <2>4. Cardinality(sessions)' <= SessionLimit
    BY <1>5, <1>a DEF StopServing
  <2>. QED
    BY <2>1, <2>2, <2>3, <2>4 DEF RlInv
<1>6. ASSUME NEW k \in RelayConns, CloseSession(k) PROVE RlInv'
  <2>1. RlTypes'
    BY <1>6, <1>a DEF CloseSession, RlTypes
  <2>2. RlEnds'
    BY <1>6, <1>a DEF CloseSession, RlTypes, RlEnds, Deleting
  <2>3. RlDrain'
    BY <1>6, <1>a DEF CloseSession, RlDrain, DrainedMeansEmpty, DrainSignalled
  <2>4. Cardinality(sessions)' <= SessionLimit
    BY <1>6, <1>a DEF CloseSession
  <2>. QED
    BY <2>1, <2>2, <2>3, <2>4 DEF RlInv
<1>7. ASSUME NEW x \in Removers, CloseOnce(x) PROVE RlInv'
  <2>0. PICK pc \in {"delete", "over"} : pc = IF Target(x) \in closedOnce THEN "over" ELSE "delete"
    OBVIOUS
  <2>a. \/ x = "operator" /\ closer' = [pc |-> pc, conn |-> closer.conn] /\ peer' = peer
        \/ x \in RelayConns /\ peer' = [peer EXCEPT ![x] = pc] /\ closer' = closer
    BY <1>7, <1>a, <2>0, RlGoto DEF CloseOnce
  <2>b. PICK k \in RelayConns : k = Target(x) /\ (x # "operator" => k = x) /\ (x = "operator" => k = closer.conn)
    BY <1>7, <1>a DEF CloseOnce, PeerAt, Target, Removers, RlTypes
  <2>1. RlTypes'
    BY <1>7, <1>a, <2>0, <2>a, <2>b DEF CloseOnce, RlTypes
  <2>2. RlEnds'
    BY <1>7, <1>a, <2>0, <2>a, <2>b DEF CloseOnce, PeerAt, RlTypes, RlEnds, Deleting
  <2>3. RlDrain'
    BY <1>7, <1>a DEF CloseOnce, RlDrain, DrainedMeansEmpty, DrainSignalled
  <2>4. Cardinality(sessions)' <= SessionLimit
    BY <1>7, <1>a DEF CloseOnce
  <2>. QED
    BY <2>1, <2>2, <2>3, <2>4 DEF RlInv
<1>8. ASSUME NEW x \in Removers, DeleteSession(x) PROVE RlInv'
  <2>a. \/ x = "operator" /\ closer' = [pc |-> "publish", conn |-> closer.conn] /\ peer' = peer
        \/ x \in RelayConns /\ peer' = [peer EXCEPT ![x] = "publish"] /\ closer' = closer
    BY <1>8, <1>a, RlGoto DEF DeleteSession
  <2>b. PICK k \in RelayConns : k = Target(x) /\ (x # "operator" => k = x) /\ (x = "operator" => k = closer.conn)
    BY <1>8, <1>a DEF DeleteSession, PeerAt, Target, Removers, RlTypes
  <2>1. RlTypes'
    BY <1>8, <1>a, <2>a, <2>b DEF DeleteSession, RlTypes
  <2>2. RlEnds'
    BY <1>8, <1>a, <2>a, <2>b DEF DeleteSession, PeerAt, RlTypes, RlEnds, Deleting
  <2>3. RlDrain'
    BY <1>8, <1>a DEF DeleteSession, RlDrain, DrainedMeansEmpty, DrainSignalled
  <2>4. Cardinality(sessions)' <= SessionLimit
    BY <1>8, <1>a, FS_Subset, FS_CardinalityType DEF DeleteSession
  <2>. QED
    BY <2>1, <2>2, <2>3, <2>4 DEF RlInv
<1>9. ASSUME NEW x \in Removers, PublishAndSignal(x) PROVE RlInv'
  <2>a. \/ x = "operator" /\ closer' = [pc |-> "over", conn |-> closer.conn] /\ peer' = peer
        \/ x \in RelayConns /\ peer' = [peer EXCEPT ![x] = "over"] /\ closer' = closer
    BY <1>9, <1>a, RlGoto DEF PublishAndSignal
  <2>b. PICK k \in RelayConns : k = Target(x) /\ (x # "operator" => k = x) /\ (x = "operator" => k = closer.conn)
    BY <1>9, <1>a DEF PublishAndSignal, PeerAt, Target, Removers, RlTypes
  <2>1. RlTypes'
    BY <1>9, <1>a, <2>a, <2>b DEF PublishAndSignal, RlTypes
  <2>2. RlEnds'
    BY <1>9, <1>a, <2>a, <2>b DEF PublishAndSignal, PeerAt, RlTypes, RlEnds, Deleting
  <2>3. RlDrain'
    BY <1>9, <1>a DEF PublishAndSignal, RlDrain, DrainedMeansEmpty, DrainSignalled
  <2>4. Cardinality(sessions)' <= SessionLimit
    BY <1>9, <1>a DEF PublishAndSignal
  <2>. QED
    BY <2>1, <2>2, <2>3, <2>4 DEF RlInv
<1>10. CASE StopAccepting
  BY <1>10, <1>a DEF StopAccepting, RlInv, RlTypes, RlEnds, RlDrain, Deleting, DrainedMeansEmpty,
     DrainSignalled
<1>11. CASE NotifyShutdown
  BY <1>11, <1>a DEF NotifyShutdown, RlInv, RlTypes, RlEnds, RlDrain, Deleting, DrainedMeansEmpty,
     DrainSignalled
<1>12. CASE DrainEnds
  BY <1>12, <1>a DEF DrainEnds, RlInv, RlTypes, RlEnds, RlDrain, Deleting, DrainedMeansEmpty,
     DrainSignalled
<1>13. CASE CloseCopies
  BY <1>13, <1>a DEF CloseCopies, RlInv, RlTypes, RlEnds, RlDrain, Deleting, DrainedMeansEmpty,
     DrainSignalled
<1>14. CASE CloseConns
  BY <1>14, <1>a DEF CloseConns, RlInv, RlTypes, RlEnds, RlDrain, Deleting, DrainedMeansEmpty,
     DrainSignalled
<1>15. CASE CloseWaits
  BY <1>15, <1>a DEF CloseWaits, RlInv, RlTypes, RlEnds, RlDrain, Deleting, DrainedMeansEmpty,
     DrainSignalled
<1>16. CASE UNCHANGED relayVars
  BY <1>16, <1>a DEF relayVars, RlInv, RlTypes, RlEnds, RlDrain, Deleting, DrainedMeansEmpty,
     DrainSignalled
<1>. QED
  BY <1>1, <1>2, <1>3, <1>4, <1>5, <1>6, <1>7, <1>8, <1>9, <1>10, <1>11, <1>12, <1>13, <1>14,
     <1>15, <1>16
  DEF RelayNext, ServeStep, RemoveStep, ShutdownStep

\* The sessions of the relay, drained and closed by whoever comes first.
THEOREM RelayInvariant == RelaySpec => []RlInv
<1>1. RelayInit => RlInv
  <2>. SUFFICES ASSUME RelayInit PROVE RlInv
    OBVIOUS
  <2>1. RlTypes
    BY RelayAssumption DEF RelayInit, RlTypes
  <2>2. RlEnds
    BY DEF RelayInit, RlEnds, Deleting
  <2>3. RlDrain
    BY DEF RelayInit, RlDrain, DrainedMeansEmpty, DrainSignalled
  <2>4. Cardinality(sessions) <= SessionLimit
    BY RelayAssumption, FS_EmptySet DEF RelayInit
  <2>. QED
    BY <2>1, <2>2, <2>3, <2>4 DEF RlInv
<1>. QED
  BY <1>1, RlStep, PTL DEF RelaySpec

-----------------------------------------------------------------------------
(* The gateway *)

GwEvents == {"completed", "failed", "delta", "approval"}

GwStatus == {"absent", "started", "running", "waiting_for_approval", "stopping",
             "completed", "failed", "disconnected", "not_found"}

GwSaves == {"sink", "persist_reading", "persist_ending", "persist_none"}

GwStream == [pc : {"off", "subscribed", "late", "replayed", "complete", "live", "left", "panicked"},
             run : GwRuns \cup {"none"}, owed : BOOLEAN, chan : 0 .. SubBuffer,
             fresh : BOOLEAN, open : BOOLEAN]

GwTypes ==
  /\ remote \in [GwRuns -> {"none", "running", "completed", "failed", "gone"}]
  /\ wire \in [GwRuns -> [events : Seq(GwEvents), end : {"no", "eof", "error"}]]
  /\ registry \in [GwRuns -> GwStatus] /\ disk \in [GwRuns -> GwStatus]
  /\ gwCall \in [GwCalls -> [pc : {"idle", "persist", "ask", "stopping", "notfound"},
                             run : GwRuns \cup {"none"}, known : BOOLEAN]]
  /\ \A c \in GwCalls : gwCall[c].pc \in {"ask", "stopping", "notfound"} => gwCall[c].run \in GwRuns
  /\ observer \in [GwRuns -> {"none", "reading", "ending"} \cup GwSaves]
  /\ browser \in [Browsers -> GwStream]
  /\ life \in {"open", "closing", "closed", "down"}
  /\ gwReplies \in [GwRuns -> Nat]

Unended(r) == remote[r] \in {"none", "running"}

\* Nothing is known of a run before it starts, and nothing is kept in memory by
\* a process that is down.
GwKnown ==
  /\ \A r \in GwRuns : remote[r] = "none" => registry[r] = "absent" /\ disk[r] = "absent"
  /\ life = "down" => \A r \in GwRuns : registry[r] = "absent" /\ observer[r] = "none"

\* The end of a run is the last event sent; it is noted, and its output posted,
\* at most once.
GwEndsOnce ==
  \A r \in GwRuns :
    /\ \A i \in 1 .. Len(wire[r].events) :
          wire[r].events[i] \in GwFinal
             => i = Len(wire[r].events) /\ ~Unended(r) /\ gwReplies[r] = 0 /\ observer[r] # "sink"
    /\ Unended(r) => gwReplies[r] = 0
    /\ observer[r] = "sink" => ~Unended(r) /\ gwReplies[r] = 0
    /\ gwReplies[r] <= 1

\* A run noted as over has nothing left to be read.
GwOver ==
  \A r \in GwRuns :
    registry[r] \in GwFinal \cup {"disconnected"} /\ observer[r] \in {"reading", "sink", "persist_reading"}
       => wire[r].events = <<>> /\ ~Unended(r)

\* A registry that differs from its file is about to be written.
GwSaved ==
  life = "open" =>
    \/ disk = registry
    \/ \E c \in GwCalls : gwCall[c].pc = "persist"
    \/ \E r \in GwRuns : observer[r] \in GwSaves

GwLive ==
  \A b \in Browsers :
    /\ browser[b].pc # "late"
    /\ browser[b].pc \in {"replayed", "complete", "live"} /\ browser[b].open => ~browser[b].owed

GwInv == GwTypes /\ GwKnown /\ GwEndsOnce /\ GwOver /\ GwSaved /\ GwLive

\* What noting an event may change: the status of its run, where its observer
\* goes, and the streams of its browsers.
GwNoted(r, e, onward) ==
  \E st \in GwStatus, o \in {"sink", onward, persistThen[onward]} :
    /\ registry' = [registry EXCEPT ![r] = st] /\ observer' = [observer EXCEPT ![r] = o]
    /\ o = "sink" => e = "completed"
    /\ st # registry[r] => o \in GwSaves
    /\ registry[r] = "absent" => st = "absent"
    /\ st \in GwFinal \cup {"disconnected"} /\ st # registry[r] => e \in GwFinal \cup {"observe_error", "stream_closed"}
    /\ st = "disconnected" /\ st # registry[r] => e = "stream_closed"
    /\ registry[r] \in GwFinal \cup {"disconnected"} /\ e \in {"stream_closed", "observe_error"} \cup GwFinal
         => st \in GwFinal \cup {"disconnected"}
    /\ browser' = browser \/ browser' = FanOut(r)

LEMMA GwNote ==
  ASSUME GwTypes, NEW r \in GwRuns, NEW e \in GwEvents \cup {"observe_error", "stream_closed"},
         NEW onward \in {"reading", "ending", "none"}, noteEvent(r, e, onward)
  PROVE  GwNoted(r, e, onward)
<1>. DEFINE ignored == \/ registry[r] = "absent"
                       \/ e = "stream_closed" /\ (IsTerminal(registry[r]) \/ registry[r] = "stopping")
            st == StatusAfter(registry[r], e)
<1>1. CASE ignored
  <2>1. registry' = registry /\ browser' = browser /\ observer' = [observer EXCEPT ![r] = onward]
    BY <1>1 DEF noteEvent
  <2>2. registry' = [registry EXCEPT ![r] = registry[r]] /\ registry[r] \in GwStatus
    BY <2>1 DEF GwTypes
  <2>3. registry[r] \in GwFinal \cup {"disconnected"} => registry[r] \in GwFinal \cup {"disconnected"}
    OBVIOUS
  <2>4. onward # "sink"
    OBVIOUS
  <2>. QED
    BY <2>1, <2>2, <2>3, <2>4 DEF GwNoted
<1>2. CASE ~ignored
  <2>1. /\ registry' = [registry EXCEPT ![r] = st] /\ browser' = FanOut(r)
        /\ observer' = [observer EXCEPT ![r] =
              IF e = "completed" THEN "sink" ELSE IF st # registry[r] THEN persistThen[onward] ELSE onward]
    BY <1>2 DEF noteEvent
  <2>2. registry[r] \in GwStatus
    BY DEF GwTypes
  <2>3. st \in GwStatus /\ (st \in GwFinal \cup {"disconnected"} /\ st # registry[r] => e \in GwFinal \cup {"observe_error", "stream_closed"})
        /\ (st = "disconnected" /\ st # registry[r] => e = "stream_closed")
        /\ (e \in {"stream_closed", "observe_error"} \cup GwFinal => st \in GwFinal \cup {"disconnected"})
    BY <2>2 DEF StatusAfter, GwStatus, GwFinal, GwEvents
  <2>4. PICK o \in {"sink", onward, persistThen[onward]} :
          o = IF e = "completed" THEN "sink" ELSE IF st # registry[r] THEN persistThen[onward] ELSE onward
    OBVIOUS
  <2>5. persistThen[onward] \in GwSaves /\ onward # "sink" /\ persistThen[onward] # "sink"
    BY DEF persistThen, GwSaves
  <2>6. (o = "sink" => e = "completed") /\ (st # registry[r] => o \in GwSaves)
    BY <2>4, <2>5 DEF GwSaves
  <2>7. registry[r] # "absent" /\ observer' = [observer EXCEPT ![r] = o]
    BY <1>2, <2>1, <2>4
  <2>. HIDE DEF st
  <2>. QED
    BY <2>1, <2>3, <2>6, <2>7 DEF GwNoted
<1>. QED
  BY <1>1, <1>2

\* Whatever a browser is sent, its stream stays well formed, and one that is
\* still open is owed no more than before.
LEMMA GwFanned ==
  ASSUME GwTypes, NEW r \in GwRuns
  PROVE  /\ FanOut(r) \in [Browsers -> GwStream]
         /\ \A b \in Browsers :
              /\ FanOut(r)[b].pc = browser[b].pc
              /\ FanOut(r)[b].open => browser[b].open /\ FanOut(r)[b].owed = browser[b].owed
<1>. SUFFICES ASSUME NEW b \in Browsers
              PROVE  /\ FanOut(r)[b] \in GwStream /\ FanOut(r)[b].pc = browser[b].pc
                     /\ FanOut(r)[b].open => browser[b].open /\ FanOut(r)[b].owed = browser[b].owed
  BY DEF FanOut
<1>1. PICK s \in GwStream : s = browser[b]
  BY DEF GwTypes
<1>2. FanOut(r)[b] = IF s.run # r THEN s
                     ELSE IF ~s.open THEN [s EXCEPT !.owed = TRUE]
                     ELSE IF s.chan < SubBuffer THEN [s EXCEPT !.chan = @ + 1, !.fresh = TRUE]
                     ELSE [s EXCEPT !.open = FALSE, !.owed = TRUE]
  BY <1>1 DEF FanOut
<1>3. PICK n \in 0 .. SubBuffer : n = s.chan
  BY <1>1 DEF GwStream
<1>4. s.pc = browser[b].pc /\ s.open = browser[b].open /\ s.owed = browser[b].owed
  BY <1>1
<1>5. CASE s.run # r
  BY <1>1, <1>2, <1>4, <1>5
<1>6. CASE s.run = r /\ ~s.open
  BY <1>1, <1>2, <1>4, <1>6 DEF GwStream
<1>7. CASE s.run = r /\ s.open /\ n < SubBuffer
  <2>1. FanOut(r)[b] = [s EXCEPT !.chan = n + 1, !.fresh = TRUE] /\ n + 1 \in 0 .. SubBuffer
    BY <1>2, <1>3, <1>7, GatewayAssumption
  <2>. QED
    BY <1>1, <1>4, <2>1 DEF GwStream
<1>8. CASE s.run = r /\ s.open /\ ~(n < SubBuffer)
  <2>1. FanOut(r)[b] = [s EXCEPT !.open = FALSE, !.owed = TRUE]
    BY <1>2, <1>3, <1>8
  <2>. QED
    BY <1>1, <1>4, <2>1 DEF GwStream
<1>. QED
  BY <1>5, <1>6, <1>7, <1>8

LEMMA GwStep == GwInv /\ [GatewayNext]_gwVars => GwInv'
<1>. SUFFICES ASSUME GwInv, [GatewayNext]_gwVars PROVE GwInv'
  OBVIOUS
<1>a. GwTypes /\ GwKnown /\ GwEndsOnce /\ GwOver /\ GwSaved /\ GwLive
  BY DEF GwInv
<1>1. ASSUME NEW r \in GwRuns, NEW e \in GwEvents, RemoteEmits(r, e) PROVE GwInv'
  <2>1. GwTypes'
    <3>1. PICK q \in Seq(GwEvents), h \in {"no", "eof", "error"} : wire[r] = [events |-> q, end |-> h]
      BY <1>a DEF GwTypes
    <3>0. PICK p \in Seq(GwEvents) : p = Append(q, e)
      <4>1. Append(q, e) \in Seq(GwEvents)
        BY <1>1
      <4>. QED
        BY <4>1
    <3>2. wire' \in {[wire EXCEPT ![r] = [events |-> p, end |-> h]], wire}
      <4>1. wire' \in {[wire EXCEPT ![r].events = Append(@, e)], wire}
        BY <1>1 DEF RemoteEmits
      <4>2. [wire EXCEPT ![r].events = Append(@, e)] = [wire EXCEPT ![r].events = p]
        BY <3>0, <3>1
      <4>3. [[events |-> q, end |-> h] EXCEPT !.events = p] = [events |-> p, end |-> h]
        OBVIOUS
      <4>4. [wire EXCEPT ![r].events = p] = [wire EXCEPT ![r] = [wire[r] EXCEPT !.events = p]]
        OBVIOUS
      <4>. QED
        BY <3>1, <4>1, <4>2, <4>3, <4>4
    <3>3. [events |-> p, end |-> h] \in [events : Seq(GwEvents), end : {"no", "eof", "error"}]
      OBVIOUS
    <3>4. wire' \in [GwRuns -> [events : Seq(GwEvents), end : {"no", "eof", "error"}]]
      BY <1>a, <3>2, <3>3 DEF GwTypes
    <3>5. remote' \in [GwRuns -> {"none", "running", "completed", "failed", "gone"}]
      BY <1>1, <1>a DEF RemoteEmits, GwTypes, GwFinal
    <3>. QED
      BY <1>1, <1>a, <3>4, <3>5 DEF RemoteEmits, GwTypes
  <2>2. GwKnown'
    BY <1>1, <1>a DEF RemoteEmits, GwFinal, GwEvents, GwKnown, GwTypes
  <2>3. GwEndsOnce'
    BY <1>1, <1>a DEF RemoteEmits, GwFinal, GwEvents, GwEndsOnce, GwTypes, Unended
  <2>4. GwOver'
    BY <1>1, <1>a DEF RemoteEmits, GwFinal, GwEvents, GwOver, GwTypes, Unended
  <2>5. GwSaved'
    BY <1>1, <1>a DEF RemoteEmits, GwFinal, GwEvents, GwSaved, GwTypes, GwSaves
  <2>6. GwLive'
    BY <1>1, <1>a DEF RemoteEmits, GwFinal, GwEvents, GwLive, GwTypes, GwStream
  <2>. QED
    BY <2>1, <2>2, <2>3, <2>4, <2>5, <2>6 DEF GwInv
<1>2. ASSUME NEW r \in GwRuns, NEW how \in {"eof", "error"}, StreamEnds(r, how) PROVE GwInv'
  <2>1. GwTypes'
    <3>1. PICK q \in Seq(GwEvents), h \in {"no", "eof", "error"} : wire[r] = [events |-> q, end |-> h]
      BY <1>a DEF GwTypes
    <3>2. wire' = [wire EXCEPT ![r] = [events |-> q, end |-> how]]
      <4>1. wire' = [wire EXCEPT ![r].end = how]
        BY <1>2 DEF StreamEnds
      <4>2. [[events |-> q, end |-> h] EXCEPT !.end = how] = [events |-> q, end |-> how]
        OBVIOUS
      <4>3. [wire EXCEPT ![r].end = how] = [wire EXCEPT ![r] = [wire[r] EXCEPT !.end = how]]
        OBVIOUS
      <4>. QED
        BY <3>1, <4>1, <4>2, <4>3
    <3>3. [events |-> q, end |-> how] \in [events : Seq(GwEvents), end : {"no", "eof", "error"}]
      BY <1>2, <3>1
    <3>4. wire' \in [GwRuns -> [events : Seq(GwEvents), end : {"no", "eof", "error"}]]
      BY <1>a, <3>2, <3>3 DEF GwTypes
    <3>. QED
      BY <1>2, <1>a, <3>4 DEF StreamEnds, GwTypes
  <2>2. GwKnown'
    BY <1>2, <1>a DEF StreamEnds, GwKnown, GwTypes
  <2>3. GwEndsOnce'
    BY <1>2, <1>a DEF StreamEnds, GwEndsOnce, GwTypes, Unended
  <2>4. GwOver'
    BY <1>2, <1>a DEF StreamEnds, GwOver, GwTypes, Unended, GwFinal
  <2>5. GwSaved'
    BY <1>2, <1>a DEF StreamEnds, GwSaved, GwTypes, GwSaves
  <2>6. GwLive'
    BY <1>2, <1>a DEF StreamEnds, GwLive, GwTypes, GwStream
  <2>. QED
    BY <2>1, <2>2, <2>3, <2>4, <2>5, <2>6 DEF GwInv
<1>3. ASSUME NEW r \in GwRuns, RemoteSweeps(r) PROVE GwInv'
  <2>1. GwTypes'
    BY <1>3, <1>a DEF RemoteSweeps, GwFinal, GwTypes
  <2>2. GwKnown'
    BY <1>3, <1>a DEF RemoteSweeps, GwFinal, GwKnown, GwTypes
  <2>3. GwEndsOnce'
    BY <1>3, <1>a DEF RemoteSweeps, GwFinal, GwEndsOnce, GwTypes, Unended
  <2>4. GwOver'
    BY <1>3, <1>a DEF RemoteSweeps, GwFinal, GwOver, GwTypes, Unended
  <2>5. GwSaved'
    BY <1>3, <1>a DEF RemoteSweeps, GwFinal, GwSaved, GwTypes, GwSaves
  <2>6. GwLive'
    BY <1>3, <1>a DEF RemoteSweeps, GwFinal, GwLive, GwTypes, GwStream
  <2>. QED
    BY <2>1, <2>2, <2>3, <2>4, <2>5, <2>6 DEF GwInv
<1>4. ASSUME NEW r \in GwRuns, ObserveEvent(r) PROVE GwInv'
  <2>e. PICK q \in Seq(GwEvents), h \in {"no", "eof", "error"} : wire[r] = [events |-> q, end |-> h]
    BY <1>a DEF GwTypes
  <2>f. PICK e \in GwEvents, p \in Seq(GwEvents) : e = Head(q) /\ p = Tail(q) /\ q # <<>>
    <3>1. q # <<>>
      BY <1>4, <2>e DEF ObserveEvent
    <3>2. Head(q) \in GwEvents /\ Tail(q) \in Seq(GwEvents)
      BY <3>1
    <3>. QED
      BY <3>1, <3>2
  <2>g. /\ wire[r].events = q /\ Len(p) = Len(q) - 1 /\ Len(q) \in Nat \ {0} /\ e = q[1]
        /\ \A i \in 1 .. Len(p) : p[i] = q[i + 1]
    BY <2>e, <2>f
  <2>w. wire' = [wire EXCEPT ![r] = [events |-> p, end |-> h]]
    <3>1. wire' = [wire EXCEPT ![r].events = Tail(@)]
      BY <1>4 DEF ObserveEvent
    <3>2. wire' = [wire EXCEPT ![r].events = p]
      BY <2>f, <2>g, <3>1
    <3>3. [[events |-> q, end |-> h] EXCEPT !.events = p] = [events |-> p, end |-> h]
      OBVIOUS
    <3>4. [wire EXCEPT ![r].events = p] = [wire EXCEPT ![r] = [wire[r] EXCEPT !.events = p]]
      OBVIOUS
    <3>. QED
      BY <2>e, <3>2, <3>3, <3>4
  <2>n. GwNoted(r, e, "reading")
    BY <1>4, <1>a, <2>e, <2>f, GwNote DEF ObserveEvent
  <2>p. PICK st \in GwStatus, o \in {"sink", "reading", persistThen["reading"]} :
          /\ registry' = [registry EXCEPT ![r] = st] /\ observer' = [observer EXCEPT ![r] = o]
          /\ o = "sink" => e = "completed"
          /\ st # registry[r] => o \in GwSaves
          /\ registry[r] = "absent" => st = "absent"
          /\ st \in GwFinal \cup {"disconnected"} /\ st # registry[r] => e \in GwFinal \cup {"observe_error", "stream_closed"}
          /\ st = "disconnected" /\ st # registry[r] => e = "stream_closed"
          /\ browser' = browser \/ browser' = FanOut(r)
    BY <2>n DEF GwNoted
  <2>o. o \in {"reading"} \cup GwSaves /\ o \in {"none", "reading", "ending"} \cup GwSaves
        /\ (o # "sink" => o \in {"reading", persistThen["reading"]})
    BY <2>p DEF GwSaves, persistThen
  <2>1. GwTypes'
    <3>1. browser' \in [Browsers -> GwStream]
      BY <1>4, <1>a, <2>p, GwFanned DEF GwTypes
    <3>2. [events |-> p, end |-> h] \in [events : Seq(GwEvents), end : {"no", "eof", "error"}]
      OBVIOUS
    <3>3. wire' \in [GwRuns -> [events : Seq(GwEvents), end : {"no", "eof", "error"}]]
      BY <1>a, <2>w, <3>2 DEF GwTypes
    <3>. QED
      BY <1>4, <1>a, <2>p, <2>o, <3>1, <3>3 DEF ObserveEvent, GwTypes
  <2>2. GwKnown'
    BY <1>4, <1>a, <2>e, <2>f, <2>g, <2>w, <2>p, <2>o DEF ObserveEvent, GwKnown, GwTypes
  <2>3. GwEndsOnce'
    <3>1. /\ wire'[r].events = p /\ observer'[r] = o /\ gwReplies' = gwReplies /\ remote' = remote
          /\ \A x \in GwRuns \ {r} : wire'[x].events = wire[x].events /\ observer'[x] = observer[x]
      BY <1>4, <1>a, <2>w, <2>p DEF ObserveEvent, GwTypes
    <3>2. observer[r] = "reading" /\ (e \in GwFinal => Len(p) = 0 /\ ~Unended(r) /\ gwReplies[r] = 0)
      BY <1>4, <1>a, <2>g DEF ObserveEvent, GwEndsOnce
    <3>3. o = "sink" => Len(p) = 0 /\ ~Unended(r) /\ gwReplies[r] = 0
      BY <2>p, <3>2 DEF GwFinal
    <3>4. ASSUME NEW i \in 1 .. Len(p), p[i] \in GwFinal
          PROVE  i = Len(p) /\ ~Unended(r) /\ gwReplies[r] = 0 /\ o # "sink"
      <4>1. i + 1 \in 1 .. Len(q) /\ q[i + 1] \in GwFinal
        BY <2>g, <3>4
      <4>2. i + 1 = Len(q) /\ ~Unended(r) /\ gwReplies[r] = 0
        BY <1>a, <2>g, <4>1 DEF GwEndsOnce
      <4>. QED
        BY <2>g, <4>2, <3>3, <3>4
    <3>5. \A x \in GwRuns : Unended(x)' = Unended(x)
      BY <3>1 DEF Unended
    <3>. QED
      BY <1>a, <3>1, <3>3, <3>4, <3>5 DEF GwEndsOnce
  <2>4. GwOver'
    <3>1. /\ wire'[r].events = p /\ observer'[r] = o /\ registry'[r] = st /\ remote' = remote
          /\ \A x \in GwRuns \ {r} : /\ wire'[x].events = wire[x].events /\ observer'[x] = observer[x]
                                    /\ registry'[x] = registry[x]
      BY <1>4, <1>a, <2>w, <2>p DEF ObserveEvent, GwTypes
    <3>2. registry[r] \notin GwFinal \cup {"disconnected"}
      BY <1>4, <1>a, <2>f, <2>g DEF ObserveEvent, GwOver
    <3>3. st \in GwFinal \cup {"disconnected"} => e \in GwFinal
      BY <2>p, <3>2 DEF GwEvents, GwFinal
    <3>4. e \in GwFinal => Len(p) = 0 /\ ~Unended(r)
      BY <1>a, <2>g DEF GwEndsOnce
    <3>5. Len(p) = 0 => p = <<>>
      OBVIOUS
    <3>6. \A x \in GwRuns : Unended(x)' = Unended(x)
      BY <3>1 DEF Unended
    <3>. QED
      BY <1>a, <3>1, <3>3, <3>4, <3>5, <3>6 DEF GwOver
  <2>5. GwSaved'
    BY <1>4, <1>a, <2>e, <2>f, <2>g, <2>w, <2>p, <2>o DEF ObserveEvent, GwSaved, GwTypes, GwSaves
  <2>6. GwLive'
    BY <1>4, <1>a, <2>p, GwFanned DEF GwLive
  <2>. QED
    BY <2>1, <2>2, <2>3, <2>4, <2>5, <2>6 DEF GwInv
<1>5. ASSUME NEW r \in GwRuns, PersistRunOutput(r) PROVE GwInv'
  <2>1. GwTypes'
    <3>1. gwReplies[r] + 1 \in Nat /\ "persist_reading" \in GwSaves
      BY <1>a DEF GwTypes, GwSaves
    <3>. QED
      BY <1>5, <1>a, <3>1 DEF PersistRunOutput, GwTypes
  <2>2. GwKnown'
    BY <1>5, <1>a DEF PersistRunOutput, GwSaves, GwKnown, GwTypes
  <2>3. GwEndsOnce'
    BY <1>5, <1>a DEF PersistRunOutput, GwSaves, GwEndsOnce, GwTypes, Unended
  <2>4. GwOver'
    BY <1>5, <1>a DEF PersistRunOutput, GwSaves, GwOver, GwTypes, Unended, GwFinal
  <2>5. GwSaved'
    BY <1>5, <1>a DEF PersistRunOutput, GwSaves, GwSaved, GwTypes
  <2>6. GwLive'
    BY <1>5, <1>a DEF PersistRunOutput, GwSaves, GwLive, GwTypes, GwStream
  <2>. QED
    BY <2>1, <2>2, <2>3, <2>4, <2>5, <2>6 DEF GwInv
<1>6. ASSUME NEW r \in GwRuns, ObserverPersists(r) PROVE GwInv'
  <2>1. GwTypes'
    BY <1>6, <1>a DEF ObserverPersists, persistThen, persistLocked, GwSaves, GwTypes
  <2>2. GwKnown'
    BY <1>6, <1>a DEF ObserverPersists, persistThen, persistLocked, GwSaves, GwKnown, GwTypes
  <2>3. GwEndsOnce'
    BY <1>6, <1>a DEF ObserverPersists, persistThen, persistLocked, GwSaves, GwEndsOnce, GwTypes,
       Unended
  <2>4. GwOver'
    BY <1>6, <1>a DEF ObserverPersists, persistThen, persistLocked, GwSaves, GwOver, GwTypes,
       Unended, GwFinal
  <2>5. GwSaved'
    BY <1>6, <1>a DEF ObserverPersists, persistThen, persistLocked, GwSaves, GwSaved, GwTypes
  <2>6. GwLive'
    BY <1>6, <1>a DEF ObserverPersists, persistThen, persistLocked, GwSaves, GwLive, GwTypes,
       GwStream
  <2>. QED
    BY <2>1, <2>2, <2>3, <2>4, <2>5, <2>6 DEF GwInv
<1>7. ASSUME NEW r \in GwRuns, StreamOver(r) PROVE GwInv'
  <2>n. GwNoted(r, "observe_error", "ending") \/ (registry' = registry /\ browser' = browser /\ observer' = [observer EXCEPT ![r] = "ending"])
    BY <1>7, <1>a, GwNote DEF StreamOver
  <2>p. PICK st \in GwStatus, o \in {"sink", "ending", persistThen["ending"]} :
          /\ registry' = [registry EXCEPT ![r] = st] /\ observer' = [observer EXCEPT ![r] = o]
          /\ o = "sink" => "observe_error" = "completed"
          /\ st # registry[r] => o \in GwSaves
          /\ registry[r] = "absent" => st = "absent"
          /\ st \in GwFinal \cup {"disconnected"} /\ st # registry[r] => "observe_error" \in GwFinal \cup {"observe_error", "stream_closed"}
          /\ st = "disconnected" /\ st # registry[r] => "observe_error" = "stream_closed"
          /\ browser' = browser \/ browser' = FanOut(r)
    <3>1. CASE GwNoted(r, "observe_error", "ending")
      BY <3>1 DEF GwNoted
    <3>2. CASE registry' = registry /\ browser' = browser /\ observer' = [observer EXCEPT ![r] = "ending"]
      <4>1. registry' = [registry EXCEPT ![r] = registry[r]] /\ registry[r] \in GwStatus
        BY <1>a, <3>2 DEF GwTypes
      <4>2. "ending" # "sink"
        OBVIOUS
      <4>. QED
        BY <3>2, <4>1, <4>2
    <3>. QED
      BY <2>n, <3>1, <3>2
  <2>o. o \in {"ending"} \cup GwSaves /\ o \in {"none", "reading", "ending"} \cup GwSaves
        /\ (o # "sink" => o \in {"ending", persistThen["ending"]})
    BY <2>p DEF GwSaves, persistThen
  <2>1. GwTypes'
    <3>1. browser' \in [Browsers -> GwStream]
      BY <1>7, <1>a, <2>p, GwFanned DEF GwTypes
    <3>. QED
      BY <1>7, <1>a, <2>p, <2>o, <3>1 DEF StreamOver, GwTypes
  <2>2. GwKnown'
    BY <1>7, <1>a, <2>p, <2>o DEF StreamOver, GwKnown, GwTypes
  <2>3. GwEndsOnce'
    BY <1>7, <1>a, <2>p, <2>o DEF StreamOver, GwEndsOnce, GwTypes, Unended, GwSaves, persistThen,
       GwFinal
  <2>4. GwOver'
    BY <1>7, <1>a, <2>p, <2>o DEF StreamOver, GwOver, GwTypes, Unended, GwFinal, GwSaves,
       persistThen
  <2>5. GwSaved'
    BY <1>7, <1>a, <2>p, <2>o DEF StreamOver, GwSaved, GwTypes, GwSaves
  <2>6. GwLive'
    BY <1>7, <1>a, <2>p, GwFanned DEF GwLive
  <2>. QED
    BY <2>1, <2>2, <2>3, <2>4, <2>5, <2>6 DEF GwInv
<1>8. ASSUME NEW r \in GwRuns, NoteClosed(r) PROVE GwInv'
  <2>n. GwNoted(r, "stream_closed", "none") \/ (registry' = registry /\ browser' = browser /\ observer' = [observer EXCEPT ![r] = "none"])
    BY <1>8, <1>a, GwNote DEF NoteClosed
  <2>p. PICK st \in GwStatus, o \in {"sink", "none", persistThen["none"]} :
          /\ registry' = [registry EXCEPT ![r] = st] /\ observer' = [observer EXCEPT ![r] = o]
          /\ o = "sink" => "stream_closed" = "completed"
          /\ st # registry[r] => o \in GwSaves
          /\ registry[r] = "absent" => st = "absent"
          /\ st \in GwFinal \cup {"disconnected"} /\ st # registry[r] => "stream_closed" \in GwFinal \cup {"observe_error", "stream_closed"}
          /\ st = "disconnected" /\ st # registry[r] => "stream_closed" = "stream_closed"
          /\ browser' = browser \/ browser' = FanOut(r)
    <3>1. CASE GwNoted(r, "stream_closed", "none")
      BY <3>1 DEF GwNoted
    <3>2. CASE registry' = registry /\ browser' = browser /\ observer' = [observer EXCEPT ![r] = "none"]
      <4>1. registry' = [registry EXCEPT ![r] = registry[r]] /\ registry[r] \in GwStatus
        BY <1>a, <3>2 DEF GwTypes
      <4>2. "none" # "sink"
        OBVIOUS
      <4>. QED
        BY <3>2, <4>1, <4>2
    <3>. QED
      BY <2>n, <3>1, <3>2
  <2>o. o \in {"none"} \cup GwSaves /\ o \in {"none", "reading", "ending"} \cup GwSaves
        /\ (o # "sink" => o \in {"none", persistThen["none"]})
    BY <2>p DEF GwSaves, persistThen
  <2>1. GwTypes'
    <3>1. browser' \in [Browsers -> GwStream]
      BY <1>8, <1>a, <2>p, GwFanned DEF GwTypes
    <3>. QED
      BY <1>8, <1>a, <2>p, <2>o, <3>1 DEF NoteClosed, GwTypes
  <2>2. GwKnown'
    BY <1>8, <1>a, <2>p, <2>o DEF NoteClosed, GwKnown, GwTypes
  <2>3. GwEndsOnce'
    BY <1>8, <1>a, <2>p, <2>o DEF NoteClosed, GwEndsOnce, GwTypes, Unended, GwSaves, persistThen,
       GwFinal
  <2>4. GwOver'
    BY <1>8, <1>a, <2>p, <2>o DEF NoteClosed, GwOver, GwTypes, Unended, GwFinal, GwSaves,
       persistThen
  <2>5. GwSaved'
    BY <1>8, <1>a, <2>p, <2>o DEF NoteClosed, GwSaved, GwTypes, GwSaves
  <2>6. GwLive'
    BY <1>8, <1>a, <2>p, GwFanned DEF GwLive
  <2>. QED
    BY <2>1, <2>2, <2>3, <2>4, <2>5, <2>6 DEF GwInv
<1>9. ASSUME NEW r \in GwRuns, ObserveCancelled(r) PROVE GwInv'
  <2>1. GwTypes'
    BY <1>9, <1>a DEF ObserveCancelled, HangUp, GwTypes
  <2>2. GwKnown'
    BY <1>9, <1>a DEF ObserveCancelled, HangUp, GwKnown, GwTypes
  <2>3. GwEndsOnce'
    BY <1>9, <1>a DEF ObserveCancelled, HangUp, GwEndsOnce, GwTypes, Unended
  <2>4. GwOver'
    BY <1>9, <1>a DEF ObserveCancelled, HangUp, GwOver, GwTypes, Unended, GwFinal
  <2>5. GwSaved'
    BY <1>9, <1>a DEF ObserveCancelled, HangUp, GwSaved, GwTypes, GwSaves
  <2>6. GwLive'
    BY <1>9, <1>a DEF ObserveCancelled, HangUp, GwLive, GwTypes, GwStream
  <2>. QED
    BY <2>1, <2>2, <2>3, <2>4, <2>5, <2>6 DEF GwInv
<1>10. ASSUME NEW c \in GwCalls, NEW r \in GwRuns, StartRun(c, r) PROVE GwInv'
  <2>1. GwTypes'
    BY <1>10, <1>a DEF StartRun, CallIdle, GwStatus, GwTypes
  <2>2. GwKnown'
    BY <1>10, <1>a DEF StartRun, CallIdle, GwStatus, GwKnown, GwTypes
  <2>3. GwEndsOnce'
    BY <1>10, <1>a DEF StartRun, CallIdle, GwStatus, GwEndsOnce, GwTypes, Unended
  <2>4. GwOver'
    BY <1>10, <1>a DEF StartRun, CallIdle, GwStatus, GwOver, GwTypes, Unended, GwFinal
  <2>5. GwSaved'
    BY <1>10, <1>a DEF StartRun, CallIdle, GwStatus, GwSaved, GwTypes, GwSaves
  <2>6. GwLive'
    BY <1>10, <1>a DEF StartRun, CallIdle, GwStatus, GwLive, GwTypes, GwStream
  <2>. QED
    BY <2>1, <2>2, <2>3, <2>4, <2>5, <2>6 DEF GwInv
<1>11. ASSUME NEW c \in GwCalls, NEW r \in GwRuns, StopRun(c, r) PROVE GwInv'
  <2>1. GwTypes'
    BY <1>11, <1>a DEF StopRun, GwTypes
  <2>2. GwKnown'
    BY <1>11, <1>a DEF StopRun, GwKnown, GwTypes
  <2>3. GwEndsOnce'
    BY <1>11, <1>a DEF StopRun, GwEndsOnce, GwTypes, Unended
  <2>4. GwOver'
    BY <1>11, <1>a DEF StopRun, GwOver, GwTypes, Unended, GwFinal
  <2>5. GwSaved'
    BY <1>11, <1>a DEF StopRun, GwSaved, GwTypes, GwSaves
  <2>6. GwLive'
    BY <1>11, <1>a DEF StopRun, GwLive, GwTypes, GwStream
  <2>. QED
    BY <2>1, <2>2, <2>3, <2>4, <2>5, <2>6 DEF GwInv
<1>12. ASSUME NEW c \in GwCalls, NEW r \in GwRuns, pruneLocked(c, r) PROVE GwInv'
  <2>1. GwTypes'
    BY <1>12, <1>a DEF pruneLocked, CallIdle, GwStatus, GwTypes
  <2>2. GwKnown'
    BY <1>12, <1>a DEF pruneLocked, CallIdle, GwStatus, GwKnown, GwTypes
  <2>3. GwEndsOnce'
    BY <1>12, <1>a DEF pruneLocked, CallIdle, GwStatus, GwEndsOnce, GwTypes, Unended
  <2>4. GwOver'
    BY <1>12, <1>a DEF pruneLocked, CallIdle, GwStatus, GwOver, GwTypes, Unended, GwFinal
  <2>5. GwSaved'
    BY <1>12, <1>a DEF pruneLocked, CallIdle, GwStatus, GwSaved, GwTypes, GwSaves
  <2>6. GwLive'
    BY <1>12, <1>a DEF pruneLocked, CallIdle, GwStatus, GwLive, GwTypes, GwStream
  <2>. QED
    BY <2>1, <2>2, <2>3, <2>4, <2>5, <2>6 DEF GwInv
<1>13. ASSUME NEW c \in GwCalls, CallPersists(c) PROVE GwInv'
  <2>1. GwTypes'
    BY <1>13, <1>a DEF CallPersists, persistLocked, CallIdle, GwTypes
  <2>2. GwKnown'
    BY <1>13, <1>a DEF CallPersists, persistLocked, CallIdle, GwKnown, GwTypes
  <2>3. GwEndsOnce'
    BY <1>13, <1>a DEF CallPersists, persistLocked, CallIdle, GwEndsOnce, GwTypes, Unended
  <2>4. GwOver'
    BY <1>13, <1>a DEF CallPersists, persistLocked, CallIdle, GwOver, GwTypes, Unended, GwFinal
  <2>5. GwSaved'
    BY <1>13, <1>a DEF CallPersists, persistLocked, CallIdle, GwSaved, GwTypes, GwSaves
  <2>6. GwLive'
    BY <1>13, <1>a DEF CallPersists, persistLocked, CallIdle, GwLive, GwTypes, GwStream
  <2>. QED
    BY <2>1, <2>2, <2>3, <2>4, <2>5, <2>6 DEF GwInv
<1>14. ASSUME NEW c \in GwCalls, StopAnswered(c) PROVE GwInv'
  <2>1. GwTypes'
    <3>1. PICK q \in [pc : {"idle", "persist", "ask", "stopping", "notfound"}, run : GwRuns \cup {"none"}, known : BOOLEAN] :
            q = gwCall[c] /\ q.run \in GwRuns
      BY <1>14, <1>a DEF StopAnswered, GwTypes
    <3>2. gwCall' \in {[gwCall EXCEPT ![c] = [q EXCEPT !.pc = "stopping"]], [gwCall EXCEPT ![c] = [q EXCEPT !.pc = "notfound"]],
                        [gwCall EXCEPT ![c] = CallIdle]}
      BY <1>14, <3>1 DEF StopAnswered
    <3>3. PICK f \in [pc : {"idle", "persist", "ask", "stopping", "notfound"}, run : GwRuns \cup {"none"}, known : BOOLEAN] :
            gwCall' = [gwCall EXCEPT ![c] = f] /\ (f.pc \in {"ask", "stopping", "notfound"} => f.run \in GwRuns)
      <4>1. CallIdle \in [pc : {"idle", "persist", "ask", "stopping", "notfound"}, run : GwRuns \cup {"none"}, known : BOOLEAN]
            /\ CallIdle.pc = "idle"
        BY DEF CallIdle
      <4>. QED
        BY <3>1, <3>2, <4>1
    <3>. QED
      BY <1>14, <1>a, <3>3 DEF StopAnswered, GwTypes
  <2>2. GwKnown'
    BY <1>14, <1>a DEF StopAnswered, CallIdle, GwKnown, GwTypes
  <2>3. GwEndsOnce'
    BY <1>14, <1>a DEF StopAnswered, CallIdle, GwEndsOnce, GwTypes, Unended
  <2>4. GwOver'
    BY <1>14, <1>a DEF StopAnswered, CallIdle, GwOver, GwTypes, Unended, GwFinal
  <2>5. GwSaved'
    BY <1>14, <1>a, ZenonT(40) DEF StopAnswered, CallIdle, GwSaved, GwTypes, GwSaves
  <2>6. GwLive'
    BY <1>14, <1>a DEF StopAnswered, CallIdle, GwLive, GwTypes, GwStream
  <2>. QED
    BY <2>1, <2>2, <2>3, <2>4, <2>5, <2>6 DEF GwInv
<1>15. ASSUME NEW c \in GwCalls, MarkStopping(c) PROVE GwInv'
  <2>1. GwTypes'
    BY <1>15, <1>a DEF MarkStopping, CallIdle, GwStatus, GwTypes
  <2>2. GwKnown'
    BY <1>15, <1>a DEF MarkStopping, CallIdle, GwStatus, GwKnown, GwTypes
  <2>3. GwEndsOnce'
    BY <1>15, <1>a DEF MarkStopping, CallIdle, GwStatus, GwEndsOnce, GwTypes, Unended
  <2>4. GwOver'
    BY <1>15, <1>a DEF MarkStopping, CallIdle, GwStatus, GwOver, GwTypes, Unended, GwFinal
  <2>5. GwSaved'
    BY <1>15, <1>a DEF MarkStopping, CallIdle, GwStatus, GwSaved, GwTypes, GwSaves
  <2>6. GwLive'
    BY <1>15, <1>a DEF MarkStopping, CallIdle, GwStatus, GwLive, GwTypes, GwStream
  <2>. QED
    BY <2>1, <2>2, <2>3, <2>4, <2>5, <2>6 DEF GwInv
<1>16. ASSUME NEW c \in GwCalls, MarkNotFound(c) PROVE GwInv'
  <2>1. GwTypes'
    BY <1>16, <1>a DEF MarkNotFound, CallIdle, GwStatus, GwTypes
  <2>2. GwKnown'
    BY <1>16, <1>a DEF MarkNotFound, CallIdle, GwStatus, GwKnown, GwTypes
  <2>3. GwEndsOnce'
    BY <1>16, <1>a DEF MarkNotFound, CallIdle, GwStatus, GwEndsOnce, GwTypes, Unended
  <2>4. GwOver'
    BY <1>16, <1>a DEF MarkNotFound, CallIdle, GwStatus, GwOver, GwTypes, Unended, GwFinal
  <2>5. GwSaved'
    BY <1>16, <1>a DEF MarkNotFound, CallIdle, GwStatus, GwSaved, GwTypes, GwSaves
  <2>6. GwLive'
    BY <1>16, <1>a DEF MarkNotFound, CallIdle, GwStatus, GwLive, GwTypes, GwStream
  <2>. QED
    BY <2>1, <2>2, <2>3, <2>4, <2>5, <2>6 DEF GwInv
<1>17. ASSUME NEW b \in Browsers, NEW r \in GwRuns, Subscribe(b, r) PROVE GwInv'
  <2>1. GwTypes'
    <3>1. PICK s \in GwStream : s = browser[b]
      BY <1>a DEF GwTypes
    <3>2. PICK f \in GwStream : browser' = [browser EXCEPT ![b] = f]
      <4>1. [NoStream EXCEPT !.pc = "subscribed", !.run = r, !.open = TRUE] \in GwStream
        <5>1. 0 \in 0 .. SubBuffer /\ r \in GwRuns \cup {"none"}
          BY <1>17, GatewayAssumption
        <5>. QED
          BY <5>1 DEF NoStream, GwStream
      <4>. QED
        BY <1>17, <4>1 DEF Subscribe
    <3>. QED
      BY <1>17, <1>a, <3>2 DEF Subscribe, GwTypes
  <2>2. GwKnown'
    BY <1>17, <1>a DEF Subscribe, NoStream, GwKnown, GwTypes
  <2>3. GwEndsOnce'
    BY <1>17, <1>a DEF Subscribe, NoStream, GwEndsOnce, GwTypes, Unended
  <2>4. GwOver'
    BY <1>17, <1>a DEF Subscribe, NoStream, GwOver, GwTypes, Unended, GwFinal
  <2>5. GwSaved'
    BY <1>17, <1>a DEF Subscribe, NoStream, GwSaved, GwTypes, GwSaves
  <2>6. GwLive'
    BY <1>17, <1>a DEF Subscribe, NoStream, GwLive, GwTypes, GwStream
  <2>. QED
    BY <2>1, <2>2, <2>3, <2>4, <2>5, <2>6 DEF GwInv
<1>18. ASSUME NEW b \in Browsers, ReplayHistory(b) PROVE GwInv'
  <2>1. GwTypes'
    <3>1. PICK s \in GwStream : s = browser[b]
      BY <1>a DEF GwTypes
    <3>2. PICK f \in GwStream : browser' = [browser EXCEPT ![b] = f]
      <4>1. /\ [s EXCEPT !.pc = "replayed", !.open = TRUE] \in GwStream
            /\ [s EXCEPT !.pc = "replayed", !.owed = FALSE, !.fresh = FALSE] \in GwStream
        BY <3>1 DEF GwStream
      <4>. QED
        BY <1>18, <3>1, <4>1 DEF ReplayHistory
    <3>. QED
      BY <1>18, <1>a, <3>2 DEF ReplayHistory, GwTypes
  <2>2. GwKnown'
    BY <1>18, <1>a DEF ReplayHistory, GwKnown, GwTypes
  <2>3. GwEndsOnce'
    BY <1>18, <1>a DEF ReplayHistory, GwEndsOnce, GwTypes, Unended
  <2>4. GwOver'
    BY <1>18, <1>a DEF ReplayHistory, GwOver, GwTypes, Unended, GwFinal
  <2>5. GwSaved'
    BY <1>18, <1>a DEF ReplayHistory, GwSaved, GwTypes, GwSaves
  <2>6. GwLive'
    BY <1>18, <1>a DEF ReplayHistory, GwLive, GwTypes, GwStream
  <2>. QED
    BY <2>1, <2>2, <2>3, <2>4, <2>5, <2>6 DEF GwInv
<1>19. ASSUME NEW b \in Browsers, CheckTerminal(b) PROVE GwInv'
  <2>1. GwTypes'
    <3>1. PICK s \in GwStream : s = browser[b]
      BY <1>a DEF GwTypes
    <3>2. PICK f \in GwStream : browser' = [browser EXCEPT ![b] = f]
      <4>1. [s EXCEPT !.pc = "complete"] \in GwStream /\ [s EXCEPT !.pc = "live"] \in GwStream
        BY <3>1 DEF GwStream
      <4>2. browser' \in {[browser EXCEPT ![b] = [s EXCEPT !.pc = "complete"]],
                          [browser EXCEPT ![b] = [s EXCEPT !.pc = "live"]]}
        BY <1>19, <3>1 DEF CheckTerminal
      <4>. QED
        BY <4>1, <4>2
    <3>. QED
      BY <1>19, <1>a, <3>2 DEF CheckTerminal, GwTypes
  <2>2. GwKnown'
    BY <1>19, <1>a DEF CheckTerminal, GwKnown, GwTypes
  <2>3. GwEndsOnce'
    BY <1>19, <1>a DEF CheckTerminal, GwEndsOnce, GwTypes, Unended
  <2>4. GwOver'
    BY <1>19, <1>a DEF CheckTerminal, GwOver, GwTypes, Unended, GwFinal
  <2>5. GwSaved'
    BY <1>19, <1>a DEF CheckTerminal, GwSaved, GwTypes, GwSaves
  <2>6. GwLive'
    BY <1>19, <1>a DEF CheckTerminal, GwLive, GwTypes, GwStream
  <2>. QED
    BY <2>1, <2>2, <2>3, <2>4, <2>5, <2>6 DEF GwInv
<1>20. ASSUME NEW b \in Browsers, Forward(b) PROVE GwInv'
  <2>1. GwTypes'
    <3>1. PICK s \in GwStream : s = browser[b]
      BY <1>a DEF GwTypes
    <3>2. PICK f \in GwStream : browser' = [browser EXCEPT ![b] = f]
      <4>1. PICK n \in 0 .. SubBuffer, g \in BOOLEAN : n = s.chan /\ g = (s.fresh /\ s.chan > 1)
        BY <3>1 DEF GwStream
      <4>2. n - 1 \in 0 .. SubBuffer
        BY <1>20, <3>1, <4>1, GatewayAssumption DEF Forward
      <4>3. [s EXCEPT !.chan = n - 1, !.fresh = g] \in GwStream
        BY <3>1, <4>1, <4>2 DEF GwStream
      <4>4. browser' = [browser EXCEPT ![b] = [s EXCEPT !.chan = n - 1, !.fresh = g]]
        BY <1>20, <1>a, <3>1, <4>1 DEF Forward, GwTypes
      <4>. QED
        BY <4>3, <4>4
    <3>. QED
      BY <1>20, <1>a, <3>2, ZenonT(40) DEF Forward, GwTypes
  <2>2. GwKnown'
    BY <1>20, <1>a DEF Forward, GwKnown, GwTypes
  <2>3. GwEndsOnce'
    BY <1>20, <1>a DEF Forward, GwEndsOnce, GwTypes, Unended
  <2>4. GwOver'
    BY <1>20, <1>a DEF Forward, GwOver, GwTypes, Unended, GwFinal
  <2>5. GwSaved'
    BY <1>20, <1>a DEF Forward, GwSaved, GwTypes, GwSaves
  <2>6. GwLive'
    BY <1>20, <1>a DEF Forward, GwLive, GwTypes, GwStream
  <2>. QED
    BY <2>1, <2>2, <2>3, <2>4, <2>5, <2>6 DEF GwInv
<1>21. ASSUME NEW b \in Browsers, LeaveStream(b) PROVE GwInv'
  <2>1. GwTypes'
    <3>1. PICK s \in GwStream : s = browser[b]
      BY <1>a DEF GwTypes
    <3>2. PICK f \in GwStream : browser' = [browser EXCEPT ![b] = f]
      <4>1. /\ [NoStream EXCEPT !.pc = "left"] \in GwStream
            /\ [NoStream EXCEPT !.pc = "panicked"] \in GwStream
        <5>1. 0 \in 0 .. SubBuffer /\ "none" \in GwRuns \cup {"none"}
          BY GatewayAssumption
        <5>. QED
          BY <5>1 DEF NoStream, GwStream
      <4>. QED
        BY <1>21, <4>1 DEF LeaveStream
    <3>. QED
      BY <1>21, <1>a, <3>2 DEF LeaveStream, GwTypes
  <2>2. GwKnown'
    BY <1>21, <1>a DEF LeaveStream, NoStream, GwKnown, GwTypes
  <2>3. GwEndsOnce'
    BY <1>21, <1>a DEF LeaveStream, NoStream, GwEndsOnce, GwTypes, Unended
  <2>4. GwOver'
    BY <1>21, <1>a DEF LeaveStream, NoStream, GwOver, GwTypes, Unended, GwFinal
  <2>5. GwSaved'
    BY <1>21, <1>a DEF LeaveStream, NoStream, GwSaved, GwTypes, GwSaves
  <2>6. GwLive'
    BY <1>21, <1>a DEF LeaveStream, NoStream, GwLive, GwTypes, GwStream
  <2>. QED
    BY <2>1, <2>2, <2>3, <2>4, <2>5, <2>6 DEF GwInv
<1>22. ASSUME CloseBegin PROVE GwInv'
  <2>1. GwTypes'
    BY <1>22, <1>a DEF CloseBegin, GwTypes
  <2>2. GwKnown'
    BY <1>22, <1>a DEF CloseBegin, GwKnown, GwTypes
  <2>3. GwEndsOnce'
    BY <1>22, <1>a DEF CloseBegin, GwEndsOnce, GwTypes, Unended
  <2>4. GwOver'
    BY <1>22, <1>a DEF CloseBegin, GwOver, GwTypes, Unended, GwFinal
  <2>5. GwSaved'
    BY <1>22, <1>a DEF CloseBegin, GwSaved, GwTypes, GwSaves
  <2>6. GwLive'
    BY <1>22, <1>a DEF CloseBegin, GwLive, GwTypes, GwStream
  <2>. QED
    BY <2>1, <2>2, <2>3, <2>4, <2>5, <2>6 DEF GwInv
<1>23. ASSUME CloseReturn PROVE GwInv'
  <2>1. GwTypes'
    BY <1>23, <1>a DEF CloseReturn, GwTypes
  <2>2. GwKnown'
    BY <1>23, <1>a DEF CloseReturn, GwKnown, GwTypes
  <2>3. GwEndsOnce'
    BY <1>23, <1>a DEF CloseReturn, GwEndsOnce, GwTypes, Unended
  <2>4. GwOver'
    BY <1>23, <1>a DEF CloseReturn, GwOver, GwTypes, Unended, GwFinal
  <2>5. GwSaved'
    BY <1>23, <1>a DEF CloseReturn, GwSaved, GwTypes, GwSaves
  <2>6. GwLive'
    BY <1>23, <1>a DEF CloseReturn, GwLive, GwTypes, GwStream
  <2>. QED
    BY <2>1, <2>2, <2>3, <2>4, <2>5, <2>6 DEF GwInv
<1>24. ASSUME Exit PROVE GwInv'
  <2>1. GwTypes'
    <3>1. [NoStream EXCEPT !.pc = "left"] \in GwStream
      <4>1. 0 \in 0 .. SubBuffer /\ "none" \in GwRuns \cup {"none"}
        BY GatewayAssumption
      <4>. QED
        BY <4>1 DEF NoStream, GwStream
    <3>2. CallIdle \in [pc : {"idle", "persist", "ask", "stopping", "notfound"}, run : GwRuns \cup {"none"}, known : BOOLEAN]
          /\ CallIdle.pc = "idle"
      BY DEF CallIdle
    <3>3. [events |-> <<>>, end |-> "no"] \in [events : Seq(GwEvents), end : {"no", "eof", "error"}]
      OBVIOUS
    <3>4. /\ registry' \in [GwRuns -> GwStatus] /\ observer' \in [GwRuns -> {"none", "reading", "ending"} \cup GwSaves]
          /\ life' = "down" /\ remote' = remote /\ disk' = disk /\ gwReplies' = gwReplies
      BY <1>24 DEF Exit, GwStatus
    <3>5. browser' \in [Browsers -> GwStream] /\ wire' \in [GwRuns -> [events : Seq(GwEvents), end : {"no", "eof", "error"}]]
      BY <1>24, <3>1, <3>3 DEF Exit
    <3>6. /\ gwCall' \in [GwCalls -> [pc : {"idle", "persist", "ask", "stopping", "notfound"}, run : GwRuns \cup {"none"}, known : BOOLEAN]]
          /\ \A c \in GwCalls : gwCall'[c].pc = "idle"
      BY <1>24, <3>2 DEF Exit
    <3>. QED
      BY <1>a, <3>4, <3>5, <3>6 DEF GwTypes
  <2>2. GwKnown'
    BY <1>24, <1>a DEF Exit, NoStream, CallIdle, GwStatus, GwKnown, GwTypes
  <2>3. GwEndsOnce'
    BY <1>24, <1>a DEF Exit, NoStream, CallIdle, GwStatus, GwEndsOnce, GwTypes, Unended
  <2>4. GwOver'
    BY <1>24, <1>a DEF Exit, NoStream, CallIdle, GwStatus, GwOver, GwTypes, Unended, GwFinal
  <2>5. GwSaved'
    BY <1>24, <1>a DEF Exit, NoStream, CallIdle, GwStatus, GwSaved, GwTypes, GwSaves
  <2>6. GwLive'
    BY <1>24, <1>a DEF Exit, NoStream, CallIdle, GwStatus, GwLive, GwTypes, GwStream
  <2>. QED
    BY <2>1, <2>2, <2>3, <2>4, <2>5, <2>6 DEF GwInv
<1>25. ASSUME Restart PROVE GwInv'
  <2>1. GwTypes'
    <3>1. ASSUME NEW r \in GwRuns PROVE refreshStatus(r) \in GwStatus
      <4>1. disk[r] \in GwStatus /\ remote[r] \in {"none", "running", "completed", "failed", "gone"}
            /\ (remote[r] = "none" => disk[r] = "absent")
        BY <1>a DEF GwTypes, GwKnown
      <4>. QED
        BY <4>1 DEF refreshStatus, GwStatus
    <3>2. disk' \in [GwRuns -> GwStatus] /\ registry' = disk' /\ life' = "open"
      BY <1>25, <1>a, <3>1 DEF Restart, GwTypes
    <3>. QED
      BY <1>25, <1>a, <3>2 DEF Restart, GwTypes
  <2>2. GwKnown'
    BY <1>25, <1>a DEF Restart, refreshStatus, GwStatus, IsTerminal, GwFinal, GwKnown, GwTypes
  <2>3. GwEndsOnce'
    BY <1>25, <1>a DEF Restart, refreshStatus, GwStatus, IsTerminal, GwFinal, GwEndsOnce, GwTypes,
       Unended
  <2>4. GwOver'
    BY <1>25, <1>a DEF Restart, GwKnown, GwOver
  <2>5. GwSaved'
    BY <1>25, <1>a DEF Restart, refreshStatus, GwStatus, IsTerminal, GwFinal, GwSaved, GwTypes,
       GwSaves
  <2>6. GwLive'
    BY <1>25, <1>a DEF Restart, refreshStatus, GwStatus, IsTerminal, GwFinal, GwLive, GwTypes,
       GwStream
  <2>. QED
    BY <2>1, <2>2, <2>3, <2>4, <2>5, <2>6 DEF GwInv
<1>26. CASE UNCHANGED gwVars
  BY <1>26, <1>a DEF gwVars, GwInv, GwTypes, GwKnown, GwEndsOnce, GwOver, GwSaved, GwLive, Unended
<1>. QED
  BY <1>1, <1>2, <1>3, <1>4, <1>5, <1>6, <1>7, <1>8, <1>9, <1>10, <1>11, <1>12, <1>13, <1>14,
     <1>15, <1>16, <1>17, <1>18, <1>19, <1>20, <1>21, <1>22, <1>23, <1>24, <1>25, <1>26
  DEF GatewayNext, ObserverStep, GwEvents, GwFinal

\* The gateway, closed or killed and started again included.
THEOREM GatewayInvariant == GatewaySpec => []GwInv
<1>1. GatewayInit => GwInv
  <2>. SUFFICES ASSUME GatewayInit PROVE GwInv
    OBVIOUS
  <2>1. GwTypes
    BY GatewayAssumption DEF GatewayInit, GwTypes, GwStream, GwStatus, CallIdle, NoStream
  <2>2. GwKnown /\ GwOver /\ GwSaved
    BY DEF GatewayInit, GwKnown, GwOver, GwSaved, Unended, GwFinal
  <2>3. GwEndsOnce
    BY DEF GatewayInit, GwEndsOnce, Unended
  <2>4. GwLive
    BY DEF GatewayInit, GwLive, NoStream
  <2>. QED
    BY <2>1, <2>2, <2>3, <2>4 DEF GwInv
<1>. QED
  BY <1>1, GwStep, PTL DEF GatewaySpec

\* One action cannot bring back a run whose end was observed, nor write the
\* file of a service that was closed.
LEMMA GwFinalStep ==
  ASSUME GwInv, [GatewayNext]_gwVars
  PROVE  /\ \A r \in GwRuns : registry[r] \in GwFinal \cup {"disconnected"}
                               => registry'[r] = "absent" \/ IsTerminal(registry'[r])
         /\ life = "closed" => disk' = disk
<1>. DEFINE P == /\ \A x \in GwRuns : registry[x] \in GwFinal \cup {"disconnected"}
                                      => registry'[x] = "absent" \/ IsTerminal(registry'[x])
                 /\ life = "closed" => disk' = disk
<1>. SUFFICES P
  OBVIOUS
<1>a. GwTypes /\ GwKnown /\ GwOver
  BY DEF GwInv
<1>b. registry' = registry => \A x \in GwRuns : registry[x] \in GwFinal \cup {"disconnected"} => IsTerminal(registry'[x])
  BY DEF IsTerminal, GwFinal
<1>1. ASSUME NEW r \in GwRuns, NEW e \in GwEvents, RemoteEmits(r, e) PROVE P
  BY <1>1, <1>b DEF RemoteEmits
<1>2. ASSUME NEW r \in GwRuns, NEW how \in {"eof", "error"}, StreamEnds(r, how) PROVE P
  BY <1>2, <1>b DEF StreamEnds
<1>3. ASSUME NEW r \in GwRuns, RemoteSweeps(r) PROVE P
  BY <1>3, <1>b DEF RemoteSweeps
<1>4. ASSUME NEW r \in GwRuns, ObserveEvent(r) PROVE P
  <2>1. observer[r] = "reading" /\ registry[r] \notin GwFinal \cup {"disconnected"} /\ disk' = disk
    BY <1>4, <1>a DEF ObserveEvent, GwOver
  <2>2. PICK e \in GwEvents : noteEvent(r, e, "reading")
    <3>1. PICK q \in Seq(GwEvents) : q = wire[r].events /\ q # <<>>
      BY <1>4, <1>a DEF ObserveEvent, GwTypes
    <3>2. Head(q) \in GwEvents
      BY <3>1
    <3>. QED
      BY <1>4, <3>1, <3>2 DEF ObserveEvent
  <2>3. PICK st \in GwStatus : registry' = [registry EXCEPT ![r] = st]
    BY <1>a, <2>2, GwNote DEF GwNoted
  <2>. QED
    BY <1>a, <2>1, <2>3 DEF GwTypes, IsTerminal, GwFinal
<1>5. ASSUME NEW r \in GwRuns, PersistRunOutput(r) PROVE P
  BY <1>5, <1>b DEF PersistRunOutput
<1>6. ASSUME NEW r \in GwRuns, ObserverPersists(r) PROVE P
  BY <1>6, <1>b DEF ObserverPersists, persistLocked, persistThen
<1>7. ASSUME NEW r \in GwRuns, StreamOver(r) PROVE P
  <2>1. CASE noteEvent(r, "observe_error", "ending")
    <3>1. PICK st \in GwStatus :
            /\ registry' = [registry EXCEPT ![r] = st]
            /\ registry[r] \in GwFinal \cup {"disconnected"} => st \in GwFinal \cup {"disconnected"}
      BY <1>a, <2>1, GwNote DEF GwNoted
    <3>. QED
      BY <1>7, <1>a, <3>1 DEF StreamOver, GwTypes, IsTerminal, GwFinal
  <2>2. CASE registry' = registry
    BY <1>7, <1>b, <2>2 DEF StreamOver
  <2>. QED
    BY <1>7, <2>1, <2>2 DEF StreamOver
<1>8. ASSUME NEW r \in GwRuns, NoteClosed(r) PROVE P
  <2>1. CASE noteEvent(r, "stream_closed", "none")
    <3>1. PICK st \in GwStatus :
            /\ registry' = [registry EXCEPT ![r] = st]
            /\ registry[r] \in GwFinal \cup {"disconnected"} => st \in GwFinal \cup {"disconnected"}
      BY <1>a, <2>1, GwNote DEF GwNoted
    <3>. QED
      BY <1>8, <1>a, <3>1 DEF NoteClosed, GwTypes, IsTerminal, GwFinal
  <2>2. CASE registry' = registry
    BY <1>8, <1>b, <2>2 DEF NoteClosed
  <2>. QED
    BY <1>8, <2>1, <2>2 DEF NoteClosed
<1>9. ASSUME NEW r \in GwRuns, ObserveCancelled(r) PROVE P
  BY <1>9, <1>b DEF ObserveCancelled, HangUp
<1>10. ASSUME NEW c \in GwCalls, NEW r \in GwRuns, StartRun(c, r) PROVE P
  BY <1>10, <1>a DEF StartRun, GwTypes, GwKnown, IsTerminal, GwFinal
<1>11. ASSUME NEW c \in GwCalls, NEW r \in GwRuns, StopRun(c, r) PROVE P
  BY <1>11, <1>b DEF StopRun
<1>12. ASSUME NEW c \in GwCalls, NEW r \in GwRuns, pruneLocked(c, r) PROVE P
  BY <1>12, <1>a DEF pruneLocked, GwTypes, GwKnown, IsTerminal, GwFinal
<1>13. ASSUME NEW c \in GwCalls, CallPersists(c) PROVE P
  BY <1>13, <1>b DEF CallPersists, persistLocked
<1>14. ASSUME NEW c \in GwCalls, StopAnswered(c) PROVE P
  BY <1>14, <1>b DEF StopAnswered
<1>15. ASSUME NEW c \in GwCalls, MarkStopping(c) PROVE P
  BY <1>15, <1>a DEF MarkStopping, GwTypes, GwKnown, IsTerminal, GwFinal
<1>16. ASSUME NEW c \in GwCalls, MarkNotFound(c) PROVE P
  BY <1>16, <1>a DEF MarkNotFound, GwTypes, GwKnown, IsTerminal, GwFinal
<1>17. ASSUME NEW b \in Browsers, NEW r \in GwRuns, Subscribe(b, r) PROVE P
  BY <1>17, <1>b DEF Subscribe
<1>18. ASSUME NEW b \in Browsers, ReplayHistory(b) PROVE P
  BY <1>18, <1>b DEF ReplayHistory
<1>19. ASSUME NEW b \in Browsers, CheckTerminal(b) PROVE P
  BY <1>19, <1>b DEF CheckTerminal
<1>20. ASSUME NEW b \in Browsers, Forward(b) PROVE P
  BY <1>20, <1>b DEF Forward
<1>21. ASSUME NEW b \in Browsers, LeaveStream(b) PROVE P
  BY <1>21, <1>b DEF LeaveStream
<1>22. ASSUME CloseBegin PROVE P
  BY <1>22, <1>b DEF CloseBegin
<1>23. ASSUME CloseReturn PROVE P
  BY <1>23, <1>b DEF CloseReturn
<1>24. ASSUME Exit PROVE P
  BY <1>24, <1>a DEF Exit, GwTypes, GwKnown, IsTerminal, GwFinal
<1>25. ASSUME Restart PROVE P
  BY <1>25, <1>a DEF Restart, GwTypes, GwKnown, IsTerminal, GwFinal
<1>26. CASE UNCHANGED gwVars
  BY <1>26, <1>b DEF gwVars
<1>. HIDE DEF P
<1>. QED
  BY <1>1, <1>2, <1>3, <1>4, <1>5, <1>6, <1>7, <1>8, <1>9, <1>10, <1>11, <1>12, <1>13, <1>14,
     <1>15, <1>16, <1>17, <1>18, <1>19, <1>20, <1>21, <1>22, <1>23, <1>24, <1>25, <1>26
  DEF GatewayNext, ObserverStep, GwEvents, GwFinal

-----------------------------------------------------------------------------
(* Iteration cards *)

ItEvents == {"same", "interrupted", "progress", "gated", "running", "waiting_for_user",
             "completed", "failed", "cancelled", "agent_error", "resumed"}

ItTypes ==
  /\ iter \in [state : Live \cup IterTerminal \cup {"interrupted"}, status : {"active", "dismissed"}, rev : Nat]
  /\ proc \in {"none", "up", "down"} /\ recovering \in BOOLEAN /\ open \in 0 .. MaxFeedback
  /\ iterCall \in [Callers -> [pc : {"idle", "commit", "cancel", "crash", "remove", "replay", "resume"},
                               ev : ItEvents, rev : Nat]]

\* A commit that will succeed was decided on the row that is there: an event or
\* a crash on a live iteration, a resumption, which the monitor never asks for,
\* on an interrupted one.
ItRead ==
  \A c \in Callers :
    /\ iterCall[c].rev <= iter.rev
    /\ iterCall[c].pc \in {"commit", "crash"} /\ iterCall[c].rev = iter.rev => iter.state \in Live
    /\ iterCall[c].pc = "resume" => c \in IterCalls /\ iterCall[c].ev = "resumed"
    /\ iterCall[c].pc = "resume" /\ iterCall[c].rev = iter.rev => iter.state = "interrupted"

ItInv == ItTypes /\ ItRead

\* What a commit makes of the row.
LEMMA ItCommit ==
  ASSUME ItTypes, NEW c \in Callers, Materialize(c)
  PROVE  \/ iter' = iter /\ iter.rev # iterCall[c].rev
         \/ /\ iter.rev = iterCall[c].rev
            /\ \E s \in Live \cup IterTerminal \cup {"interrupted"} :
                 /\ iter' = [state |-> s, status |-> iter.status, rev |-> iter.rev + 1]
                 /\ iterCall[c].ev = "same" => s = iter.state
<1>1. PICK s \in Live \cup IterTerminal \cup {"interrupted"}, t \in {"active", "dismissed"}, n \in Nat :
        iter = [state |-> s, status |-> t, rev |-> n]
  BY DEF ItTypes
<1>2. PICK e \in ItEvents : e = iterCall[c].ev
  BY DEF ItTypes
<1>3. PICK u \in Live \cup IterTerminal \cup {"interrupted"} : u = IF e = "same" THEN s ELSE reduceEvent(e)
  <2>1. e # "same" => reduceEvent(e) \in Live \cup IterTerminal \cup {"interrupted"}
    BY DEF reduceEvent, ItEvents, Live, IterTerminal
  <2>. QED
    BY <2>1
<1>4. CASE iter.rev = iterCall[c].rev
  <2>1. iter' = [iter EXCEPT !.rev = n + 1, !.state = u]
    BY <1>1, <1>2, <1>3, <1>4 DEF Materialize
  <2>2. iter' = [state |-> u, status |-> t, rev |-> n + 1]
    BY <1>1, <2>1
  <2>3. iter.status = t /\ iter.rev = n /\ iter.state = s
    BY <1>1
  <2>. QED
    BY <1>2, <1>3, <1>4, <2>2, <2>3
<1>5. CASE iter.rev # iterCall[c].rev
  BY <1>5 DEF Materialize
<1>. QED
  BY <1>4, <1>5

\* One action keeps the invariant, the end of an iteration and its interruption.
LEMMA ItStep ==
  ASSUME ItInv, [IterationNext]_iterVars
  PROVE  /\ ItInv'
         /\ iter.state \in IterTerminal => iter'.state = iter.state
         /\ iter.state = "interrupted" /\ iter'.state # "interrupted"
               => \E c \in IterCalls : iterCall[c].pc = "resume" /\ iterCall[c].rev = iter.rev
<1>. DEFINE P == /\ ItInv'
                 /\ iter.state \in IterTerminal => iter'.state = iter.state
                 /\ iter.state = "interrupted" /\ iter'.state # "interrupted"
                       => \E d \in IterCalls : iterCall[d].pc = "resume" /\ iterCall[d].rev = iter.rev
<1>. SUFFICES P
  OBVIOUS
<1>a. ItTypes /\ ItRead
  BY DEF ItInv
<1>b. ASSUME NEW c \in Callers, NEW pc \in {"commit", "crash", "resume"}, NEW e \in ItEvents, ToCommit(c, pc, e),
             iter' = iter, proc' = proc, recovering' = recovering, open' = open,
             pc \in {"commit", "crash"} => iter.state \in Live,
             pc = "resume" => iter.state = "interrupted" /\ c \in IterCalls /\ e = "resumed"
      PROVE  P
  <2>1. PICK n \in Nat : n = iter.rev
    BY <1>a DEF ItTypes
  <2>2. iterCall' = [iterCall EXCEPT ![c] = [pc |-> pc, ev |-> e, rev |-> n]]
    BY <1>b, <2>1 DEF ToCommit
  <2>. QED
    BY <1>a, <1>b, <2>1, <2>2 DEF ItInv, ItTypes, ItRead
<1>c. ASSUME NEW c \in Callers, NEW pc \in {"cancel", "remove", "replay"}, IterGoto(c, pc),
             iter' = iter, proc' \in {"none", "up", "down"}, recovering' \in BOOLEAN, open' \in 0 .. MaxFeedback
      PROVE  P
  <2>1. PICK f \in [pc : {"idle", "commit", "cancel", "crash", "remove", "replay", "resume"}, ev : ItEvents, rev : Nat] :
          f = iterCall[c]
    BY <1>a DEF ItTypes
  <2>2. iterCall' = [iterCall EXCEPT ![c] = [f EXCEPT !.pc = pc]]
    BY <1>c, <2>1 DEF IterGoto
  <2>. QED
    BY <1>a, <1>c, <2>1, <2>2 DEF ItInv, ItTypes, ItRead
<1>d. ASSUME NEW c \in Callers, IterDone(c),
             iter' = iter, proc' \in {"none", "up", "down"}, recovering' \in BOOLEAN, open' \in 0 .. MaxFeedback
      PROVE  P
  <2>1. IterIdle \in [pc : {"idle", "commit", "cancel", "crash", "remove", "replay", "resume"}, ev : ItEvents, rev : Nat]
        /\ IterIdle.pc = "idle" /\ IterIdle.rev = 0
    BY DEF IterIdle, ItEvents
  <2>2. iterCall' = [iterCall EXCEPT ![c] = IterIdle]
    BY <1>d DEF IterDone
  <2>3. iter.rev \in Nat
    BY <1>a DEF ItTypes
  <2>. QED
    BY <1>a, <1>d, <2>1, <2>2, <2>3 DEF ItInv, ItTypes, ItRead
<1>e. ASSUME iter' = iter, iterCall' = iterCall, proc' \in {"none", "up", "down"}, recovering' \in BOOLEAN, open' \in 0 .. MaxFeedback
      PROVE  P
  BY <1>a, <1>e DEF ItInv, ItTypes, ItRead
<1>f. ASSUME NEW c \in Callers, iterCall[c].pc \in {"commit", "crash", "resume"}, Materialize(c),
             IterDone(c) \/ IterGoto(c, "remove"), proc' = proc, recovering' \in BOOLEAN, open' = open
      PROVE  P
  <2>1. proc' \in {"none", "up", "down"} /\ open' \in 0 .. MaxFeedback
    BY <1>a, <1>f DEF ItTypes
  <2>2. CASE iter' = iter
    BY <2>1, <2>2, <1>c, <1>d, <1>f
  <2>3. ASSUME NEW s \in Live \cup IterTerminal \cup {"interrupted"}, iter.rev = iterCall[c].rev,
               iter' = [state |-> s, status |-> iter.status, rev |-> iter.rev + 1]
        PROVE  P
    <3>1. PICK n \in Nat : n = iter.rev /\ n + 1 \in Nat
      BY <1>a DEF ItTypes
    <3>2. PICK f \in [pc : {"idle", "commit", "cancel", "crash", "remove", "replay", "resume"}, ev : ItEvents, rev : Nat] :
            iterCall' = [iterCall EXCEPT ![c] = f] /\ f.pc \in {"idle", "remove"} /\ f.rev <= n
      <4>1. PICK g \in [pc : {"idle", "commit", "cancel", "crash", "remove", "replay", "resume"}, ev : ItEvents, rev : Nat] :
              g = iterCall[c] /\ g.rev <= n
        BY <1>a, <3>1 DEF ItTypes, ItRead
      <4>2. CASE IterGoto(c, "remove")
        <5>1. [g EXCEPT !.pc = "remove"] \in [pc : {"idle", "commit", "cancel", "crash", "remove", "replay", "resume"}, ev : ItEvents, rev : Nat]
              /\ [g EXCEPT !.pc = "remove"].pc = "remove" /\ [g EXCEPT !.pc = "remove"].rev = g.rev
          BY <4>1
        <5>2. iterCall' = [iterCall EXCEPT ![c] = [g EXCEPT !.pc = "remove"]]
          BY <4>1, <4>2 DEF IterGoto
        <5>. QED
          BY <4>1, <5>1, <5>2
      <4>3. CASE IterDone(c)
        <5>1. IterIdle \in [pc : {"idle", "commit", "cancel", "crash", "remove", "replay", "resume"}, ev : ItEvents, rev : Nat]
              /\ IterIdle.pc = "idle" /\ IterIdle.rev = 0
          BY DEF IterIdle, ItEvents
        <5>. QED
          <6>1. iterCall' = [iterCall EXCEPT ![c] = IterIdle] /\ IterIdle.rev <= n
            BY <4>3, <5>1, <3>1 DEF IterDone
          <6>. QED
            BY <5>1, <6>1
      <4>. QED
        BY <1>f, <4>2, <4>3
    <3>3. iter'.rev = n + 1 /\ iter'.state = s /\ iter' \in [state : Live \cup IterTerminal \cup {"interrupted"}, status : {"active", "dismissed"}, rev : Nat]
      BY <1>a, <2>3, <3>1 DEF ItTypes
    <3>4. ItTypes'
      BY <1>a, <1>f, <2>1, <3>2, <3>3 DEF ItTypes
    <3>5. \A d \in Callers : iterCall[d].rev \in Nat /\ iterCall[d].rev <= n
      BY <1>a, <3>1 DEF ItTypes, ItRead
    <3>6. ItRead'
      <4>. SUFFICES ASSUME NEW d \in Callers
                    PROVE  /\ iterCall'[d].rev <= n + 1 /\ iterCall'[d].rev # n + 1
                           /\ iterCall'[d].pc = "resume" => d \in IterCalls /\ iterCall'[d].ev = "resumed"
        BY <3>3 DEF ItRead
      <4>1. CASE d = c
        BY <1>a, <3>1, <3>2, <4>1 DEF ItTypes
      <4>2. CASE d # c
        BY <1>a, <3>1, <3>2, <3>5, <4>2 DEF ItTypes, ItRead
      <4>. QED
        BY <4>1, <4>2
    <3>7. \/ iter.state \in Live
          \/ iterCall[c].pc = "resume" /\ iter.state = "interrupted" /\ c \in IterCalls
      BY <1>a, <1>f, <2>3 DEF ItRead
    <3>. QED
      BY <2>3, <3>4, <3>6, <3>7 DEF ItInv, Live, IterTerminal
  <2>. QED
    BY <1>a, <1>f, <2>2, <2>3, ItCommit
<1>g. /\ proc \in {"none", "up", "down"} /\ recovering \in BOOLEAN /\ open \in 0 .. MaxFeedback
      /\ TRUE \in BOOLEAN /\ FALSE \in BOOLEAN /\ IterCalls \subseteq Callers /\ Monitor \in Callers
      /\ {"agent_error", "resumed", "cancelled"} \subseteq ItEvents /\ AgentEvents \subseteq ItEvents
      /\ {"same", "interrupted"} \cup Live \cup IterTerminal \subseteq ItEvents
  BY <1>a DEF ItTypes, Callers, ItEvents, AgentEvents, Live, IterTerminal
<1>1. ASSUME NEW c \in IterCalls, NEW e \in AgentEvents, AppendEvent(c, e) PROVE P
  <2>. HIDE DEF P
  <2>. QED
    BY <1>1, <1>g, <1>b DEF AppendEvent, MayAppend
<1>2. ASSUME NEW c \in IterCalls, NEW e \in {"same", "interrupted"} \cup Live \cup IterTerminal, PatchIteration(c, e) PROVE P
  <2>. HIDE DEF P
  <2>. QED
    BY <1>2, <1>g, <1>b DEF PatchIteration
<1>3. ASSUME NEW c \in IterCalls, CancelCard(c) PROVE P
  <2>1. PICK n \in 0 .. MaxFeedback : n = open
    BY <1>g
  <2>2. open' \in 0 .. MaxFeedback
    BY <1>3, <2>1, FeedbackAssumption DEF CancelCard
  <2>. HIDE DEF P
  <2>. QED
    BY <1>3, <1>g, <1>c, <2>2 DEF CancelCard
<1>4. ASSUME NEW c \in IterCalls, ReportMissing(c) PROVE P
  <2>. HIDE DEF P
  <2>. QED
    BY <1>4, <1>g, <1>b, <1>c DEF ReportMissing, ReportProcessStatus
<1>5. ASSUME NEW c \in IterCalls, BeginRecovery(c) PROVE P
  <2>. HIDE DEF P
  <2>. QED
    BY <1>5, <1>g, <1>c DEF BeginRecovery
<1>6. ASSUME NEW c \in IterCalls, ResumeProcess(c) PROVE P
  <2>. HIDE DEF P
  <2>. QED
    BY <1>6, <1>g, <1>b DEF ResumeProcess
<1>7. ASSUME NEW c \in Callers, CommitEvent(c) PROVE P
  <2>. HIDE DEF P
  <2>. QED
    BY <1>7, <1>g, <1>f DEF CommitEvent
<1>8. ASSUME NEW c \in Callers, CancelAccepted(c) PROVE P
  <2>. HIDE DEF P
  <2>. QED
    BY <1>8, <1>g, <1>b, <1>d DEF CancelAccepted, MayAppend
<1>9. ASSUME NEW c \in Callers, CommitCrash(c) PROVE P
  <2>. HIDE DEF P
  <2>. QED
    BY <1>9, <1>g, <1>f DEF CommitCrash
<1>10. ASSUME NEW c \in Callers, removeLiveProcess(c) PROVE P
  <2>. HIDE DEF P
  <2>. QED
    BY <1>10, <1>g, <1>d DEF removeLiveProcess
<1>11. ASSUME NEW c \in Callers, FeedbackReplayed(c) PROVE P
  <2>. HIDE DEF P
  <2>. QED
    BY <1>11, <1>g, <1>d DEF FeedbackReplayed
<1>12. ASSUME NEW c \in Callers, CommitResume(c) PROVE P
  <2>. HIDE DEF P
  <2>. QED
    BY <1>12, <1>g, <1>f DEF CommitResume
<1>13. ASSUME PollSeesCrash PROVE P
  <2>. HIDE DEF P
  <2>. QED
    BY <1>13, <1>g, <1>b, <1>c DEF PollSeesCrash, ReportProcessStatus
<1>14. ASSUME NEW st \in {"active", "dismissed"}, SetIterStatus(st) PROVE P
  <2>1. PICK s \in Live \cup IterTerminal \cup {"interrupted"}, t \in {"active", "dismissed"}, n \in Nat :
          iter = [state |-> s, status |-> t, rev |-> n]
    BY <1>a DEF ItTypes
  <2>2. iter.rev = n /\ iter.state = s /\ n + 1 \in Nat
    BY <2>1
  <2>3. iter' = [iter EXCEPT !.status = st, !.rev = n + 1]
    BY <1>14, <2>2 DEF SetIterStatus
  <2>4. iter' = [state |-> s, status |-> st, rev |-> n + 1]
    BY <2>1, <2>3
  <2>5. iter'.rev = n + 1 /\ iter'.state = s /\ iter' \in [state : Live \cup IterTerminal \cup {"interrupted"}, status : {"active", "dismissed"}, rev : Nat]
    BY <1>14, <2>2, <2>4
  <2>. QED
    BY <1>14, <1>a, <2>2, <2>5 DEF SetIterStatus, ItInv, ItTypes, ItRead
<1>15. ASSUME SubmitFeedback PROVE P
  <2>1. PICK n \in 0 .. MaxFeedback : n = open
    BY <1>g
  <2>2. open' \in 0 .. MaxFeedback
    BY <1>15, <2>1, FeedbackAssumption DEF SubmitFeedback
  <2>. HIDE DEF P
  <2>. QED
    BY <1>15, <1>g, <1>e, <2>2 DEF SubmitFeedback
<1>16. ASSUME AcknowledgeFeedback PROVE P
  <2>1. PICK n \in 0 .. MaxFeedback : n = open
    BY <1>g
  <2>2. open' \in 0 .. MaxFeedback
    BY <1>16, <2>1, FeedbackAssumption DEF AcknowledgeFeedback
  <2>. HIDE DEF P
  <2>. QED
    BY <1>16, <1>g, <1>e, <2>2 DEF AcknowledgeFeedback
<1>17. ASSUME ProcessCrashes PROVE P
  <2>. HIDE DEF P
  <2>. QED
    BY <1>17, <1>g, <1>e DEF ProcessCrashes
<1>18. ASSUME IterRestart PROVE P
  <2>1. IterIdle \in [pc : {"idle", "commit", "cancel", "crash", "remove", "replay", "resume"}, ev : ItEvents, rev : Nat]
        /\ IterIdle.pc = "idle" /\ IterIdle.rev = 0
    BY DEF IterIdle, ItEvents
  <2>. QED
    <3>1. iterCall' \in [Callers -> [pc : {"idle", "commit", "cancel", "crash", "remove", "replay", "resume"}, ev : ItEvents, rev : Nat]]
          /\ \A c \in Callers : iterCall'[c] = IterIdle
      BY <1>18, <2>1 DEF IterRestart
    <3>2. iter' = iter /\ proc' = "none" /\ recovering' = FALSE /\ open' = open /\ iter.rev \in Nat
      BY <1>18, <1>a DEF IterRestart, ItTypes
    <3>3. ItTypes'
      BY <1>a, <3>1, <3>2 DEF ItTypes
    <3>4. ItRead'
      BY <2>1, <3>1, <3>2 DEF ItRead
    <3>. QED
      BY <3>2, <3>3, <3>4 DEF ItInv
<1>19. CASE UNCHANGED iterVars
  BY <1>19, <1>e, <1>g DEF iterVars
<1>. HIDE DEF P
<1>. QED
  BY <1>1, <1>2, <1>3, <1>4, <1>5, <1>6, <1>7, <1>8, <1>9, <1>10, <1>11, <1>12, <1>13, <1>14,
     <1>15, <1>16, <1>17, <1>18, <1>19
  DEF IterationNext, IterationStep

\* The iteration and whatever calls and crashes are on their way.
THEOREM IterationInvariant == IterationSpec => []ItInv
<1>1. IterationInit => ItInv
  <2>. SUFFICES ASSUME IterationInit PROVE ItInv
    OBVIOUS
  <2>1. IterIdle \in [pc : {"idle", "commit", "cancel", "crash", "remove", "replay", "resume"}, ev : ItEvents, rev : Nat]
        /\ IterIdle.pc = "idle" /\ IterIdle.rev = 0
    BY DEF IterIdle, ItEvents
  <2>2. iter \in [state : Live \cup IterTerminal \cup {"interrupted"}, status : {"active", "dismissed"}, rev : Nat] /\ iter.rev = 1
    BY DEF IterationInit, Live
  <2>. QED
    <3>1. iterCall \in [Callers -> [pc : {"idle", "commit", "cancel", "crash", "remove", "replay", "resume"}, ev : ItEvents, rev : Nat]]
          /\ \A c \in Callers : iterCall[c] = IterIdle
      BY <2>1 DEF IterationInit
    <3>2. ItTypes
      <4>1. proc \in {"none", "up", "down"} /\ recovering \in BOOLEAN /\ open = 0
        BY DEF IterationInit
      <4>2. open \in 0 .. MaxFeedback
        BY <4>1, FeedbackAssumption
      <4>. QED
        BY <2>2, <3>1, <4>1, <4>2 DEF ItTypes
    <3>3. ItRead
      BY <2>1, <2>2, <3>1 DEF ItRead
    <3>. QED
      BY <3>2, <3>3 DEF ItInv
<1>. QED
  BY <1>1, ItStep, PTL DEF IterationSpec

-----------------------------------------------------------------------------
(* The Hermes client *)

HmCall ==
  hcall \in [pc : {"idle", "send", "sent", "answer", "backoff", "done"}, attempt : 0 .. MaxRetries + 1,
             outcome : {"none", "200", "400", "429", "5xx", "network", "cancelled"}, cancelled : BOOLEAN]

HmDeltas == {"delta", "done", "error"}

HmLoop == [pc : {"read", "emit", "judge", "report", "close", "over"}, sawDone : BOOLEAN, sawError : BOOLEAN,
           ev : HmDeltas \cup {"none", "eof", "reset"}]

HmReader == [pc : {"reading", "draining", "whole", "drained"}, got : SUBSET HmDeltas]

HmTypes ==
  /\ streamWire \in Seq(HmDeltas \cup {"eof", "reset"})
  /\ bodyClosed \in BOOLEAN /\ canceled \in BOOLEAN
  /\ loop \in HmLoop /\ (loop.pc = "emit" => loop.ev \in HmDeltas)
  /\ chan \in Seq(HmDeltas) /\ Len(chan) <= StreamBuffer
  /\ reader \in HmReader

\* The caller has seen x, or will find it in the channel.
HmSent(x) ==
  \/ x \in reader.got
  \/ \E i \in 1 .. Len(chan) : chan[i] = x
  \/ loop.pc = "emit" /\ loop.ev = x

\* What the loop notes it has sent or is sending; when it closes for a caller
\* that still reads, it has sent done or an error.
HmWhole ==
  /\ loop.sawDone => HmSent("done")
  /\ loop.sawError => HmSent("error")
  /\ reader.pc \in {"reading", "whole"} => ~canceled /\ (bodyClosed => loop.pc = "over")
  /\ reader.pc \in {"reading", "whole"} /\ loop.pc \in {"close", "over"} => HmSent("done") \/ HmSent("error")
  /\ reader.pc = "whole" => loop.pc = "over" /\ chan = <<>>

HmStream == HmTypes /\ HmWhole

LEMMA HmCallStep == HmCall /\ [CallStep]_callVars => HmCall'
<1>. SUFFICES ASSUME HmCall, [CallStep]_callVars PROVE HmCall'
  OBVIOUS
<1>1. PICK p \in {"idle", "send", "sent", "answer", "backoff", "done"}, a \in 0 .. MaxRetries + 1,
           o \in {"none", "200", "400", "429", "5xx", "network", "cancelled"}, k \in BOOLEAN :
        hcall = [pc |-> p, attempt |-> a, outcome |-> o, cancelled |-> k]
  BY DEF HmCall
<1>2. hcall.pc = p /\ hcall.attempt = a /\ hcall.outcome = o /\ hcall.cancelled = k
  BY <1>1
<1>3. PICK b \in 0 .. MaxRetries + 1 : b = IF a < MaxRetries + 1 THEN a + 1 ELSE a
  <2>1. (IF a < MaxRetries + 1 THEN a + 1 ELSE a) \in 0 .. MaxRetries + 1
    BY HermesAssumption
  <2>. QED
    BY <2>1
<1>4. CASE BeginCall
  BY <1>1, <1>4 DEF BeginCall, HmCall
<1>5. CASE SendAttempt
  BY <1>1, <1>2, <1>5 DEF SendAttempt, HmCall
<1>6. ASSUME NEW status \in {"200", "400", "429", "5xx", "network"}, GatewayAnswers(status) PROVE HmCall'
  BY <1>1, <1>6 DEF GatewayAnswers, HmCall
<1>7. CASE HandleAnswer
  <2>1. hcall' \in {[hcall EXCEPT !.pc = "done", !.outcome = "cancelled"], [hcall EXCEPT !.pc = "done"], [hcall EXCEPT !.pc = "backoff"]}
    BY <1>7 DEF HandleAnswer
  <2>. QED
    BY <1>1, <2>1 DEF HmCall
<1>8. CASE Backoff
  <2>1. \/ hcall' = [hcall EXCEPT !.pc = "send", !.attempt = b]
        \/ hcall' = [hcall EXCEPT !.pc = "done", !.outcome = "cancelled"]
    BY <1>2, <1>3, <1>8 DEF Backoff
  <2>. QED
    BY <1>1, <2>1 DEF HmCall
<1>9. CASE CancelCall
  BY <1>1, <1>9 DEF CancelCall, HmCall
<1>10. CASE UNCHANGED callVars
  BY <1>10 DEF callVars, HmCall
<1>. QED
  BY <1>4, <1>5, <1>6, <1>7, <1>8, <1>9, <1>10 DEF CallStep, CallProgress

\* What is put at the end of the channel is there, and nothing else is lost.
LEMMA HmAppended ==
  ASSUME NEW q \in Seq(HmDeltas), NEW x \in HmDeltas
  PROVE  /\ Append(q, x) \in Seq(HmDeltas) /\ Len(Append(q, x)) = Len(q) + 1
         /\ \A y : (\E i \in 1 .. Len(Append(q, x)) : Append(q, x)[i] = y) <=> y = x \/ (\E i \in 1 .. Len(q) : q[i] = y)
<1>1. PICK n \in Nat : n = Len(q)
  OBVIOUS
<1>2. /\ Append(q, x) \in Seq(HmDeltas) /\ Len(Append(q, x)) = n + 1 /\ Append(q, x)[n + 1] = x
      /\ \A i \in 1 .. n : Append(q, x)[i] = q[i]
  BY <1>1
<1>3. \A i \in 1 .. n + 1 : i = n + 1 \/ i \in 1 .. n
  OBVIOUS
<1>. QED
  BY <1>1, <1>2, <1>3

LEMMA HmTaken ==
  ASSUME NEW q \in Seq(HmDeltas), q # <<>>
  PROVE  /\ Head(q) \in HmDeltas /\ Tail(q) \in Seq(HmDeltas) /\ Len(Tail(q)) = Len(q) - 1
         /\ \A y : (\E i \in 1 .. Len(q) : q[i] = y) <=> y = Head(q) \/ (\E i \in 1 .. Len(Tail(q)) : Tail(q)[i] = y)
<1>1. PICK n \in Nat : n = Len(q) - 1 /\ Len(q) = n + 1
  OBVIOUS
<1>2. Tail(q) \in Seq(HmDeltas) /\ Len(Tail(q)) = n /\ (\A i \in 1 .. n : Tail(q)[i] = q[i + 1]) /\ Head(q) = q[1] /\ Head(q) \in HmDeltas
  BY <1>1
<1>3. ASSUME NEW y, NEW i \in 1 .. Len(q), q[i] = y PROVE y = Head(q) \/ (\E j \in 1 .. Len(Tail(q)) : Tail(q)[j] = y)
  <2>1. CASE i = 1
    BY <1>2, <1>3, <2>1
  <2>2. CASE i # 1
    <3>1. i - 1 \in 1 .. n /\ (i - 1) + 1 = i
      BY <1>1, <2>2
    <3>2. Tail(q)[i - 1] = y
      BY <1>2, <1>3, <3>1
    <3>. QED
      BY <1>2, <3>1, <3>2
  <2>. QED
    BY <2>1, <2>2
<1>4. ASSUME NEW y, y = Head(q) \/ (\E j \in 1 .. Len(Tail(q)) : Tail(q)[j] = y) PROVE \E i \in 1 .. Len(q) : q[i] = y
  BY <1>1, <1>2, <1>4
<1>. QED
  BY <1>1, <1>2, <1>3, <1>4

LEMMA HmStreamStep == HmStream /\ [StreamStep]_streamVars => HmStream'
<1>. SUFFICES ASSUME HmStream, [StreamStep]_streamVars PROVE HmStream'
  OBVIOUS
<1>a. HmTypes /\ HmWhole
  BY DEF HmStream
<1>b. PICK p \in {"read", "emit", "judge", "report", "close", "over"}, d \in BOOLEAN, r \in BOOLEAN,
           e \in HmDeltas \cup {"none", "eof", "reset"} :
        loop = [pc |-> p, sawDone |-> d, sawError |-> r, ev |-> e]
  BY <1>a DEF HmTypes, HmLoop
<1>c. loop.pc = p /\ loop.sawDone = d /\ loop.sawError = r /\ loop.ev = e
  BY <1>b
<1>d. PICK u \in {"reading", "draining", "whole", "drained"}, g \in SUBSET HmDeltas : reader = [pc |-> u, got |-> g]
  BY <1>a DEF HmTypes, HmReader
<1>e. reader.pc = u /\ reader.got = g
  BY <1>d
<1>1. ASSUME NEW ev \in {"delta", "done", "error"}, GatewayStreams(ev) PROVE HmStream'
  <2>1. HmTypes'
    BY <1>1, <1>a DEF GatewayStreams, HmTypes, HmDeltas
  <2>2. HmWhole'
    BY <1>1, <1>a DEF GatewayStreams, HmWhole, HmSent
  <2>. QED
    BY <2>1, <2>2 DEF HmStream
<1>2. ASSUME NEW how \in {"eof", "reset"}, GatewayEnds(how) PROVE HmStream'
  <2>1. HmTypes'
    BY <1>2, <1>a DEF GatewayEnds, HmTypes
  <2>2. HmWhole'
    BY <1>2, <1>a DEF GatewayEnds, HmWhole, HmSent
  <2>. QED
    BY <2>1, <2>2 DEF HmStream
<1>3. CASE parseSSE
  <2>1. CASE bodyClosed
    <3>1. loop' = [pc |-> "judge", sawDone |-> d, sawError |-> r, ev |-> "reset"] /\ streamWire' = streamWire
      BY <1>3, <1>b, <2>1 DEF parseSSE
    <3>2. HmTypes'
      BY <1>3, <1>a, <3>1 DEF parseSSE, HmTypes, HmLoop
    <3>3. HmWhole'
      BY <1>3, <1>a, <1>c, <3>1, <2>1 DEF parseSSE, HmWhole, HmSent
    <3>. QED
      BY <3>2, <3>3 DEF HmStream
  <2>2. CASE ~bodyClosed
    <3>1. PICK w \in Seq(HmDeltas \cup {"eof", "reset"}) : w = streamWire /\ w # <<>>
      BY <1>3, <1>a, <2>2 DEF parseSSE, HmTypes
    <3>2. Head(w) \in HmDeltas \cup {"eof", "reset"} /\ Tail(w) \in Seq(HmDeltas \cup {"eof", "reset"})
      BY <3>1
    <3>3. PICK h \in HmDeltas \cup {"eof", "reset"}, x \in BOOLEAN, y \in BOOLEAN :
            h = Head(w) /\ x = (d \/ h = "done") /\ y = (r \/ h = "error")
      BY <3>2
    <3>4. /\ streamWire' = Tail(w)
          /\ loop' = IF h \in {"eof", "reset"} THEN [pc |-> "judge", sawDone |-> d, sawError |-> r, ev |-> h]
                     ELSE [pc |-> "emit", sawDone |-> x, sawError |-> y, ev |-> h]
      BY <1>3, <1>b, <1>c, <2>2, <3>1, <3>3 DEF parseSSE
    <3>5. CASE h \in {"eof", "reset"}
      <4>1. loop' = [pc |-> "judge", sawDone |-> d, sawError |-> r, ev |-> h]
        BY <3>4, <3>5
      <4>2. HmTypes'
        BY <1>3, <1>a, <3>2, <3>4, <4>1 DEF parseSSE, HmTypes, HmLoop
      <4>3. HmWhole'
        BY <1>3, <1>a, <1>c, <4>1, <2>2 DEF parseSSE, HmWhole, HmSent
      <4>. QED
        BY <4>2, <4>3 DEF HmStream
    <3>6. CASE h \notin {"eof", "reset"}
      <4>1. loop' = [pc |-> "emit", sawDone |-> x, sawError |-> y, ev |-> h] /\ h \in HmDeltas
        BY <3>4, <3>6
      <4>2. HmTypes'
        BY <1>3, <1>a, <3>2, <3>4, <4>1 DEF parseSSE, HmTypes, HmLoop
      <4>3. HmWhole'
        BY <1>3, <1>a, <1>c, <3>3, <4>1, <2>2 DEF parseSSE, HmWhole, HmSent
      <4>. QED
        BY <4>2, <4>3 DEF HmStream
    <3>. QED
      BY <3>5, <3>6
  <2>. QED
    BY <2>1, <2>2
<1>4. CASE EmitDelta
  <2>1. PICK q \in Seq(HmDeltas), n \in Nat : q = chan /\ n = Len(q) /\ n < StreamBuffer /\ e \in HmDeltas
    BY <1>4, <1>a, <1>c DEF EmitDelta, HmTypes
  <2>2. chan' = Append(q, e) /\ loop' = [pc |-> "read", sawDone |-> d, sawError |-> r, ev |-> e] /\ p = "emit"
    BY <1>4, <1>b, <1>c, <2>1 DEF EmitDelta
  <2>3. /\ chan' \in Seq(HmDeltas) /\ Len(chan') = n + 1
        /\ \A y : (\E i \in 1 .. Len(chan') : chan'[i] = y) <=> y = e \/ (\E i \in 1 .. Len(chan) : chan[i] = y)
    BY <2>1, <2>2, HmAppended
  <2>4. Len(chan') <= StreamBuffer
    BY <2>1, <2>3, HermesAssumption
  <2>5. HmTypes'
    BY <1>4, <1>a, <2>1, <2>2, <2>3, <2>4 DEF EmitDelta, HmTypes, HmLoop
  <2>6. \A y : HmSent(y)' <=> HmSent(y)
    BY <1>4, <1>c, <2>2, <2>3 DEF EmitDelta, HmSent
  <2>7. HmWhole'
    BY <1>4, <1>a, <1>c, <2>2, <2>6 DEF EmitDelta, HmWhole
  <2>. QED
    BY <2>5, <2>7 DEF HmStream
<1>5. CASE JudgeEnd
  <2>1. PICK c \in {"close", "report"} :
          c = IF (e = "eof" /\ d) \/ bodyClosed \/ canceled \/ r THEN "close" ELSE "report"
    OBVIOUS
  <2>2. loop' = [pc |-> c, sawDone |-> d, sawError |-> r, ev |-> e] /\ p = "judge"
    BY <1>5, <1>b, <1>c, <2>1 DEF JudgeEnd
  <2>3. HmTypes'
    BY <1>5, <1>a, <2>2 DEF JudgeEnd, HmTypes, HmLoop
  <2>4. HmWhole'
    BY <1>5, <1>a, <1>c, <2>1, <2>2 DEF JudgeEnd, HmWhole, HmSent
  <2>. QED
    BY <2>3, <2>4 DEF HmStream
<1>6. CASE ReportTruncation
  <2>1. PICK q \in Seq(HmDeltas), n \in Nat : q = chan /\ n = Len(q) /\ n < StreamBuffer
    BY <1>6, <1>a DEF ReportTruncation, HmTypes
  <2>2. chan' = Append(q, "error") /\ loop' = [pc |-> "close", sawDone |-> d, sawError |-> r, ev |-> e] /\ p = "report" /\ "error" \in HmDeltas
    BY <1>6, <1>b, <1>c, <2>1 DEF ReportTruncation, HmDeltas
  <2>3. /\ chan' \in Seq(HmDeltas) /\ Len(chan') = n + 1
        /\ \A y : (\E i \in 1 .. Len(chan') : chan'[i] = y) <=> y = "error" \/ (\E i \in 1 .. Len(chan) : chan[i] = y)
    BY <2>1, <2>2, HmAppended
  <2>4. Len(chan') <= StreamBuffer
    BY <2>1, <2>3, HermesAssumption
  <2>5. HmTypes'
    BY <1>6, <1>a, <2>2, <2>3, <2>4 DEF ReportTruncation, HmTypes, HmLoop
  <2>6. HmSent("error")' /\ \A y : HmSent(y) => HmSent(y)'
    BY <1>6, <1>c, <2>2, <2>3 DEF ReportTruncation, HmSent
  <2>7. HmWhole'
    BY <1>6, <1>a, <1>c, <2>2, <2>6 DEF ReportTruncation, HmWhole
  <2>. QED
    BY <2>5, <2>7 DEF HmStream
<1>7. CASE CloseStream
  <2>1. loop' = [pc |-> "over", sawDone |-> d, sawError |-> r, ev |-> e] /\ p = "close"
    BY <1>7, <1>b, <1>c DEF CloseStream
  <2>2. HmTypes'
    BY <1>7, <1>a, <2>1 DEF CloseStream, HmTypes, HmLoop
  <2>3. HmWhole'
    BY <1>7, <1>a, <1>c, <2>1 DEF CloseStream, HmWhole, HmSent
  <2>. QED
    BY <2>2, <2>3 DEF HmStream
<1>8. CASE WatchContext
  <2>1. HmTypes'
    BY <1>8, <1>a DEF WatchContext, HmTypes
  <2>2. HmWhole'
    BY <1>8, <1>a DEF WatchContext, HmWhole, HmSent
  <2>. QED
    BY <2>1, <2>2 DEF HmStream
<1>9. CASE TakeDelta
  <2>1. CASE chan # <<>>
    <3>1. PICK q \in Seq(HmDeltas), n \in Nat : q = chan /\ n = Len(q) /\ q # <<>> /\ n <= StreamBuffer
      BY <1>a, <2>1 DEF HmTypes
    <3>2. /\ Head(q) \in HmDeltas /\ Tail(q) \in Seq(HmDeltas) /\ Len(Tail(q)) = n - 1
          /\ \A y : (\E i \in 1 .. Len(q) : q[i] = y) <=> y = Head(q) \/ (\E i \in 1 .. Len(Tail(q)) : Tail(q)[i] = y)
      BY <3>1, HmTaken
    <3>3. PICK h \in HmDeltas, f \in SUBSET HmDeltas : h = Head(q) /\ f = g \cup {h}
      BY <3>2
    <3>4. chan' = Tail(q) /\ reader' = [pc |-> u, got |-> f]
      BY <1>9, <1>d, <2>1, <3>1, <3>3 DEF TakeDelta
    <3>5. HmTypes'
      BY <1>9, <1>a, <3>1, <3>2, <3>4, HermesAssumption DEF TakeDelta, HmTypes, HmReader
    <3>6. \A y : HmSent(y)' <=> HmSent(y)
      BY <1>9, <1>e, <3>1, <3>2, <3>3, <3>4, ZenonT(40) DEF TakeDelta, HmSent
    <3>7. u # "whole"
      BY <1>9, <1>e DEF TakeDelta
    <3>8. HmWhole'
      BY <1>9, <1>a, <1>e, <3>4, <3>6, <3>7 DEF TakeDelta, HmWhole
    <3>. QED
      BY <3>5, <3>8 DEF HmStream
  <2>2. CASE chan = <<>>
    <3>1. reader' = [pc |-> IF u = "reading" THEN "whole" ELSE "drained", got |-> g] /\ chan' = chan /\ p = "over"
      BY <1>9, <1>c, <1>d, <1>e, <2>2 DEF TakeDelta
    <3>2. HmTypes'
      BY <1>9, <1>a, <3>1 DEF TakeDelta, HmTypes, HmReader
    <3>3. HmWhole'
      BY <1>9, <1>a, <1>c, <1>e, <2>2, <3>1 DEF TakeDelta, HmWhole, HmSent
    <3>. QED
      BY <3>2, <3>3 DEF HmStream
  <2>. QED
    BY <2>1, <2>2
<1>10. CASE CloseAndDrain \/ CancelStream
  <2>1. reader' = [pc |-> "draining", got |-> g]
    BY <1>10, <1>d DEF CloseAndDrain, CancelStream
  <2>2. HmTypes'
    BY <1>10, <1>a, <2>1 DEF CloseAndDrain, CancelStream, HmTypes, HmReader
  <2>3. HmWhole'
    BY <1>10, <1>a, <1>e, <2>1 DEF CloseAndDrain, CancelStream, HmWhole, HmSent
  <2>. QED
    BY <2>2, <2>3 DEF HmStream
<1>11. CASE UNCHANGED streamVars
  BY <1>11, <1>a DEF streamVars, HmStream, HmTypes, HmWhole, HmSent
<1>. QED
  BY <1>1, <1>2, <1>3, <1>4, <1>5, <1>6, <1>7, <1>8, <1>9, <1>10, <1>11 DEF StreamStep, LoopStep

\* What the run checks of the stream.
LEMMA HmStreamSound == HmStream => bodyClosed \in BOOLEAN /\ Len(chan) <= StreamBuffer /\ TruncationNoticed
  BY DEF HmStream, HmTypes, HmWhole, HmSent, TruncationNoticed

-----------------------------------------------------------------------------
(* The active profile *)

HmRoute ==
  /\ routes \in [Profiles -> [active : BOOLEAN, used : Int]]
  /\ routeSet \in [RouteSets -> [pc : {"idle", "reset", "upsert", "done"}, profile : Profiles \cup {"none"}, at : Int]]
  /\ \A s \in RouteSets : routeSet[s].pc \in {"reset", "upsert"} => routeSet[s].profile \in Profiles
  /\ routeClock \in Int

\* A set that runs alone finds no active row after its reset, and leaves one.
HmAlone ==
  ~overlapped =>
    /\ \A s, t \in InFlight : s = t
    /\ \A s \in RouteSets : routeSet[s].pc = "upsert" => Active = {}
    /\ InFlight = {} => \A p, q \in Active : p = q

HmRoutes == HmRoute /\ HmAlone

LEMMA HmRouteStep == HmRoutes /\ [RouteStep]_routeVars => HmRoutes'
<1>. SUFFICES ASSUME HmRoutes, [RouteStep]_routeVars PROVE HmRoutes'
  OBVIOUS
<1>. USE DEF Active, InFlight
<1>a. HmRoute /\ HmAlone
  BY DEF HmRoutes
<1>1. ASSUME NEW s \in RouteSets, ResetActive(s) PROVE HmRoutes'
  <2>1. PICK f \in [pc : {"idle", "reset", "upsert", "done"}, profile : Profiles \cup {"none"}, at : Int] : f = routeSet[s]
    BY <1>a DEF HmRoute
  <2>2. routeSet' = [routeSet EXCEPT ![s] = [f EXCEPT !.pc = "upsert"]] /\ f.pc = "reset" /\ f.profile \in Profiles
    BY <1>1, <1>a, <2>1 DEF ResetActive, HmRoute
  <2>3. /\ routes' \in [Profiles -> [active : BOOLEAN, used : Int]]
        /\ \A p \in Profiles : routes'[p].active = FALSE
    <3>1. routes' = [p \in Profiles |-> [routes[p] EXCEPT !.active = FALSE]]
      BY <1>1 DEF ResetActive
    <3>2. ASSUME NEW p \in Profiles
          PROVE  routes'[p] \in [active : BOOLEAN, used : Int] /\ routes'[p].active = FALSE
      <4>1. routes[p] \in [active : BOOLEAN, used : Int] /\ routes'[p] = [routes[p] EXCEPT !.active = FALSE]
        BY <3>1, <1>a DEF HmRoute
      <4>. QED
        BY <4>1
    <3>. QED
      BY <3>1, <3>2
  <2>4. HmRoute'
    BY <1>1, <1>a, <2>1, <2>2, <2>3 DEF ResetActive, HmRoute
  <2>5. HmAlone'
    BY <1>1, <1>a, <2>1, <2>2, <2>3 DEF ResetActive, HmRoute, HmAlone
  <2>. QED
    BY <2>4, <2>5 DEF HmRoutes
<1>2. ASSUME NEW s \in RouteSets, UpsertActive(s) PROVE HmRoutes'
  <2>1. PICK f \in [pc : {"idle", "reset", "upsert", "done"}, profile : Profiles \cup {"none"}, at : Int] : f = routeSet[s]
    BY <1>a DEF HmRoute
  <2>2. routeSet' = [routeSet EXCEPT ![s] = [f EXCEPT !.pc = "done"]] /\ f.pc = "upsert" /\ f.profile \in Profiles
    BY <1>2, <1>a, <2>1 DEF UpsertActive, HmRoute
  <2>3. routes' = [routes EXCEPT ![f.profile] = [active |-> TRUE, used |-> f.at]]
    BY <1>2, <2>1 DEF UpsertActive
  <2>4. HmRoute'
    BY <1>2, <1>a, <2>1, <2>2, <2>3 DEF UpsertActive, HmRoute
  <2>5. HmAlone'
    BY <1>2, <1>a, <2>1, <2>2, <2>3 DEF UpsertActive, HmRoute, HmAlone
  <2>. QED
    BY <2>4, <2>5 DEF HmRoutes
<1>3. ASSUME NEW s \in RouteSets, NEW p \in Profiles, SetBegin(s, p) PROVE HmRoutes'
  <2>1. PICK n \in Int : n = routeClock'
    BY <1>3, <1>a DEF SetBegin, HmRoute
  <2>2. routeSet' = [routeSet EXCEPT ![s] = [pc |-> "reset", profile |-> p, at |-> n]] /\ routeSet[s].pc = "idle"
    BY <1>3, <2>1 DEF SetBegin
  <2>4. HmRoute'
    BY <1>3, <1>a, <2>1, <2>2 DEF SetBegin, HmRoute
  <2>5. HmAlone'
    <3>1. ASSUME ~overlapped' PROVE InFlight = {}
      BY <1>3, <3>1 DEF SetBegin
    <3>2. \A t \in RouteSets \ {s} : routeSet'[t] = routeSet[t]
      BY <1>a, <2>2 DEF HmRoute
    <3>3. routeSet'[s].pc = "reset"
      BY <1>a, <2>2 DEF HmRoute
    <3>4. InFlight = {} => InFlight' = {s} /\ \A t \in RouteSets : routeSet'[t].pc # "upsert"
      BY <3>2, <3>3
    <3>. QED
      BY <3>1, <3>4 DEF HmAlone
  <2>. QED
    BY <2>4, <2>5 DEF HmRoutes
<1>4. ASSUME NEW p \in Profiles, RemoveProfile(p) PROVE HmRoutes'
  <2>4. HmRoute'
    BY <1>4, <1>a DEF RemoveProfile, HmRoute
  <2>5. HmAlone'
    BY <1>4, <1>a DEF RemoveProfile, HmRoute, HmAlone
  <2>. QED
    BY <2>4, <2>5 DEF HmRoutes
<1>5. CASE UNCHANGED routeVars
  BY <1>5, <1>a DEF routeVars, HmRoutes, HmRoute, HmAlone
<1>. QED
  BY <1>1, <1>2, <1>3, <1>4, <1>5 DEF RouteStep

\* What the run checks of the routes.
LEMMA HmRoutesSound == HmRoutes => Active \subseteq Profiles /\ OneActiveRoute
<1>. SUFFICES ASSUME HmRoutes, InFlight = {}, ~overlapped PROVE Cardinality(Active) <= 1
  BY DEF OneActiveRoute, Active
<1>1. Active = {} \/ \E p \in Active : Active = {p}
  BY DEF HmRoutes, HmAlone
<1>2. CASE Active = {}
  BY <1>2, FS_EmptySet
<1>3. ASSUME NEW p \in Active, Active = {p} PROVE Cardinality(Active) <= 1
  <2>1. Cardinality({p}) = 1
    BY FS_Singleton
  <2>. QED
    BY <1>3, <2>1
<1>. QED
  BY <1>1, <1>2, <1>3

\* The client, its three parts side by side.
THEOREM HermesInvariant == HermesSpec => [](HmCall /\ HmStream /\ HmRoutes)
<1>1. HermesInit => HmCall /\ HmStream /\ HmRoutes
  <2>. SUFFICES ASSUME HermesInit PROVE HmCall /\ HmStream /\ HmRoutes
    OBVIOUS
  <2>1. HmCall
    BY HermesAssumption DEF HermesInit, HmCall
  <2>2. HmTypes
    <3>1. /\ streamWire = <<>> /\ chan = <<>> /\ bodyClosed = FALSE /\ canceled = FALSE
          /\ loop = [pc |-> "read", sawDone |-> FALSE, sawError |-> FALSE, ev |-> "none"]
          /\ reader = [pc |-> "reading", got |-> {}]
      BY DEF HermesInit
    <3>2. loop \in HmLoop /\ loop.pc = "read"
      BY <3>1 DEF HmLoop
    <3>3. reader \in HmReader
      BY <3>1 DEF HmReader
    <3>4. chan \in Seq(HmDeltas) /\ Len(chan) <= StreamBuffer /\ streamWire \in Seq(HmDeltas \cup {"eof", "reset"})
      BY <3>1, HermesAssumption
    <3>. QED
      BY <3>1, <3>2, <3>3, <3>4 DEF HmTypes
  <2>3. HmWhole
    BY DEF HermesInit, HmWhole, HmSent
  <2>4. HmRoutes
    BY DEF HermesInit, HmRoutes, HmRoute, HmAlone, Active, InFlight
  <2>. QED
    BY <2>1, <2>2, <2>3, <2>4 DEF HmStream
<1>2. HmCall /\ HmStream /\ HmRoutes /\ [HermesNext]_hermesVars => (HmCall /\ HmStream /\ HmRoutes)'
  BY HmCallStep, HmStreamStep, HmRouteStep DEF HermesNext, hermesVars, callVars, streamVars,
     routeVars
<1>. QED
  BY <1>1, <1>2, PTL DEF HermesSpec

-----------------------------------------------------------------------------
(* One SSE client *)

Closing == {"flushing", "signalling", "closing"}

ClTypes ==
  /\ closed \in BOOLEAN /\ channel \in {"open", "closed"}
  /\ outbox \in Seq(Nat) /\ Len(outbox) <= Cap
  /\ accepted \in Nat /\ written \in Seq(Nat) /\ msg \in Nat
  /\ goroutine \in [Goroutines -> {"idle", "checked", "drop", "dead", "done"} \cup Closing]
  /\ flush \in {"between", "loop", "writing", "gone"}
  /\ drainer \in {"none", "running", "exited"}
  /\ panicked \in BOOLEAN

Checked == {h \in Senders : goroutine[h] = "checked"}

\* A sender past the flag test has a message to its name.
ClBound == accepted + Cardinality(Checked) <= MaxMsgs

\* Whoever is inside Close set the flag, and nobody else is.
ClClosers ==
  /\ \A g \in Goroutines : goroutine[g] \in Closing => closed
  /\ channel = "closed" \/ drainer # "none" => closed
  /\ goroutine[Forcer] # "checked"
  /\ OneCloser

\* What is written, what is about to be and what waits: in the order of
\* acceptance, also when the drain takes messages away.
ClOrder ==
  /\ \A i, j \in 1 .. Len(written) : i < j => written[i] < written[j]
  /\ \A i \in 1 .. Len(written) : written[i] \in 1 .. accepted
  /\ msg <= accepted /\ (msg # 0 => flush \in {"writing", "gone"} /\ \A i \in 1 .. Len(written) : written[i] < msg)
  /\ \A k \in 1 .. Len(outbox) :
       /\ outbox[k] \in 1 .. accepted /\ msg < outbox[k]
       /\ \A i \in 1 .. Len(written) : written[i] < outbox[k]
       /\ \A l \in 1 .. Len(outbox) : k < l => outbox[k] < outbox[l]

InHand == IF msg = 0 THEN 0 ELSE 1

\* While the client is open nothing is missing.
ClFifo ==
  ~closed =>
    /\ accepted = Len(written) + InHand + Len(outbox)
    /\ \A i \in 1 .. Len(written) : written[i] = i
    /\ msg # 0 => msg = Len(written) + 1
    /\ \A k \in 1 .. Len(outbox) : outbox[k] = Len(written) + InHand + k

ClInv == ClTypes /\ ClBound /\ ClClosers /\ ClOrder /\ ClFifo

LEMMA ClCheckedFinite == IsFiniteSet(Checked) /\ Cardinality(Checked) \in Nat
<1>1. IsFiniteSet(Checked)
  BY SendersAssumption, FS_Subset DEF Checked
<1>. QED
  BY <1>1, FS_CardinalityType

\* A goroutine moves and the messages stay where they are.
LEMMA ClMoves ==
  ASSUME ClInv, NEW g \in Goroutines, NEW l \in {"idle", "drop", "dead", "done"} \cup Closing, ClientGoto(g, l),
         UNCHANGED <<outbox, accepted, written, flush, msg>>,
         closed' \in BOOLEAN, channel' \in {"open", "closed"}, drainer' \in {"none", "running", "exited"}, panicked' \in BOOLEAN,
         closed => closed', channel' = "closed" \/ drainer' # "none" => closed',
         l \in Closing => closed' /\ (goroutine[g] \in Closing \/ ~closed)
  PROVE  ClInv'
<1>a. ClTypes /\ ClBound /\ ClClosers /\ ClOrder /\ ClFifo
  BY DEF ClInv
<1>b. goroutine' = [goroutine EXCEPT ![g] = l]
  BY DEF ClientGoto
<1>1. ClTypes'
  BY <1>a, <1>b DEF ClTypes
<1>2. ClBound'
  <2>1. Checked' \subseteq Checked
    BY <1>a, <1>b DEF Checked, ClTypes, Goroutines, Closing
  <2>2. PICK S : S = Checked'
    OBVIOUS
  <2>3. Cardinality(S) <= Cardinality(Checked) /\ Cardinality(S) \in Nat
    BY <2>1, <2>2, ClCheckedFinite, FS_Subset, FS_CardinalityType
  <2>. QED
    BY <1>a, <2>2, <2>3, ClCheckedFinite, MaxMsgsAssumption DEF ClBound, ClTypes
<1>3. ClClosers'
  BY <1>a, <1>b DEF ClClosers, OneCloser, ClTypes, Closing
<1>4. ClOrder' /\ ClFifo'
  BY <1>a DEF ClOrder, ClFifo, InHand
<1>. QED
  BY <1>1, <1>2, <1>3, <1>4 DEF ClInv

\* The flag test of Send; an error goes on to Close.
LEMMA ClSendCheck == ASSUME ClInv, NEW g \in Senders, SendCheck(g) PROVE ClInv'
<1>a. ClTypes /\ ClBound /\ ClClosers /\ ClOrder /\ ClFifo
  BY DEF ClInv
<1>b. /\ goroutine' = [goroutine EXCEPT ![g] = IF closed THEN "drop" ELSE "checked"]
      /\ g \in Goroutines /\ g # Forcer
      /\ UNCHANGED <<closed, channel, outbox, accepted, written, flush, msg, drainer, panicked>>
  BY ForcerAssumption DEF SendCheck, ClientGoto, Goroutines
<1>1. ClTypes'
  BY <1>a, <1>b DEF ClTypes
<1>2. ClBound'
  <2>1. Checked' \subseteq Checked \cup {g}
    BY <1>a, <1>b DEF Checked, ClTypes, Goroutines
  <2>2. PICK S : S = Checked'
    OBVIOUS
  <2>3. PICK n \in Nat : n = Cardinality(Checked) /\ accepted + n < MaxMsgs
    BY ClCheckedFinite DEF SendCheck, Checked
  <2>4. PICK m \in Nat : m = Cardinality(Checked \cup {g}) /\ m <= n + 1
    <3>1. Cardinality(Checked \cup {g}) \in {n, n + 1}
      BY ClCheckedFinite, FS_AddElement, <2>3
    <3>. QED
      BY <3>1
  <2>5. IsFiniteSet(Checked \cup {g})
    BY ClCheckedFinite, FS_AddElement
  <2>6. PICK k \in Nat : k = Cardinality(S) /\ k <= m
    BY <2>1, <2>2, <2>4, <2>5, FS_Subset, FS_CardinalityType
  <2>7. accepted + k <= MaxMsgs
    BY <1>a, <2>3, <2>4, <2>6, MaxMsgsAssumption DEF ClTypes
  <2>. QED
    BY <1>b, <2>2, <2>6, <2>7 DEF ClBound
<1>3. ClClosers'
  BY <1>a, <1>b DEF ClClosers, OneCloser, ClTypes, Closing
<1>4. ClOrder' /\ ClFifo'
  BY <1>a, <1>b DEF ClOrder, ClFifo, InHand
<1>. QED
  BY <1>1, <1>2, <1>3, <1>4 DEF ClInv

\* The message is the next one, and goes to the end of the outbox.
LEMMA ClSendQueued == ASSUME ClInv, NEW g \in Senders, SendQueued(g) PROVE ClInv'
<1>a. ClTypes /\ ClBound /\ ClClosers /\ ClOrder /\ ClFifo
  BY DEF ClInv
<1>b. /\ goroutine' = [goroutine EXCEPT ![g] = "idle"] /\ g \in Goroutines /\ goroutine[g] = "checked"
      /\ UNCHANGED <<closed, channel, written, flush, msg, drainer, panicked>>
      /\ outbox' = Append(outbox, accepted + 1) /\ accepted' = accepted + 1 /\ Len(outbox) < Cap
  BY DEF SendQueued, Put, ClientGoto, Goroutines
<1>c. PICK q \in Seq(Nat), n \in Nat, a \in Nat : q = outbox /\ n = Len(q) /\ a = accepted /\ a + 1 \in Nat
  BY <1>a DEF ClTypes
<1>d. /\ outbox' \in Seq(Nat) /\ Len(outbox') = n + 1 /\ outbox'[n + 1] = a + 1
      /\ \A i \in 1 .. n : outbox'[i] = outbox[i]
  BY <1>b, <1>c
<1>e. \A i \in 1 .. n + 1 : i = n + 1 \/ i \in 1 .. n
  OBVIOUS
<1>1. ClTypes'
  BY <1>a, <1>b, <1>c, <1>d, CapAssumption DEF ClTypes
<1>2. ClBound'
  <2>1. Checked' = Checked \ {g} /\ g \in Checked
    BY <1>a, <1>b DEF Checked, ClTypes, Goroutines
  <2>2. PICK S : S = Checked'
    OBVIOUS
  <2>3. PICK m \in Nat : m = Cardinality(Checked)
    BY ClCheckedFinite
  <2>4. Cardinality(S) = m - 1
    BY <2>1, <2>2, <2>3, ClCheckedFinite, FS_RemoveElement
  <2>5. accepted' + (m - 1) <= MaxMsgs
    BY <1>a, <1>b, <1>c, <2>3, MaxMsgsAssumption DEF ClBound
  <2>. QED
    BY <2>2, <2>4, <2>5 DEF ClBound
<1>3. ClClosers'
  BY <1>a, <1>b DEF ClClosers, OneCloser, ClTypes, Closing
<1>4. ClOrder'
  <2>1. \A i \in 1 .. Len(written) : written[i] \in 1 .. a /\ written[i] \in 1 .. a + 1 /\ written[i] < a + 1
    BY <1>a, <1>c DEF ClOrder
  <2>2. msg <= a /\ msg <= a + 1 /\ msg < a + 1
    BY <1>a, <1>c DEF ClOrder, ClTypes
  <2>3. \A k \in 1 .. n : outbox[k] \in 1 .. a /\ outbox[k] \in 1 .. a + 1 /\ outbox[k] < a + 1
    BY <1>a, <1>c DEF ClOrder
  <2>. QED
    BY <1>a, <1>b, <1>c, <1>d, <1>e, <2>1, <2>2, <2>3 DEF ClOrder
<1>5. ClFifo'
  <2>1. PICK w \in Nat, h \in Nat : w = Len(written) /\ h = InHand
    BY <1>a DEF ClTypes, InHand
  <2>2. InHand' = InHand
    BY <1>b DEF InHand
  <2>3. ~closed => a = w + h + n /\ \A k \in 1 .. n : outbox[k] = w + h + k
    BY <1>a, <1>c, <2>1 DEF ClFifo
  <2>4. ~closed => a + 1 = w + h + (n + 1)
    BY <2>3
  <2>5. \A i \in 1 .. n + 1 : ~closed => outbox'[i] = w + h + i
    BY <1>d, <1>e, <2>3, <2>4
  <2>. QED
    BY <1>a, <1>b, <1>c, <1>d, <2>1, <2>2, <2>4, <2>5 DEF ClFifo
<1>. QED
  BY <1>1, <1>2, <1>3, <1>4, <1>5 DEF ClInv

\* The first message is taken from the outbox, by the drain or by Flush.
LEMMA ClTailOf ==
  ASSUME NEW q \in Seq(Nat), q # <<>>
  PROVE  \E n \in Nat : /\ Len(q) = n + 1 /\ Tail(q) \in Seq(Nat) /\ Len(Tail(q)) = n /\ Head(q) = q[1] /\ Head(q) \in Nat
                        /\ \A i \in 1 .. n : Tail(q)[i] = q[i + 1] /\ i + 1 \in 1 .. n + 1
<1>1. PICK n \in Nat : n = Len(q) - 1 /\ Len(q) = n + 1
  OBVIOUS
<1>. QED
  BY <1>1, SMTT(30)

LEMMA ClDrain == ASSUME ClInv, Drain PROVE ClInv'
<1>a. ClTypes /\ ClBound /\ ClClosers /\ ClOrder /\ ClFifo
  BY DEF ClInv
<1>b. UNCHANGED <<closed, channel, accepted, written, goroutine, flush, msg, panicked>> /\ drainer = "running"
  BY DEF Drain
<1>c. closed /\ closed'
  BY <1>a, <1>b DEF ClClosers
<1>1. CASE outbox # <<>> /\ outbox' = Tail(outbox) /\ drainer' = drainer
  <2>1. PICK q \in Seq(Nat) : q = outbox
    BY <1>a DEF ClTypes
  <2>2. PICK n \in Nat : /\ Len(q) = n + 1 /\ Tail(q) \in Seq(Nat) /\ Len(Tail(q)) = n
                         /\ \A i \in 1 .. n : Tail(q)[i] = q[i + 1] /\ i + 1 \in 1 .. n + 1
    BY <1>1, <2>1, ClTailOf
  <2>3. ClTypes'
    BY <1>a, <1>b, <1>1, <2>1, <2>2, CapAssumption DEF ClTypes
  <2>4. ClOrder'
    BY <1>a, <1>b, <1>1, <2>1, <2>2 DEF ClOrder
  <2>5. ClBound' /\ ClClosers' /\ ClFifo'
    BY <1>a, <1>b, <1>1, <1>c DEF ClBound, Checked, ClClosers, OneCloser, ClFifo
  <2>. QED
    BY <2>3, <2>4, <2>5 DEF ClInv
<1>2. CASE outbox' = outbox /\ drainer' = "exited"
  BY <1>a, <1>b, <1>c, <1>2 DEF ClInv, ClTypes, ClBound, Checked, ClClosers, OneCloser, ClOrder,
     ClFifo, InHand
<1>. QED
  BY <1>1, <1>2 DEF Drain

\* Flush takes the next message in hand.
LEMMA ClFlushTake == ASSUME ClInv, FlushTake PROVE ClInv'
<1>a. ClTypes /\ ClBound /\ ClClosers /\ ClOrder /\ ClFifo
  BY DEF ClInv
<1>b. UNCHANGED <<closed, channel, accepted, written, goroutine, drainer, panicked>> /\ flush = "loop" /\ flush' = "writing"
  BY DEF FlushTake
<1>c. msg = 0
  BY <1>a, <1>b DEF ClOrder
<1>d. ClBound' /\ ClClosers'
  BY <1>a, <1>b DEF ClBound, Checked, ClClosers, OneCloser
<1>1. CASE outbox # <<>> /\ outbox' = Tail(outbox) /\ msg' = Head(outbox)
  <2>1. PICK q \in Seq(Nat) : q = outbox
    BY <1>a DEF ClTypes
  <2>2. PICK n \in Nat : /\ Len(q) = n + 1 /\ Tail(q) \in Seq(Nat) /\ Len(Tail(q)) = n /\ Head(q) = q[1] /\ Head(q) \in Nat
                         /\ \A i \in 1 .. n : Tail(q)[i] = q[i + 1] /\ i + 1 \in 1 .. n + 1
    BY <1>1, <2>1, ClTailOf
  <2>3. 1 \in 1 .. n + 1 /\ \A i \in 1 .. n : 1 < i + 1
    OBVIOUS
  <2>4. PICK m \in Nat, w \in Nat, a \in Nat : m = msg' /\ m = outbox[1] /\ m # 0 /\ w = Len(written) /\ a = accepted
    BY <1>a, <1>1, <2>1, <2>2, <2>3 DEF ClOrder, ClTypes
  <2>5. ClTypes'
    BY <1>a, <1>b, <1>1, <2>1, <2>2, CapAssumption DEF ClTypes
  <2>6. ClOrder'
    BY <1>a, <1>b, <1>1, <2>1, <2>2, <2>3, <2>4 DEF ClOrder
  <2>7. ClFifo'
    <3>1. InHand = 0 /\ InHand' = 1
      BY <1>c, <2>4 DEF InHand
    <3>2. ~closed => a = w + (n + 1) /\ \A k \in 1 .. n + 1 : outbox[k] = w + k
      BY <1>a, <2>1, <2>2, <2>4, <3>1 DEF ClFifo
    <3>3. ~closed => a = w + 1 + n /\ m = w + 1 /\ \A k \in 1 .. n : outbox'[k] = w + 1 + k
      BY <1>1, <2>1, <2>2, <2>3, <2>4, <3>2
    <3>. QED
      BY <1>a, <1>b, <1>1, <2>1, <2>2, <2>4, <3>1, <3>3 DEF ClFifo
  <2>. QED
    BY <1>d, <2>5, <2>6, <2>7 DEF ClInv
<1>2. CASE outbox' = outbox /\ msg' = 0
  <2>1. msg' = msg
    BY <1>c, <1>2
  <2>. QED
    BY <1>a, <1>b, <1>c, <1>d, <1>2, <2>1 DEF ClInv, ClTypes, ClOrder, ClFifo, InHand
<1>. QED
  BY <1>1, <1>2 DEF FlushTake, Nil

\* What was in hand is written, or the write fails and the handler leaves.
LEMMA ClFlushWrite == ASSUME ClInv, FlushWrite PROVE ClInv'
<1>a. ClTypes /\ ClBound /\ ClClosers /\ ClOrder /\ ClFifo
  BY DEF ClInv
<1>b. UNCHANGED <<closed, channel, outbox, accepted, goroutine, drainer, panicked>> /\ flush = "writing"
  BY DEF FlushWrite
<1>d. ClBound' /\ ClClosers'
  BY <1>a, <1>b DEF ClBound, Checked, ClClosers, OneCloser
<1>1. CASE msg # 0 /\ written' = Append(written, msg) /\ msg' = 0 /\ flush' = "loop"
  <2>1. PICK v \in Seq(Nat), w \in Nat, m \in Nat, a \in Nat : v = written /\ w = Len(v) /\ m = msg /\ m # 0 /\ a = accepted
    BY <1>a, <1>1 DEF ClTypes
  <2>2. /\ written' \in Seq(Nat) /\ Len(written') = w + 1 /\ written'[w + 1] = m
        /\ \A i \in 1 .. w : written'[i] = written[i]
    BY <1>1, <2>1
  <2>3. \A i \in 1 .. w + 1 : i = w + 1 \/ i \in 1 .. w
    OBVIOUS
  <2>4. ClTypes'
    BY <1>a, <1>b, <1>1, <2>2 DEF ClTypes
  <2>5. ClOrder'
    <3>1. m \in 1 .. a /\ \A i \in 1 .. w : written[i] < m
      BY <1>a, <2>1 DEF ClOrder
    <3>2. \A k \in 1 .. Len(outbox) : m < outbox[k] /\ 0 < outbox[k]
      BY <1>a, <2>1 DEF ClOrder
    <3>a. \A i \in 1 .. w : written[i] \in 1 .. a /\ \A k \in 1 .. Len(outbox) : written[i] < outbox[k]
      BY <1>a, <2>1 DEF ClOrder
    <3>b. \A i, j \in 1 .. w : i < j => written[i] < written[j]
      BY <1>a, <2>1 DEF ClOrder
    <3>3. \A i, j \in 1 .. w + 1 : i < j => written'[i] < written'[j]
      <4>1. TAKE i, j \in 1 .. w + 1
      <4>2. HAVE i < j
      <4>3. i \in 1 .. w
        BY <4>2
      <4>4. CASE j \in 1 .. w
        BY <4>2, <4>3, <4>4, <2>2, <3>b
      <4>5. CASE j = w + 1
        BY <4>3, <4>5, <2>2, <3>1
      <4>. QED
        BY <4>4, <4>5
    <3>4. \A i \in 1 .. w + 1 : written'[i] \in 1 .. a /\ \A k \in 1 .. Len(outbox) : written'[i] < outbox[k]
      <4>1. TAKE i \in 1 .. w + 1
      <4>2. CASE i \in 1 .. w
        BY <4>2, <2>2, <3>a
      <4>3. CASE i = w + 1
        BY <4>3, <2>2, <3>1, <3>2
      <4>. QED
        BY <4>2, <4>3
    <3>. QED
      BY <1>a, <1>b, <1>1, <2>1, <2>2, <3>2, <3>3, <3>4 DEF ClOrder
  <2>6. ClFifo'
    <3>1. InHand = 1 /\ InHand' = 0
      BY <1>1 DEF InHand
    <3>2. PICK n \in Nat : n = Len(outbox)
      BY <1>a DEF ClTypes
    <3>3. ~closed => a = w + 1 + n /\ m = w + 1 /\ \A k \in 1 .. n : outbox[k] = w + 1 + k
      BY <1>a, <2>1, <3>1, <3>2 DEF ClFifo
    <3>4. \A i \in 1 .. w + 1 : ~closed => written'[i] = i
      BY <1>a, <2>1, <2>2, <2>3, <3>3 DEF ClFifo
    <3>5. ~closed => a = (w + 1) + 0 + n /\ \A k \in 1 .. n : outbox[k] = (w + 1) + 0 + k
      BY <3>3
    <3>. QED
      BY <1>b, <1>1, <2>1, <2>2, <3>1, <3>2, <3>4, <3>5 DEF ClFifo
  <2>. QED
    BY <1>d, <2>4, <2>5, <2>6 DEF ClInv
<1>2. CASE msg = 0 /\ written' = written /\ msg' = 0 /\ flush' = "loop"
  BY <1>a, <1>b, <1>d, <1>2 DEF ClInv, ClTypes, ClOrder, ClFifo, InHand
<1>3. CASE written' = written /\ msg' = msg /\ flush' = "gone"
  BY <1>a, <1>b, <1>d, <1>3 DEF ClInv, ClTypes, ClOrder, ClFifo, InHand
<1>. QED
  BY <1>1, <1>2, <1>3 DEF FlushWrite, Nil

LEMMA ClStep == ClInv /\ [ClientNext]_clientVars => ClInv'
<1>. SUFFICES ASSUME ClInv, [ClientNext]_clientVars PROVE ClInv'
  OBVIOUS
<1>a. ClTypes /\ ClBound /\ ClClosers /\ ClOrder /\ ClFifo
  BY DEF ClInv
<1>b. closed \in BOOLEAN /\ channel \in {"open", "closed"} /\ drainer \in {"none", "running", "exited"} /\ panicked \in BOOLEAN
      /\ (channel = "closed" \/ drainer # "none" => closed)
  BY <1>a DEF ClTypes, ClClosers
<1>1. ASSUME NEW g \in Senders, SendCheck(g) PROVE ClInv'
  BY <1>1, ClSendCheck
<1>2. ASSUME NEW g \in Goroutines, SendPush(g) PROVE ClInv'
  <2>1. CASE SendQueued(g)
    <3>1. g \in Senders
      BY <2>1, <1>a DEF SendQueued, Put, ClClosers, Goroutines
    <3>. QED
      BY <2>1, <3>1, ClSendQueued
  <2>2. CASE SendSlow(g)
    BY <2>2, <1>b, ClMoves DEF SendSlow, Closing
  <2>3. CASE SendPanics(g)
    <3>1. panicked' \in BOOLEAN
      BY <2>3 DEF SendPanics
    <3>. QED
      BY <2>3, <3>1, <1>b, ClMoves DEF SendPanics, Closing
  <2>. QED
    BY <1>2, <2>1, <2>2, <2>3 DEF SendPush
<1>3. CASE ForceClose
  <2>1. PICK l \in {"idle", "drop", "dead", "done"} \cup Closing : l = "drop" /\ l \notin Closing
    BY DEF Closing
  <2>2. PICK g \in Goroutines : g = Forcer
    BY DEF Goroutines
  <2>3. ClientGoto(g, l) /\ UNCHANGED <<closed, channel, outbox, accepted, written, flush, msg, drainer, panicked>>
    BY <1>3, <2>1, <2>2 DEF ForceClose
  <2>. QED
    BY <2>1, <2>3, <1>b, ClMoves
<1>4. ASSUME NEW g \in Goroutines, CloseSwap(g) PROVE ClInv'
  <2>1. PICK l \in {"idle", "done", "flushing"} : ClientGoto(g, l) /\ (l = "flushing" => ~closed)
    BY <1>4 DEF CloseSwap, Return
  <2>2. closed' = TRUE /\ UNCHANGED <<channel, outbox, accepted, written, flush, msg, drainer, panicked>>
    BY <1>4 DEF CloseSwap
  <2>. QED
    BY <2>1, <2>2, <1>b, ClMoves DEF Closing
<1>5. ASSUME NEW g \in Goroutines, CloseFlush(g) PROVE ClInv'
  BY <1>5, <1>a, <1>b, ClMoves DEF CloseFlush, Closing, ClClosers
<1>6. ASSUME NEW g \in Goroutines, CloseSignal(g) PROVE ClInv'
  BY <1>6, <1>a, <1>b, ClMoves DEF CloseSignal, Closing, ClClosers
<1>7. ASSUME NEW g \in Goroutines, CloseOutbox(g) PROVE ClInv'
  <2>1. PICK l \in {"idle", "done"} : ClientGoto(g, l)
    BY <1>7 DEF CloseOutbox, Return
  <2>2. closed /\ panicked' \in BOOLEAN /\ channel' = "closed" /\ UNCHANGED <<closed, outbox, accepted, written, flush, msg, drainer>>
    BY <1>7, <1>a, <1>b DEF CloseOutbox, Closing, ClClosers
  <2>. QED
    BY <2>1, <2>2, <1>b, ClMoves DEF Closing
<1>8. CASE Drain
  BY <1>8, ClDrain
<1>9. CASE FlushTake
  BY <1>9, ClFlushTake
<1>10. CASE FlushWrite
  BY <1>10, ClFlushWrite
<1>11. CASE FlushStart \/ FlushEnd \/ HandlerReturn
  <2>1. UNCHANGED <<closed, channel, outbox, accepted, written, goroutine, msg, drainer, panicked>>
        /\ flush' \in {"between", "loop", "gone"} /\ flush \in {"between", "loop"}
    BY <1>11 DEF FlushStart, FlushEnd, HandlerReturn
  <2>. QED
    BY <1>a, <2>1 DEF ClInv, ClTypes, ClBound, Checked, ClClosers, OneCloser, ClOrder, ClFifo,
       InHand
<1>12. CASE UNCHANGED clientVars
  BY <1>a, <1>12 DEF clientVars, ClInv, ClTypes, ClBound, Checked, ClClosers, OneCloser, ClOrder,
     ClFifo, InHand
<1>. QED
  BY <1>1, <1>2, <1>3, <1>4, <1>5, <1>6, <1>7, <1>8, <1>9, <1>10, <1>11, <1>12
     DEF ClientNext, Finish, Handler

LEMMA ClientStarts == ClientInit => ClInv
<1>. SUFFICES ASSUME ClientInit PROVE ClInv
  OBVIOUS
<1>1. ClTypes
  <2>1. outbox \in Seq(Nat) /\ written \in Seq(Nat) /\ Len(outbox) <= Cap
    BY CapAssumption DEF ClientInit
  <2>2. goroutine \in [Goroutines -> {"idle", "checked", "drop", "dead", "done"} \cup Closing]
    BY DEF ClientInit
  <2>. QED
    BY <2>1, <2>2 DEF ClientInit, ClTypes, Nil
<1>2. ClBound
  <2>1. Checked = {} /\ accepted = 0
    BY DEF ClientInit, Checked, Goroutines
  <2>. QED
    BY <2>1, FS_EmptySet, MaxMsgsAssumption DEF ClBound
<1>3. ClClosers /\ ClOrder /\ ClFifo
  BY DEF ClientInit, ClClosers, OneCloser, Closing, ClOrder, ClFifo, InHand, Nil, Goroutines
<1>. QED
  BY <1>1, <1>2, <1>3 DEF ClInv

\* The client, however Send, Flush, Close and the drain interleave.
THEOREM ClientInvariant == ClientSpec => []ClInv
  BY ClientStarts, ClStep, PTL DEF ClientSpec

\* Three pieces that count on where the one before stopped are one count.
CountOn(v, t, q, a) ==
  /\ v \in Seq(Nat) /\ t \in Seq(Nat) /\ q \in Seq(Nat) /\ a \in Nat
  /\ a = Len(v) + Len(t) + Len(q)
  /\ \A i \in 1 .. Len(v) : v[i] = i
  /\ \A i \in 1 .. Len(t) : t[i] = Len(v) + i
  /\ \A i \in 1 .. Len(q) : q[i] = Len(v) + Len(t) + i

LEMMA ClCount == ASSUME NEW v, NEW t, NEW q, NEW a, CountOn(v, t, q, a) PROVE v \o t \o q = [n \in 1 .. a |-> n]
<1>. v \in Seq(Nat) /\ t \in Seq(Nat) /\ q \in Seq(Nat) /\ a \in Nat
  BY DEF CountOn
<1>1. PICK x \in Nat, y \in Nat, z \in Nat :
         /\ x = Len(v) /\ y = Len(t) /\ z = Len(q) /\ a = x + y + z
         /\ \A i \in 1 .. x : v[i] = i
         /\ \A i \in 1 .. y : t[i] = x + i
         /\ \A i \in 1 .. z : q[i] = x + y + i
  <2>1. /\ a = Len(v) + Len(t) + Len(q) /\ Len(v) \in Nat /\ Len(t) \in Nat /\ Len(q) \in Nat
        /\ \A i \in 1 .. Len(v) : v[i] = i
        /\ \A i \in 1 .. Len(t) : t[i] = Len(v) + i
        /\ \A i \in 1 .. Len(q) : q[i] = Len(v) + Len(t) + i
    BY DEF CountOn
  <2>. QED
    BY <2>1, ZenonT(30)
<1>2. PICK u \in Seq(Nat) : /\ u = v \o t /\ Len(u) = x + y
                            /\ \A i \in 1 .. x + y : u[i] = IF i <= x THEN v[i] ELSE t[i - x]
  <2>1. /\ v \o t \in Seq(Nat) /\ Len(v \o t) = Len(v) + Len(t)
        /\ \A i \in 1 .. Len(v) + Len(t) : (v \o t)[i] = IF i <= Len(v) THEN v[i] ELSE t[i - Len(v)]
    BY ConcatProperties, Zenon
  <2>. QED
    BY <1>1, <2>1
<1>3. ASSUME NEW i \in 1 .. x + y PROVE u[i] = i
  <2>1. CASE i <= x
    <3>1. i \in 1 .. x /\ u[i] = v[i]
      BY <1>2, <2>1
    <3>. QED
      BY <1>1, <3>1
  <2>2. CASE x < i
    <3>1. i - x \in 1 .. y /\ u[i] = t[i - x] /\ x + (i - x) = i
      BY <1>1, <1>2, <2>2
    <3>. QED
      BY <1>1, <3>1
  <2>. QED
    BY <2>1, <2>2, <1>1
<1>4. PICK w \in Seq(Nat) : /\ w = u \o q /\ Len(w) = a
                            /\ \A i \in 1 .. a : w[i] = IF i <= x + y THEN u[i] ELSE q[i - (x + y)]
  <2>1. /\ u \o q \in Seq(Nat) /\ Len(u \o q) = Len(u) + Len(q)
        /\ \A i \in 1 .. Len(u) + Len(q) : (u \o q)[i] = IF i <= Len(u) THEN u[i] ELSE q[i - Len(u)]
    BY ConcatProperties, Zenon
  <2>2. Len(u) = x + y /\ Len(u) + Len(q) = a
    BY <1>1, <1>2
  <2>3. /\ Len(u \o q) = a
        /\ \A i \in 1 .. a : (u \o q)[i] = IF i <= x + y THEN u[i] ELSE q[i - (x + y)]
    BY <2>1, <2>2, Zenon
  <2>. QED
    BY <2>1, <2>3, Zenon
<1>5. ASSUME NEW i \in 1 .. a PROVE w[i] = i
  <2>1. CASE i <= x + y
    <3>1. i \in 1 .. x + y /\ w[i] = u[i]
      BY <1>1, <1>4, <2>1
    <3>. QED
      BY <1>3, <3>1
  <2>2. CASE x + y < i
    <3>1. i - (x + y) \in 1 .. z /\ w[i] = q[i - (x + y)] /\ x + y + (i - (x + y)) = i
      BY <1>1, <1>4, <2>2
    <3>. QED
      BY <1>1, <3>1
  <2>. QED
    BY <2>1, <2>2, <1>1
<1>6. w = [i \in 1 .. Len(w) |-> w[i]]
  OBVIOUS
<1>7. [i \in 1 .. a |-> w[i]] = [n \in 1 .. a |-> n]
  BY <1>5
<1>. QED
  <2>1. w = [n \in 1 .. a |-> n]
    BY <1>4, <1>6, <1>7
  <2>. QED
    BY <1>2, <1>4, <2>1

LEMMA ClSeqOf == ASSUME NEW S, NEW s \in Seq(Nat), \A i \in 1 .. Len(s) : s[i] \in S PROVE s \in Seq(S)
<1>1. Len(s) \in Nat /\ s = [i \in 1 .. Len(s) |-> s[i]]
  OBVIOUS
<1>2. s \in [1 .. Len(s) -> S]
  BY <1>1
<1>. QED
  BY <1>1, <1>2, SeqDef

\* What the run checks of the client.
LEMMA ClSound == ClInv => ClientTypeOK /\ FifoUntilClosed /\ WireInOrder /\ OneCloser
<1>. SUFFICES ASSUME ClInv PROVE ClientTypeOK /\ FifoUntilClosed /\ WireInOrder /\ OneCloser
  OBVIOUS
<1>a. ClTypes /\ ClBound /\ ClClosers /\ ClOrder /\ ClFifo
  BY DEF ClInv
<1>b. PICK v \in Seq(Nat), q \in Seq(Nat), m \in Nat, a \in Nat : v = written /\ q = outbox /\ m = msg /\ a = accepted
  BY <1>a DEF ClTypes
<1>1. a <= MaxMsgs
  <2>1. PICK n \in Nat : n = Cardinality(Checked)
    BY ClCheckedFinite
  <2>. QED
    BY <1>a, <1>b, <2>1, MaxMsgsAssumption DEF ClBound
<1>2. ClientTypeOK
  <2>1. \A i \in 1 .. Len(v) : v[i] \in 1 .. MaxMsgs
    BY <1>a, <1>b, <1>1, MaxMsgsAssumption DEF ClOrder
  <2>2. \A i \in 1 .. Len(q) : q[i] \in 1 .. MaxMsgs
    BY <1>a, <1>b, <1>1, MaxMsgsAssumption DEF ClOrder
  <2>3. \A s \in Seq(Nat) : (\A i \in 1 .. Len(s) : s[i] \in 1 .. MaxMsgs) => s \in Seq(1 .. MaxMsgs)
    BY ClSeqOf
  <2>4. a \in 0 .. MaxMsgs /\ m \in 0 .. MaxMsgs
    BY <1>a, <1>b, <1>1, MaxMsgsAssumption DEF ClOrder
  <2>5. goroutine \in [Goroutines -> {"idle", "checked", "drop", "flushing", "signalling", "closing", "dead", "done"}]
    BY <1>a DEF ClTypes, Closing
  <2>. QED
    BY <1>a, <1>b, <2>1, <2>2, <2>3, <2>4, <2>5 DEF ClientTypeOK, ClTypes, Nil
<1>3. FifoUntilClosed
  <2>. SUFFICES ASSUME ~closed PROVE v \o Taken \o q = [n \in 1 .. a |-> n]
    BY <1>b DEF FifoUntilClosed
  <2>1. PICK t \in Seq(Nat) : t = Taken /\ Len(t) = InHand /\ \A i \in 1 .. Len(t) : t[i] = Len(v) + i
    <3>1. CASE m = 0
      <4>1. Taken = <<>> /\ InHand = 0
        BY <1>b, <3>1 DEF Taken, InHand, Nil
      <4>2. <<>> \in Seq(Nat) /\ Len(<<>>) = 0 /\ \A i \in 1 .. 0 : <<>>[i] = Len(v) + i
        OBVIOUS
      <4>. QED
        BY <4>1, <4>2
    <3>2. CASE m # 0
      <4>1. Taken = <<m>> /\ InHand = 1 /\ m = Len(v) + 1
        BY <1>a, <1>b, <3>2 DEF Taken, InHand, Nil, ClFifo
      <4>2. <<m>> \in Seq(Nat) /\ Len(<<m>>) = 1 /\ \A i \in 1 .. 1 : <<m>>[i] = Len(v) + i
        BY <4>1
      <4>. QED
        BY <4>1, <4>2
    <3>. QED
      BY <3>1, <3>2
  <2>2. a = Len(v) + Len(t) + Len(q) /\ \A i \in 1 .. Len(v) : v[i] = i
    BY <1>a, <1>b, <2>1 DEF ClFifo
  <2>3. \A i \in 1 .. Len(q) : q[i] = Len(v) + Len(t) + i
    BY <1>a, <1>b, <2>1 DEF ClFifo
  <2>4. CountOn(v, t, q, a)
    BY <1>b, <2>1, <2>2, <2>3 DEF CountOn
  <2>5. v \o t \o q = [n \in 1 .. a |-> n]
    BY <2>4, ClCount
  <2>. QED
    BY <2>1, <2>5
<1>. QED
  BY <1>2, <1>3, <1>a DEF ClOrder, WireInOrder, ClClosers

-----------------------------------------------------------------------------
(* Side by side: the specification of the run *)

LEMMA LiveSteps ==
  ASSUME [LiveNext]_liveVars
  PROVE  /\ [IterationNext]_iterVars /\ [GatewayNext]_gwVars /\ [RelayNext]_relayVars
         /\ [HermesNext]_hermesVars /\ [ClientNext]_clientVars /\ [BootNext]_bootVars
<1>. USE DEF liveVars
<1>1. [IterationNext]_iterVars
  BY DEF LiveNext
<1>2. [GatewayNext]_gwVars
  BY DEF LiveNext
<1>3. [RelayNext]_relayVars
  BY DEF LiveNext
<1>4. [HermesNext]_hermesVars
  BY DEF LiveNext, HermesNext, hermesVars, callVars, streamVars, routeVars
<1>5. [ClientNext]_clientVars
  BY DEF LiveNext
<1>6. [BootNext]_bootVars
  BY DEF LiveNext
<1>. QED
  BY <1>1, <1>2, <1>3, <1>4, <1>5, <1>6

LEMMA LiveImplements ==
  LiveSpec => /\ IterationSpec /\ GatewaySpec /\ RelaySpec /\ HermesSpec
              /\ ClientInit /\ [][ClientNext]_clientVars
              /\ BootInit /\ [][BootNext]_bootVars
<1>1. LiveInit => /\ IterationInit /\ GatewayInit /\ RelayInit /\ HermesInit
                  /\ ClientInit /\ BootInit
  BY DEF LiveInit
<1>. QED
  BY <1>1, LiveSteps, PTL DEF LiveSpec, IterationSpec, GatewaySpec, RelaySpec, HermesSpec

\* A server that serves is on the schema of its binary, however often it was
\* killed, repaired or replaced on the way.
THEOREM BootSoundAlways == LiveSpec => []BootSound
<1>1. BtInv => BootSound
  BY DEF BtInv, BootSound
<1>. QED
  BY <1>1, LiveImplements, BootStarts, BtInvStep, PTL

\* The drain is signalled when the last session left, once per session.
THEOREM RelayDrainsAlways == LiveSpec => []RelayDrains
<1>1. RlInv => RelayDrains
  BY DEF RlInv, RlTypes, RlEnds, RlDrain, RelayDrains, RelayTypeOK, SessionEndsOnce
<1>. QED
  BY <1>1, LiveImplements, RelayInvariant, PTL

\* File and browsers are up to date whenever nobody is on the way to them.
THEOREM GatewayCurrentAlways == LiveSpec => []GatewayCurrent
<1>1. GwInv => GatewayTypeOK
  <2>. SUFFICES ASSUME GwInv PROVE GatewayTypeOK
    OBVIOUS
  <2>1. \A r \in GwRuns : gwReplies[r] \in Nat /\ gwReplies[r] <= 1
    BY DEF GwInv, GwTypes, GwEndsOnce
  <2>2. \A b \in Browsers : browser[b].chan \in 0 .. SubBuffer
    BY DEF GwInv, GwTypes, GwStream
  <2>. QED
    BY <2>1, <2>2, GatewayAssumption DEF GwInv, GwTypes, GatewayTypeOK
<1>2. GwInv => SavedWhenQuiet
  BY DEF GwInv, GwSaved, GwSaves, SavedWhenQuiet
<1>3. GwInv => NoLiveEventMissed
  BY DEF GwInv, GwLive, NoLiveEventMissed
<1>4. GwInv => GatewayCurrent
  BY <1>1, <1>2, <1>3 DEF GatewayCurrent
<1>. QED
  BY <1>4, LiveImplements, GatewayInvariant, PTL

\* A cut stream ends in an error, and what a client wrote is what it accepted.
THEOREM StreamsWholeAlways == LiveSpec => []StreamsWhole
<1>1. ItInv => IterationTypeOK
  BY DEF ItInv, ItTypes, ItRead, IterationTypeOK
<1>2. HmCall /\ HmStream /\ HmRoutes => HermesTypeOK /\ TruncationNoticed /\ OneActiveRoute
  BY HmStreamSound, HmRoutesSound DEF HermesTypeOK, HmCall
<1>3. IterationTypeOK /\ HermesTypeOK /\ TruncationNoticed /\ OneActiveRoute /\ ClInv => StreamsWhole
  BY ClSound DEF StreamsWhole
<1>. QED
  BY <1>1, <1>2, <1>3, LiveImplements, IterationInvariant, HermesInvariant, ClientStarts, ClStep,
     PTL

\* What is over stays over, and a closed gateway writes no more.
THEOREM OverIsOverAlways == LiveSpec => OverIsOver
<1>1. GwInv /\ [GatewayNext]_gwVars
        => [/\ \A r \in GwRuns : registry[r] \in GwFinal \cup {"disconnected"}
                                 => registry'[r] = "absent" \/ IsTerminal(registry'[r])
            /\ life = "closed" => disk' = disk]_gwVars
  BY GwFinalStep
<1>2. ItInv /\ [IterationNext]_iterVars
        => [/\ iter.state \in IterTerminal => iter'.state = iter.state
            /\ iter.state = "interrupted" /\ iter'.state # "interrupted"
                 => \E c \in IterCalls : iterCall[c].pc = "resume" /\ iterCall[c].rev = iter.rev]_iterVars
  BY ItStep
<1>3. LiveSpec => OverStaysOver /\ NoWriteAfterClose
  BY <1>1, LiveImplements, GatewayInvariant, PTL DEF OverStaysOver, NoWriteAfterClose, GatewaySpec
<1>4. LiveSpec => TerminalIsFinal /\ InterruptedUntilResumed
  BY <1>2, LiveImplements, IterationInvariant, PTL DEF TerminalIsFinal, InterruptedUntilResumed,
     IterationSpec
<1>. QED
  BY <1>3, <1>4, PTL DEF OverIsOver
=============================================================================
