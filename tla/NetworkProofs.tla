---------------------------- MODULE NetworkProofs ----------------------------
(***************************************************************************)
(* What is proved of the components between servers and peers, for every    *)
(* value of the constants: the replay log and a browser's stream over it,   *)
(* the relay's keys, store and health check, federation and its vector      *)
(* clocks.  They share no state, so each is proved by itself, and           *)
(* NetworkImplements carries its theorems over to the specification in      *)
(* which the run checks them; the stream's are about StreamSpec.            *)
(***************************************************************************)
EXTENDS MCNetwork, SSEStream, FiniteSetTheorems, WellFoundedInduction, TLAPS

\* A nonempty set of numbers has a least one.
LEMMA LeastNumber ==
  ASSUME NEW S, S \subseteq Nat, S # {}
  PROVE  \E n \in S : \A x \in S : n =< x
<1>. DEFINE Less == OpToRel(<, Nat)
<1>1. \A m, n \in Nat : m < n => <<m, n>> \in Less
  BY DEF OpToRel
<1>2. IsWellFoundedOn(Less, Nat)
  BY NatLessThanWellFounded
<1>. HIDE DEF Less
<1>3. PICK R : IsWellFoundedOn(R, Nat) /\ \A m, n \in Nat : m < n => <<m, n>> \in R
  BY <1>1, <1>2, Zenon
<1>4. PICK n \in S : \A m \in S : <<m, n>> \notin R
  <2>1. IsWellFoundedOn(R, Nat)
    BY <1>3
  <2>. QED
    BY <2>1, WFMin
<1>5. ASSUME NEW x \in S PROVE n =< x
  <2>1. x \in Nat /\ n \in Nat
    OBVIOUS
  <2>2. ~(x < n)
    BY <1>3, <1>4, <2>1, Zenon
  <2>. QED
    BY <2>1, <2>2
<1>. QED
  BY <1>5

\* Inserting one element into a finite set (the ring's insertion).
LEMMA InsertOne ==
  ASSUME NEW S, IsFiniteSet(S), NEW x
  PROVE  /\ IsFiniteSet(S \cup {x})
         /\ Cardinality(S \cup {x}) \in Nat
         /\ Cardinality(S) \in Nat
         /\ Cardinality(S \cup {x}) =< Cardinality(S) + 1
<1>1. Cardinality(S) \in Nat
  BY FS_CardinalityType
<1>2. IsFiniteSet(S \cup {x})
  BY FS_AddElement
<1>3. Cardinality(S \cup {x}) = IF x \in S THEN Cardinality(S) ELSE Cardinality(S) + 1
  BY FS_AddElement
<1>. QED
  BY <1>1, <1>2, <1>3

\* Type correctness, and with it that the ring never exceeds its capacity
\* (ringBuf.append at sse_event_log.go:157).
THEOREM LogTypeCorrect == LogSpec => []LogTypeOK
<1>1. LogInit => LogTypeOK
  BY FS_EmptySet, CapAssumption DEF LogInit, LogTypeOK, Idle, Call
<1>2. ASSUME LogTypeOK, [LogNext]_logVars
      PROVE  LogTypeOK'
  <2>. USE <1>2 DEF LogTypeOK
  <2>1. ASSUME NEW p \in Producers, NextSeq(p)
        PROVE  LogTypeOK'
    BY <2>1 DEF NextSeq, Call
  <2>2. ASSUME NEW p \in Producers, Stamp(p)
        PROVE  LogTypeOK'
    BY <2>2 DEF Stamp, Call
  <2>3. ASSUME NEW p \in Producers, RingAppend(p)
        PROVE  LogTypeOK'
    <3>1. NewEntry(p) \in Entry
      BY DEF NewEntry, Entry, Call
    <3>2. IsFiniteSet(ring') /\ Cardinality(ring') =< Cap /\ ring' \subseteq Entry
      <4>1. CASE Cardinality(ring) < Cap /\ ring' = ring \cup {NewEntry(p)}
        <5>1. /\ IsFiniteSet(ring \cup {NewEntry(p)})
              /\ Cardinality(ring \cup {NewEntry(p)}) \in Nat
              /\ Cardinality(ring) \in Nat
              /\ Cardinality(ring \cup {NewEntry(p)}) =< Cardinality(ring) + 1
          BY InsertOne
        <5>. QED
          BY <4>1, <5>1, <3>1, CapAssumption
      <4>2. CASE \E e \in ring : ring' = (ring \ {e}) \cup {NewEntry(p)}
        <5>1. PICK e \in ring : ring' = (ring \ {e}) \cup {NewEntry(p)}
          BY <4>2
        <5>2. /\ IsFiniteSet(ring \ {e})
              /\ Cardinality(ring \ {e}) = Cardinality(ring) - 1
              /\ Cardinality(ring) \in Nat
          BY FS_RemoveElement, FS_CardinalityType
        <5>3. /\ IsFiniteSet((ring \ {e}) \cup {NewEntry(p)})
              /\ Cardinality((ring \ {e}) \cup {NewEntry(p)}) \in Nat
              /\ Cardinality((ring \ {e}) \cup {NewEntry(p)})
                   =< Cardinality(ring \ {e}) + 1
          BY <5>2, InsertOne
        <5>4. Cardinality(ring') =< Cap
          BY <5>1, <5>2, <5>3, CapAssumption
        <5>. QED
          BY <5>1, <5>3, <5>4, <3>1
      <4>. QED
        BY <2>3, <4>1, <4>2 DEF RingAppend, RingInsert, RingEvict, Store
    <3>3. evicted' \subseteq Nat
      BY <2>3 DEF RingAppend, RingInsert, RingEvict, Store, Entry
    <3>4. call' \in [Producers -> Call] /\ appends' \in Nat
      BY <2>3 DEF RingAppend, RingInsert, RingEvict, Store, Idle, Call
    <3>. QED
      BY <2>3, <3>2, <3>3, <3>4 DEF RingAppend, RingInsert, RingEvict, Store
  <2>4. CASE Prune
    <3>1. ring' \subseteq ring /\ pruned' \subseteq Nat
      BY <2>4 DEF Prune, Sweep, Entry
    <3>2. /\ IsFiniteSet(ring')
          /\ Cardinality(ring') =< Cardinality(ring)
          /\ Cardinality(ring') \in Nat
          /\ Cardinality(ring) \in Nat
      BY <3>1, FS_Subset, FS_CardinalityType
    <3>3. Cardinality(ring') =< Cap
      BY <3>2, CapAssumption
    <3>. QED
      BY <2>4, <3>1, <3>2, <3>3 DEF Prune, Sweep
  <2>5. CASE Tick
    BY <2>5 DEF Tick
  <2>6. CASE UNCHANGED logVars
    BY <2>6 DEF logVars
  <2>. QED
    BY <2>1, <2>2, <2>3, <2>4, <2>5, <2>6 DEF LogNext
<1>. QED
  BY <1>1, <1>2, PTL DEF LogSpec

-----------------------------------------------------------------------------

\* Membership in the two derived sets, spelled out for the provers.
LEMMA Membership ==
  /\ \A s : s \in Held <=> \E p \in Producers : call[p].at # "idle" /\ call[p].seq = s
  /\ \A s : s \in Logged <=> \E e \in ring : e.seq = s
BY DEF Held, Logged

\* No step but NextSeq, RingAppend and Prune moves a number, and each moves it
\* from one place to the next: the accounting of numbers is inductive once the
\* types are known.
LEMMA NumbersStep ==
  ASSUME LogTypeOK, NumbersAccounted, [LogNext]_logVars
  PROVE  NumbersAccounted'
<1>. USE DEF LogTypeOK
<1>a. /\ \A s : s \in Held' <=> \E p \in Producers : call'[p].at # "idle" /\ call'[p].seq = s
      /\ \A s : s \in Logged' <=> \E e \in ring' : e.seq = s
  BY DEF Held, Logged
<1>b. /\ \A s : s \in Held <=> \E p \in Producers : call[p].at # "idle" /\ call[p].seq = s
      /\ \A s : s \in Logged <=> \E e \in ring : e.seq = s
  BY Membership
<1>c. /\ Held \cup Logged \cup evicted \cup pruned = 1..counter
      /\ \A p, q \in Producers : /\ call[p].at # "idle" /\ call[q].at # "idle"
                                 /\ call[p].seq = call[q].seq
                                 => p = q
      /\ \A e, f \in ring : e.seq = f.seq => e = f
      /\ Held \cap (Logged \cup evicted \cup pruned) = {}
      /\ Logged \cap (evicted \cup pruned) = {}
      /\ evicted \cap pruned = {}
  BY DEF NumbersAccounted
<1>1. ASSUME NEW p \in Producers, NextSeq(p)
      PROVE  NumbersAccounted'
  <2>1. /\ counter' = counter + 1
        /\ ring' = ring /\ evicted' = evicted /\ pruned' = pruned
        /\ \A q \in Producers : q # p => call'[q] = call[q]
        /\ call'[p].at # "idle" /\ call'[p].seq = counter + 1
        /\ call[p].at = "idle"
    BY <1>1 DEF NextSeq
  <2>2. Held' = Held \cup {counter + 1} /\ Logged' = Logged
    BY <1>a, <1>b, <2>1
  <2>3. 1..counter' = 1..counter \cup {counter + 1} /\ counter + 1 \notin 1..counter
    BY <2>1
  <2>4. \A q \in Producers : q # p /\ call'[q].at # "idle" => call'[q].seq \in 1..counter
    BY <2>1, <1>b, <1>c
  <2>5. \A q, r \in Producers : /\ call'[q].at # "idle" /\ call'[r].at # "idle"
                                /\ call'[q].seq = call'[r].seq
                                => q = r
    BY <2>1, <2>3, <2>4, <1>c
  <2>6. Held' \cup Logged' \cup evicted' \cup pruned' = 1..counter'
    BY <1>c, <2>1, <2>2, <2>3
  <2>. QED
    BY <1>c, <2>1, <2>2, <2>3, <2>5, <2>6 DEF NumbersAccounted
<1>2. ASSUME NEW p \in Producers, Stamp(p)
      PROVE  NumbersAccounted'
  <2>1. \A q \in Producers : call'[q].seq = call[q].seq /\ (call'[q].at = "idle" <=> call[q].at = "idle")
    BY <1>2 DEF Stamp, Call
  <2>2. Held' = Held /\ Logged' = Logged
    <3>0. \A s : s \in Held' <=> s \in Held
      BY <1>a, <1>b, <2>1
    <3>1. Held' = Held
      BY <3>0
    <3>2. Logged' = Logged
      BY <1>2 DEF Stamp, Logged
    <3>. QED
      BY <3>1, <3>2
  <2>. QED
    BY <1>c, <2>1, <2>2, <1>2 DEF Stamp, NumbersAccounted
<1>3. ASSUME NEW p \in Producers, RingAppend(p)
      PROVE  NumbersAccounted'
  <2>. DEFINE s == call[p].seq
  <2>1. /\ counter' = counter /\ pruned' = pruned
        /\ \A q \in Producers : q # p => call'[q] = call[q]
        /\ call'[p].at = "idle"
        /\ call[p].at # "idle"
    BY <1>3 DEF RingAppend, RingInsert, RingEvict, Store, Idle
  <2>2. s \in Held
    BY <2>1, <1>b
  <2>3. Held' = Held \ {s}
    BY <1>a, <1>b, <1>c, <2>1
  <2>4. NewEntry(p).seq = s
    BY DEF NewEntry
  <2>5. \A q, r \in Producers : /\ call'[q].at # "idle" /\ call'[r].at # "idle"
                                /\ call'[q].seq = call'[r].seq
                                => q = r
    BY <2>1, <1>c
  <2>6. CASE ring' = ring \cup {NewEntry(p)} /\ evicted' = evicted
    <3>1. Logged' = Logged \cup {s}
      BY <2>6, <2>4, <1>a, <1>b
    <3>2. \A e, f \in ring' : e.seq = f.seq => e = f
      BY <2>6, <2>4, <2>2, <1>b, <1>c
    <3>. QED
      BY <1>c, <2>1, <2>2, <2>3, <2>5, <2>6, <3>1, <3>2 DEF NumbersAccounted
  <2>7. CASE \E e \in ring : /\ ring' = (ring \ {e}) \cup {NewEntry(p)}
                             /\ evicted' = evicted \cup {e.seq}
    <3>1. PICK e \in ring : /\ ring' = (ring \ {e}) \cup {NewEntry(p)}
                            /\ evicted' = evicted \cup {e.seq}
      BY <2>7
    <3>2. Logged' = (Logged \ {e.seq}) \cup {s}
      BY <3>1, <2>4, <1>a, <1>b, <1>c
    <3>3. \A f, g \in ring' : f.seq = g.seq => f = g
      BY <3>1, <2>4, <2>2, <1>b, <1>c
    <3>4. e.seq \in Logged
      BY <1>b
    <3>. QED
      BY <1>c, <2>1, <2>2, <2>3, <2>5, <3>1, <3>2, <3>3, <3>4 DEF NumbersAccounted
  <2>. QED
    BY <1>3, <2>6, <2>7 DEF RingAppend, RingInsert, RingEvict, Store
<1>4. CASE Prune
  <2>. DEFINE given == {e.seq : e \in {f \in ring : Stale(f)}}
  <2>1. /\ ring' = ring \ {f \in ring : Stale(f)}
        /\ pruned' = pruned \cup given
        /\ counter' = counter /\ call' = call /\ evicted' = evicted
    BY <1>4 DEF Prune, Sweep
  <2>2. given \subseteq Logged
    BY <1>b
  <2>3. Logged' = Logged \ given /\ Held' = Held
    <3>1. Held' = Held
      BY <2>1 DEF Held
    <3>2. \A e \in ring : Stale(e) <=> e.seq \in given
      BY <1>c
    <3>3. \A s : s \in Logged' <=> s \in Logged /\ s \notin given
      BY <2>1, <1>a, <1>b, <3>2
    <3>. QED
      BY <3>1, <3>3
  <2>4. \A f, g \in ring' : f.seq = g.seq => f = g
    BY <2>1, <1>c
  <2>. QED
    BY <1>c, <2>1, <2>2, <2>3, <2>4 DEF NumbersAccounted
<1>5. CASE Tick
  BY <1>5 DEF Tick, NumbersAccounted, Held, Logged
<1>6. CASE UNCHANGED logVars
  BY <1>6 DEF logVars, NumbersAccounted, Held, Logged
<1>. QED
  BY <1>1, <1>2, <1>3, <1>4, <1>5, <1>6 DEF LogNext

\* Every number drawn by nextSeq (sse_event_log.go:69) is with its Append
\* call, in the ring, evicted or pruned, in exactly one of these places, and
\* no number is drawn twice: for every number of producers and capacity.
THEOREM NumbersAccountedAlways == LogSpec => []NumbersAccounted
<1>1. LogInit => NumbersAccounted
  <2>. SUFFICES ASSUME LogInit PROVE NumbersAccounted
    OBVIOUS
  <2>1. Held = {} /\ Logged = {}
    BY DEF LogInit, Held, Logged, Idle
  <2>. QED
    BY <2>1 DEF LogInit, NumbersAccounted, Idle
<1>. QED
  BY <1>1, NumbersStep, LogTypeCorrect, PTL DEF LogSpec

-----------------------------------------------------------------------------

-----------------------------------------------------------------------------
(* The network runs its components one at a time. *)

\* A step of the network is a step or a stutter of each component.
LEMMA NetworkSteps ==
  ASSUME [NetworkNext]_networkVars
  PROVE  /\ [LogNext]_logVars /\ [RelayKeysNext]_keyVars /\ [RelayStoreNext]_relayStoreVars
         /\ [FedNext]_fedVars /\ [FedClocksNext]_clockVars
<1>1. CASE focus = "log" /\ LogNext /\ UNCHANGED <<focus, keyVars, relayStoreVars, fedVars, clockVars>>
  BY <1>1
<1>2. CASE focus = "keys" /\ RelayKeysNext /\ UNCHANGED <<focus, logVars, relayStoreVars, fedVars, clockVars>>
  BY <1>2
<1>3. CASE focus = "store" /\ StoreStep /\ UNCHANGED <<focus, logVars, keyVars, healthVars, fedVars, clockVars>>
  BY <1>3 DEF RelayStoreNext
<1>4. CASE focus = "health" /\ HealthStep /\ UNCHANGED <<focus, logVars, keyVars, storeVars, fedVars, clockVars>>
  BY <1>4 DEF RelayStoreNext
<1>5. CASE focus = "federation" /\ FedNext /\ UNCHANGED <<focus, logVars, keyVars, relayStoreVars, clockVars>>
  BY <1>5
<1>6. CASE focus = "clocks" /\ FedClocksNext /\ UNCHANGED <<focus, logVars, keyVars, relayStoreVars, fedVars>>
  BY <1>6
<1>7. CASE UNCHANGED networkVars
  BY <1>7 DEF networkVars
<1>. QED
  BY <1>1, <1>2, <1>3, <1>4, <1>5, <1>6, <1>7 DEF NetworkNext

\* So a behaviour of the network is one of each component.
LEMMA NetworkImplements ==
  NetworkSpec => LogSpec /\ RelayKeysSpec /\ RelayStoreSpec /\ FedSpec /\ FedClocksSpec
<1>1. NetworkInit => LogInit /\ RelayKeysInit /\ RelayStoreInit /\ FedInit /\ FedClocksInit
  BY DEF NetworkInit
<1>. QED
  BY <1>1, NetworkSteps, PTL DEF NetworkSpec, LogSpec, RelayKeysSpec, RelayStoreSpec, FedSpec,
     FedClocksSpec

-----------------------------------------------------------------------------
(* Keys and tokens of the relay *)

KyRotations == [pc : {"idle", "persist", "install", "switch"}, id : 0 .. MaxKeyID]
KyWriters == [pc : {"idle", "sign", "unsigned"}, key : 0 .. MaxKeyID]

KyTypes ==
  /\ configKey \in KeyIDs /\ storedKey \in KeyIDs /\ hubKey \in KeyIDs
  /\ keyRing \in [KeyIDs -> {"none", "current", "grace"}]
  /\ rotation \in [Rotators -> KyRotations] /\ writer \in [Writers -> KyWriters]

\* One rotation at a time is past its lock.
KyAlone == \A x, y \in Rotators : rotation[x].pc # "idle" /\ rotation[y].pc # "idle" => x = y

\* How far a rotation has got shows in the stored id and in the one in use.
KyStage(q) ==
  /\ q.pc \in {"persist", "install"} => q.id = configKey + 1 /\ hubKey = configKey
  /\ q.pc = "install" => storedKey = q.id
  /\ q.pc = "switch" => q.id = configKey

\* Without a rotation at its last step the hub signs with the key in use.
KyHub == hubKey = configKey \/ \E r \in Rotators : rotation[r].pc = "switch"

\* The authenticator knows the ring; the ring has the key in use, the key the
\* hub signs with and the keys writers hold.
KyKnown ==
  /\ authKeys = Ring(keyRing)
  /\ keyRing[configKey] = "current" /\ keyRing[hubKey] # "none"
  /\ \A w \in Writers : /\ writer[w].pc # "unsigned"
                        /\ writer[w].pc = "sign" => writer[w].key \in KeyIDs /\ keyRing[writer[w].key] # "none"

KyKeys == KyTypes /\ KyAlone /\ (\A r \in Rotators : KyStage(rotation[r])) /\ KyHub /\ StoredKeyLeads /\ KyKnown

\* A token has an instance just when it is marked as used.
KyTokens ==
  /\ usedTokens \subseteq Tokens /\ instances \in [Tokens -> Nat]
  /\ registration \in [Registrations -> [pc : {"idle", "valid", "done"}, token : Tokens \cup {"none"}]]
  /\ \A g \in Registrations : registration[g].pc = "valid" => registration[g].token \in Tokens
  /\ \A t \in Tokens : instances[t] = IF t \in usedTokens THEN 1 ELSE 0

KyInv == KyKeys /\ KyTokens

\* A rotation takes the lock and draws the next id.
LEMMA KyBegins ==
  ASSUME KyKeys, NEW r \in Rotators, RotateBegin(r) PROVE KyKeys'
<1>1. configKey \in KeyIDs /\ configKey + 1 \in KeyIDs /\ MaxKeyID \in Nat
  BY KeysAssumption DEF RotateBegin, KyKeys, KyTypes, KeyIDs
<1>2. PICK q : q = [pc |-> "persist", id |-> configKey + 1]
  OBVIOUS
<1>3. q \in KyRotations /\ q.pc = "persist" /\ q.id = configKey + 1
  BY <1>1, <1>2 DEF KyRotations, KeyIDs
<1>4. rotation' = [rotation EXCEPT ![r] = q] /\ UNCHANGED <<configKey, storedKey, keyRing, authKeys, hubKey, writer>>
  BY <1>2, Zenon DEF RotateBegin
<1>5. \A x \in Rotators : rotation[x].pc = "idle"
  BY DEF RotateBegin
<1>6. KyTypes' /\ rotation'[r] = q /\ \A x \in Rotators \ {r} : rotation'[x] = rotation[x]
  BY <1>3, <1>4 DEF KyKeys, KyTypes
<1>7. hubKey = configKey
  BY <1>5 DEF KyKeys, KyHub
<1>8. KyAlone'
  BY <1>5, <1>6 DEF KyAlone
<1>9. ASSUME NEW x \in Rotators PROVE KyStage(rotation[x])'
  <2>1. CASE x = r
    BY <2>1, <1>3, <1>4, <1>6, <1>7 DEF KyStage
  <2>2. CASE x # r
    BY <2>2, <1>4, <1>5, <1>6 DEF KyStage
  <2>. QED
    BY <2>1, <2>2
<1>. QED
  BY <1>4, <1>6, <1>7, <1>8, <1>9 DEF KyKeys, KyHub, StoredKeyLeads, KyKnown, Ring

\* The new id is stored, or the rotation is given up.
LEMMA KyPersists ==
  ASSUME KyKeys, NEW r \in Rotators, PersistHMACRotation(r) PROVE KyKeys'
<1>1. PICK o : o = rotation[r]
  OBVIOUS
<1>2. o \in KyRotations /\ o.pc = "persist" /\ o.id = configKey + 1 /\ hubKey = configKey
  BY <1>1 DEF PersistHMACRotation, KyKeys, KyTypes, KyStage
<1>3. configKey \in Nat /\ o = [pc |-> "persist", id |-> o.id] /\ o.id \in KeyIDs /\ MaxKeyID \in Nat
  BY <1>2, KeysAssumption DEF KyKeys, KyTypes, KyRotations, KeyIDs
<1>4. PICK q, s : /\ rotation' = [rotation EXCEPT ![r] = q] /\ storedKey' = s
                  /\ \/ q = [o EXCEPT !.pc = "install"] /\ s = o.id
                     \/ q = [pc |-> "idle", id |-> 0] /\ s = storedKey
  <2>1. CASE storedKey' = rotation[r].id /\ rotation' = [rotation EXCEPT ![r].pc = "install"]
    BY <2>1, <1>1, Zenon
  <2>2. CASE rotation' = [rotation EXCEPT ![r] = [pc |-> "idle", id |-> 0]] /\ UNCHANGED storedKey
    BY <2>2
  <2>. QED
    BY <2>1, <2>2, Zenon DEF PersistHMACRotation
<1>5. UNCHANGED <<configKey, keyRing, authKeys, hubKey, writer>>
  BY DEF PersistHMACRotation
<1>6. q \in KyRotations /\ ((q.pc = "install" /\ q.id = o.id /\ s = o.id) \/ (q.pc = "idle" /\ s = storedKey))
  <2>1. CASE q = [o EXCEPT !.pc = "install"] /\ s = o.id
    <3>1. q = [pc |-> "install", id |-> o.id] /\ s = o.id
      BY <2>1, <1>3
    <3>2. o.id \in 0 .. MaxKeyID
      BY <1>3 DEF KeyIDs
    <3>3. q \in KyRotations
      BY <3>1, <3>2 DEF KyRotations
    <3>4. q.pc = "install" /\ q.id = o.id
      BY <3>1
    <3>. QED
      BY <3>1, <3>3, <3>4
  <2>2. CASE q = [pc |-> "idle", id |-> 0] /\ s = storedKey
    BY <2>2, <1>3 DEF KyRotations
  <2>. QED
    BY <1>4, <2>1, <2>2
<1>7. s \in KeyIDs
  BY <1>3, <1>6 DEF KyKeys, KyTypes
<1>8. KyTypes' /\ rotation'[r] = q /\ \A x \in Rotators \ {r} : rotation'[x] = rotation[x]
  BY <1>4, <1>5, <1>6, <1>7 DEF KyKeys, KyTypes
<1>9. \A x \in Rotators \ {r} : rotation[x].pc = "idle"
  BY <1>1, <1>2 DEF KyKeys, KyAlone
<1>10. KyAlone'
  BY <1>8, <1>9 DEF KyAlone
<1>11. ASSUME NEW x \in Rotators PROVE KyStage(rotation[x])'
  <2>1. CASE x = r
    BY <2>1, <1>2, <1>4, <1>5, <1>6, <1>8 DEF KyStage
  <2>2. CASE x # r
    BY <2>2, <1>5, <1>8, <1>9 DEF KyStage
  <2>. QED
    BY <2>1, <2>2
<1>12. StoredKeyLeads'
  BY <1>2, <1>3, <1>4, <1>5, <1>6 DEF KyKeys, StoredKeyLeads
<1>. QED
  BY <1>2, <1>5, <1>8, <1>10, <1>11, <1>12 DEF KyKeys, KyHub, KyKnown, Ring

\* The ring takes the new key in and keeps every key somebody signs with.
LEMMA KyInstalls ==
  ASSUME KyKeys, NEW r \in Rotators, InstallKeys(r) PROVE KyKeys'
<1>1. PICK o : o = rotation[r]
  OBVIOUS
<1>2. o \in KyRotations /\ o.pc = "install" /\ o.id = configKey + 1 /\ hubKey = configKey /\ storedKey = o.id
  BY <1>1 DEF InstallKeys, KyKeys, KyTypes, KyStage
<1>3. configKey \in Nat /\ o = [pc |-> "install", id |-> o.id] /\ o.id \in KeyIDs /\ configKey \in KeyIDs /\ o.id # configKey
  BY <1>2, KeysAssumption DEF KyKeys, KyTypes, KyRotations, KeyIDs
<1>4. PICK expired : /\ expired \subseteq {k \in KeyIDs : keyRing[k] = "grace" /\ \A w \in Writers : writer[w].key # k}
                     /\ keyRing' = [k \in KeyIDs |->
                           IF k = o.id THEN "current" ELSE IF k = configKey THEN "grace"
                           ELSE IF k \in expired THEN "none" ELSE keyRing[k]]
  BY <1>1 DEF InstallKeys
<1>5. PICK q : q = [o EXCEPT !.pc = "switch"]
  OBVIOUS
<1>6. q \in KyRotations /\ q.pc = "switch" /\ q.id = o.id
  BY <1>3, <1>5, KeysAssumption DEF KyRotations, KeyIDs
<1>7. /\ rotation' = [rotation EXCEPT ![r] = q] /\ authKeys' = Ring(keyRing') /\ configKey' = o.id
      /\ UNCHANGED <<storedKey, hubKey, writer>>
  BY <1>1, <1>5, Zenon DEF InstallKeys
<1>8. keyRing' \in [KeyIDs -> {"none", "current", "grace"}] /\ keyRing'[o.id] = "current" /\ keyRing'[configKey] = "grace"
  BY <1>3, <1>4 DEF KyKeys, KyTypes
<1>9. KyTypes' /\ rotation'[r] = q /\ \A x \in Rotators \ {r} : rotation'[x] = rotation[x]
  BY <1>3, <1>6, <1>7, <1>8 DEF KyKeys, KyTypes
<1>10. \A x \in Rotators \ {r} : rotation[x].pc = "idle"
  BY <1>1, <1>2 DEF KyKeys, KyAlone
<1>11. KyAlone' /\ KyHub'
  BY <1>6, <1>9, <1>10 DEF KyAlone, KyHub
<1>12. ASSUME NEW x \in Rotators PROVE KyStage(rotation[x])'
  <2>1. CASE x = r
    BY <2>1, <1>6, <1>7, <1>9 DEF KyStage
  <2>2. CASE x # r
    BY <2>2, <1>9, <1>10 DEF KyStage
  <2>. QED
    BY <2>1, <2>2
<1>13. StoredKeyLeads'
  BY <1>2, <1>3, <1>7 DEF StoredKeyLeads
<1>14. ASSUME NEW w \in Writers, writer[w].pc = "sign" PROVE keyRing'[writer[w].key] # "none"
  <2>1. writer[w].key \in KeyIDs /\ keyRing[writer[w].key] # "none" /\ writer[w].key \notin expired
    BY <1>4, <1>14 DEF KyKeys, KyKnown
  <2>. QED
    BY <2>1, <1>4
<1>15. KyKnown'
  BY <1>2, <1>7, <1>8, <1>14 DEF KyKeys, KyKnown
<1>. QED
  BY <1>9, <1>11, <1>12, <1>13, <1>15 DEF KyKeys

\* The hub signs with the new key from now on.
LEMMA KySwitches ==
  ASSUME KyKeys, NEW r \in Rotators, SwitchKey(r) PROVE KyKeys'
<1>1. rotation[r].pc = "switch" /\ rotation[r].id = configKey
  BY DEF SwitchKey, KyKeys, KyStage
<1>2. PICK q : q = [pc |-> "idle", id |-> 0]
  OBVIOUS
<1>3. q \in KyRotations /\ q.pc = "idle"
  BY <1>2, KeysAssumption DEF KyRotations
<1>4. /\ rotation' = [rotation EXCEPT ![r] = q] /\ hubKey' = configKey /\ authKeys' = Ring(keyRing)
      /\ UNCHANGED <<configKey, storedKey, keyRing, writer>>
  BY <1>1, <1>2, Zenon DEF SwitchKey
<1>5. KyTypes' /\ rotation'[r] = q /\ \A x \in Rotators \ {r} : rotation'[x] = rotation[x]
  BY <1>3, <1>4 DEF KyKeys, KyTypes
<1>6. \A x \in Rotators : rotation'[x].pc = "idle"
  BY <1>1, <1>3, <1>5 DEF KyKeys, KyAlone
<1>7. KyAlone' /\ KyHub' /\ \A x \in Rotators : KyStage(rotation[x])'
  BY <1>4, <1>6 DEF KyAlone, KyHub, KyStage
<1>8. StoredKeyLeads'
  <2>1. configKey \in Nat
    BY KeysAssumption DEF KyKeys, KyTypes, KeyIDs
  <2>. QED
    BY <2>1, <1>4 DEF KyKeys, StoredKeyLeads
<1>9. KyKnown'
  BY <1>4 DEF KyKeys, KyKnown, Ring
<1>. QED
  BY <1>5, <1>7, <1>8, <1>9 DEF KyKeys

\* A writer reads the id the hub signs with, and signs with it later.
LEMMA KyWrites ==
  ASSUME KyKeys, NEW w \in Writers, WriteFrame(w) \/ Sign(w) PROVE KyKeys'
<1>1. PICK q : /\ writer' = [writer EXCEPT ![w] = q]
               /\ q = [pc |-> "sign", key |-> hubKey] \/ q = [pc |-> "idle", key |-> 0]
  <2>1. CASE WriteFrame(w)
    BY <2>1, Zenon DEF WriteFrame
  <2>2. CASE Sign(w)
    <3>1. writer[w].key \in authKeys
      BY <2>2 DEF Sign, KyKeys, KyKnown, Ring
    <3>2. writer' = [writer EXCEPT ![w] = [pc |-> "idle", key |-> 0]]
      BY <2>2, <3>1 DEF Sign
    <3>. QED
      BY <3>2, Zenon
  <2>. QED
    BY <2>1, <2>2
<1>2. UNCHANGED <<configKey, storedKey, keyRing, authKeys, hubKey, rotation>>
  BY DEF WriteFrame, Sign
<1>3. hubKey \in KeyIDs /\ keyRing[hubKey] # "none"
  BY DEF KyKeys, KyTypes, KyKnown
<1>4. /\ q \in KyWriters /\ q.pc # "unsigned"
      /\ q.pc = "sign" => q.key \in KeyIDs /\ keyRing[q.key] # "none"
  BY <1>1, <1>3, KeysAssumption DEF KyWriters, KeyIDs
<1>5. KyTypes' /\ writer'[w] = q /\ \A x \in Writers \ {w} : writer'[x] = writer[x]
  BY <1>1, <1>2, <1>4 DEF KyKeys, KyTypes
<1>6. KyKnown'
  BY <1>2, <1>4, <1>5 DEF KyKeys, KyKnown, Ring
<1>7. KyAlone' /\ KyHub' /\ StoredKeyLeads' /\ \A r \in Rotators : KyStage(rotation[r])'
  BY <1>2 DEF KyKeys, KyAlone, KyHub, StoredKeyLeads, KyStage
<1>. QED
  BY <1>5, <1>6, <1>7 DEF KyKeys

\* A token found unused under the lock is marked there.
LEMMA KyRegisters ==
  ASSUME KyTokens, NEW g \in Registrations, RegisterInstance(g) \/ \E t \in Tokens : validateProvisioningToken(g, t)
  PROVE  KyTokens'
<1>1. CASE RegisterInstance(g)
  <2>1. PICK t : t = registration[g].token
    OBVIOUS
  <2>2. t \in Tokens /\ registration' = [registration EXCEPT ![g] = [pc |-> "done", token |-> "none"]]
    BY <1>1, <2>1 DEF RegisterInstance, KyTokens
  <2>3. \/ t \notin usedTokens /\ instances' = [instances EXCEPT ![t] = @ + 1] /\ usedTokens' = usedTokens \cup {t}
        \/ UNCHANGED <<instances, usedTokens>>
    BY <1>1, <2>1, Zenon DEF RegisterInstance
  <2>4. /\ registration' \in [Registrations -> [pc : {"idle", "valid", "done"}, token : Tokens \cup {"none"}]]
        /\ \A h \in Registrations : registration'[h].pc = "valid" => registration'[h].token \in Tokens
    BY <2>2 DEF KyTokens
  <2>5. /\ usedTokens' \subseteq Tokens /\ instances' \in [Tokens -> Nat]
        /\ \A u \in Tokens : instances'[u] = IF u \in usedTokens' THEN 1 ELSE 0
    BY <2>2, <2>3 DEF KyTokens
  <2>. QED
    BY <2>4, <2>5 DEF KyTokens
<1>2. CASE \E t \in Tokens : validateProvisioningToken(g, t)
  <2>1. PICK t \in Tokens : validateProvisioningToken(g, t)
    BY <1>2
  <2>2. /\ registration' = [registration EXCEPT ![g] = [pc |-> "valid", token |-> t]]
        /\ UNCHANGED <<usedTokens, instances>>
    BY <2>1 DEF validateProvisioningToken
  <2>. QED
    BY <2>2 DEF KyTokens
<1>. QED
  BY <1>1, <1>2

\* The inductive invariant of the relay's keys and tokens.
THEOREM KyInvariant == RelayKeysSpec => []KyInv
<1>1. RelayKeysInit => KyInv
  <2>. SUFFICES ASSUME RelayKeysInit PROVE KyInv
    OBVIOUS
  <2>1. 1 \in KeyIDs /\ 0 \in 0 .. MaxKeyID
    BY KeysAssumption DEF KeyIDs
  <2>2. KyTypes
    BY <2>1 DEF RelayKeysInit, KyTypes, KyRotations, KyWriters
  <2>3. Ring(keyRing) = {1}
    BY <2>1 DEF RelayKeysInit, Ring
  <2>4. KyKeys
    BY <2>1, <2>2, <2>3 DEF RelayKeysInit, KyKeys, KyAlone, KyStage, KyHub, StoredKeyLeads, KyKnown
  <2>5. KyTokens
    BY DEF RelayKeysInit, KyTokens
  <2>. QED
    BY <2>4, <2>5 DEF KyInv
<1>2. ASSUME KyInv, [RelayKeysNext]_keyVars PROVE KyInv'
  <2>. USE <1>2 DEF KyInv
  <2>1. CASE \E r \in Rotators : RotateBegin(r) \/ PersistHMACRotation(r) \/ InstallKeys(r) \/ SwitchKey(r)
    <3>1. PICK r \in Rotators : RotateBegin(r) \/ PersistHMACRotation(r) \/ InstallKeys(r) \/ SwitchKey(r)
      BY <2>1
    <3>2. KyTokens'
      BY <3>1 DEF RotateBegin, PersistHMACRotation, InstallKeys, SwitchKey, KyTokens
    <3>. QED
      BY <3>1, <3>2, KyBegins, KyPersists, KyInstalls, KySwitches
  <2>2. CASE \E w \in Writers : WriteFrame(w) \/ Sign(w)
    <3>1. KyTokens'
      BY <2>2 DEF WriteFrame, Sign, KyTokens
    <3>. QED
      BY <2>2, <3>1, KyWrites
  <2>3. CASE \E g \in Registrations : RegisterInstance(g) \/ \E t \in Tokens : validateProvisioningToken(g, t)
    <3>1. UNCHANGED <<configKey, storedKey, keyRing, authKeys, hubKey, rotation, writer>>
      BY <2>3 DEF RegisterInstance, validateProvisioningToken
    <3>2. KyKeys'
      BY <3>1 DEF KyKeys, KyTypes, KyAlone, KyStage, KyHub, StoredKeyLeads, KyKnown, Ring
    <3>. QED
      BY <2>3, <3>2, KyRegisters
  <2>4. CASE UNCHANGED keyVars
    BY <2>4 DEF keyVars, KyKeys, KyTypes, KyAlone, KyStage, KyHub, StoredKeyLeads, KyKnown, Ring,
       KyTokens
  <2>. QED
    BY <2>1, <2>2, <2>3, <2>4 DEF RelayKeysNext
<1>. QED
  BY <1>1, <1>2, PTL DEF RelayKeysSpec

\* What the invariant says of the run's properties.
LEMMA KySound ==
  ASSUME KyInv PROVE RelayKeysTypeOK /\ AlwaysSigned /\ StoredKeyLeads /\ TokenServesOnce
BY DEF KyInv, KyKeys, KyTypes, KyKnown, Ring, KyTokens, RelayKeysTypeOK, AlwaysSigned,
   TokenServesOnce

-----------------------------------------------------------------------------
(* The relay's queues *)

RsTypes ==
  /\ items \in Seq(RelayEvents) /\ order \in Seq(RelayEvents) /\ answer \in Seq(RelayEvents)
  /\ Len(items) =< RelayCapacity /\ Len(order) =< RelayCapacity
  /\ accepted \subseteq RelayEvents /\ gone \subseteq RelayEvents /\ forgotten \subseteq RelayEvents
  /\ posted \in [RelayEvents -> Nat] /\ delivered \in [RelayEvents -> Nat] /\ relayClosed \in BOOLEAN

\* The window has ids of accepted events only.
RsWindow == Range(order) \subseteq accepted

\* The list has e at one place at most.
Single(list, e) == \A i, j \in 1 .. Len(list) : list[i] = e /\ list[j] = e => i = j

\* An event outside the window and not forgotten is new to the relay ...
RsNew(e) == e \notin Range(items) /\ e \notin Range(answer) /\ delivered[e] = 0

\* ... and one in the window is at one place at most.
RsOnce(e) ==
  /\ Single(items, e) /\ Single(answer, e) /\ delivered[e] \in {0, 1}
  /\ e \in Range(items) => e \notin Range(answer)
  /\ delivered[e] = 1 => e \notin Range(items) /\ e \notin Range(answer)

RsKept == \A e \in RelayEvents \ forgotten : RsOnce(e) /\ (e \notin Range(order) => RsNew(e))

RsInv == RsTypes /\ RsWindow /\ RelayAccounted /\ RsKept

\* The range of a list, by its places.
LEMMA InRange ==
  ASSUME NEW S, NEW list \in Seq(S), NEW e
  PROVE  e \in Range(list) <=> \E i \in 1 .. Len(list) : list[i] = e
<1>1. DOMAIN list = 1 .. Len(list)
  OBVIOUS
<1>. QED
  BY <1>1 DEF Range

\* The empty list has nothing.
LEMMA EmptyList == Range(<<>>) = {} /\ <<>> \in Seq(RelayEvents) /\ Len(<<>>) = 0
BY DEF Range

\* A pushed element comes last; the others move up when the list was full.
LEMMA PushPlaces ==
  ASSUME NEW list \in Seq(RelayEvents), NEW e \in RelayEvents, Len(list) =< RelayCapacity
  PROVE  /\ Push(list, e) \in Seq(RelayEvents) /\ Len(Push(list, e)) =< RelayCapacity
         /\ Len(Push(list, e)) >= 1 /\ Push(list, e)[Len(Push(list, e))] = e
         /\ \E d \in {0, 1} : /\ Len(Push(list, e)) + d = Len(list) + 1
                              /\ \A i \in 1 .. Len(Push(list, e)) - 1 : Push(list, e)[i] = list[i + d]
<1>1. PICK n \in Nat : n = Len(list)
  OBVIOUS
<1>2. PICK c \in Nat : c = RelayCapacity /\ c >= 1
  BY RelayAssumption
<1>3. CASE n = c
  <2>1. PICK l \in Seq(RelayEvents) : l = Tail(list) /\ Len(l) = n - 1 /\ \A i \in 1 .. n - 1 : l[i] = list[i + 1]
    <3>0. n >= 1
      BY <1>2, <1>3
    <3>1. n >= 1 /\ list # <<>>
      BY <1>1, <3>0
    <3>2. Tail(list) \in Seq(RelayEvents) /\ Len(Tail(list)) = n - 1
      BY <1>1, <3>1
    <3>3. \A i \in 1 .. n - 1 : Tail(list)[i] = list[i + 1]
      BY <1>1, <3>1
    <3>. QED
      BY <3>2, <3>3
  <2>2. PICK q \in Seq(RelayEvents) : q = Append(l, e) /\ Len(q) = n /\ q[n] = e /\ \A i \in 1 .. n - 1 : q[i] = l[i]
    <3>1. Append(l, e) \in Seq(RelayEvents) /\ Len(Append(l, e)) = Len(l) + 1 /\ Append(l, e)[Len(l) + 1] = e
      OBVIOUS
    <3>2. \A i \in 1 .. Len(l) : Append(l, e)[i] = l[i]
      OBVIOUS
    <3>3. Len(l) = n - 1 /\ Len(l) + 1 = n
      BY <2>1
    <3>4. Len(Append(l, e)) = n /\ Append(l, e)[n] = e /\ \A i \in 1 .. n - 1 : Append(l, e)[i] = l[i]
      BY <3>1, <3>2, <3>3
    <3>. QED
      BY <3>1, <3>4
  <2>3. Push(list, e) = q
    BY <1>1, <1>2, <1>3, <2>1, <2>2 DEF Push
  <2>4. Len(q) + 1 = Len(list) + 1 /\ \A i \in 1 .. Len(q) - 1 : q[i] = list[i + 1]
    BY <1>1, <2>1, <2>2
  <2>. QED
    BY <1>1, <1>2, <1>3, <2>2, <2>3, <2>4
<1>4. CASE n # c
  <2>2. PICK q \in Seq(RelayEvents) : q = Append(list, e) /\ Len(q) = n + 1 /\ q[n + 1] = e /\ \A i \in 1 .. n : q[i] = list[i]
    <3>1. Append(list, e) \in Seq(RelayEvents) /\ Len(Append(list, e)) = n + 1 /\ Append(list, e)[n + 1] = e
      BY <1>1
    <3>2. \A i \in 1 .. n : Append(list, e)[i] = list[i]
      BY <1>1
    <3>. QED
      BY <3>1, <3>2
  <2>3. Push(list, e) = q
    BY <1>1, <1>2, <1>4, <2>2 DEF Push
  <2>4. Len(q) + 0 = Len(list) + 1 /\ \A i \in 1 .. Len(q) - 1 : q[i] = list[i + 0]
    BY <1>1, <2>2
  <2>. QED
    BY <1>1, <1>2, <1>4, <2>2, <2>3, <2>4
<1>. QED
  BY <1>3, <1>4

\* What is in a list after a push: the new element and some of the others, and
\* those as singly as before.
LEMMA Pushed ==
  ASSUME NEW list \in Seq(RelayEvents), NEW e \in RelayEvents, Len(list) =< RelayCapacity
  PROVE  /\ Push(list, e) \in Seq(RelayEvents) /\ Len(Push(list, e)) =< RelayCapacity
         /\ e \in Range(Push(list, e)) /\ Range(Push(list, e)) \subseteq Range(list) \cup {e}
         /\ \A x : x # e /\ Single(list, x) => Single(Push(list, e), x)
         /\ e \notin Range(list) => Single(Push(list, e), e)
<1>1. PICK q : q = Push(list, e)
  OBVIOUS
<1>2. /\ q \in Seq(RelayEvents) /\ Len(q) =< RelayCapacity /\ Len(q) >= 1 /\ q[Len(q)] = e
      /\ \E d \in {0, 1} : Len(q) + d = Len(list) + 1 /\ \A i \in 1 .. Len(q) - 1 : q[i] = list[i + d]
  BY <1>1, PushPlaces
<1>3. PICK d \in {0, 1} : Len(q) + d = Len(list) + 1 /\ \A i \in 1 .. Len(q) - 1 : q[i] = list[i + d]
  BY <1>2
<1>4. PICK n \in Nat : n = Len(q) /\ Len(list) = n + d - 1 /\ Len(list) \in Nat
  BY <1>2, <1>3
<1>5. \A i \in 1 .. n : (i = n /\ q[i] = e) \/ (i \in 1 .. n - 1 /\ q[i] = list[i + d] /\ i + d \in 1 .. Len(list))
  BY <1>2, <1>3, <1>4
<1>6. \A x : x \in Range(q) <=> \E i \in 1 .. n : q[i] = x
  <2>1. q \in Seq(RelayEvents) /\ n = Len(q)
    BY <1>2, <1>4
  <2>. QED
    BY <2>1, InRange
<1>7. \A x : x \in Range(list) <=> \E i \in 1 .. Len(list) : list[i] = x
  BY InRange
<1>8. e \in Range(q) /\ Range(q) \subseteq Range(list) \cup {e}
  <2>1. e \in Range(q)
    <3>1. n \in 1 .. n /\ q[n] = e
      BY <1>2, <1>4
    <3>. QED
      BY <1>6, <3>1
  <2>2. ASSUME NEW x \in Range(q) PROVE x \in Range(list) \cup {e}
    BY <1>5, <1>6, <1>7
  <2>. QED
    BY <2>1, <2>2
<1>9. ASSUME NEW x, x # e, Single(list, x) PROVE Single(q, x)
  <2>1. SUFFICES ASSUME NEW i \in 1 .. n, NEW j \in 1 .. n, q[i] = x, q[j] = x PROVE i = j
    BY <1>4 DEF Single
  <2>2. /\ i + d \in 1 .. Len(list) /\ list[i + d] = x
        /\ j + d \in 1 .. Len(list) /\ list[j + d] = x
    BY <1>5, <1>9, <2>1
  <2>3. i + d = j + d
    BY <1>9, <2>2 DEF Single
  <2>. QED
    BY <2>3
<1>10. ASSUME e \notin Range(list) PROVE Single(q, e)
  <2>1. SUFFICES ASSUME NEW i \in 1 .. n, NEW j \in 1 .. n, q[i] = e, q[j] = e PROVE i = j
    BY <1>4 DEF Single
  <2>2. i = n /\ j = n
    BY <1>5, <1>7, <1>10, <2>1
  <2>. QED
    BY <2>2
<1>. QED
  BY <1>1, <1>2, <1>8, <1>9, <1>10

\* A new event enters the queue and the window.
LEMMA RsEnqueues ==
  ASSUME RsInv, NEW e \in RelayEvents, Post(e), ~relayClosed, e \notin Range(order) PROVE RsInv'
<1>1. /\ order' = Push(order, e) /\ items' = Push(items, e)
      /\ gone' = (gone \ {e}) \cup (Range(items) \ Range(items'))
      /\ forgotten' = forgotten \cup (Range(order) \ Range(order'))
      /\ accepted' = accepted \cup {e} /\ posted' = [posted EXCEPT ![e] = @ + 1]
      /\ UNCHANGED <<answer, delivered, relayClosed>>
  BY DEF Post, StoreEnqueue, seen
<1>2. /\ order' \in Seq(RelayEvents) /\ Len(order') =< RelayCapacity
      /\ e \in Range(order') /\ Range(order') \subseteq Range(order) \cup {e}
  BY <1>1, Pushed DEF RsInv, RsTypes
<1>3. /\ items' \in Seq(RelayEvents) /\ Len(items') =< RelayCapacity
      /\ e \in Range(items') /\ Range(items') \subseteq Range(items) \cup {e}
      /\ \A x : x # e /\ Single(items, x) => Single(items', x)
      /\ e \notin Range(items) => Single(items', e)
  BY <1>1, Pushed DEF RsInv, RsTypes
<1>4. Range(items) \subseteq RelayEvents /\ Range(order) \subseteq RelayEvents
  <2>1. items \in Seq(RelayEvents) /\ order \in Seq(RelayEvents)
    BY DEF RsInv, RsTypes
  <2>. QED
    BY <2>1 DEF Range
<1>5. RsTypes'
  BY <1>1, <1>2, <1>3, <1>4 DEF RsInv, RsTypes
<1>6. RsWindow' /\ RelayAccounted'
  BY <1>1, <1>2, <1>3 DEF RsInv, RsWindow, RelayAccounted
<1>7. ASSUME NEW x \in RelayEvents, x \notin forgotten'
      PROVE  RsOnce(x)' /\ (x \notin Range(order') => RsNew(x)')
  <2>1. x \notin forgotten /\ (x \in Range(order) => x \in Range(order'))
    BY <1>1, <1>7
  <2>2. RsOnce(x) /\ (x \notin Range(order) => RsNew(x))
    BY <2>1 DEF RsInv, RsKept
  <2>3. CASE x = e
    BY <2>2, <2>3, <1>1, <1>2, <1>3 DEF RsOnce, RsNew
  <2>4. CASE x # e
    BY <2>1, <2>2, <2>4, <1>1, <1>2, <1>3 DEF RsOnce, RsNew
  <2>. QED
    BY <2>3, <2>4
<1>. QED
  BY <1>5, <1>6, <1>7 DEF RsInv, RsKept

\* A post that the relay refuses, or drops as a duplicate.
LEMMA RsRepeats ==
  ASSUME RsInv, NEW e \in RelayEvents, Post(e), relayClosed \/ e \in Range(order) PROVE RsInv'
<1>1. /\ posted' = [posted EXCEPT ![e] = @ + 1] /\ UNCHANGED <<items, order, gone, forgotten, answer, delivered, relayClosed>>
      /\ accepted' = accepted \/ (e \in Range(order) /\ accepted' = accepted \cup {e})
  BY DEF Post, StoreEnqueue, seen
<1>2. accepted' = accepted
  BY <1>1 DEF RsInv, RsWindow
<1>3. RsTypes'
  BY <1>1, <1>2 DEF RsInv, RsTypes
<1>. QED
  BY <1>1, <1>2, <1>3 DEF RsInv, RsWindow, RelayAccounted, RsKept, RsOnce, RsNew, Single

\* The queue becomes the answer.
LEMMA RsPolls ==
  ASSUME RsInv, Poll PROVE RsInv'
<1>1. /\ answer = <<>> /\ answer' = items /\ items' = <<>>
      /\ UNCHANGED <<posted, accepted, order, delivered, gone, forgotten, relayClosed>>
  BY DEF Poll
<1>2. RsTypes'
  BY <1>1, EmptyList, RelayAssumption DEF RsInv, RsTypes
<1>3. RsWindow' /\ RelayAccounted'
  BY <1>1, EmptyList DEF RsInv, RsWindow, RelayAccounted
<1>4. \A x : Single(<<>>, x)
  BY DEF Single
<1>5. RsKept'
  BY <1>1, <1>4, EmptyList DEF RsInv, RsKept, RsOnce, RsNew
<1>. QED
  BY <1>2, <1>3, <1>5 DEF RsInv

\* The answer reaches the peer.
LEMMA RsAnswered ==
  ASSUME RsInv, PollAnswered PROVE RsInv'
<1>1. /\ answer' = <<>> /\ UNCHANGED <<posted, accepted, items, order, gone, forgotten, relayClosed>>
      /\ delivered' = [e \in RelayEvents |-> delivered[e] + (IF e \in Range(answer) THEN 1 ELSE 0)]
  BY DEF PollAnswered
<1>2. delivered' \in [RelayEvents -> Nat]
  BY <1>1 DEF RsInv, RsTypes
<1>3. \A e \in RelayEvents : delivered'[e] = IF e \in Range(answer) THEN delivered[e] + 1 ELSE delivered[e]
  BY <1>1 DEF RsInv, RsTypes
<1>4. RsTypes'
  BY <1>1, <1>2, EmptyList DEF RsInv, RsTypes
<1>5. RsWindow' /\ RelayAccounted'
  <2>1. \A e \in accepted : e \in Range(answer) => delivered'[e] > 0
    BY <1>3 DEF RsInv, RsTypes
  <2>2. \A e \in accepted : delivered[e] > 0 => delivered'[e] > 0
    <3>1. \A e \in accepted : e \in RelayEvents /\ delivered[e] \in Nat
      BY DEF RsInv, RsTypes
    <3>. QED
      BY <1>3, <3>1
  <2>. QED
    BY <1>1, <2>1, <2>2 DEF RsInv, RsWindow, RelayAccounted
<1>6. \A x : Single(<<>>, x)
  BY DEF Single
<1>7. RsKept'
  BY <1>1, <1>3, <1>6, EmptyList DEF RsInv, RsKept, RsOnce, RsNew
<1>. QED
  BY <1>4, <1>5, <1>7 DEF RsInv

\* The answer is lost.
LEMMA RsLost ==
  ASSUME RsInv, PollLost PROVE RsInv'
<1>1. /\ gone' = gone \cup Range(answer) /\ answer' = <<>>
      /\ UNCHANGED <<posted, accepted, items, order, delivered, forgotten, relayClosed>>
  BY DEF PollLost
<1>2. Range(answer) \subseteq RelayEvents
  <2>1. answer \in Seq(RelayEvents)
    BY DEF RsInv, RsTypes
  <2>. QED
    BY <2>1 DEF Range
<1>3. RsTypes'
  BY <1>1, <1>2, EmptyList DEF RsInv, RsTypes
<1>4. RsWindow' /\ RelayAccounted'
  BY <1>1 DEF RsInv, RsWindow, RelayAccounted
<1>5. \A x : Single(<<>>, x)
  BY DEF Single
<1>6. RsKept'
  BY <1>1, <1>5, EmptyList DEF RsInv, RsKept, RsOnce, RsNew
<1>. QED
  BY <1>3, <1>4, <1>6 DEF RsInv

\* The shutdown drops the queue and forgets the window.
LEMMA RsShuts ==
  ASSUME RsInv, ShutdownRelay PROVE RsInv'
<1>1. /\ relayClosed' = TRUE /\ gone' = gone \cup Range(items) /\ items' = <<>> /\ order' = <<>>
      /\ forgotten' = forgotten \cup Range(order) /\ UNCHANGED <<posted, accepted, answer, delivered>>
  BY DEF ShutdownRelay, seen
<1>2. Range(items) \subseteq RelayEvents /\ Range(order) \subseteq RelayEvents
  <2>1. items \in Seq(RelayEvents) /\ order \in Seq(RelayEvents)
    BY DEF RsInv, RsTypes
  <2>. QED
    BY <2>1 DEF Range
<1>3. RsTypes'
  BY <1>1, <1>2, EmptyList, RelayAssumption DEF RsInv, RsTypes
<1>4. RsWindow' /\ RelayAccounted'
  BY <1>1, EmptyList DEF RsInv, RsWindow, RelayAccounted
<1>5. \A x : Single(<<>>, x)
  BY DEF Single
<1>6. RsKept'
  BY <1>1, <1>5, EmptyList DEF RsInv, RsKept, RsOnce, RsNew
<1>. QED
  BY <1>3, <1>4, <1>6 DEF RsInv

\* The inductive invariant of the relay's queues.
THEOREM RsInvariant == RelayStoreSpec => []RsInv
<1>1. RelayStoreInit => RsInv
  <2>. SUFFICES ASSUME RelayStoreInit PROVE RsInv
    OBVIOUS
  <2>1. /\ items = <<>> /\ order = <<>> /\ answer = <<>> /\ accepted = {} /\ gone = {} /\ forgotten = {}
        /\ posted = [e \in RelayEvents |-> 0] /\ delivered = [e \in RelayEvents |-> 0] /\ relayClosed = FALSE
    BY DEF RelayStoreInit
  <2>2. RsTypes
    <3>1. items \in Seq(RelayEvents) /\ order \in Seq(RelayEvents) /\ answer \in Seq(RelayEvents)
      BY <2>1, EmptyList
    <3>2. Len(items) =< RelayCapacity /\ Len(order) =< RelayCapacity
      BY <2>1, EmptyList, RelayAssumption
    <3>3. posted \in [RelayEvents -> Nat] /\ delivered \in [RelayEvents -> Nat] /\ relayClosed \in BOOLEAN
      BY <2>1
    <3>. QED
      BY <2>1, <3>1, <3>2, <3>3 DEF RsTypes
  <2>3. \A x : Single(<<>>, x)
    BY DEF Single
  <2>. QED
    BY <2>1, <2>2, <2>3, EmptyList DEF RsInv, RsWindow, RelayAccounted, RsKept, RsOnce, RsNew
<1>2. ASSUME RsInv, [RelayStoreNext]_relayStoreVars PROVE RsInv'
  <2>. USE <1>2
  <2>1. CASE \E e \in RelayEvents : Post(e)
    <3>1. PICK e \in RelayEvents : Post(e)
      BY <2>1
    <3>. QED
      BY <3>1, RsEnqueues, RsRepeats DEF RsInv, RsTypes
  <2>2. CASE Poll \/ PollAnswered \/ PollLost \/ ShutdownRelay
    BY <2>2, RsPolls, RsAnswered, RsLost, RsShuts
  <2>3. CASE UNCHANGED storeVars
    BY <2>3 DEF storeVars, RsInv, RsTypes, RsWindow, RelayAccounted, RsKept, RsOnce, RsNew, Single
  <2>. QED
    BY <2>1, <2>2, <2>3 DEF RelayStoreNext, StoreStep, relayStoreVars
<1>. QED
  BY <1>1, <1>2, PTL DEF RelayStoreSpec

\* An element at one place at most is counted once at most.
LEMMA CountsOnce ==
  ASSUME NEW list \in Seq(RelayEvents), NEW e, Single(list, e)
  PROVE  Cardinality({i \in DOMAIN list : list[i] = e}) = IF e \in Range(list) THEN 1 ELSE 0
<1>1. DOMAIN list = 1 .. Len(list)
  OBVIOUS
<1>2. CASE e \in Range(list)
  <2>1. PICK i \in 1 .. Len(list) : list[i] = e
    BY <1>2, InRange
  <2>2. {j \in DOMAIN list : list[j] = e} = {i}
    BY <1>1, <2>1 DEF Single
  <2>. QED
    BY <1>2, <2>2, FS_Singleton
<1>3. CASE e \notin Range(list)
  <2>1. {j \in DOMAIN list : list[j] = e} = {}
    BY <1>1, <1>3, InRange
  <2>. QED
    BY <1>3, <2>1, FS_EmptySet
<1>. QED
  BY <1>2, <1>3

\* The invariant gives the run's property on what is handed out.
LEMMA RsHandsOnce == ASSUME RsInv PROVE HandedOnce
<1>. SUFFICES ASSUME NEW e \in RelayEvents, e \notin forgotten
              PROVE  delivered[e] + Cardinality({i \in DOMAIN items : items[i] = e})
                       + Cardinality({i \in DOMAIN answer : answer[i] = e}) =< 1
  BY DEF HandedOnce
<1>1. RsOnce(e) /\ items \in Seq(RelayEvents) /\ answer \in Seq(RelayEvents)
  BY DEF RsInv, RsKept, RsTypes
<1>2. Cardinality({i \in DOMAIN items : items[i] = e}) = IF e \in Range(items) THEN 1 ELSE 0
  BY <1>1, CountsOnce DEF RsOnce
<1>3. Cardinality({i \in DOMAIN answer : answer[i] = e}) = IF e \in Range(answer) THEN 1 ELSE 0
  BY <1>1, CountsOnce DEF RsOnce
<1>4. /\ delivered[e] \in {0, 1} /\ (e \in Range(items) => e \notin Range(answer))
      /\ delivered[e] = 1 => e \notin Range(items) /\ e \notin Range(answer)
  BY <1>1 DEF RsOnce
<1>. HIDE <1>1
<1>5. CASE e \in Range(items)
  BY <1>2, <1>3, <1>4, <1>5
<1>6. CASE e \notin Range(items)
  BY <1>2, <1>3, <1>4, <1>6
<1>. QED
  BY <1>5, <1>6

-----------------------------------------------------------------------------
(* The health of a transport *)

HlInv ==
  /\ checks \in [successes : 0 .. UpThreshold, failures : 0 .. DownThreshold]
  /\ healthy \in BOOLEAN /\ lastEvent \in BOOLEAN /\ streak \in 0 .. UpThreshold
  /\ checking \in [pc : {"idle", "read", "decide", "emit"}, was : BOOLEAN]

\* The smaller of two numbers.
LEMMA MinOfTwo ==
  ASSUME NEW m \in Int, NEW n \in Int PROVE Min({m, n}) = IF m =< n THEN m ELSE n
<1>1. PICK x : x = IF m =< n THEN m ELSE n
  OBVIOUS
<1>2. x \in {m, n} /\ (\A y \in {m, n} : x =< y) /\ \A z \in {m, n} : (\A y \in {m, n} : z =< y) => z = x
  BY <1>1
<1>3. Min({m, n}) = x
  BY <1>2, Zenon DEF Min
<1>. QED
  BY <1>1, <1>3

\* The flags stay flags and the counters within their thresholds.
LEMMA HlInvariant == RelayStoreSpec => []HlInv
<1>1. RelayStoreInit => HlInv
  <2>. SUFFICES ASSUME RelayStoreInit PROVE HlInv
    OBVIOUS
  <2>1. checks \in [successes : 0 .. UpThreshold, failures : 0 .. DownThreshold] /\ streak \in 0 .. UpThreshold
    BY RelayAssumption DEF RelayStoreInit
  <2>2. healthy \in BOOLEAN /\ lastEvent \in BOOLEAN
    BY DEF RelayStoreInit
  <2>3. checking \in [pc : {"idle", "read", "decide", "emit"}, was : BOOLEAN]
    BY DEF RelayStoreInit
  <2>. QED
    BY <2>1, <2>2, <2>3 DEF HlInv
<1>2. ASSUME HlInv, [RelayStoreNext]_relayStoreVars PROVE HlInv'
  <2>. USE <1>2
  <2>1. CASE \E ok \in BOOLEAN : CountCheck(ok)
    <3>1. PICK ok \in BOOLEAN : CountCheck(ok)
      BY <2>1
    <3>2. PICK s, f, k \in Int : /\ s \in 0 .. UpThreshold /\ f \in 0 .. DownThreshold /\ k \in 0 .. UpThreshold
                                 /\ s = checks.successes /\ f = checks.failures /\ k = streak
      BY DEF HlInv
    <3>3. PICK u, v, w \in Int : /\ u = Min({s + 1, UpThreshold}) /\ v = Min({f + 1, DownThreshold})
                                 /\ w = Min({k + 1, UpThreshold})
                                 /\ u \in 0 .. UpThreshold /\ v \in 0 .. DownThreshold /\ w \in 0 .. UpThreshold
      <4>1. UpThreshold \in Nat /\ DownThreshold \in Nat
        BY RelayAssumption
      <4>2. Min({s + 1, UpThreshold}) = IF s + 1 =< UpThreshold THEN s + 1 ELSE UpThreshold
        BY <4>1, MinOfTwo
      <4>3. Min({f + 1, DownThreshold}) = IF f + 1 =< DownThreshold THEN f + 1 ELSE DownThreshold
        BY <4>1, MinOfTwo
      <4>4. Min({k + 1, UpThreshold}) = IF k + 1 =< UpThreshold THEN k + 1 ELSE UpThreshold
        BY <4>1, MinOfTwo
      <4>. QED
        BY <3>2, <4>1, <4>2, <4>3, <4>4
    <3>4. checks' = (IF ok THEN [successes |-> u, failures |-> 0] ELSE [successes |-> 0, failures |-> v])
      BY <3>1, <3>2, <3>3, Zenon DEF CountCheck
    <3>5. streak' = IF ok THEN w ELSE 0
      BY <3>1, <3>2, <3>3, Zenon DEF CountCheck
    <3>6. checking' = [checking EXCEPT !.pc = "read"] /\ UNCHANGED <<healthy, lastEvent>>
      BY <3>1 DEF CountCheck
    <3>7. checks' \in [successes : 0 .. UpThreshold, failures : 0 .. DownThreshold] /\ streak' \in 0 .. UpThreshold
      BY <3>3, <3>4, <3>5, RelayAssumption
    <3>. QED
      BY <3>6, <3>7 DEF HlInv
  <2>2. CASE ReadFlag
    BY <2>2 DEF ReadFlag, HlInv
  <2>3. CASE Decide
    <3>1. PICK low, high : low = (checks.failures < DownThreshold) /\ high = (checks.successes >= UpThreshold)
      OBVIOUS
    <3>2. low \in BOOLEAN /\ high \in BOOLEAN
      BY <3>1
    <3>3. PICK v : v = IF checking.was THEN low ELSE high
      OBVIOUS
    <3>4. v \in BOOLEAN
      BY <3>2, <3>3
    <3>5. /\ healthy' = (IF v # checking.was THEN v ELSE healthy)
          /\ checking' = [checking EXCEPT !.pc = IF v # checking.was THEN "emit" ELSE "idle", !.was = v]
          /\ UNCHANGED <<checks, lastEvent, streak>>
      BY <2>3, <3>1, <3>3, Zenon DEF Decide
    <3>. QED
      BY <3>4, <3>5 DEF HlInv
  <2>4. CASE EmitHealth
    BY <2>4 DEF EmitHealth, HlInv
  <2>5. CASE MarkDegraded
    <3>1. (lastEvent \/ healthy) \in BOOLEAN
      OBVIOUS
    <3>2. healthy' \in BOOLEAN /\ lastEvent' \in BOOLEAN
      BY <2>5, <3>1, Zenon DEF MarkDegraded
    <3>3. streak' \in 0 .. UpThreshold /\ UNCHANGED <<checks, checking>>
      BY <2>5, RelayAssumption DEF MarkDegraded
    <3>. QED
      BY <3>2, <3>3 DEF HlInv
  <2>6. CASE UNCHANGED healthVars
    BY <2>6 DEF healthVars, HlInv
  <2>. QED
    BY <2>1, <2>2, <2>3, <2>4, <2>5, <2>6 DEF RelayStoreNext, HealthStep, relayStoreVars
<1>. QED
  BY <1>1, <1>2, PTL DEF RelayStoreSpec

\* The flag goes up only in Decide, and only when the flag it read was down.
LEMMA HlMarkSticks ==
  ASSUME HlInv, [RelayStoreNext]_relayStoreVars, ~healthy, healthy' PROVE ~checking.was
<1>1. Decide
  BY DEF RelayStoreNext, HealthStep, CountCheck, ReadFlag, EmitHealth, MarkDegraded, healthVars,
     relayStoreVars
<1>2. PICK v : v = checking.was
  OBVIOUS
<1>3. v \in BOOLEAN
  BY <1>2 DEF HlInv
<1>. SUFFICES ASSUME v = TRUE PROVE FALSE
  BY <1>2, <1>3
<1>4. healthy' = IF (checks.failures < DownThreshold) # v THEN checks.failures < DownThreshold ELSE healthy
  BY <1>1, <1>2, Zenon DEF Decide
<1>. QED
  BY <1>4

\* The types of the run's property.
LEMMA RsSound == ASSUME RsInv, HlInv PROVE RelayStoreTypeOK
<1>1. Range(items) \subseteq RelayEvents /\ Range(order) \subseteq RelayEvents
  <2>1. items \in Seq(RelayEvents) /\ order \in Seq(RelayEvents)
    BY DEF RsInv, RsTypes
  <2>. QED
    BY <2>1 DEF Range
<1>2. Len(items) =< RelayCapacity /\ Len(order) =< RelayCapacity /\ accepted \cup gone \subseteq RelayEvents
  BY DEF RsInv, RsTypes
<1>3. /\ checks.successes \in 0 .. UpThreshold /\ checks.failures \in 0 .. DownThreshold
      /\ checking.pc \in {"idle", "read", "decide", "emit"} /\ {healthy, lastEvent} \subseteq BOOLEAN
  BY DEF HlInv
<1>. QED
  BY <1>1, <1>2, <1>3 DEF RelayStoreTypeOK

\* The relay is sound for any number of rotations, writers, tokens and events,
\* any queue length and any thresholds: frames are signed with keys peers know
\* (internal/relay/key_rotation.go), a token registers one instance
\* (internal/relay/registry.go), and an accepted event is accounted for and
\* handed out once (internal/transport/relay_store.go).
THEOREM RelaySoundAlways == NetworkSpec => []RelaySound
<1>1. ASSUME KyInv, RsInv, HlInv PROVE RelaySound
  BY <1>1, KySound, RsSound, RsHandsOnce DEF RsInv, RelaySound
<1>. QED
  BY <1>1, NetworkImplements, KyInvariant, RsInvariant, HlInvariant, PTL

-----------------------------------------------------------------------------
(* The replay log *)

\* Everything retained past a cursor fits the answer.
LEMMA LgSinceAny ==
  ASSUME LogTypeOK, NEW k
  PROVE  Since(k, Cap).events = {s \in Logged : s > k}
<1>1. IsFiniteSet(ring) /\ Cardinality(ring) =< Cap /\ ring \subseteq Entry
  BY DEF LogTypeOK
<1>2. ASSUME NEW e \in Past(k) PROVE Cardinality({f \in Past(k) : f.pos < e.pos}) < Cap
  <2>. DEFINE S == {f \in Past(k) : f.pos < e.pos}
  <2>1. e \in ring /\ e.pos \in Nat
    BY <1>1 DEF Past, Entry
  <2>2. S \subseteq ring \ {e}
    BY <2>1 DEF Past
  <2>3. IsFiniteSet(ring \ {e}) /\ Cardinality(ring \ {e}) = Cardinality(ring) - 1
    BY <1>1, <2>1, FS_RemoveElement
  <2>4. Cardinality(S) =< Cardinality(ring \ {e}) /\ Cardinality(S) \in Nat /\ Cardinality(ring) \in Nat
    BY <1>1, <2>2, <2>3, FS_Subset, FS_CardinalityType
  <2>. QED
    BY <1>1, <2>3, <2>4, CapAssumption
<1>3. Collected(k, Cap) = Past(k)
  BY <1>2 DEF Collected
<1>4. Since(k, Cap).events = {e.seq : e \in Past(k)}
  BY <1>3 DEF Since
<1>. QED
  BY <1>4 DEF Past, Logged

LEMMA LgSinceExact == ASSUME LogTypeOK PROVE SinceIsExact
BY LgSinceAny DEF SinceIsExact

\* The numbers below e's that a call still holds or that entered after e.
Overtaken(e) == {s \in Held \cup {f.seq : f \in {g \in ring : g.pos > e.pos}} : s < e.seq}

\* Positions grow, numbers were drawn, and an entry was overtaken by as many
\* calls at most as there were others when it entered.
LgOrder ==
  /\ \A e \in ring : e.pos < appends /\ e.seq \in 1 .. counter
  /\ \A e, f \in ring : e.pos = f.pos => e = f
  /\ \A p \in Producers : call[p].at # "idle" => call[p].seq \in 1 .. counter
  /\ \A e \in ring : IsFiniteSet(Overtaken(e)) /\ Cardinality(Overtaken(e)) + 1 =< Cardinality(Producers)

LgInv == LogTypeOK /\ NumbersAccounted /\ LgOrder /\ RecentNotEvicted

\* What is in the set, for the provers.
LEMMA OvertakenMembers ==
  \A e, s : s \in Overtaken(e) <=> /\ s < e.seq
                                   /\ \/ \E p \in Producers : call[p].at # "idle" /\ call[p].seq = s
                                      \/ \E f \in ring : f.pos > e.pos /\ f.seq = s
BY DEF Overtaken, Held

\* A smaller set counts no more.
LEMMA FewerOvertake ==
  ASSUME NEW S, NEW T, S \subseteq T, IsFiniteSet(T), Cardinality(T) + 1 =< Cardinality(Producers)
  PROVE  IsFiniteSet(S) /\ Cardinality(S) + 1 =< Cardinality(Producers)
<1>1. IsFiniteSet(S) /\ Cardinality(S) =< Cardinality(T) /\ Cardinality(S) \in Nat /\ Cardinality(T) \in Nat
  BY FS_Subset, FS_CardinalityType
<1>2. Cardinality(Producers) \in Nat
  BY ProducersAssumption, FS_CardinalityType
<1>. QED
  BY <1>1, <1>2

\* What an Append leaves of the ring, and what it adds.
LEMMA LgAppends ==
  ASSUME LgInv, NEW p \in Producers, RingAppend(p)
  PROVE  \E n \in Entry, kept \in SUBSET ring :
           /\ ring' = kept \cup {n} /\ n.seq = call[p].seq /\ n.pos = appends /\ appends' = appends + 1
           /\ call' = [call EXCEPT ![p] = Idle] /\ counter' = counter /\ pruned' = pruned /\ call[p].at # "idle"
           /\ \/ kept = ring /\ evicted' = evicted
              \/ \E e \in ring : /\ kept = ring \ {e} /\ evicted' = evicted \cup {e.seq} /\ Oldest(e)
                                 /\ Cardinality(ring) >= Cap
<1>1. NewEntry(p) \in Entry /\ NewEntry(p).seq = call[p].seq /\ NewEntry(p).pos = appends
  BY DEF NewEntry, Entry, LgInv, LogTypeOK, Call
<1>2. CASE RingInsert(p)
  BY <1>1, <1>2 DEF RingInsert, Store
<1>3. CASE RingEvict(p)
  <2>1. PICK e \in ring : /\ Oldest(e) /\ Store(p, ring \ {e}) /\ evicted' = evicted \cup {e.seq}
                          /\ Cardinality(ring) >= Cap
    BY <1>3 DEF RingEvict
  <2>. QED
    BY <1>1, <2>1 DEF Store
<1>. QED
  BY <1>2, <1>3 DEF RingAppend

\* The image of a finite set is no larger.
LEMMA ImageBound ==
  ASSUME NEW S, IsFiniteSet(S), NEW f, NEW T, f \in [S -> T]
  PROVE  IsFiniteSet({f[x] : x \in S}) /\ Cardinality({f[x] : x \in S}) =< Cardinality(S)
<1>1. PICK U : U = {f[x] : x \in S}
  OBVIOUS
<1>2. f \in [S -> U] /\ \A u \in U : \E x \in S : f[x] = u
  BY <1>1
<1>3. f \in Surjection(S, U)
  BY <1>2, Zenon DEF Surjection
<1>. QED
  BY <1>1, <1>3, FS_Surjection

\* A finite set that another one has room for is no larger.
LEMMA RoomBound ==
  ASSUME NEW S, NEW T, IsFiniteSet(T), NEW f, f \in [S -> T], \A x, y \in S : f[x] = f[y] => x = y
  PROVE  IsFiniteSet(S) /\ Cardinality(S) =< Cardinality(T)
<1>1. f \in Injection(S, T)
  BY Zenon DEF Injection, IsInjective
<1>. QED
  BY <1>1, FS_Injection

\* Entering the ring, an event has been overtaken by other calls only.
LEMMA LgNewest ==
  ASSUME LgInv, NEW p \in Producers, NEW n \in Entry, NEW kept \in SUBSET ring,
         ring' = kept \cup {n}, n.seq = call[p].seq, n.pos = appends, call[p].at # "idle",
         call' = [call EXCEPT ![p] = Idle]
  PROVE  IsFiniteSet(Overtaken(n)') /\ Cardinality(Overtaken(n)') + 1 =< Cardinality(Producers)
<1>. DEFINE others == Producers \ {p}
            held == {call[q].seq : q \in others}
<1>1. \A f \in kept : f.pos < appends /\ f.pos \in Int
  BY DEF LgInv, LgOrder, LogTypeOK, Entry
<1>2. appends \in Nat /\ call \in [Producers -> Call]
  BY DEF LgInv, LogTypeOK
<1>3. call'[p].at = "idle" /\ \A q \in others : call'[q] = call[q]
  BY <1>2 DEF Idle
<1>4. \A s : s \in Overtaken(n)' => \/ \E q \in Producers : call'[q].at # "idle" /\ call'[q].seq = s
                                    \/ \E f \in ring' : f.pos > n.pos /\ f.seq = s
  BY DEF Overtaken, Held
<1>5. \A f \in ring' : ~(f.pos > n.pos)
  BY <1>1, <1>2
<1>6. Overtaken(n)' \subseteq held
  BY <1>3, <1>4, <1>5
<1>7. IsFiniteSet(others) /\ Cardinality(others) = Cardinality(Producers) - 1
  BY ProducersAssumption, FS_RemoveElement
<1>8. IsFiniteSet(held) /\ Cardinality(held) =< Cardinality(others)
  <2>1. PICK f : f = [q \in others |-> call[q].seq]
    OBVIOUS
  <2>2. f \in [others -> held] /\ held = {f[q] : q \in others}
    BY <2>1
  <2>. HIDE DEF others, held
  <2>3. IsFiniteSet({f[q] : q \in others}) /\ Cardinality({f[q] : q \in others}) =< Cardinality(others)
    BY <2>2, <1>7, ImageBound
  <2>. QED
    BY <2>2, <2>3
<1>9. Cardinality(held) \in Nat /\ Cardinality(others) \in Nat /\ Cardinality(Producers) \in Nat
  BY <1>7, <1>8, ProducersAssumption, FS_CardinalityType
<1>10. Cardinality(held) + 1 =< Cardinality(Producers)
  BY <1>7, <1>8, <1>9
<1>. HIDE DEF held
<1>. QED
  BY <1>6, <1>8, <1>10, FewerOvertake

\* A full ring gives up an event only after Cap others entered behind it, and
\* all of those but the ones that overtook it have newer numbers.
LEMMA LgEvicts ==
  ASSUME LgInv, NEW n \in Entry, NEW e \in ring, n.pos = appends, n.seq \in 1 .. counter, n.seq \notin Logged,
         Oldest(e), Cardinality(ring) >= Cap,
         NEW p \in Producers, call[p].at # "idle", call[p].seq = n.seq
  PROVE  e.seq + Cap < counter + Cardinality(Producers)
<1>. DEFINE R == (ring \ {e}) \cup {n}
            T == Overtaken(e) \cup (e.seq + 1 .. counter)
<1>1. /\ ring \subseteq Entry /\ IsFiniteSet(ring) /\ counter \in Nat /\ Cap \in Nat /\ appends \in Nat
      /\ \A f, g \in ring : f.seq = g.seq => f = g
      /\ \A f \in ring : f.pos < appends /\ f.seq \in 1 .. counter
  BY CapAssumption DEF LgInv, LogTypeOK, NumbersAccounted, LgOrder
<1>2. n \notin ring /\ n \notin ring \ {e} /\ \A f \in ring : f.seq # n.seq
  BY Membership
<1>3. IsFiniteSet(R) /\ Cardinality(R) = Cardinality(ring) /\ Cardinality(ring) \in Nat
  <2>1. IsFiniteSet(ring \ {e}) /\ Cardinality(ring \ {e}) = Cardinality(ring) - 1 /\ Cardinality(ring) \in Nat
    BY <1>1, FS_RemoveElement, FS_CardinalityType
  <2>2. IsFiniteSet(R) /\ Cardinality(R) = Cardinality(ring \ {e}) + 1
    BY <2>1, <1>2, FS_AddElement
  <2>. QED
    BY <2>1, <2>2
<1>4. IsFiniteSet(T) /\ Cardinality(T) =< Cardinality(Overtaken(e)) + (counter - e.seq) /\ Cardinality(T) \in Nat
  <2>1. IsFiniteSet(Overtaken(e)) /\ Cardinality(Overtaken(e)) \in Nat
    BY FS_CardinalityType DEF LgInv, LgOrder
  <2>2. e.seq \in Nat /\ e.seq =< counter
    BY <1>1 DEF Entry
  <2>3. IsFiniteSet(e.seq + 1 .. counter) /\ Cardinality(e.seq + 1 .. counter) = counter - e.seq
    <3>1. PICK a \in Int : a = e.seq + 1
      BY <2>2
    <3>2. IsFiniteSet(a .. counter) /\ Cardinality(a .. counter) = IF a > counter THEN 0 ELSE counter - a + 1
      BY <1>1, FS_Interval
    <3>. QED
      BY <3>1, <3>2, <1>1, <2>2
  <2>4. /\ IsFiniteSet(T)
        /\ Cardinality(T) = Cardinality(Overtaken(e)) + Cardinality(e.seq + 1 .. counter)
                              - Cardinality(Overtaken(e) \cap (e.seq + 1 .. counter))
    BY <2>1, <2>3, FS_Union
  <2>5. Cardinality(Overtaken(e) \cap (e.seq + 1 .. counter)) \in Nat /\ Cardinality(T) \in Nat
    BY <2>1, <2>4, FS_Intersection, FS_CardinalityType
  <2>6. PICK t \in Nat, v \in Nat, w \in Nat :
              /\ t = Cardinality(T) /\ v = Cardinality(Overtaken(e))
              /\ w = Cardinality(Overtaken(e) \cap (e.seq + 1 .. counter))
    BY <2>1, <2>5
  <2>7. t = v + (counter - e.seq) - w
    BY <2>3, <2>4, <2>6
  <2>. HIDE DEF T
  <2>. QED
    BY <2>2, <2>4, <2>6, <2>7, <1>1
<1>5. PICK f : f = [x \in R |-> x.seq]
  OBVIOUS
<1>6. f \in [R -> T]
  <2>1. ASSUME NEW x \in R PROVE x.seq \in T
    <3>1. CASE x = n
      <4>1. n.seq < e.seq => n.seq \in Overtaken(e)
        BY OvertakenMembers
      <4>2. n.seq # e.seq /\ e.seq \in Nat /\ n.seq \in Nat
        BY <1>1, <1>2 DEF Entry
      <4>. QED
        BY <3>1, <4>1, <4>2
    <3>2. CASE x \in ring /\ x # e
      <4>1. x.pos >= e.pos /\ x.seq # e.seq /\ x.seq \in 1 .. counter /\ e.seq \in 1 .. counter
        BY <3>2, <1>1 DEF Oldest, Entry
      <4>2. x.pos # e.pos
        BY <3>2 DEF LgInv, LgOrder
      <4>3. x.pos > e.pos
        BY <3>2, <4>1, <4>2, <1>1 DEF Entry
      <4>4. x.seq < e.seq => x.seq \in Overtaken(e)
        BY <3>2, <4>3, OvertakenMembers
      <4>. QED
        BY <4>1, <4>4
    <3>. QED
      BY <3>1, <3>2
  <2>. HIDE DEF R, T
  <2>. QED
    BY <2>1, <1>5
<1>7. \A x, y \in R : f[x] = f[y] => x = y
  BY <1>1, <1>2, <1>5
<1>8. Cardinality(R) =< Cardinality(T)
  <2>. HIDE DEF R, T
  <2>. QED
    BY <1>4, <1>6, <1>7, RoomBound
<1>9. /\ Cardinality(Overtaken(e)) + 1 =< Cardinality(Producers) /\ Cardinality(Overtaken(e)) \in Nat
      /\ Cardinality(Producers) \in Nat
  BY ProducersAssumption, FS_CardinalityType DEF LgInv, LgOrder
<1>10. e.seq \in Nat
  BY <1>1 DEF Entry
<1>. HIDE DEF R, T
<1>. QED
  BY <1>1, <1>3, <1>4, <1>8, <1>9, <1>10

\* A step that adds nothing to what overtakes an entry keeps the bound.
LEMMA StillOvertaken ==
  ASSUME LgInv, NEW e \in ring, Overtaken(e)' \subseteq Overtaken(e)
  PROVE  IsFiniteSet(Overtaken(e)') /\ Cardinality(Overtaken(e)') + 1 =< Cardinality(Producers)
BY FewerOvertake DEF LgInv, LgOrder

\* Membership in the primed set.
LEMMA OvertakenNext ==
  \A e, s : s \in Overtaken(e)' <=> /\ s < e.seq
                                    /\ \/ \E p \in Producers : call'[p].at # "idle" /\ call'[p].seq = s
                                       \/ \E f \in ring' : f.pos > e.pos /\ f.seq = s
BY DEF Overtaken, Held

\* A drawn number is above every entry's.
LEMMA LgDraws ==
  ASSUME LgInv, NEW p \in Producers, NextSeq(p) PROVE LgOrder' /\ RecentNotEvicted'
<1>1. /\ counter' = counter + 1 /\ UNCHANGED <<ring, appends, evicted>> /\ counter \in Nat
      /\ \A q \in Producers \ {p} : call'[q] = call[q]
      /\ call'[p].at = "numbered" /\ call'[p].seq = counter + 1
  BY DEF NextSeq, LgInv, LogTypeOK
<1>2. ASSUME NEW e \in ring PROVE Overtaken(e)' \subseteq Overtaken(e)
  <2>1. e.seq \in 1 .. counter
    BY DEF LgInv, LgOrder
  <2>2. ASSUME NEW s, s \in Overtaken(e)' PROVE s \in Overtaken(e)
    <3>1. s < e.seq /\ (\/ \E q \in Producers : call'[q].at # "idle" /\ call'[q].seq = s
                        \/ \E f \in ring : f.pos > e.pos /\ f.seq = s)
      BY <2>2, <1>1, OvertakenNext
    <3>2. ASSUME NEW q \in Producers, call'[q].at # "idle", call'[q].seq = s PROVE s \in Overtaken(e)
      <4>1. CASE q = p
        BY <4>1, <3>1, <3>2, <2>1, <1>1
      <4>2. CASE q # p
        BY <4>2, <3>1, <3>2, <1>1, OvertakenMembers
      <4>. QED
        BY <4>1, <4>2
    <3>. QED
      BY <3>1, <3>2, OvertakenMembers
  <2>. QED
    BY <2>2
<1>3. LgOrder'
  <2>1. \A e \in ring : IsFiniteSet(Overtaken(e)') /\ Cardinality(Overtaken(e)') + 1 =< Cardinality(Producers)
    BY <1>2, StillOvertaken
  <2>2. \A q \in Producers : call'[q].at # "idle" => call'[q].seq \in 1 .. counter'
    BY <1>1 DEF LgInv, LgOrder
  <2>3. \A e \in ring : e.pos < appends /\ e.seq \in 1 .. counter'
    BY <1>1 DEF LgInv, LgOrder
  <2>4. \A e, f \in ring : e.pos = f.pos => e = f
    BY DEF LgInv, LgOrder
  <2>. QED
    BY <1>1, <2>1, <2>2, <2>3, <2>4 DEF LgOrder
<1>4. RecentNotEvicted'
  <2>1. \A s \in evicted : s \in Nat /\ s + Cap < counter + Cardinality(Producers)
    BY DEF LgInv, LogTypeOK, RecentNotEvicted
  <2>2. Cardinality(Producers) \in Nat /\ Cap \in Nat
    BY ProducersAssumption, CapAssumption, FS_CardinalityType
  <2>. QED
    BY <1>1, <2>1, <2>2 DEF RecentNotEvicted
<1>. QED
  BY <1>3, <1>4

\* Building an event, and time, leave numbers and places alone.
LEMMA LgStamps ==
  ASSUME LgInv, (\E p \in Producers : Stamp(p)) \/ Tick \/ UNCHANGED logVars
  PROVE  LgOrder' /\ RecentNotEvicted'
<1>1. /\ UNCHANGED <<counter, ring, appends, evicted>>
      /\ \A q \in Producers : call'[q].seq = call[q].seq /\ (call'[q].at = "idle" <=> call[q].at = "idle")
  <2>1. CASE \E p \in Producers : Stamp(p)
    <3>1. PICK p \in Producers : Stamp(p)
      BY <2>1
    <3>2. call \in [Producers -> Call]
      BY DEF LgInv, LogTypeOK
    <3>. QED
      BY <3>1, <3>2 DEF Stamp, Call
  <2>2. CASE Tick \/ UNCHANGED logVars
    BY <2>2 DEF Tick, logVars
  <2>. QED
    BY <2>1, <2>2
<1>2. ASSUME NEW e \in ring PROVE Overtaken(e)' \subseteq Overtaken(e)
  BY <1>1, OvertakenNext, OvertakenMembers
<1>3. \A e \in ring : IsFiniteSet(Overtaken(e)') /\ Cardinality(Overtaken(e)') + 1 =< Cardinality(Producers)
  BY <1>2, StillOvertaken
<1>. QED
  BY <1>1, <1>3 DEF LgOrder, LgInv, RecentNotEvicted

\* The sweep takes entries away.
LEMMA LgPrunes ==
  ASSUME LgInv, Prune PROVE LgOrder' /\ RecentNotEvicted'
<1>1. ring' \subseteq ring /\ UNCHANGED <<counter, appends, call, evicted>>
  BY DEF Prune, Sweep
<1>2. ASSUME NEW e \in ring PROVE Overtaken(e)' \subseteq Overtaken(e)
  BY <1>1, OvertakenNext, OvertakenMembers
<1>3. \A e \in ring : IsFiniteSet(Overtaken(e)') /\ Cardinality(Overtaken(e)') + 1 =< Cardinality(Producers)
  BY <1>2, StillOvertaken
<1>. QED
  BY <1>1, <1>3 DEF LgOrder, LgInv, RecentNotEvicted

\* A number that enters the ring was held, so it overtakes nobody anew.
LEMMA LgEnters ==
  ASSUME LgInv, NEW p \in Producers, RingAppend(p) PROVE LgOrder' /\ RecentNotEvicted'
<1>1. PICK n \in Entry, kept \in SUBSET ring :
         /\ ring' = kept \cup {n} /\ n.seq = call[p].seq /\ n.pos = appends /\ appends' = appends + 1
         /\ call' = [call EXCEPT ![p] = Idle] /\ counter' = counter /\ pruned' = pruned /\ call[p].at # "idle"
         /\ \/ kept = ring /\ evicted' = evicted
            \/ \E e \in ring : /\ kept = ring \ {e} /\ evicted' = evicted \cup {e.seq} /\ Oldest(e)
                               /\ Cardinality(ring) >= Cap
  BY LgAppends
<1>2. /\ call \in [Producers -> Call] /\ appends \in Nat /\ counter \in Nat /\ ring \subseteq Entry
      /\ \A q \in Producers : call[q].at # "idle" => call[q].seq \in 1 .. counter
      /\ \A e \in ring : e.pos < appends /\ e.seq \in 1 .. counter
      /\ \A e, f \in ring : e.pos = f.pos => e = f
  BY DEF LgInv, LogTypeOK, LgOrder
<1>3. call'[p].at = "idle" /\ \A q \in Producers \ {p} : call'[q] = call[q]
  BY <1>1, <1>2 DEF Idle
<1>4. ASSUME NEW e \in kept PROVE Overtaken(e)' \subseteq Overtaken(e)
  <2>1. ASSUME NEW s, s \in Overtaken(e)' PROVE s \in Overtaken(e)
    <3>1. s < e.seq /\ (\/ \E q \in Producers : call'[q].at # "idle" /\ call'[q].seq = s
                        \/ \E f \in ring' : f.pos > e.pos /\ f.seq = s)
      BY <2>1, OvertakenNext
    <3>2. ASSUME NEW q \in Producers, call'[q].at # "idle", call'[q].seq = s PROVE s \in Overtaken(e)
      BY <3>1, <3>2, <1>3, OvertakenMembers
    <3>3. ASSUME NEW f \in ring', f.pos > e.pos, f.seq = s PROVE s \in Overtaken(e)
      <4>1. CASE f \in ring
        BY <4>1, <3>1, <3>3, OvertakenMembers
      <4>2. CASE f = n
        BY <4>2, <3>1, <3>3, <1>1, OvertakenMembers
      <4>. QED
        BY <4>1, <4>2, <1>1
    <3>. QED
      BY <3>1, <3>2, <3>3
  <2>. QED
    BY <2>1
<1>5. \A e \in kept : IsFiniteSet(Overtaken(e)') /\ Cardinality(Overtaken(e)') + 1 =< Cardinality(Producers)
  BY <1>4, StillOvertaken
<1>6. IsFiniteSet(Overtaken(n)') /\ Cardinality(Overtaken(n)') + 1 =< Cardinality(Producers)
  BY <1>1, LgNewest
<1>7. LgOrder'
  <2>1. \A e \in ring' : IsFiniteSet(Overtaken(e)') /\ Cardinality(Overtaken(e)') + 1 =< Cardinality(Producers)
    BY <1>1, <1>5, <1>6
  <2>2. \A q \in Producers : call'[q].at # "idle" => call'[q].seq \in 1 .. counter'
    BY <1>1, <1>2, <1>3
  <2>3. \A e \in ring' : e.pos < appends' /\ e.seq \in 1 .. counter'
    BY <1>1, <1>2 DEF Entry
  <2>4. \A e, f \in ring' : e.pos = f.pos => e = f
    BY <1>1, <1>2 DEF Entry
  <2>. QED
    BY <2>1, <2>2, <2>3, <2>4 DEF LgOrder
<1>8. \A e \in ring : Oldest(e) /\ Cardinality(ring) >= Cap => e.seq + Cap < counter + Cardinality(Producers)
  <2>1. n.seq \in 1 .. counter /\ n.seq \in Held /\ n.seq \notin Logged
    BY <1>1, <1>2, Membership DEF LgInv, NumbersAccounted
  <2>. QED
    BY <1>1, <2>1, LgEvicts
<1>9. RecentNotEvicted'
  BY <1>1, <1>8 DEF LgInv, RecentNotEvicted
<1>. QED
  BY <1>7, <1>9

\* The order of the ring, and with it how recent an evicted number can be.
THEOREM LgInvariant == LogSpec => []LgInv
<1>1. LogInit => LgOrder /\ RecentNotEvicted
  BY DEF LogInit, LgOrder, RecentNotEvicted, Idle
<1>2. ASSUME LogTypeOK, NumbersAccounted, LgOrder /\ RecentNotEvicted, [LogNext]_logVars
      PROVE  (LgOrder /\ RecentNotEvicted)'
  <2>. LgInv
    BY <1>2 DEF LgInv
  <2>. QED
    BY <1>2, LgDraws, LgStamps, LgEnters, LgPrunes DEF LogNext
<1>3. LogTypeOK /\ NumbersAccounted /\ (LgOrder /\ RecentNotEvicted) <=> LgInv
  BY DEF LgInv
<1>. QED
  BY <1>1, <1>2, <1>3, LogTypeCorrect, NumbersAccountedAlways, PTL DEF LogSpec

\* A reconnecting client gets exactly what is retained past its cursor
\* (ringBuf.since, internal/sse/sse_event_log.go), and a full ring gives up no
\* recent event, for any capacity and any number of producers: the events that
\* may be missing are bounded by the Appends that overlap.
THEOREM ReplayExactAlways == NetworkSpec => []ReplayExact
<1>1. ASSUME LgInv PROVE ReplayExact
  BY <1>1, LgSinceExact DEF LgInv, ReplayExact
<1>. QED
  BY <1>1, NetworkImplements, LgInvariant, PTL

-----------------------------------------------------------------------------
(* Delivery to a federated peer *)

FdStatus == {"none", "pending", "failed", "delivered", "deleted"}
FdRows == [status : FdStatus, attempts : Nat]
FdBatches == UNION {[S -> Nat] : S \in SUBSET FedSequences}
FdPlaces == {"idle", "send", "receive", "receipt", "broadcast", "failed", "acked"}
FdDeliverers == [pc : FdPlaces, batch : FdBatches, frame : Nat]

FdTypes ==
  /\ queue \in [FedSequences -> FdRows] /\ acked \subseteq FedSequences /\ cursor \in 0 .. LastSequence
  /\ link \in {"none", "connected", "disconnected", "revoked"} /\ handshake \in {"idle", "upsert"}
  /\ deliverer \in [Deliverers -> FdDeliverers]
  /\ \A d \in Deliverers : deliverer[d].pc # "idle" => DOMAIN deliverer[d].batch # {}
  /\ receipts \subseteq applied /\ applied \subseteq FedSequences /\ broadcasts \in [FedSequences -> Nat]

\* Rows come in the order of their sequences; a delivered row was acknowledged.
FdRowsOrdered ==
  /\ \A e, f \in FedSequences : f < e /\ queue[e].status # "none" => queue[f].status # "none"
  /\ \A e \in FedSequences : queue[e].status = "delivered" => e \in acked

\* What a batch skips was acknowledged or deleted, and stays so.
FdBatchWhole(b) ==
  \A e \in DOMAIN b, f \in FedSequences :
    /\ queue[e].status # "none"
    /\ f < e /\ f \notin DOMAIN b => f \in acked \/ queue[f].status = "deleted"

\* The event a deliverer is at is broadcast by it alone and for the first time.
FdAtReceipt(d) == deliverer[d].pc = "receipt" => Current(d) \in applied
FdAtBroadcast(d) == deliverer[d].pc = "broadcast" => Current(d) \in receipts /\ broadcasts[Current(d)] = 0

FdOnce ==
  /\ \A e \in FedSequences : broadcasts[e] \in {0, 1} /\ (broadcasts[e] = 1 => e \in receipts)
  /\ \A d \in Deliverers : FdAtReceipt(d) /\ FdAtBroadcast(d)
  /\ \A c, d \in Deliverers : /\ deliverer[c].pc = "broadcast" /\ deliverer[d].pc = "broadcast"
                              /\ Current(c) = Current(d)
                              => c = d

FdInv ==
  /\ FdTypes /\ FdRowsOrdered /\ (\A d \in Deliverers : FdBatchWhole(deliverer[d].batch))
  /\ FdOnce /\ NoneOvertakes

\* The least of some sequences is one of them, with the others above it.
LEMMA LeastSequence ==
  ASSUME NEW S, S \subseteq FedSequences, S # {}
  PROVE  Min(S) \in S /\ Min(S) \in FedSequences /\ \A x \in S : Min(S) =< x
<1>1. S \subseteq Nat
  BY FederationAssumption DEF FedSequences
<1>2. Min(S) \in S /\ \A x \in S : Min(S) =< x
  BY <1>1, LeastNumber, Zenon DEF Min
<1>. QED
  BY <1>2

\* A deliverer at work is at the least sequence of its batch.
LEMMA FdCurrent ==
  ASSUME FdTypes, NEW d \in Deliverers, deliverer[d].pc # "idle"
  PROVE  /\ Current(d) \in DOMAIN deliverer[d].batch /\ Current(d) \in FedSequences
         /\ DOMAIN deliverer[d].batch \subseteq FedSequences
         /\ \A x \in DOMAIN deliverer[d].batch : Current(d) =< x
<1>1. PICK S : S = DOMAIN deliverer[d].batch
  OBVIOUS
<1>2. S \subseteq FedSequences /\ S # {}
  BY <1>1 DEF FdTypes, FdDeliverers, FdBatches
<1>3. Min(S) \in S /\ Min(S) \in FedSequences /\ \A x \in S : Min(S) =< x
  BY <1>2, LeastSequence
<1>. QED
  BY <1>1, <1>2, <1>3 DEF Current

\* Moving on inside an event keeps the batch.
LEMMA FdSteps ==
  ASSUME FdTypes, NEW d \in Deliverers, NEW pc \in FdPlaces, Step(d, pc)
  PROVE  \E q \in FdDeliverers : deliverer' = [deliverer EXCEPT ![d] = q] /\ q.batch = deliverer[d].batch /\ q.pc = pc
<1>1. PICK o : o = deliverer[d]
  OBVIOUS
<1>2. PICK p \in FdPlaces, b \in FdBatches, f \in Nat : o = [pc |-> p, batch |-> b, frame |-> f]
  BY <1>1 DEF FdTypes, FdDeliverers
<1>3. PICK q : q = [pc |-> pc, batch |-> b, frame |-> f]
  OBVIOUS
<1>4. q = [o EXCEPT !.pc = pc]
  BY <1>2, <1>3
<1>5. deliverer' = [deliverer EXCEPT ![d] = q]
  BY <1>1, <1>4, Zenon DEF Step
<1>6. q \in FdDeliverers /\ q.batch = b /\ q.pc = pc
  BY <1>3 DEF FdDeliverers
<1>7. q.batch = deliverer[d].batch
  BY <1>1, <1>2, <1>6
<1>. QED
  BY <1>5, <1>6, <1>7

\* An answer leads to the next frame, the end of the event, or to failure.
LEMMA FdAnswers ==
  ASSUME FdTypes, NEW d \in Deliverers, Answered(d)
  PROVE  \E q \in FdDeliverers : /\ deliverer' = [deliverer EXCEPT ![d] = q] /\ q.batch = deliverer[d].batch
                                 /\ q.pc \in {"send", "acked", "failed"}
<1>1. CASE Step(d, "failed")
  BY <1>1, FdSteps DEF FdPlaces
<1>2. CASE ~Step(d, "failed")
  <2>1. PICK o : o = deliverer[d]
    OBVIOUS
  <2>2. PICK p \in FdPlaces, b \in FdBatches, f \in Nat : o = [pc |-> p, batch |-> b, frame |-> f]
    BY <2>1 DEF FdTypes, FdDeliverers
  <2>3. PICK q : q = IF deliverer[d].frame = Chunks THEN [deliverer[d] EXCEPT !.pc = "acked"]
                     ELSE [deliverer[d] EXCEPT !.pc = "send", !.frame = deliverer[d].frame + 1]
    OBVIOUS
  <2>4. q = IF o.frame = Chunks THEN [o EXCEPT !.pc = "acked"] ELSE [o EXCEPT !.pc = "send", !.frame = o.frame + 1]
    BY <2>1, <2>3, Zenon
  <2>5. q = [pc |-> "acked", batch |-> b, frame |-> f] \/ q = [pc |-> "send", batch |-> b, frame |-> f + 1]
    BY <2>2, <2>4
  <2>6. deliverer' = [deliverer EXCEPT ![d] = q]
    <3>1. deliverer' = [deliverer EXCEPT ![d] = IF deliverer[d].frame = Chunks THEN [deliverer[d] EXCEPT !.pc = "acked"]
                                                ELSE [deliverer[d] EXCEPT !.pc = "send", !.frame = deliverer[d].frame + 1]]
      BY <1>2 DEF Answered
    <3>. QED
      BY <2>3, <3>1, Zenon
  <2>7. q \in FdDeliverers /\ q.batch = b /\ q.pc \in {"send", "acked", "failed"}
    BY <2>5 DEF FdDeliverers, FdPlaces
  <2>8. q.batch = deliverer[d].batch
    BY <2>1, <2>2, <2>7
  <2>. QED
    BY <2>6, <2>7, <2>8
<1>. QED
  BY <1>1, <1>2

\* A batch stays whole as rows only advance and acknowledgements only come.
LEMMA FdWholeStays ==
  ASSUME NEW b, DOMAIN b \subseteq FedSequences, FdBatchWhole(b), acked \subseteq acked',
         \A f \in FedSequences : /\ queue[f].status # "none" => queue'[f].status # "none"
                                 /\ queue[f].status = "deleted" => queue'[f].status = "deleted"
  PROVE  FdBatchWhole(b)'
BY DEF FdBatchWhole

\* Where only the deliverers and the receiver move, the sender's part stands.
LEMMA FdSenderStands ==
  ASSUME FdInv, UNCHANGED senderVars,
         \A d \in Deliverers : deliverer'[d].batch = deliverer[d].batch
  PROVE  FdRowsOrdered' /\ NoneOvertakes' /\ \A d \in Deliverers : FdBatchWhole(deliverer[d].batch)'
<1>1. UNCHANGED <<queue, acked, cursor, link, handshake>>
  BY DEF senderVars
<1>2. FdRowsOrdered' /\ NoneOvertakes'
  BY <1>1 DEF FdInv, FdRowsOrdered, NoneOvertakes
<1>3. ASSUME NEW d \in Deliverers PROVE FdBatchWhole(deliverer[d].batch)'
  BY <1>1 DEF FdInv, FdBatchWhole
<1>. QED
  BY <1>2, <1>3

\* A deliverer that goes to a place outside the broadcast, with its batch.
LEMMA FdWalks ==
  ASSUME FdInv, NEW d \in Deliverers, NEW q \in FdDeliverers, deliverer' = [deliverer EXCEPT ![d] = q],
         q.batch = deliverer[d].batch, deliverer[d].pc # "idle", q.pc \in {"send", "acked", "failed", "receive"},
         UNCHANGED <<senderVars, applied, receipts, broadcasts>>
  PROVE  FdInv'
<1>1. UNCHANGED <<queue, acked, cursor, link, handshake>>
  BY DEF senderVars
<1>2. deliverer \in [Deliverers -> FdDeliverers] /\ DOMAIN deliverer[d].batch # {}
  BY DEF FdInv, FdTypes
<1>3. deliverer'[d] = q /\ \A c \in Deliverers \ {d} : deliverer'[c] = deliverer[c]
  BY <1>2
<1>4. FdTypes'
  <2>1. deliverer' \in [Deliverers -> FdDeliverers] /\ \A c \in Deliverers : deliverer'[c].pc # "idle" => DOMAIN deliverer'[c].batch # {}
    BY <1>2, <1>3 DEF FdInv, FdTypes
  <2>. QED
    BY <1>1, <2>1 DEF FdInv, FdTypes
<1>5. \A c \in Deliverers : deliverer'[c].batch = deliverer[c].batch
  BY <1>3
<1>6. \A c \in Deliverers : Current(c)' = Current(c)
  BY <1>5 DEF Current
<1>7. FdRowsOrdered' /\ NoneOvertakes' /\ \A c \in Deliverers : FdBatchWhole(deliverer[c].batch)'
  BY <1>5, FdSenderStands
<1>8. FdOnce'
  BY <1>3, <1>6 DEF FdInv, FdOnce, FdAtReceipt, FdAtBroadcast
<1>. QED
  BY <1>4, <1>7, <1>8 DEF FdInv

\* A frame is taken or lost.
LEMMA FdFrames ==
  ASSUME FdInv, NEW d \in Deliverers, acceptFrame(d) \/ FrameLost(d) PROVE FdInv'
<1>1. deliverer[d].pc = "send" /\ UNCHANGED <<senderVars, applied, receipts, broadcasts>> /\ FdTypes
  BY DEF acceptFrame, FrameLost, receiverVars, FdInv
<1>2. Step(d, "receive") \/ Answered(d) \/ Step(d, "failed")
  BY DEF acceptFrame, FrameLost
<1>3. PICK q \in FdDeliverers : /\ deliverer' = [deliverer EXCEPT ![d] = q] /\ q.batch = deliverer[d].batch
                                /\ q.pc \in {"send", "acked", "failed", "receive"}
  <2>1. CASE Step(d, "receive")
    BY <1>1, <2>1, FdSteps DEF FdPlaces
  <2>2. CASE Answered(d)
    BY <1>1, <2>2, FdAnswers
  <2>3. CASE Step(d, "failed")
    BY <1>1, <2>3, FdSteps DEF FdPlaces
  <2>. QED
    BY <1>2, <2>1, <2>2, <2>3
<1>. QED
  BY <1>1, <1>3, FdWalks

\* A deliverer keeps its batch and goes where an event is applied, received or
\* put on the stream.
LEMMA FdAdvances ==
  ASSUME FdInv, NEW d \in Deliverers, NEW q \in FdDeliverers, deliverer' = [deliverer EXCEPT ![d] = q],
         q.batch = deliverer[d].batch, deliverer[d].pc # "idle", UNCHANGED senderVars
  PROVE  /\ deliverer'[d] = q /\ \A c \in Deliverers \ {d} : deliverer'[c] = deliverer[c]
         /\ \A c \in Deliverers : Current(c)' = Current(c)
         /\ deliverer' \in [Deliverers -> FdDeliverers]
         /\ \A c \in Deliverers : deliverer'[c].pc # "idle" => DOMAIN deliverer'[c].batch # {}
         /\ queue' \in [FedSequences -> FdRows] /\ acked' \subseteq FedSequences /\ cursor' \in 0 .. LastSequence
         /\ link' \in {"none", "connected", "disconnected", "revoked"} /\ handshake' \in {"idle", "upsert"}
         /\ FdRowsOrdered' /\ NoneOvertakes' /\ \A c \in Deliverers : FdBatchWhole(deliverer[c].batch)'
<1>1. deliverer \in [Deliverers -> FdDeliverers] /\ DOMAIN deliverer[d].batch # {}
  BY DEF FdInv, FdTypes
<1>2. deliverer'[d] = q /\ \A c \in Deliverers \ {d} : deliverer'[c] = deliverer[c]
  BY <1>1
<1>3. \A c \in Deliverers : deliverer'[c].batch = deliverer[c].batch
  BY <1>2
<1>4. \A c \in Deliverers : Current(c)' = Current(c)
  BY <1>3 DEF Current
<1>5. FdRowsOrdered' /\ NoneOvertakes' /\ \A c \in Deliverers : FdBatchWhole(deliverer[c].batch)'
  BY <1>3, FdSenderStands
<1>. QED
  BY <1>1, <1>2, <1>4, <1>5 DEF FdInv, FdTypes, senderVars

\* A complete event is applied, or refused for want of a key.
LEMMA FdReceives ==
  ASSUME FdInv, NEW d \in Deliverers, ReceiveEvent(d) PROVE FdInv'
<1>1. /\ deliverer[d].pc = "receive" /\ UNCHANGED <<senderVars, receipts, broadcasts>> /\ FdTypes
      /\ \/ applied' = applied \cup {Current(d)} /\ Step(d, "receipt")
         \/ UNCHANGED applied /\ Step(d, "failed")
  BY DEF ReceiveEvent, FdInv
<1>2. CASE UNCHANGED applied /\ Step(d, "failed")
  <2>1. PICK q \in FdDeliverers : deliverer' = [deliverer EXCEPT ![d] = q] /\ q.batch = deliverer[d].batch /\ q.pc = "failed"
    BY <1>1, <1>2, FdSteps DEF FdPlaces
  <2>. QED
    BY <1>1, <1>2, <2>1, FdWalks
<1>3. CASE applied' = applied \cup {Current(d)} /\ Step(d, "receipt")
  <2>1. PICK q \in FdDeliverers : deliverer' = [deliverer EXCEPT ![d] = q] /\ q.batch = deliverer[d].batch /\ q.pc = "receipt"
    BY <1>1, <1>3, FdSteps DEF FdPlaces
  <2>2. /\ deliverer'[d] = q /\ \A c \in Deliverers \ {d} : deliverer'[c] = deliverer[c]
        /\ \A c \in Deliverers : Current(c)' = Current(c)
        /\ deliverer' \in [Deliverers -> FdDeliverers]
        /\ \A c \in Deliverers : deliverer'[c].pc # "idle" => DOMAIN deliverer'[c].batch # {}
        /\ queue' \in [FedSequences -> FdRows] /\ acked' \subseteq FedSequences /\ cursor' \in 0 .. LastSequence
        /\ link' \in {"none", "connected", "disconnected", "revoked"} /\ handshake' \in {"idle", "upsert"}
        /\ FdRowsOrdered' /\ NoneOvertakes' /\ \A c \in Deliverers : FdBatchWhole(deliverer[c].batch)'
    BY <1>1, <2>1, FdAdvances
  <2>3. Current(d) \in FedSequences
    BY <1>1, FdCurrent
  <2>4. FdTypes'
    BY <1>1, <1>3, <2>2, <2>3 DEF FdTypes
  <2>5. FdOnce'
    BY <1>1, <1>3, <2>1, <2>2 DEF FdInv, FdOnce, FdAtReceipt, FdAtBroadcast
  <2>. QED
    BY <2>2, <2>4, <2>5 DEF FdInv
<1>. QED
  BY <1>1, <1>2, <1>3

\* Only the first receipt of an event leads on to its broadcast.
LEMMA FdRecords ==
  ASSUME FdInv, NEW d \in Deliverers, RecordReceipt(d) PROVE FdInv'
<1>1. /\ deliverer[d].pc = "receipt" /\ UNCHANGED <<senderVars, applied, broadcasts>> /\ FdTypes
      /\ receipts' = receipts \cup {Current(d)}
      /\ IF Current(d) \in receipts THEN Answered(d) ELSE Step(d, "broadcast")
  BY DEF RecordReceipt, FdInv
<1>2. Current(d) \in applied
  BY <1>1 DEF FdInv, FdOnce, FdAtReceipt
<1>3. CASE Current(d) \in receipts
  <2>1. PICK q \in FdDeliverers : /\ deliverer' = [deliverer EXCEPT ![d] = q] /\ q.batch = deliverer[d].batch
                                  /\ q.pc \in {"send", "acked", "failed"}
    BY <1>1, <1>3, FdAnswers
  <2>2. receipts' = receipts
    BY <1>1, <1>3
  <2>. QED
    BY <1>1, <2>1, <2>2, FdWalks
<1>4. CASE Current(d) \notin receipts
  <2>1. PICK q \in FdDeliverers : deliverer' = [deliverer EXCEPT ![d] = q] /\ q.batch = deliverer[d].batch /\ q.pc = "broadcast"
    BY <1>1, <1>4, FdSteps DEF FdPlaces
  <2>2. /\ deliverer'[d] = q /\ \A c \in Deliverers \ {d} : deliverer'[c] = deliverer[c]
        /\ \A c \in Deliverers : Current(c)' = Current(c)
        /\ deliverer' \in [Deliverers -> FdDeliverers]
        /\ \A c \in Deliverers : deliverer'[c].pc # "idle" => DOMAIN deliverer'[c].batch # {}
        /\ queue' \in [FedSequences -> FdRows] /\ acked' \subseteq FedSequences /\ cursor' \in 0 .. LastSequence
        /\ link' \in {"none", "connected", "disconnected", "revoked"} /\ handshake' \in {"idle", "upsert"}
        /\ FdRowsOrdered' /\ NoneOvertakes' /\ \A c \in Deliverers : FdBatchWhole(deliverer[c].batch)'
    BY <1>1, <2>1, FdAdvances
  <2>3. Current(d) \in FedSequences
    BY <1>1, FdCurrent
  <2>4. FdTypes'
    BY <1>1, <1>2, <2>2, <2>3 DEF FdTypes
  <2>5. broadcasts[Current(d)] = 0
    BY <1>4, <2>3 DEF FdInv, FdOnce
  <2>6. \A c \in Deliverers : deliverer[c].pc = "broadcast" => Current(c) # Current(d)
    BY <1>4 DEF FdInv, FdOnce, FdAtBroadcast
  <2>7. FdOnce'
    BY <1>1, <2>1, <2>2, <2>5, <2>6 DEF FdInv, FdOnce, FdAtReceipt, FdAtBroadcast
  <2>. QED
    BY <2>2, <2>4, <2>7 DEF FdInv
<1>. QED
  BY <1>3, <1>4

\* The event goes on the stream of its tree.
LEMMA FdBroadcasts ==
  ASSUME FdInv, NEW d \in Deliverers, BroadcastRemote(d) PROVE FdInv'
<1>1. /\ deliverer[d].pc = "broadcast" /\ UNCHANGED <<senderVars, applied, receipts>> /\ FdTypes
      /\ broadcasts' = [broadcasts EXCEPT ![Current(d)] = @ + 1] /\ Answered(d)
  BY DEF BroadcastRemote, FdInv
<1>2. Current(d) \in receipts /\ broadcasts[Current(d)] = 0
  BY <1>1 DEF FdInv, FdOnce, FdAtBroadcast
<1>3. PICK e \in FedSequences : e = Current(d)
  BY <1>1, FdCurrent
<1>4. /\ broadcasts' \in [FedSequences -> Nat] /\ broadcasts'[e] = 1
      /\ \A f \in FedSequences \ {e} : broadcasts'[f] = broadcasts[f]
  BY <1>1, <1>2, <1>3 DEF FdTypes
<1>5. PICK q \in FdDeliverers : /\ deliverer' = [deliverer EXCEPT ![d] = q] /\ q.batch = deliverer[d].batch
                                /\ q.pc \in {"send", "acked", "failed"}
  BY <1>1, FdAnswers
<1>6. /\ deliverer'[d] = q /\ \A c \in Deliverers \ {d} : deliverer'[c] = deliverer[c]
      /\ \A c \in Deliverers : Current(c)' = Current(c)
      /\ deliverer' \in [Deliverers -> FdDeliverers]
      /\ \A c \in Deliverers : deliverer'[c].pc # "idle" => DOMAIN deliverer'[c].batch # {}
      /\ queue' \in [FedSequences -> FdRows] /\ acked' \subseteq FedSequences /\ cursor' \in 0 .. LastSequence
      /\ link' \in {"none", "connected", "disconnected", "revoked"} /\ handshake' \in {"idle", "upsert"}
      /\ FdRowsOrdered' /\ NoneOvertakes' /\ \A c \in Deliverers : FdBatchWhole(deliverer[c].batch)'
  BY <1>1, <1>5, FdAdvances
<1>7. FdTypes'
  BY <1>1, <1>4, <1>6 DEF FdTypes
<1>8. \A c \in Deliverers \ {d} : deliverer[c].pc = "broadcast" => Current(c) # e /\ Current(c) \in FedSequences
  BY <1>1, <1>3, FdCurrent DEF FdInv, FdOnce
<1>9. FdOnce'
  BY <1>1, <1>2, <1>3, <1>4, <1>5, <1>6, <1>8 DEF FdInv, FdOnce, FdAtReceipt, FdAtBroadcast
<1>. QED
  BY <1>6, <1>7, <1>9 DEF FdInv

\* A restart of the receiver, or its next session key.
LEMMA FdRestarts ==
  ASSUME FdInv, RestartReceiver \/ EstablishSession PROVE FdInv'
<1>1. CASE EstablishSession
  <2>1. UNCHANGED <<queue, acked, cursor, link, handshake, deliverer, applied, receipts, broadcasts>>
    BY <1>1 DEF EstablishSession, senderVars
  <2>. QED
    BY <2>1 DEF FdInv, FdTypes, FdRowsOrdered, FdBatchWhole, FdOnce, FdAtReceipt, FdAtBroadcast,
       NoneOvertakes, Current
<1>2. CASE RestartReceiver
  <2>1. /\ UNCHANGED <<senderVars, applied, receipts, broadcasts>>
        /\ deliverer' = [d \in Deliverers |-> IF deliverer[d].pc \in {"receive", "receipt", "broadcast"}
                                              THEN [deliverer[d] EXCEPT !.pc = "failed"] ELSE deliverer[d]]
    BY <1>2 DEF RestartReceiver
  <2>2. deliverer \in [Deliverers -> FdDeliverers]
    BY DEF FdInv, FdTypes
  <2>3. ASSUME NEW d \in Deliverers
        PROVE  /\ deliverer'[d] \in FdDeliverers /\ deliverer'[d].batch = deliverer[d].batch
               /\ deliverer'[d].pc \notin {"receipt", "broadcast"}
               /\ deliverer'[d].pc # "idle" => deliverer[d].pc # "idle"
    <3>1. PICK p \in FdPlaces, b \in FdBatches, f \in Nat : deliverer[d] = [pc |-> p, batch |-> b, frame |-> f]
      BY <2>2 DEF FdDeliverers
    <3>2. CASE p \in {"receive", "receipt", "broadcast"}
      <4>1. deliverer'[d] = [pc |-> "failed", batch |-> b, frame |-> f]
        BY <2>1, <3>1, <3>2
      <4>. QED
        BY <3>1, <3>2, <4>1 DEF FdDeliverers, FdPlaces
    <3>3. CASE p \notin {"receive", "receipt", "broadcast"}
      <4>1. deliverer'[d] = deliverer[d]
        BY <2>1, <3>1, <3>3
      <4>. QED
        BY <2>2, <3>1, <3>3, <4>1
    <3>. QED
      BY <3>2, <3>3
  <2>4. UNCHANGED <<queue, acked, cursor, link, handshake>>
    BY <2>1 DEF senderVars
  <2>5. deliverer' \in [Deliverers -> FdDeliverers]
    BY <2>1, <2>3
  <2>6. FdTypes'
    BY <2>1, <2>3, <2>4, <2>5 DEF FdInv, FdTypes
  <2>7. FdRowsOrdered' /\ NoneOvertakes' /\ \A c \in Deliverers : FdBatchWhole(deliverer[c].batch)'
    BY <2>1, <2>3, FdSenderStands
  <2>8. FdOnce'
    BY <2>1, <2>3 DEF FdInv, FdOnce, FdAtReceipt, FdAtBroadcast
  <2>. QED
    BY <2>6, <2>7, <2>8 DEF FdInv
<1>. QED
  BY <1>1, <1>2

\* The link changes beside the deliveries.
LEMMA FdLinks ==
  ASSUME FdInv, CreateFederationLink \/ AcceptFederationLink \/ UpsertAccepted \/ RevokeFederationLink PROVE FdInv'
<1>1. UNCHANGED <<queue, acked, cursor, deliverer, applied, receipts, broadcasts>>
  BY DEF CreateFederationLink, AcceptFederationLink, UpsertAccepted, RevokeFederationLink,
     receiverVars
<1>2. link' \in {"none", "connected", "disconnected", "revoked"} /\ handshake' \in {"idle", "upsert"}
  BY DEF CreateFederationLink, AcceptFederationLink, UpsertAccepted, RevokeFederationLink, FdInv,
     FdTypes
<1>. QED
  BY <1>1, <1>2 DEF FdInv, FdTypes, FdRowsOrdered, FdBatchWhole, FdOnce, FdAtReceipt,
     FdAtBroadcast, NoneOvertakes, Current

\* The rows after a new one came in and the surplus went.
LEMMA FdEnqueued ==
  ASSUME FdTypes, NEW e \in FedSequences, Enqueue(e)
  PROVE  /\ queue' \in [FedSequences -> FdRows] /\ queue[e].status = "none" /\ queue'[e].status \in {"pending", "deleted"}
         /\ \A f \in 1 .. e - 1 : queue[f].status # "none"
         /\ \A f \in FedSequences \ {e} :
              /\ queue[f].status = "none" <=> queue'[f].status = "none"
              /\ queue[f].status = "deleted" => queue'[f].status = "deleted"
              /\ queue'[f].status = "delivered" => queue[f].status = "delivered"
<1>1. PICK q : q = [queue EXCEPT ![e].status = "pending"]
  OBVIOUS
<1>2. PICK s : s = Surplus(q)
  OBVIOUS
<1>3. /\ queue[e].status = "none" /\ \A f \in 1 .. e - 1 : queue[f].status # "none"
      /\ queue' = [f \in FedSequences |-> IF f \in s \/ q[f].status = "deleted"
                                          THEN [q[f] EXCEPT !.status = "deleted"] ELSE q[f]]
  <2>1. queue[e].status = "none" /\ \A f \in 1 .. e - 1 : queue[f].status # "none"
    BY DEF Enqueue
  <2>. DEFINE r == [queue EXCEPT ![e].status = "pending"]
  <2>2. queue' = [f \in FedSequences |-> IF f \in Surplus(r) \/ r[f].status = "deleted"
                                         THEN [r[f] EXCEPT !.status = "deleted"] ELSE r[f]]
    BY DEF Enqueue
  <2>3. r = q /\ Surplus(r) = s
    BY <1>1, <1>2
  <2>. HIDE DEF r
  <2>. QED
    BY <2>1, <2>2, <2>3
<1>4. queue \in [FedSequences -> FdRows]
  BY DEF FdTypes
<1>5. q \in [FedSequences -> FdRows] /\ q[e].status = "pending" /\ \A f \in FedSequences \ {e} : q[f] = queue[f]
  BY <1>1, <1>4 DEF FdRows, FdStatus
<1>6. \A f \in s : q[f].status # "none"
  BY <1>2 DEF Surplus
<1>7. ASSUME NEW f \in FedSequences
      PROVE  /\ queue'[f] \in FdRows
             /\ queue'[f].status = "deleted" \/ (queue'[f] = q[f] /\ f \notin s)
             /\ q[f].status = "none" => queue'[f].status = "none"
             /\ q[f].status = "deleted" => queue'[f].status = "deleted"
  <2>1. PICK st \in FdStatus, n \in Nat : q[f] = [status |-> st, attempts |-> n]
    BY <1>5 DEF FdRows
  <2>2. CASE f \in s \/ st = "deleted"
    <3>1. queue'[f] = [status |-> "deleted", attempts |-> n]
      BY <1>3, <2>1, <2>2
    <3>. QED
      BY <1>6, <2>1, <2>2, <3>1 DEF FdRows, FdStatus
  <2>3. CASE ~(f \in s \/ st = "deleted")
    <3>1. queue'[f] = q[f]
      BY <1>3, <2>1, <2>3
    <3>. QED
      BY <1>5, <2>1, <2>3, <3>1
  <2>. QED
    BY <2>2, <2>3
<1>8. queue' \in [FedSequences -> FdRows]
  BY <1>3, <1>7
<1>9. queue'[e].status \in {"pending", "deleted"}
  BY <1>5, <1>7
<1>. QED
  BY <1>3, <1>5, <1>7, <1>8, <1>9

\* A new row comes after the others.
LEMMA FdEnqueues ==
  ASSUME FdInv, NEW e \in FedSequences, Enqueue(e) PROVE FdInv'
<1>1. /\ queue' \in [FedSequences -> FdRows] /\ queue[e].status = "none" /\ queue'[e].status \in {"pending", "deleted"}
      /\ \A f \in 1 .. e - 1 : queue[f].status # "none"
      /\ \A f \in FedSequences \ {e} :
           /\ queue[f].status = "none" <=> queue'[f].status = "none"
           /\ queue[f].status = "deleted" => queue'[f].status = "deleted"
           /\ queue'[f].status = "delivered" => queue[f].status = "delivered"
  BY FdEnqueued DEF FdInv
<1>2. UNCHANGED <<acked, cursor, link, handshake, deliverer, applied, receipts, broadcasts>>
  BY DEF Enqueue, receiverVars
<1>3. FdTypes'
  BY <1>1, <1>2 DEF FdInv, FdTypes
<1>4. FdRowsOrdered'
  <2>1. ASSUME NEW x \in FedSequences, NEW f \in FedSequences, f < x, queue'[x].status # "none"
        PROVE  queue'[f].status # "none"
    <3>1. CASE x = e
      <4>1. f \in 1 .. e - 1 /\ f # e
        BY <3>1, <2>1, FederationAssumption DEF FedSequences
      <4>. QED
        BY <4>1, <1>1
    <3>2. CASE x # e
      BY <3>2, <2>1, <1>1 DEF FdInv, FdRowsOrdered
    <3>. QED
      BY <3>1, <3>2
  <2>2. \A x \in FedSequences : queue'[x].status = "delivered" => x \in acked
    BY <1>1 DEF FdInv, FdRowsOrdered
  <2>. QED
    BY <1>2, <2>1, <2>2 DEF FdRowsOrdered
<1>5. \A f \in FedSequences : /\ queue[f].status # "none" => queue'[f].status # "none"
                              /\ queue[f].status = "deleted" => queue'[f].status = "deleted"
  BY <1>1
<1>6. ASSUME NEW d \in Deliverers PROVE FdBatchWhole(deliverer[d].batch)'
  <2>1. PICK b : b = deliverer[d].batch
    OBVIOUS
  <2>2. DOMAIN b \subseteq FedSequences /\ FdBatchWhole(b)
    BY <2>1 DEF FdInv, FdTypes, FdDeliverers, FdBatches
  <2>3. FdBatchWhole(b)'
    BY <1>2, <1>5, <2>2, FdWholeStays
  <2>. QED
    BY <1>2, <2>1, <2>3 DEF FdBatchWhole
<1>7. FdOnce'
  BY <1>2 DEF FdInv, FdOnce, FdAtReceipt, FdAtBroadcast, Current
<1>8. NoneOvertakes'
  BY <1>2, <1>5 DEF FdInv, NoneOvertakes, FedSequences
<1>. QED
  BY <1>3, <1>4, <1>6, <1>7, <1>8 DEF FdInv

\* Nothing is in an idle deliverer's batch.
LEMMA FdIdle ==
  /\ IdleDeliverer \in FdDeliverers /\ IdleDeliverer.pc = "idle" /\ DOMAIN IdleDeliverer.batch = {}
  /\ FdBatchWhole(IdleDeliverer.batch)
<1>1. DOMAIN <<>> = {} /\ <<>> \in [{} -> Nat]
  OBVIOUS
<1>2. <<>> \in FdBatches
  BY <1>1 DEF FdBatches
<1>3. IdleDeliverer.batch = <<>> /\ IdleDeliverer.pc = "idle"
  BY DEF IdleDeliverer
<1>. QED
  BY <1>1, <1>2, <1>3 DEF IdleDeliverer, FdDeliverers, FdPlaces, FdBatchWhole

\* A batch takes every row that is pending or failed.
LEMMA FdTakes ==
  ASSUME FdInv, NEW d \in Deliverers, Pending(d) PROVE FdInv'
<1>1. PICK b : b = [e \in Undelivered |-> queue[e].attempts]
  OBVIOUS
<1>2. PICK q : q = [IdleDeliverer EXCEPT !.pc = "send", !.batch = b]
  OBVIOUS
<1>3. /\ deliverer' = [deliverer EXCEPT ![d] = q] /\ Undelivered # {}
      /\ UNCHANGED <<queue, acked, cursor, link, handshake, applied, receipts, broadcasts>>
  BY <1>1, <1>2, Zenon DEF Pending, senderVars, receiverVars
<1>4. b \in FdBatches /\ DOMAIN b = Undelivered /\ Undelivered \subseteq FedSequences
  <2>1. queue \in [FedSequences -> FdRows] /\ Undelivered \subseteq FedSequences
    BY DEF FdInv, FdTypes, Undelivered
  <2>2. \A e \in Undelivered : queue[e].attempts \in Nat
    BY <2>1 DEF FdRows
  <2>3. b \in [Undelivered -> Nat]
    BY <1>1, <2>2
  <2>. QED
    BY <2>1, <2>3 DEF FdBatches
<1>5. q = [pc |-> "send", batch |-> b, frame |-> 1]
  BY <1>2 DEF IdleDeliverer
<1>6. q \in FdDeliverers /\ q.batch = b /\ q.pc = "send"
  BY <1>4, <1>5 DEF FdDeliverers, FdPlaces
<1>7. /\ deliverer' \in [Deliverers -> FdDeliverers] /\ deliverer'[d] = q
      /\ \A c \in Deliverers \ {d} : deliverer'[c] = deliverer[c]
  BY <1>3, <1>6 DEF FdInv, FdTypes
<1>8. FdTypes'
  BY <1>3, <1>4, <1>6, <1>7 DEF FdInv, FdTypes
<1>9. FdRowsOrdered' /\ NoneOvertakes'
  BY <1>3 DEF FdInv, FdRowsOrdered, NoneOvertakes
<1>10. FdBatchWhole(b)
  <2>1. ASSUME NEW e \in DOMAIN b, NEW f \in FedSequences
        PROVE  /\ queue[e].status # "none"
               /\ f < e /\ f \notin DOMAIN b => f \in acked \/ queue[f].status = "deleted"
    <3>1. e \in FedSequences /\ queue[e].status \in {"pending", "failed"}
      BY <1>4 DEF Undelivered
    <3>2. f < e => queue[f].status # "none"
      BY <3>1 DEF FdInv, FdRowsOrdered
    <3>3. queue[f].status \in FdStatus
      BY DEF FdInv, FdTypes, FdRows
    <3>4. f \notin DOMAIN b => queue[f].status \notin {"pending", "failed"}
      BY <1>4 DEF Undelivered
    <3>5. queue[f].status = "delivered" => f \in acked
      BY DEF FdInv, FdRowsOrdered
    <3>. QED
      BY <3>1, <3>2, <3>3, <3>4, <3>5 DEF FdStatus
  <2>. QED
    BY <2>1 DEF FdBatchWhole
<1>11. ASSUME NEW c \in Deliverers PROVE FdBatchWhole(deliverer[c].batch)'
  <2>1. CASE c = d
    BY <1>3, <1>6, <1>7, <1>10, <2>1 DEF FdBatchWhole
  <2>2. CASE c # d
    BY <1>3, <1>7, <2>2 DEF FdInv, FdBatchWhole
  <2>. QED
    BY <2>1, <2>2
<1>12. \A c \in Deliverers \ {d} : Current(c)' = Current(c)
  BY <1>7 DEF Current
<1>13. FdOnce'
  BY <1>3, <1>6, <1>7, <1>12 DEF FdInv, FdOnce, FdAtReceipt, FdAtBroadcast
<1>. QED
  BY <1>8, <1>9, <1>11, <1>13 DEF FdInv

\* What marking the event of a deliverer leaves of the rows: deleted ones stay
\* so, and the others stay where they are but for the one marked.
LEMMA FdMarks ==
  ASSUME FdTypes, NEW e \in FedSequences, queue[e].status # "none", NEW st \in {"failed", "delivered"}, NEW n \in Nat,
         queue' = IF queue[e].status = "deleted" THEN queue ELSE [queue EXCEPT ![e] = [status |-> st, attempts |-> n]]
  PROVE  /\ queue' \in [FedSequences -> FdRows]
         /\ \A f \in FedSequences : /\ queue[f].status = "none" <=> queue'[f].status = "none"
                                    /\ queue[f].status = "deleted" => queue'[f].status = "deleted"
                                    /\ queue'[f].status = "delivered" =>
                                         queue[f].status = "delivered" \/ (f = e /\ st = "delivered")
<1>1. queue \in [FedSequences -> FdRows]
  BY DEF FdTypes
<1>2. CASE queue[e].status = "deleted"
  BY <1>1, <1>2
<1>3. CASE queue[e].status # "deleted"
  <2>1. PICK q : q = [status |-> st, attempts |-> n]
    OBVIOUS
  <2>2. q \in FdRows /\ q.status = st
    BY <2>1 DEF FdRows, FdStatus
  <2>3. queue' = [queue EXCEPT ![e] = q]
    BY <1>3, <2>1
  <2>4. queue' \in [FedSequences -> FdRows] /\ queue'[e] = q /\ \A f \in FedSequences \ {e} : queue'[f] = queue[f]
    BY <1>1, <2>2, <2>3
  <2>5. ASSUME NEW f \in FedSequences
        PROVE  /\ queue[f].status = "none" <=> queue'[f].status = "none"
               /\ queue[f].status = "deleted" => queue'[f].status = "deleted"
               /\ queue'[f].status = "delivered" => queue[f].status = "delivered" \/ (f = e /\ st = "delivered")
    <3>1. CASE f = e
      BY <3>1, <1>3, <2>2, <2>4
    <3>2. CASE f # e
      BY <3>2, <2>4
    <3>. QED
      BY <3>1, <3>2
  <2>. QED
    BY <2>4, <2>5
<1>. QED
  BY <1>2, <1>3

\* A deliverer gives its batch up, whatever was left of it.
LEMMA FdGivesUp ==
  ASSUME FdInv, NEW d \in Deliverers, GiveUp(d) PROVE FdInv'
<1>1. PICK e \in FedSequences : e = Current(d) /\ e \in DOMAIN deliverer[d].batch
  BY FdCurrent DEF GiveUp, FdInv
<1>2. queue[e].status # "none" /\ queue[e].attempts \in Nat
  <2>1. queue[e].status # "none"
    BY <1>1 DEF FdInv, FdBatchWhole
  <2>2. queue[e].attempts \in Nat
    BY DEF FdInv, FdTypes, FdRows
  <2>. QED
    BY <2>1, <2>2
<1>3. PICK n \in Nat : n = queue[e].attempts + 1
  BY <1>2
<1>4. queue' = IF queue[e].status = "deleted" THEN queue ELSE [queue EXCEPT ![e] = [status |-> "failed", attempts |-> n]]
  <2>1. queue' = IF queue[e].status = "deleted" THEN queue
                 ELSE [queue EXCEPT ![e] = [status |-> "failed", attempts |-> queue[e].attempts + 1]]
    BY <1>1 DEF GiveUp, MarkFailed
  <2>. QED
    BY <1>3, <2>1
<1>5. /\ queue' \in [FedSequences -> FdRows]
      /\ \A f \in FedSequences : /\ queue[f].status = "none" <=> queue'[f].status = "none"
                                 /\ queue[f].status = "deleted" => queue'[f].status = "deleted"
                                 /\ queue'[f].status = "delivered" => queue[f].status = "delivered"
  BY <1>2, <1>4, FdMarks DEF FdInv
<1>6. /\ deliverer' = [deliverer EXCEPT ![d] = IdleDeliverer] /\ link' \in {"none", "connected", "disconnected", "revoked"}
      /\ UNCHANGED <<acked, cursor, handshake, applied, receipts, broadcasts>>
  BY DEF GiveUp, MarkFailed, receiverVars, FdInv, FdTypes
<1>7. /\ deliverer' \in [Deliverers -> FdDeliverers] /\ deliverer'[d] = IdleDeliverer
      /\ \A c \in Deliverers \ {d} : deliverer'[c] = deliverer[c]
  BY <1>6, FdIdle DEF FdInv, FdTypes
<1>8. FdTypes'
  BY <1>5, <1>6, <1>7, FdIdle DEF FdInv, FdTypes
<1>9. FdRowsOrdered'
  BY <1>5, <1>6 DEF FdInv, FdRowsOrdered
<1>10. NoneOvertakes'
  BY <1>5, <1>6 DEF FdInv, NoneOvertakes, FedSequences
<1>11. ASSUME NEW c \in Deliverers PROVE FdBatchWhole(deliverer[c].batch)'
  <2>1. CASE c = d
    <3>1. DOMAIN deliverer'[c].batch = {}
      BY <2>1, <1>7, FdIdle
    <3>. QED
      BY <3>1 DEF FdBatchWhole
  <2>2. CASE c # d
    <3>1. PICK b : b = deliverer[c].batch
      OBVIOUS
    <3>2. DOMAIN b \subseteq FedSequences /\ FdBatchWhole(b)
      BY <3>1 DEF FdInv, FdTypes, FdDeliverers, FdBatches
    <3>3. FdBatchWhole(b)'
      BY <1>5, <1>6, <3>2, FdWholeStays
    <3>. QED
      BY <1>7, <2>2, <3>1, <3>3 DEF FdBatchWhole
  <2>. QED
    BY <2>1, <2>2
<1>12. \A c \in Deliverers \ {d} : Current(c)' = Current(c)
  BY <1>7 DEF Current
<1>13. FdOnce'
  BY <1>6, <1>7, <1>12, FdIdle DEF FdInv, FdOnce, FdAtReceipt, FdAtBroadcast
<1>. QED
  BY <1>8, <1>9, <1>10, <1>11, <1>13 DEF FdInv

\* What is left of a batch without its least sequence, which is acknowledged.
LEMMA FdRest ==
  ASSUME FdInv, NEW d \in Deliverers, deliverer[d].pc # "idle", NextEvent(d)
  PROVE  \E q \in FdDeliverers :
           /\ deliverer' = [deliverer EXCEPT ![d] = q] /\ q.pc \in {"idle", "send"}
           /\ q.pc # "idle" => DOMAIN q.batch # {}
           /\ DOMAIN q.batch = DOMAIN deliverer[d].batch \ {Current(d)}
<1>1. PICK b, rest : b = deliverer[d].batch /\ rest = DOMAIN deliverer[d].batch \ {Current(d)}
  OBVIOUS
<1>2. b \in FdBatches /\ rest = DOMAIN b \ {Current(d)}
  BY <1>1 DEF FdInv, FdTypes, FdDeliverers
<1>3. deliverer' = [deliverer EXCEPT ![d] = IF rest = {} THEN IdleDeliverer
                       ELSE [pc |-> "send", batch |-> Restrict(b, rest), frame |-> 1]]
  BY <1>1, Zenon DEF NextEvent
<1>4. CASE rest = {}
  BY <1>1, <1>3, <1>4, FdIdle
<1>5. CASE rest # {}
  <2>1. PICK r : r = Restrict(b, rest)
    OBVIOUS
  <2>2. r = [x \in rest |-> b[x]]
    BY <2>1 DEF Restrict
  <2>3. PICK S \in SUBSET FedSequences : b \in [S -> Nat]
    BY <1>2 DEF FdBatches
  <2>4. r \in [rest -> Nat] /\ rest \subseteq FedSequences
    BY <1>2, <2>2, <2>3
  <2>5. r \in FdBatches /\ DOMAIN r = rest
    BY <2>4 DEF FdBatches
  <2>6. PICK q : q = [pc |-> "send", batch |-> r, frame |-> 1]
    OBVIOUS
  <2>7. q \in FdDeliverers /\ q.pc = "send" /\ q.batch = r
    BY <2>5, <2>6 DEF FdDeliverers, FdPlaces
  <2>8. deliverer' = [deliverer EXCEPT ![d] = q]
    BY <1>3, <1>5, <2>1, <2>6
  <2>. QED
    BY <1>1, <1>5, <2>5, <2>7, <2>8
<1>. QED
  BY <1>4, <1>5

\* An acknowledged event has none before it that was not.
LEMMA FdAcknowledges ==
  ASSUME FdInv, NEW d \in Deliverers, MarkDelivered(d) PROVE FdInv'
<1>1. deliverer[d].pc = "acked" /\ FdTypes
  BY DEF MarkDelivered, FdInv
<1>2. PICK e \in FedSequences : /\ e = Current(d) /\ e \in DOMAIN deliverer[d].batch
                                /\ \A x \in DOMAIN deliverer[d].batch : e =< x
  BY <1>1, FdCurrent
<1>3. queue[e].status # "none" /\ queue[e].attempts \in Nat
  <2>1. queue[e].status # "none"
    BY <1>2 DEF FdInv, FdBatchWhole
  <2>2. queue[e].attempts \in Nat
    BY DEF FdInv, FdTypes, FdRows
  <2>. QED
    BY <2>1, <2>2
<1>4. PICK n \in Nat : n = queue[e].attempts
  BY <1>3
<1>5. queue' = IF queue[e].status = "deleted" THEN queue ELSE [queue EXCEPT ![e] = [status |-> "delivered", attempts |-> n]]
  <2>1. queue' = IF queue[e].status = "deleted" THEN queue ELSE [queue EXCEPT ![e].status = "delivered"]
    BY <1>2, Zenon DEF MarkDelivered
  <2>2. PICK r : r = queue[e]
    OBVIOUS
  <2>3. r = [status |-> r.status, attempts |-> n]
    BY <1>4, <2>2 DEF FdInv, FdTypes, FdRows
  <2>4. [r EXCEPT !.status = "delivered"] = [status |-> "delivered", attempts |-> n]
    BY <2>3
  <2>5. [queue EXCEPT ![e].status = "delivered"] = [queue EXCEPT ![e] = [r EXCEPT !.status = "delivered"]]
    BY <2>2
  <2>. QED
    BY <2>1, <2>4, <2>5
<1>6. /\ queue' \in [FedSequences -> FdRows]
      /\ \A f \in FedSequences : /\ queue[f].status = "none" <=> queue'[f].status = "none"
                                 /\ queue[f].status = "deleted" => queue'[f].status = "deleted"
                                 /\ queue'[f].status = "delivered" => queue[f].status = "delivered" \/ f = e
  BY <1>1, <1>3, <1>5, FdMarks
<1>7. /\ acked' = acked \cup {e} /\ UNCHANGED <<link, handshake, applied, receipts, broadcasts>>
      /\ NextEvent(d)
  BY <1>2 DEF MarkDelivered, receiverVars
<1>8. cursor' \in {cursor, e} /\ cursor' \in 0 .. LastSequence
  <2>1. cursor \in Int /\ e \in Int /\ cursor \in 0 .. LastSequence
    BY <1>1, FederationAssumption DEF FdTypes, FedSequences
  <2>2. cursor' = Max({cursor, e})
    BY <1>2 DEF MarkDelivered
  <2>3. PICK m : m = IF cursor >= e THEN cursor ELSE e
    OBVIOUS
  <2>4. m \in {cursor, e} /\ (\A y \in {cursor, e} : m >= y) /\ \A z \in {cursor, e} : (\A y \in {cursor, e} : z >= y) => z = m
    BY <2>1, <2>3
  <2>5. Max({cursor, e}) \in {cursor, e}
    BY <2>4, Zenon DEF Max
  <2>. QED
    BY <2>1, <2>2, <2>5 DEF FedSequences
<1>9. PICK q \in FdDeliverers :
         /\ deliverer' = [deliverer EXCEPT ![d] = q] /\ q.pc \in {"idle", "send"}
         /\ q.pc # "idle" => DOMAIN q.batch # {}
         /\ DOMAIN q.batch = DOMAIN deliverer[d].batch \ {e}
  BY <1>1, <1>2, <1>7, FdRest
<1>10. /\ deliverer' \in [Deliverers -> FdDeliverers] /\ deliverer'[d] = q
       /\ \A c \in Deliverers \ {d} : deliverer'[c] = deliverer[c]
  BY <1>1, <1>9 DEF FdTypes
<1>11. FdTypes'
  BY <1>1, <1>6, <1>7, <1>8, <1>9, <1>10 DEF FdTypes
<1>12. FdRowsOrdered'
  BY <1>6, <1>7 DEF FdInv, FdRowsOrdered
<1>13. \A f \in FedSequences : f < e => f \in acked \/ queue[f].status = "deleted"
  <2>1. ASSUME NEW f \in FedSequences, f < e PROVE f \notin DOMAIN deliverer[d].batch
    BY <1>2, <2>1, FederationAssumption DEF FedSequences
  <2>. QED
    BY <1>2, <2>1 DEF FdInv, FdBatchWhole
<1>14. NoneOvertakes'
  BY <1>6, <1>7, <1>8, <1>13 DEF FdInv, NoneOvertakes, FedSequences
<1>15. ASSUME NEW c \in Deliverers PROVE FdBatchWhole(deliverer[c].batch)'
  <2>1. PICK b : b = deliverer[c].batch
    OBVIOUS
  <2>2. DOMAIN b \subseteq FedSequences /\ FdBatchWhole(b)
    BY <2>1 DEF FdInv, FdTypes, FdDeliverers, FdBatches
  <2>3. FdBatchWhole(b)'
    BY <1>6, <1>7, <2>2, FdWholeStays
  <2>4. CASE c = d
    <3>1. DOMAIN deliverer'[c].batch = DOMAIN b \ {e}
      BY <1>9, <1>10, <2>1, <2>4
    <3>2. e \in acked'
      BY <1>7
    <3>. QED
      BY <2>3, <3>1, <3>2 DEF FdBatchWhole
  <2>5. CASE c # d
    BY <1>10, <2>1, <2>3, <2>5 DEF FdBatchWhole
  <2>. QED
    BY <2>4, <2>5
<1>16. \A c \in Deliverers \ {d} : Current(c)' = Current(c)
  BY <1>10 DEF Current
<1>17. FdOnce'
  BY <1>7, <1>9, <1>10, <1>16 DEF FdInv, FdOnce, FdAtReceipt, FdAtBroadcast
<1>. QED
  BY <1>11, <1>12, <1>14, <1>15, <1>17 DEF FdInv

\* The inductive invariant of federated delivery.
THEOREM FdInvariant == FedSpec => []FdInv
<1>1. FedInit => FdInv
  <2>. SUFFICES ASSUME FedInit PROVE FdInv
    OBVIOUS
  <2>1. deliverer \in [Deliverers -> FdDeliverers] /\ \A d \in Deliverers : deliverer[d] = IdleDeliverer
    BY FdIdle DEF FedInit
  <2>2. queue \in [FedSequences -> FdRows] /\ \A e \in FedSequences : queue[e].status = "none"
    BY DEF FedInit, FdRows, FdStatus
  <2>3. FdTypes
    BY <2>1, <2>2, FdIdle, FederationAssumption DEF FedInit, FdTypes
  <2>4. FdRowsOrdered /\ NoneOvertakes
    BY <2>2 DEF FedInit, FdRowsOrdered, NoneOvertakes
  <2>5. FdOnce
    BY <2>1, FdIdle DEF FedInit, FdOnce, FdAtReceipt, FdAtBroadcast
  <2>6. \A d \in Deliverers : FdBatchWhole(deliverer[d].batch)
    BY <2>1, FdIdle
  <2>. QED
    BY <2>3, <2>4, <2>5, <2>6 DEF FdInv
<1>2. ASSUME FdInv, [FedNext]_fedVars PROVE FdInv'
  <2>. USE <1>2
  <2>1. CASE CreateFederationLink \/ AcceptFederationLink \/ UpsertAccepted \/ RevokeFederationLink
    BY <2>1, FdLinks
  <2>2. CASE \E e \in FedSequences : Enqueue(e)
    BY <2>2, FdEnqueues
  <2>3. CASE \E d \in Deliverers : Pending(d) \/ GiveUp(d) \/ MarkDelivered(d) \/ acceptFrame(d) \/ FrameLost(d)
                                   \/ ReceiveEvent(d) \/ RecordReceipt(d) \/ BroadcastRemote(d)
    BY <2>3, FdTakes, FdGivesUp, FdAcknowledges, FdFrames, FdReceives, FdRecords, FdBroadcasts
  <2>4. CASE RestartReceiver \/ EstablishSession
    BY <2>4, FdRestarts
  <2>5. CASE UNCHANGED fedVars
    BY <2>5 DEF fedVars, FdInv, FdTypes, FdRowsOrdered, FdBatchWhole, FdOnce, FdAtReceipt,
       FdAtBroadcast, NoneOvertakes, Current
  <2>. QED
    BY <2>1, <2>2, <2>3, <2>4, <2>5 DEF FedNext
<1>. QED
  BY <1>1, <1>2, PTL DEF FedSpec

\* What the invariant says of the run's properties.
LEMMA FdSound == ASSUME FdInv PROVE FedTypeOK /\ ShownOnce /\ NoneOvertakes
<1>1. FedTypeOK
  BY DEF FdInv, FdTypes, FdRows, FdStatus, FedTypeOK
<1>2. ShownOnce
  BY DEF FdInv, FdOnce, ShownOnce
<1>. QED
  BY <1>1, <1>2 DEF FdInv

-----------------------------------------------------------------------------
(* Updates of one node on several servers *)

\* A node's clock holds, per origin, the latest update taken ...
CkClock(r) ==
  /\ nodeClock[r].clock \in [Origins -> Nat]
  /\ \A u \in taken[r] : u.seq =< nodeClock[r].clock[u.origin]
  /\ \A o \in Origins : nodeClock[r].clock[o] > 0 => \E u \in taken[r] : u.origin = o /\ u.seq = nodeClock[r].clock[o]

\* ... its winner is the greatest of them ...
CkWinner(r) ==
  /\ nodeClock[r].known <=> taken[r] # {}
  /\ taken[r] # {} => /\ nodeClock[r].winner \in taken[r]
                      /\ \A u \in taken[r] : u = nodeClock[r].winner \/ CurrentWins(nodeClock[r].winner, u)
  /\ r \notin resolved => content[r] = IF taken[r] = {} THEN NoUpdate ELSE nodeClock[r].winner

\* ... and what is shown against another update is in a conflict with it.
CkConflicts(r) ==
  conflicts[r] # {} => /\ \E row \in conflicts[r] : content[r] \in {row.left, row.right}
                       /\ \E u, v \in taken[r] : u.origin # v.origin

CkDropped(r) ==
  \A u \in taken[r] :
    \/ content[r] = u
    \/ \E v \in taken[r] : v.origin = u.origin /\ v.seq > u.seq
    \/ \E row \in conflicts[r] : u \in {row.left, row.right}

CkRows == [left : Updates \cup {NoUpdate}, right : Updates, open : BOOLEAN]

CkTypes ==
  /\ nodeClock \in [Receivers -> [known : BOOLEAN, clock : [Origins -> Nat], winner : Updates \cup {NoUpdate}]]
  /\ content \in [Receivers -> Updates \cup {NoUpdate}]
  /\ conflicts \in [Receivers -> SUBSET CkRows] /\ taken \in [Receivers -> SUBSET Updates]
  /\ resolved \subseteq Receivers

CkNode(r) == CkClock(r) /\ CkWinner(r) /\ CkConflicts(r) /\ CkDropped(r)

CkInv == CkTypes /\ \A r \in Receivers : CkNode(r)

\* Updates are ordered by their Lamport number and, in a tie, their origin.
LEMMA UpdateFields == \A u \in Updates : u.origin \in Origins /\ u.origin \in Int /\ u.seq \in Nat /\ u.seq >= 1
<1>1. \A u \in Updates : u.origin \in Origins /\ u.seq \in 1 .. MaxSequence
  BY DEF Updates
<1>2. ASSUME NEW u \in Updates PROVE u.origin \in Int /\ u.seq \in Nat /\ u.seq >= 1
  <2>1. PICK o \in Origins, n \in 1 .. MaxSequence : o = u.origin /\ n = u.seq
    BY <1>1
  <2>. QED
    BY <2>1, ClocksAssumption
<1>. QED
  BY <1>1, <1>2

LEMMA SameUpdate == \A u, v \in Updates : u.origin = v.origin /\ u.seq = v.seq => u = v
BY DEF Updates

LEMMA WinsOrder ==
  /\ \A u, v \in Updates : u = v \/ CurrentWins(u, v) \/ CurrentWins(v, u)
  /\ \A u, v \in Updates : ~(CurrentWins(u, v) /\ CurrentWins(v, u))
  /\ \A u, v, w \in Updates : CurrentWins(u, v) /\ CurrentWins(v, w) => CurrentWins(u, w)
<1>1. \A u, v \in Updates : u = v \/ CurrentWins(u, v) \/ CurrentWins(v, u)
  BY UpdateFields, SameUpdate DEF CurrentWins
<1>2. \A u, v \in Updates : ~(CurrentWins(u, v) /\ CurrentWins(v, u))
  BY UpdateFields DEF CurrentWins
<1>3. \A u, v, w \in Updates : CurrentWins(u, v) /\ CurrentWins(v, w) => CurrentWins(u, w)
  BY UpdateFields DEF CurrentWins
<1>. QED
  BY <1>1, <1>2, <1>3

\* How a node's clock compares with an envelope's: the envelope is newer just
\* when its number is, and then the clocks are concurrent unless the node knew
\* of its origin only.
LEMMA CkCompares ==
  ASSUME NEW c \in [Origins -> Nat], NEW u \in Updates
  PROVE  /\ Compare(c, ClockOf(u)) \in {"equal", "after"} <=> u.seq =< c[u.origin]
         /\ Compare(c, ClockOf(u)) = "concurrent" <=> u.seq > c[u.origin] /\ \E o \in Origins \ {u.origin} : c[o] > 0
         /\ Compare(c, ClockOf(u)) \in {"equal", "after", "before", "concurrent"}
<1>1. PICK k : k = ClockOf(u)
  OBVIOUS
<1>2. u.origin \in Origins /\ u.seq \in Nat
  BY UpdateFields
<1>3. k \in [Origins -> Nat] /\ k[u.origin] = u.seq /\ \A o \in Origins \ {u.origin} : k[o] = 0
  BY <1>1, <1>2 DEF ClockOf, Empty
<1>4. (\E o \in Origins : c[o] < k[o]) <=> u.seq > c[u.origin]
  BY <1>2, <1>3
<1>5. u.seq > c[u.origin] => ((\E o \in Origins : c[o] > k[o]) <=> \E o \in Origins \ {u.origin} : c[o] > 0)
  BY <1>2, <1>3
<1>6. PICK less, greater : less = (\E o \in Origins : c[o] < k[o]) /\ greater = (\E o \in Origins : c[o] > k[o])
  OBVIOUS
<1>7. Compare(c, k) = IF less /\ greater THEN "concurrent" ELSE IF less THEN "before"
                      ELSE IF greater THEN "after" ELSE "equal"
  BY <1>6, Zenon DEF Compare
<1>8. /\ Compare(c, k) \in {"equal", "after"} <=> ~less
      /\ Compare(c, k) = "concurrent" <=> less /\ greater
      /\ Compare(c, k) \in {"equal", "after", "before", "concurrent"}
  BY <1>7
<1>9. ~less <=> u.seq =< c[u.origin]
  BY <1>2, <1>4, <1>6
<1>. QED
  BY <1>1, <1>4, <1>5, <1>6, <1>8, <1>9

\* The merged clock.
LEMMA CkMerges ==
  ASSUME NEW c \in [Origins -> Nat], NEW u \in Updates, u.seq > c[u.origin]
  PROVE  /\ Merge(c, ClockOf(u)) \in [Origins -> Nat] /\ Merge(c, ClockOf(u))[u.origin] = u.seq
         /\ \A o \in Origins \ {u.origin} : Merge(c, ClockOf(u))[o] = c[o]
<1>1. PICK k : k = ClockOf(u)
  OBVIOUS
<1>2. u.origin \in Origins /\ u.seq \in Nat
  BY UpdateFields
<1>3. k \in [Origins -> Nat] /\ k[u.origin] = u.seq /\ \A o \in Origins \ {u.origin} : k[o] = 0
  BY <1>1, <1>2 DEF ClockOf, Empty
<1>4. Merge(c, k) = [o \in Origins |-> IF k[o] > c[o] THEN k[o] ELSE c[o]]
  BY DEF Merge
<1>5. Merge(c, k) \in [Origins -> Nat] /\ Merge(c, k)[u.origin] = u.seq
  BY <1>2, <1>3, <1>4
<1>6. \A o \in Origins \ {u.origin} : Merge(c, k)[o] = c[o]
  BY <1>3, <1>4
<1>. QED
  BY <1>1, <1>5, <1>6

\* A receiver that the step does not touch.
LEMMA CkOthers ==
  ASSUME NEW s \in Receivers, CkNode(s), nodeClock'[s] = nodeClock[s], content'[s] = content[s],
         conflicts'[s] = conflicts[s], taken'[s] = taken[s], s \in resolved <=> s \in resolved'
  PROVE  CkNode(s)'
<1>1. CkClock(s)'
  BY DEF CkNode, CkClock
<1>2. CkWinner(s)'
  BY DEF CkNode, CkWinner
<1>3. CkConflicts(s)'
  BY DEF CkNode, CkConflicts
<1>4. CkDropped(s)'
  BY DEF CkNode, CkDropped
<1>. QED
  BY <1>1, <1>2, <1>3, <1>4 DEF CkNode

\* What a node's parts are.
LEMMA CkParts ==
  ASSUME CkInv, NEW r \in Receivers
  PROVE  /\ nodeClock[r].clock \in [Origins -> Nat] /\ nodeClock[r].winner \in Updates \cup {NoUpdate}
         /\ nodeClock[r].known \in BOOLEAN /\ content[r] \in Updates \cup {NoUpdate}
         /\ taken[r] \subseteq Updates /\ conflicts[r] \subseteq CkRows
BY DEF CkInv, CkTypes

\* An update that is not newer than the node's clock: the node has it, or has a
\* later one of its origin.
LEMMA CkOld ==
  ASSUME CkInv, NEW r \in Receivers, NEW u \in Updates, u.seq =< nodeClock[r].clock[u.origin]
  PROVE  \E v \in taken[r] : v.origin = u.origin /\ (v = u \/ v.seq > u.seq)
<1>1. PICK c \in [Origins -> Nat] : c = nodeClock[r].clock
  BY CkParts
<1>2. u.origin \in Origins /\ u.seq \in Nat /\ u.seq >= 1 /\ c[u.origin] \in Nat
  BY UpdateFields, <1>1
<1>3. c[u.origin] > 0
  BY <1>1, <1>2
<1>4. PICK v \in taken[r] : v.origin = u.origin /\ v.seq = c[u.origin]
  BY <1>1, <1>2, <1>3 DEF CkInv, CkNode, CkClock
<1>5. v \in Updates /\ v.seq \in Nat
  BY CkParts, UpdateFields
<1>6. CASE v.seq = u.seq
  BY <1>4, <1>5, <1>6, SameUpdate
<1>7. CASE v.seq > u.seq
  BY <1>4, <1>7
<1>. QED
  BY <1>1, <1>2, <1>4, <1>5, <1>6, <1>7

\* A node's first update.
LEMMA CkFirst ==
  ASSUME CkInv, NEW r \in Receivers, NEW u \in Updates, applyFirst(r, u),
         taken' = [taken EXCEPT ![r] = @ \cup {u}], UNCHANGED resolved
  PROVE  CkInv'
<1>1. PICK k : k = ClockOf(u)
  OBVIOUS
<1>2. u.origin \in Origins /\ u.seq \in Nat /\ u.seq >= 1
  BY UpdateFields
<1>3. k \in [Origins -> Nat] /\ k[u.origin] = u.seq /\ \A o \in Origins \ {u.origin} : k[o] = 0
  BY <1>1, <1>2 DEF ClockOf, Empty
<1>4. PICK n : n = [known |-> TRUE, clock |-> k, winner |-> u]
  OBVIOUS
<1>5. /\ n.known = TRUE /\ n.clock = k /\ n.winner = u
      /\ n \in [known : BOOLEAN, clock : [Origins -> Nat], winner : Updates \cup {NoUpdate}]
  BY <1>3, <1>4
<1>6. nodeClock' = [nodeClock EXCEPT ![r] = n] /\ content' = [content EXCEPT ![r] = u] /\ conflicts' = conflicts
  BY <1>1, <1>4 DEF applyFirst
<1>7. taken[r] = {} /\ conflicts[r] = {}
  <2>1. taken[r] = {}
    BY DEF applyFirst, CkInv, CkNode, CkWinner
  <2>. QED
    BY <2>1 DEF CkInv, CkNode, CkConflicts
<1>8. CkTypes'
  <2>1. taken' \in [Receivers -> SUBSET Updates]
    BY DEF CkInv, CkTypes
  <2>2. nodeClock' \in [Receivers -> [known : BOOLEAN, clock : [Origins -> Nat], winner : Updates \cup {NoUpdate}]]
    BY <1>5, <1>6 DEF CkInv, CkTypes
  <2>3. content' \in [Receivers -> Updates \cup {NoUpdate}]
    BY <1>6 DEF CkInv, CkTypes
  <2>. QED
    BY <1>6, <2>1, <2>2, <2>3 DEF CkInv, CkTypes
<1>9. nodeClock'[r] = n /\ content'[r] = u /\ conflicts'[r] = {} /\ taken'[r] = {u} /\ resolved' = resolved
  BY <1>6, <1>7 DEF CkInv, CkTypes
<1>10. CkClock(r)'
  BY <1>2, <1>3, <1>5, <1>9 DEF CkClock
<1>11. CkWinner(r)'
  BY <1>5, <1>9 DEF CkWinner
<1>12. CkConflicts(r)' /\ CkDropped(r)'
  BY <1>9 DEF CkConflicts, CkDropped
<1>13. ASSUME NEW s \in Receivers, s # r PROVE CkNode(s)'
  <2>1. nodeClock'[s] = nodeClock[s] /\ content'[s] = content[s] /\ conflicts'[s] = conflicts[s] /\ taken'[s] = taken[s]
    BY <1>6, <1>13 DEF CkInv, CkTypes
  <2>. QED
    BY <2>1, CkOthers DEF CkInv
<1>. QED
  BY <1>8, <1>10, <1>11, <1>12, <1>13 DEF CkInv, CkNode

\* An old update changes nothing.
LEMMA CkIgnores ==
  ASSUME CkInv, NEW r \in Receivers, NEW u \in Updates, u.seq =< nodeClock[r].clock[u.origin],
         UNCHANGED <<nodeClock, content, conflicts>>,
         taken' = [taken EXCEPT ![r] = @ \cup {u}], UNCHANGED resolved
  PROVE  CkInv'
<1>1. PICK v \in taken[r] : v.origin = u.origin /\ (v = u \/ v.seq > u.seq)
  BY CkOld
<1>2. taken' \in [Receivers -> SUBSET Updates] /\ taken'[r] = taken[r] \cup {u}
  BY DEF CkInv, CkTypes
<1>3. CkTypes'
  BY <1>2 DEF CkInv, CkTypes
<1>4. v \in Updates /\ u.seq \in Nat /\ v.seq \in Nat /\ taken[r] \subseteq Updates
  BY CkParts, UpdateFields
<1>5. CkClock(r)'
  BY <1>2 DEF CkInv, CkNode, CkClock
<1>6. v = u \/ CurrentWins(v, u)
  BY <1>1, <1>4 DEF CurrentWins
<1>7. CkWinner(r)'
  <2>1. PICK w : w = nodeClock[r].winner
    OBVIOUS
  <2>2. w \in taken[r] /\ (v = w \/ CurrentWins(w, v)) /\ \A x \in taken[r] : x = w \/ CurrentWins(w, x)
    BY <2>1, <1>1 DEF CkInv, CkNode, CkWinner
  <2>3. u = w \/ CurrentWins(w, u)
    BY <1>4, <1>6, <2>2, WinsOrder
  <2>4. \A x \in taken[r] \cup {u} : x = w \/ CurrentWins(w, x)
    BY <2>2, <2>3
  <2>5. nodeClock[r].known /\ (r \notin resolved => content[r] = w)
    BY <1>1, <2>1 DEF CkInv, CkNode, CkWinner
  <2>. QED
    BY <1>2, <2>1, <2>2, <2>4, <2>5 DEF CkWinner
<1>8. CkConflicts(r)'
  BY <1>2 DEF CkInv, CkNode, CkConflicts
<1>9. CkDropped(r)'
  BY <1>1, <1>2 DEF CkInv, CkNode, CkDropped
<1>10. ASSUME NEW s \in Receivers, s # r PROVE CkNode(s)'
  <2>1. nodeClock'[s] = nodeClock[s] /\ content'[s] = content[s] /\ conflicts'[s] = conflicts[s] /\ taken'[s] = taken[s]
    BY <1>10 DEF CkInv, CkTypes
  <2>. QED
    BY <2>1, CkOthers DEF CkInv
<1>. QED
  BY <1>3, <1>5, <1>7, <1>8, <1>9, <1>10 DEF CkInv, CkNode

\* The clock after a newer update.
LEMMA CkAdvances ==
  ASSUME CkInv, NEW r \in Receivers, NEW u \in Updates, u.seq > nodeClock[r].clock[u.origin],
         nodeClock'[r].clock = Merge(nodeClock[r].clock, ClockOf(u)), taken'[r] = taken[r] \cup {u}
  PROVE  CkClock(r)' /\ u \notin taken[r]
<1>1. PICK c \in [Origins -> Nat] : c = nodeClock[r].clock
  BY CkParts
<1>2. PICK m : m = Merge(c, ClockOf(u))
  OBVIOUS
<1>3. m \in [Origins -> Nat] /\ m[u.origin] = u.seq /\ \A o \in Origins \ {u.origin} : m[o] = c[o]
  BY <1>1, <1>2, CkMerges
<1>4. /\ \A x \in taken[r] : x.seq =< c[x.origin]
      /\ \A o \in Origins : c[o] > 0 => \E x \in taken[r] : x.origin = o /\ x.seq = c[o]
  BY <1>1 DEF CkInv, CkNode, CkClock
<1>5. \A x \in taken[r] \cup {u} : x \in Updates /\ x.origin \in Origins /\ x.seq \in Nat
  BY CkParts, UpdateFields
<1>6. \A x \in taken[r] \cup {u} : x.seq =< m[x.origin]
  <2>1. ASSUME NEW x \in taken[r], x.origin = u.origin PROVE x.seq =< m[x.origin]
    BY <1>1, <1>3, <1>4, <1>5, <2>1
  <2>2. ASSUME NEW x \in taken[r], x.origin # u.origin PROVE x.seq =< m[x.origin]
    BY <1>3, <1>4, <1>5, <2>2
  <2>. QED
    BY <1>3, <1>5, <2>1, <2>2
<1>7. \A o \in Origins : m[o] > 0 => \E x \in taken[r] \cup {u} : x.origin = o /\ x.seq = m[o]
  BY <1>3, <1>4
<1>8. u \notin taken[r]
  BY <1>1, <1>4, <1>5
<1>. QED
  BY <1>1, <1>2, <1>3, <1>6, <1>7, <1>8 DEF CkClock

\* An update newer than everything the node knows is applied: what it follows
\* comes from the same origin, so no conflict stands.
LEMMA CkFollows ==
  ASSUME CkInv, NEW r \in Receivers, NEW u \in Updates, u.seq > nodeClock[r].clock[u.origin],
         \A o \in Origins \ {u.origin} : ~(nodeClock[r].clock[o] > 0),
         nodeClock' = [nodeClock EXCEPT ![r] = [known |-> TRUE, clock |-> Merge(nodeClock[r].clock, ClockOf(u)), winner |-> u]],
         content' = [content EXCEPT ![r] = u], conflicts' = conflicts,
         taken' = [taken EXCEPT ![r] = @ \cup {u}], UNCHANGED resolved
  PROVE  CkInv'
<1>1. PICK c \in [Origins -> Nat] : c = nodeClock[r].clock
  BY CkParts
<1>2. PICK n : n = [known |-> TRUE, clock |-> Merge(c, ClockOf(u)), winner |-> u]
  OBVIOUS
<1>3. Merge(c, ClockOf(u)) \in [Origins -> Nat]
  BY <1>1, CkMerges
<1>4. /\ n.known = TRUE /\ n.clock = Merge(c, ClockOf(u)) /\ n.winner = u
      /\ n \in [known : BOOLEAN, clock : [Origins -> Nat], winner : Updates \cup {NoUpdate}]
  BY <1>2, <1>3
<1>5. nodeClock' = [nodeClock EXCEPT ![r] = n]
  BY <1>1, <1>2
<1>6. CkTypes'
  <2>1. taken' \in [Receivers -> SUBSET Updates]
    BY DEF CkInv, CkTypes
  <2>2. nodeClock' \in [Receivers -> [known : BOOLEAN, clock : [Origins -> Nat], winner : Updates \cup {NoUpdate}]]
    BY <1>4, <1>5 DEF CkInv, CkTypes
  <2>3. content' \in [Receivers -> Updates \cup {NoUpdate}]
    BY DEF CkInv, CkTypes
  <2>. QED
    BY <2>1, <2>2, <2>3 DEF CkInv, CkTypes
<1>7. /\ nodeClock'[r] = n /\ content'[r] = u /\ conflicts'[r] = conflicts[r]
      /\ taken'[r] = taken[r] \cup {u} /\ resolved' = resolved
  BY <1>5 DEF CkInv, CkTypes
<1>8. CkClock(r)' /\ u \notin taken[r]
  BY <1>1, <1>4, <1>7, CkAdvances
<1>9. ASSUME NEW x \in taken[r] PROVE x.origin = u.origin /\ u.seq > x.seq
  <2>1. x \in Updates /\ x.origin \in Origins /\ x.seq \in Nat /\ x.seq >= 1 /\ x.seq =< c[x.origin] /\ u.seq \in Nat
    BY <1>1, CkParts, UpdateFields DEF CkInv, CkNode, CkClock
  <2>2. c[x.origin] \in Nat /\ c[x.origin] > 0
    BY <2>1
  <2>3. x.origin = u.origin
    BY <1>1, <2>1, <2>2
  <2>. QED
    BY <1>1, <2>1, <2>2, <2>3
<1>10. conflicts[r] = {}
  BY <1>9 DEF CkInv, CkNode, CkConflicts
<1>11. CkWinner(r)'
  <2>1. \A x \in taken[r] \cup {u} : x = u \/ CurrentWins(u, x)
    BY <1>9 DEF CurrentWins
  <2>. QED
    BY <1>4, <1>7, <2>1 DEF CkWinner
<1>12. CkConflicts(r)'
  BY <1>7, <1>10 DEF CkConflicts
<1>13. CkDropped(r)'
  BY <1>7, <1>9 DEF CkDropped
<1>14. ASSUME NEW s \in Receivers, s # r PROVE CkNode(s)'
  <2>1. nodeClock'[s] = nodeClock[s] /\ content'[s] = content[s] /\ conflicts'[s] = conflicts[s] /\ taken'[s] = taken[s]
    BY <1>5, <1>14 DEF CkInv, CkTypes
  <2>. QED
    BY <2>1, CkOthers DEF CkInv
<1>. QED
  BY <1>6, <1>8, <1>11, <1>12, <1>13, <1>14 DEF CkInv, CkNode

\* A concurrent update meets the one shown: both are recorded, and the winner
\* of the two stays or comes to be shown.
LEMMA CkMeets ==
  ASSUME CkInv, NEW r \in Receivers, NEW u \in Updates, u.seq > nodeClock[r].clock[u.origin],
         NEW p \in Origins \ {u.origin}, nodeClock[r].clock[p] > 0, nodeClock[r].known,
         NEW stays \in BOOLEAN, stays <=> CurrentWins(nodeClock[r].winner, u),
         nodeClock' = [nodeClock EXCEPT ![r] = [known |-> TRUE, clock |-> Merge(nodeClock[r].clock, ClockOf(u)),
                                                winner |-> IF stays THEN nodeClock[r].winner ELSE u]],
         content' = [content EXCEPT ![r] = IF stays THEN content[r] ELSE u],
         conflicts' = [conflicts EXCEPT ![r] = @ \cup {[left |-> content[r], right |-> u, open |-> TRUE]}],
         taken' = [taken EXCEPT ![r] = @ \cup {u}], UNCHANGED resolved
  PROVE  CkInv'
<1>1. PICK c \in [Origins -> Nat], w \in Updates \cup {NoUpdate}, x \in Updates \cup {NoUpdate} :
         c = nodeClock[r].clock /\ w = nodeClock[r].winner /\ x = content[r]
  BY CkParts
<1>2. PICK z \in Updates \cup {NoUpdate} : z = IF stays THEN w ELSE u
  BY <1>1
<1>3. PICK y \in Updates \cup {NoUpdate} : y = IF stays THEN x ELSE u
  BY <1>1
<1>4. PICK n : n = [known |-> TRUE, clock |-> Merge(c, ClockOf(u)), winner |-> z]
  OBVIOUS
<1>5. Merge(c, ClockOf(u)) \in [Origins -> Nat]
  BY <1>1, CkMerges
<1>6. /\ n.known = TRUE /\ n.clock = Merge(c, ClockOf(u)) /\ n.winner = z
      /\ n \in [known : BOOLEAN, clock : [Origins -> Nat], winner : Updates \cup {NoUpdate}]
  BY <1>2, <1>4, <1>5
<1>7. nodeClock' = [nodeClock EXCEPT ![r] = n] /\ content' = [content EXCEPT ![r] = y]
  BY <1>1, <1>2, <1>3, <1>4
<1>8. PICK k : k = [left |-> x, right |-> u, open |-> TRUE]
  OBVIOUS
<1>9. k \in CkRows /\ k.left = x /\ k.right = u
  BY <1>1, <1>8 DEF CkRows
<1>10. conflicts' = [conflicts EXCEPT ![r] = conflicts[r] \cup {k}]
  BY <1>1, <1>8
<1>11. CkTypes'
  <2>1. taken' \in [Receivers -> SUBSET Updates]
    BY DEF CkInv, CkTypes
  <2>2. nodeClock' \in [Receivers -> [known : BOOLEAN, clock : [Origins -> Nat], winner : Updates \cup {NoUpdate}]]
    BY <1>6, <1>7 DEF CkInv, CkTypes
  <2>3. content' \in [Receivers -> Updates \cup {NoUpdate}]
    BY <1>3, <1>7 DEF CkInv, CkTypes
  <2>4. conflicts' \in [Receivers -> SUBSET CkRows]
    BY <1>9, <1>10 DEF CkInv, CkTypes
  <2>. QED
    BY <2>1, <2>2, <2>3, <2>4 DEF CkInv, CkTypes
<1>12. /\ nodeClock'[r] = n /\ content'[r] = y /\ conflicts'[r] = conflicts[r] \cup {k}
       /\ taken'[r] = taken[r] \cup {u} /\ resolved' = resolved
  BY <1>7, <1>10 DEF CkInv, CkTypes
<1>13. CkClock(r)' /\ u \notin taken[r]
  BY <1>1, <1>6, <1>12, CkAdvances
<1>14. /\ taken[r] # {} /\ w \in taken[r] /\ w \in Updates /\ taken[r] \subseteq Updates
       /\ \A v \in taken[r] : v = w \/ CurrentWins(w, v)
       /\ r \notin resolved => x = w
  BY <1>1, CkParts DEF CkInv, CkNode, CkWinner
<1>15. CkWinner(r)'
  <2>1. z \in taken[r] \cup {u}
    BY <1>2, <1>14
  <2>2. ASSUME stays PROVE \A v \in taken[r] \cup {u} : v = z \/ CurrentWins(z, v)
    BY <1>1, <1>2, <1>14, <2>2
  <2>3. ASSUME ~stays PROVE \A v \in taken[r] \cup {u} : v = z \/ CurrentWins(z, v)
    <3>1. z = u /\ CurrentWins(u, w)
      BY <1>1, <1>2, <1>13, <1>14, <2>3, WinsOrder
    <3>2. \A v \in taken[r] : CurrentWins(u, v)
      BY <3>1, <1>14, WinsOrder
    <3>. QED
      BY <3>1, <3>2
  <2>4. r \notin resolved => y = z
    BY <1>2, <1>3, <1>14
  <2>5. \A v \in taken[r] \cup {u} : v = z \/ CurrentWins(z, v)
    BY <2>2, <2>3
  <2>6. nodeClock'[r].known = TRUE /\ nodeClock'[r].winner = z
    BY <1>6, <1>12
  <2>. QED
    BY <1>12, <2>1, <2>4, <2>5, <2>6 DEF CkWinner
<1>16. CkConflicts(r)'
  <2>1. PICK v \in taken[r] : v.origin = p
    BY DEF CkInv, CkNode, CkClock
  <2>2. y \in {x, u}
    BY <1>3
  <2>3. k \in conflicts'[r] /\ v \in taken'[r] /\ u \in taken'[r] /\ content'[r] \in {k.left, k.right} /\ v.origin # u.origin
    BY <1>9, <1>12, <2>1, <2>2
  <2>. QED
    BY <2>3 DEF CkConflicts
<1>17. CkDropped(r)'
  <2>1. ASSUME NEW v \in taken[r]
        PROVE  \/ \E t \in taken'[r] : t.origin = v.origin /\ t.seq > v.seq
               \/ \E row \in conflicts'[r] : v \in {row.left, row.right}
    <3>1. CASE x = v
      BY <1>9, <1>12, <3>1
    <3>2. CASE x # v
      BY <1>1, <1>12, <3>2 DEF CkInv, CkNode, CkDropped
    <3>. QED
      BY <3>1, <3>2
  <2>2. k \in conflicts'[r] /\ u \in {k.left, k.right}
    BY <1>9, <1>12
  <2>. QED
    BY <1>12, <2>1, <2>2 DEF CkDropped
<1>18. ASSUME NEW s \in Receivers, s # r PROVE CkNode(s)'
  <2>1. nodeClock'[s] = nodeClock[s] /\ content'[s] = content[s] /\ conflicts'[s] = conflicts[s] /\ taken'[s] = taken[s]
    BY <1>7, <1>10, <1>18 DEF CkInv, CkTypes
  <2>. QED
    BY <2>1, CkOthers DEF CkInv
<1>. QED
  BY <1>11, <1>13, <1>15, <1>16, <1>17, <1>18 DEF CkInv, CkNode

\* An update comes.
LEMMA CkApplies ==
  ASSUME CkInv, NEW r \in Receivers, NEW u \in Updates, apply(r, u) PROVE CkInv'
<1>1. taken' = [taken EXCEPT ![r] = @ \cup {u}] /\ UNCHANGED resolved
  BY DEF apply
<1>2. CASE applyFirst(r, u)
  BY <1>1, <1>2, CkFirst
<1>3. CASE applyNext(r, u)
  <2>1. PICK c \in [Origins -> Nat], w \in Updates \cup {NoUpdate} : c = nodeClock[r].clock /\ w = nodeClock[r].winner
    BY CkParts
  <2>2. PICK rel : rel = Compare(c, ClockOf(u))
    OBVIOUS
  <2>3. PICK stays : stays = (rel = "concurrent" /\ CurrentWins(w, u))
    OBVIOUS
  <2>4. stays \in BOOLEAN /\ (stays <=> rel = "concurrent" /\ CurrentWins(w, u))
    BY <2>3
  <2>5. /\ nodeClock[r].known
        /\ IF rel \in {"equal", "after"} THEN UNCHANGED <<nodeClock, content, conflicts>>
           ELSE /\ nodeClock' = [nodeClock EXCEPT ![r] = [known |-> TRUE, clock |-> Merge(c, ClockOf(u)),
                                                              winner |-> IF stays THEN w ELSE u]]
                /\ content' = [content EXCEPT ![r] = IF stays THEN content[r] ELSE u]
                /\ conflicts' = IF rel = "concurrent"
                                THEN [conflicts EXCEPT ![r] = @ \cup {[left |-> content[r], right |-> u, open |-> TRUE]}]
                                ELSE conflicts
    BY <1>3, <2>1, <2>2, <2>3 DEF applyNext
  <2>6. /\ rel \in {"equal", "after"} <=> u.seq =< c[u.origin]
        /\ rel = "concurrent" <=> u.seq > c[u.origin] /\ \E o \in Origins \ {u.origin} : c[o] > 0
        /\ rel \in {"equal", "after", "before", "concurrent"}
    BY <2>2, CkCompares
  <2>7. u.seq \in Nat /\ c[u.origin] \in Nat
    BY UpdateFields
  <2>8. CASE rel \in {"equal", "after"}
    BY <1>1, <2>1, <2>5, <2>6, <2>8, CkIgnores
  <2>9. CASE rel = "before"
    <3>1. u.seq > c[u.origin] /\ \A o \in Origins \ {u.origin} : ~(c[o] > 0)
      BY <2>6, <2>7, <2>9
    <3>2. ~stays
      BY <2>4, <2>9
    <3>3. /\ nodeClock' = [nodeClock EXCEPT ![r] = [known |-> TRUE, clock |-> Merge(c, ClockOf(u)), winner |-> u]]
          /\ content' = [content EXCEPT ![r] = u] /\ conflicts' = conflicts
      BY <2>5, <2>9, <3>2
    <3>. QED
      BY <1>1, <2>1, <3>1, <3>3, CkFollows
  <2>10. CASE rel = "concurrent"
    <3>1. PICK p \in Origins \ {u.origin} : c[p] > 0
      BY <2>6, <2>10
    <3>2. stays <=> CurrentWins(w, u)
      BY <2>4, <2>10
    <3>3. /\ nodeClock' = [nodeClock EXCEPT ![r] = [known |-> TRUE, clock |-> Merge(c, ClockOf(u)),
                                                    winner |-> IF stays THEN w ELSE u]]
          /\ content' = [content EXCEPT ![r] = IF stays THEN content[r] ELSE u]
          /\ conflicts' = [conflicts EXCEPT ![r] = @ \cup {[left |-> content[r], right |-> u, open |-> TRUE]}]
      BY <2>5, <2>10
    <3>4. u.seq > c[u.origin] /\ nodeClock[r].known
      BY <2>5, <2>6, <2>10
    <3>. QED
      BY <1>1, <2>1, <2>4, <3>1, <3>2, <3>3, <3>4, CkMeets
  <2>. QED
    BY <2>6, <2>8, <2>9, <2>10
<1>. QED
  BY <1>2, <1>3 DEF apply

\* A conflict that is closed keeps its sides.
LEMMA CkCloses ==
  ASSUME NEW row \in CkRows, NEW k, k = [row EXCEPT !.open = FALSE]
  PROVE  k \in CkRows /\ k.left = row.left /\ k.right = row.right
BY DEF CkRows

\* Someone picks a side: what was shown is still in the conflict.
LEMMA CkResolves ==
  ASSUME CkInv, NEW r \in Receivers, resolve(r) PROVE CkInv'
<1>1. PICK row \in conflicts[r], side \in {"left", "right"} :
         /\ row.open /\ content' = [content EXCEPT ![r] = row[side]]
         /\ conflicts' = [conflicts EXCEPT ![r] = (@ \ {row}) \cup {[row EXCEPT !.open = FALSE]}]
         /\ resolved' = resolved \cup {r} /\ UNCHANGED <<nodeClock, taken>>
  BY DEF resolve
<1>2. PICK a \in Updates \cup {NoUpdate}, b \in Updates \cup {NoUpdate}, o \in BOOLEAN :
         row = [left |-> a, right |-> b, open |-> o]
  BY <1>1, CkParts DEF CkRows
<1>3. PICK y \in Updates \cup {NoUpdate} : y = row[side] /\ y \in {a, b}
  BY <1>2
<1>4. PICK k : k = [row EXCEPT !.open = FALSE]
  OBVIOUS
<1>5. row.left = a /\ row.right = b /\ k.left = a /\ k.right = b /\ k \in CkRows
  BY <1>1, <1>2, <1>4, CkParts, CkCloses
<1>6. content' = [content EXCEPT ![r] = y] /\ conflicts' = [conflicts EXCEPT ![r] = (conflicts[r] \ {row}) \cup {k}]
  BY <1>1, <1>3, <1>4
<1>7. CkTypes'
  <2>1. content' \in [Receivers -> Updates \cup {NoUpdate}]
    BY <1>6 DEF CkInv, CkTypes
  <2>2. conflicts' \in [Receivers -> SUBSET CkRows]
    BY <1>5, <1>6 DEF CkInv, CkTypes
  <2>. QED
    BY <1>1, <2>1, <2>2 DEF CkInv, CkTypes
<1>8. content'[r] = y /\ conflicts'[r] = (conflicts[r] \ {row}) \cup {k} /\ nodeClock' = nodeClock /\ taken' = taken /\ r \in resolved'
  BY <1>1, <1>6 DEF CkInv, CkTypes
<1>9. CkClock(r)'
  BY <1>8 DEF CkInv, CkNode, CkClock
<1>10. CkWinner(r)'
  BY <1>8 DEF CkInv, CkNode, CkWinner
<1>11. CkConflicts(r)'
  <2>1. k \in conflicts'[r] /\ content'[r] \in {k.left, k.right}
    BY <1>3, <1>5, <1>8
  <2>2. \E u, v \in taken[r] : u.origin # v.origin
    BY <1>1 DEF CkInv, CkNode, CkConflicts
  <2>. QED
    BY <1>8, <2>1, <2>2 DEF CkConflicts
<1>12. \A v : (\E p \in conflicts[r] : v \in {p.left, p.right}) => \E p \in conflicts'[r] : v \in {p.left, p.right}
  <2>1. k \in conflicts'[r] /\ \A p \in conflicts[r] : p = row \/ p \in conflicts'[r]
    BY <1>8
  <2>. QED
    BY <1>5, <2>1
<1>13. CkDropped(r)'
  <2>1. ASSUME NEW u \in taken[r]
        PROVE  (\E v \in taken[r] : v.origin = u.origin /\ v.seq > u.seq) \/ \E p \in conflicts[r] : u \in {p.left, p.right}
    <3>1. content[r] = u => \E p \in conflicts[r] : u \in {p.left, p.right}
      BY <1>1 DEF CkInv, CkNode, CkConflicts
    <3>. QED
      BY <3>1 DEF CkInv, CkNode, CkDropped
  <2>. QED
    BY <1>8, <1>12, <2>1 DEF CkDropped
<1>14. ASSUME NEW s \in Receivers, s # r PROVE CkNode(s)'
  <2>1. nodeClock'[s] = nodeClock[s] /\ content'[s] = content[s] /\ conflicts'[s] = conflicts[s] /\ taken'[s] = taken[s]
    BY <1>1, <1>6, <1>14 DEF CkInv, CkTypes
  <2>. QED
    BY <1>1, <1>14, <2>1, CkOthers DEF CkInv
<1>. QED
  BY <1>7, <1>9, <1>10, <1>11, <1>13, <1>14 DEF CkInv, CkNode

\* The inductive invariant of the vector clocks.
THEOREM CkInvariant == FedClocksSpec => []CkInv
<1>1. FedClocksInit => CkInv
  <2>. SUFFICES ASSUME FedClocksInit PROVE CkInv
    OBVIOUS
  <2>1. Empty \in [Origins -> Nat] /\ \A o \in Origins : Empty[o] = 0
    BY DEF Empty
  <2>2. PICK n : n = [known |-> FALSE, clock |-> Empty, winner |-> NoUpdate]
    OBVIOUS
  <2>3. /\ n.known = FALSE /\ n.clock = Empty
        /\ n \in [known : BOOLEAN, clock : [Origins -> Nat], winner : Updates \cup {NoUpdate}]
    BY <2>1, <2>2
  <2>4. /\ nodeClock = [r \in Receivers |-> n] /\ content = [r \in Receivers |-> NoUpdate]
        /\ conflicts = [r \in Receivers |-> {}] /\ taken = [r \in Receivers |-> {}] /\ resolved = {}
    BY <2>2 DEF FedClocksInit
  <2>5. CkTypes
    BY <2>3, <2>4 DEF CkTypes
  <2>6. \A r \in Receivers : CkClock(r)
    BY <2>1, <2>3, <2>4 DEF CkClock
  <2>7. \A r \in Receivers : CkWinner(r)
    BY <2>3, <2>4 DEF CkWinner
  <2>8. \A r \in Receivers : CkConflicts(r) /\ CkDropped(r)
    BY <2>4 DEF CkConflicts, CkDropped
  <2>. QED
    BY <2>5, <2>6, <2>7, <2>8 DEF CkInv, CkNode
<1>2. ASSUME CkInv, UNCHANGED clockVars PROVE CkInv'
  BY <1>2 DEF clockVars, CkInv, CkTypes, CkNode, CkClock, CkWinner, CkConflicts, CkDropped
<1>3. CkInv /\ [FedClocksNext]_clockVars => CkInv'
  BY <1>2, CkApplies, CkResolves DEF FedClocksNext
<1>. QED
  BY <1>1, <1>3, PTL DEF FedClocksSpec

\* Two receivers with the same updates have the same greatest one.
LEMMA CkSound == ASSUME CkInv PROVE FedClocksTypeOK /\ Converge /\ NoneSilentlyDropped
<1>1. FedClocksTypeOK
  BY DEF CkInv, CkTypes, FedClocksTypeOK
<1>2. NoneSilentlyDropped
  BY DEF CkInv, CkNode, CkDropped, NoneSilentlyDropped
<1>3. ASSUME NEW r \in Receivers, NEW s \in Receivers, taken[r] = taken[s], r \notin resolved, s \notin resolved
      PROVE  content[r] = content[s]
  <2>1. CASE taken[r] = {}
    BY <1>3, <2>1 DEF CkInv, CkNode, CkWinner
  <2>2. CASE taken[r] # {}
    <3>1. PICK v, w : v = nodeClock[r].winner /\ w = nodeClock[s].winner
      OBVIOUS
    <3>2. /\ v \in taken[r] /\ w \in taken[r] /\ content[r] = v /\ content[s] = w
          /\ (w = v \/ CurrentWins(v, w)) /\ (v = w \/ CurrentWins(w, v))
      BY <1>3, <2>2, <3>1 DEF CkInv, CkNode, CkWinner
    <3>. QED
      BY <3>2, CkParts, WinsOrder
  <2>. QED
    BY <2>1, <2>2
<1>. QED
  BY <1>1, <1>2, <1>3 DEF Converge

\* Federated servers agree, for any number of servers, events, frames and
\* overlapping deliveries: acknowledgements keep the order of the sequences and
\* an event is shown once (internal/federation/relay.go), and whatever order
\* updates come in, servers with the same updates show the same one and have
\* every one that lost on record (internal/federation/conflict.go).
THEOREM FederationSoundAlways == NetworkSpec => []FederationSound
<1>1. ASSUME FdInv, CkInv PROVE FederationSound
  BY <1>1, FdSound, CkSound DEF FederationSound
<1>. QED
  BY <1>1, NetworkImplements, FdInvariant, CkInvariant, PTL

-----------------------------------------------------------------------------
(* Later decisions *)

\* Numbers name one entry each, so what the sweep takes is stale.
LEMMA LgOnlyStale ==
  ASSUME LgInv, [LogNext]_logVars, NEW e \in ring, e.seq \in pruned' \ pruned PROVE Stale(e)
<1>1. Prune
  BY DEF LogNext, NextSeq, Stamp, RingAppend, RingInsert, RingEvict, Store, Tick, logVars
<1>2. PICK f \in ring : Stale(f) /\ f.seq = e.seq
  BY <1>1 DEF Prune, Sweep
<1>3. f = e
  BY <1>2 DEF LgInv, NumbersAccounted
<1>. QED
  BY <1>2, <1>3

\* A handshake writes its row only where no revoked one is.
LEMMA FdKeepsRevoked ==
  ASSUME [FedNext]_fedVars, link = "revoked" PROVE link' # "connected"
<1>1. CASE CreateFederationLink \/ AcceptFederationLink \/ UpsertAccepted \/ RevokeFederationLink
  BY <1>1 DEF CreateFederationLink, AcceptFederationLink, UpsertAccepted, RevokeFederationLink
<1>2. CASE \E e \in FedSequences : Enqueue(e)
  BY <1>2 DEF Enqueue
<1>3. CASE \E d \in Deliverers : GiveUp(d)
  BY <1>3 DEF GiveUp, MarkFailed
<1>4. CASE \E d \in Deliverers : Pending(d) \/ MarkDelivered(d) \/ acceptFrame(d) \/ FrameLost(d)
                                 \/ ReceiveEvent(d) \/ RecordReceipt(d) \/ BroadcastRemote(d)
  <2>1. link' = link
    BY <1>4, Zenon DEF Pending, MarkDelivered, acceptFrame, FrameLost, ReceiveEvent, RecordReceipt,
       BroadcastRemote, senderVars
  <2>. QED
    BY <2>1
<1>5. CASE RestartReceiver \/ EstablishSession \/ UNCHANGED fedVars
  BY <1>5 DEF RestartReceiver, EstablishSession, senderVars, fedVars
<1>. QED
  BY <1>1, <1>2, <1>3, <1>4, <1>5 DEF FedNext

\* No step overrides a later decision: the sweep of the replay log
\* (ringBuf.prune, internal/sse/sse_event_log.go), a health check
\* (internal/transport/health_monitor.go) and a federation handshake
\* (internal/federation) each act on a state read before, and none of them
\* undoes what happened since.
THEOREM NothingOverriddenAlways == NetworkSpec => NothingOverridden
<1>1. LgInv /\ [LogNext]_logVars => [\A e \in ring : e.seq \in pruned' \ pruned => Stale(e)]_logVars
  BY LgOnlyStale
<1>2. HlInv /\ [RelayStoreNext]_relayStoreVars => [~healthy /\ healthy' => ~checking.was]_relayStoreVars
  BY HlMarkSticks
<1>3. [FedNext]_fedVars => [link = "revoked" => link' # "connected"]_fedVars
  BY FdKeepsRevoked
<1>. QED
  BY <1>1, <1>2, <1>3, NetworkImplements, LgInvariant, HlInvariant, PTL
     DEF NothingOverridden, OnlyStalePruned, MarkSticks, HandshakeKeepsRevoked, LogSpec,
     RelayStoreSpec, FedSpec

-----------------------------------------------------------------------------
(* One browser's stream over the log *)

(* The events on a connection, and a connection.                           *)
StEvents ==
  [kind : {"log"}, id : 1 .. MaxSeq] \union [kind : {"sync"}, id : Nat] \union {Overflow}

StConns ==
  [phase : {"none", "opening", "replaying", "live"}, outbox : Seq(StEvents),
   replay : SUBSET (1 .. MaxSeq), since : Nat, had : SUBSET StEvents, aborted : BOOLEAN]

StFits == current \in StConns /\ Len(current.outbox) =< OutCap

StTyped ==
  /\ counter \in 0 .. MaxSeq
  /\ sending \in [Producers -> 0 .. MaxSeq]
  /\ synced \in 0 .. MaxSync /\ syncing \subseteq 1 .. synced
  /\ StFits
  /\ conns \in 0 .. MaxConns /\ lastId \in Nat
  /\ got \subseteq 1 .. MaxSeq /\ start \in 0 .. MaxSeq /\ told \in BOOLEAN

(* A producer inside Append has nothing left to send.                      *)
StPending == \A p \in Producers : call[p].at # "idle" => sending[p] = 0

(* A connection goes live when its replay is used up.                      *)
StPhases == current.phase = "live" => current.replay = {}

(* Since its replay began, a connection has had every event past its since *)
(* whose Broadcast returned, or has it yet to replay, unless the log lost  *)
(* it.                                                                     *)
StCovered ==
  current.phase \in {"replaying", "live"} /\ ~current.aborted /\ current.since # 0 =>
    \A n \in Sent : n > current.since /\ n \notin evicted \union pruned =>
      Event("log", n) \in current.had \/ n \in current.replay

StInv ==
  LogTypeOK /\ NumbersAccounted /\ StTyped /\ StPending /\ StPhases /\ StCovered

LEMMA StEventsAre ==
  /\ \A n \in 1 .. MaxSeq : Event("log", n) \in StEvents
  /\ \A n \in Nat : Event("sync", n) \in StEvents
  /\ Overflow \in StEvents
  /\ \A e \in StEvents : /\ e.kind = "log" => e.id \in 1 .. MaxSeq
                         /\ e.kind # "overflow" => e.id \in Nat
<1>1. ASSUME NEW n \in 1 .. MaxSeq PROVE Event("log", n) \in StEvents
  BY DEF Event, StEvents
<1>2. ASSUME NEW n \in Nat PROVE Event("sync", n) \in StEvents
  BY DEF Event, StEvents
<1>3. Overflow \in StEvents
  BY DEF StEvents
<1>4. ASSUME NEW e \in StEvents PROVE /\ e.kind = "log" => e.id \in 1 .. MaxSeq
                                      /\ e.kind # "overflow" => e.id \in Nat
  <2>1. CASE e \in [kind : {"log"}, id : 1 .. MaxSeq]
    BY <2>1
  <2>2. CASE e \in [kind : {"sync"}, id : Nat]
    BY <2>2
  <2>3. CASE e = Overflow
    BY <2>3 DEF Overflow
  <2> QED BY <1>4, <2>1, <2>2, <2>3 DEF StEvents
<1> QED BY <1>1, <1>2, <1>3, <1>4

LEMMA StNoConn ==
  /\ NoConn \in StConns /\ Len(NoConn.outbox) = 0
  /\ NoConn.phase = "none" /\ NoConn.replay = {} /\ NoConn.since = 0
<1>1. <<>> \in Seq(StEvents) /\ Len(<<>>) = 0
  OBVIOUS
<1> QED BY <1>1 DEF NoConn, StConns

LEMMA StOpening ==
  ASSUME NEW k \in Nat
  PROVE  LET o == [NoConn EXCEPT !.phase = "opening", !.since = k]
         IN  o \in StConns /\ Len(o.outbox) = 0 /\ o.phase = "opening"
<1>1. <<>> \in Seq(StEvents) /\ Len(<<>>) = 0
  OBVIOUS
<1> QED BY <1>1 DEF NoConn, StConns

(* Queueing an event on a connection with room.                            *)
LEMMA StQueue ==
  ASSUME StFits, NEW e, e \in StEvents, Len(current.outbox) < OutCap
  PROVE  LET q == Queue(e)
         IN  /\ q \in StConns /\ Len(q.outbox) =< OutCap
             /\ q.phase = current.phase /\ q.replay = current.replay /\ q.since = current.since
             /\ q.had = current.had \union {e} /\ q.aborted = current.aborted
<1>1. /\ current.outbox \in Seq(StEvents) /\ current.had \in SUBSET StEvents
      /\ Len(current.outbox) \in Nat
  BY DEF StFits, StConns
<1>2. /\ Append(current.outbox, e) \in Seq(StEvents)
      /\ Len(Append(current.outbox, e)) = Len(current.outbox) + 1
  BY <1>1
<1>3. Len(Append(current.outbox, e)) =< OutCap
  BY <1>1, <1>2, OutCapAssumption
<1>4. current.had \union {e} \in SUBSET StEvents
  BY <1>1
<1> QED BY <1>2, <1>3, <1>4 DEF Queue, StFits, StConns

(* A Send leaves a connection as it was, adds the event to it, or ends it. *)
LEMMA StDeposit ==
  ASSUME StFits, NEW e, e \in StEvents, Deposit(e)
  PROVE  /\ StFits'
         /\ \/ current' = current /\ ~Up
            \/ current' = NoConn
            \/ /\ current'.phase = current.phase /\ current'.replay = current.replay
               /\ current'.since = current.since /\ current'.aborted = current.aborted
               /\ current'.had = current.had \union {e}
<1>1. Len(current.outbox) \in Nat
  BY DEF StFits, StConns
<1>2. CASE ~Up
  BY <1>2 DEF Deposit, StFits
<1>3. CASE Up /\ Len(current.outbox) < OutCap
  <2>1. current' = Queue(e)
    BY <1>1, <1>3, OutCapAssumption DEF Deposit
  <2> QED BY <1>3, <2>1, StQueue DEF StFits
<1>4. CASE Up /\ Len(current.outbox) >= OutCap
  <2>1. current' = NoConn
    BY <1>1, <1>4, OutCapAssumption DEF Deposit
  <2>2. NoConn \in StConns /\ Len(NoConn.outbox) =< OutCap
    BY StNoConn, OutCapAssumption
  <2> QED BY <2>1, <2>2 DEF StFits
<1> QED BY <1>1, <1>2, <1>3, <1>4, OutCapAssumption

(* The handler's steps keep the connection well formed.                     *)
LEMMA StHandled ==
  ASSUME LogTypeOK, NumbersAccounted, StTyped, Handler
  PROVE  /\ StFits' /\ lastId' \in Nat /\ got' \subseteq 1 .. MaxSeq /\ told' \in BOOLEAN
         /\ UNCHANGED <<logVars, sending, synced, syncing, conns, start>>
<1>1. /\ current \in StConns /\ current.outbox \in Seq(StEvents) /\ Len(current.outbox) \in Nat
      /\ Len(current.outbox) =< OutCap /\ current.replay \subseteq 1 .. MaxSeq
      /\ lastId \in Nat /\ got \subseteq 1 .. MaxSeq /\ told \in BOOLEAN
  BY DEF StTyped, StFits, StConns
<1>2. CASE Replay
  <2>1. Since(current.since, Cap).events \subseteq 1 .. MaxSeq
    <3>1. Logged \subseteq 1 .. counter /\ counter \in 0 .. MaxSeq
      BY DEF NumbersAccounted, StTyped
    <3>2. Since(current.since, Cap).events = {s \in Logged : s > current.since}
      BY LgSinceAny
    <3>3. Since(current.since, Cap).events \subseteq Logged
      BY <3>2
    <3>4. 1 .. counter \subseteq 1 .. MaxSeq
      BY <3>1, BoundAssumption
    <3> QED BY <3>1, <3>3, <3>4
  <2>2. PICK o : /\ o = IF /\ current.since # 0 /\ Since(current.since, Cap).truncated
                           /\ Len(current.outbox) < OutCap
                        THEN Append(current.outbox, Overflow) ELSE current.outbox
    OBVIOUS
  <2>3. o \in Seq(StEvents) /\ Len(o) =< OutCap
    <3>1. /\ Append(current.outbox, Overflow) \in Seq(StEvents)
          /\ Len(Append(current.outbox, Overflow)) = Len(current.outbox) + 1
      BY <1>1, StEventsAre
    <3> QED BY <2>2, <1>1, <3>1, OutCapAssumption
  <2>4. PICK r : r = IF current.since = 0 THEN {} ELSE Since(current.since, Cap).events
    OBVIOUS
  <2>5. r \subseteq 1 .. MaxSeq
    BY <2>1, <2>4
  <2>6. current' = [current EXCEPT !.phase = "replaying", !.replay = r, !.outbox = o]
    BY <1>2, <2>2, <2>4 DEF Replay, ReplayFrom
  <2>7. current' \in StConns /\ current'.outbox = o
    BY <1>1, <2>3, <2>5, <2>6 DEF StConns
  <2> QED BY <1>1, <1>2, <2>3, <2>7 DEF Replay, StFits
<1>3. CASE ReplaySend
  <2>1. PICK n : n = CHOOSE m \in current.replay : \A k \in current.replay : m =< k
    OBVIOUS
  <2>2. current' = IF Len(current.outbox) < OutCap
                   THEN [Queue(Event("log", n)) EXCEPT !.replay = @ \ {n}]
                   ELSE [current EXCEPT !.replay = {}, !.aborted = TRUE]
    BY <1>3, <2>1 DEF ReplaySend
  <2>3. n \in current.replay
    <3>1. current.replay # {} /\ current.replay \subseteq Nat
      BY <1>1, <1>3 DEF ReplaySend
    <3> QED BY <2>1, <3>1, LeastNumber
  <2>4. CASE Len(current.outbox) < OutCap
    <3>1. PICK q : q = Queue(Event("log", n))
      OBVIOUS
    <3>2. Event("log", n) \in StEvents
      BY <2>3, <1>1, StEventsAre
    <3>3. q \in StConns /\ Len(q.outbox) =< OutCap
      BY <2>4, <3>1, <3>2, StQueue DEF StTyped
    <3>4. current' = [q EXCEPT !.replay = @ \ {n}]
      BY <2>2, <2>4, <3>1
    <3>5. current' \in StConns /\ current'.outbox = q.outbox
      BY <3>3, <3>4 DEF StConns
    <3> QED BY <1>1, <1>3, <3>3, <3>5 DEF ReplaySend, StFits
  <2>5. CASE ~(Len(current.outbox) < OutCap)
    <3>1. current' = [current EXCEPT !.replay = {}, !.aborted = TRUE]
      BY <2>2, <2>5
    <3>2. current' \in StConns /\ current'.outbox = current.outbox
      BY <1>1, <3>1 DEF StConns
    <3> QED BY <1>1, <1>3, <3>2 DEF ReplaySend, StFits
  <2> QED BY <2>4, <2>5
<1>4. CASE ReplayDone
  <2>1. current' = [current EXCEPT !.phase = "live"]
    BY <1>4 DEF ReplayDone
  <2>2. current' \in StConns /\ current'.outbox = current.outbox
    BY <1>1, <2>1 DEF StConns
  <2> QED BY <1>1, <1>4, <2>2 DEF ReplayDone, StFits
<1>5. CASE Deliver
  <2>1. /\ Head(current.outbox) \in StEvents
        /\ Tail(current.outbox) \in Seq(StEvents)
        /\ Len(Tail(current.outbox)) = Len(current.outbox) - 1
    BY <1>1, <1>5 DEF Deliver
  <2>2. current' = [current EXCEPT !.outbox = Tail(current.outbox)]
    BY <1>5 DEF Deliver
  <2>3. current' \in StConns /\ current'.outbox = Tail(current.outbox)
    BY <1>1, <2>1, <2>2 DEF StConns
  <2>4. StFits'
    BY <1>1, <2>1, <2>3, OutCapAssumption DEF StFits
  <2>5. PICK e : e = Head(current.outbox)
    OBVIOUS
  <2>6. /\ e \in StEvents
        /\ lastId' = IF e.kind = "overflow" THEN lastId ELSE e.id
        /\ got' = IF e.kind = "log" THEN got \union {e.id} ELSE got
        /\ told' = (told \/ e.kind = "overflow")
    BY <1>5, <2>1, <2>5 DEF Deliver
  <2>7. /\ e.kind = "log" => e.id \in 1 .. MaxSeq
        /\ e.kind # "overflow" => e.id \in Nat
    BY <2>6, StEventsAre
  <2>8. lastId' \in Nat /\ got' \subseteq 1 .. MaxSeq
    BY <2>6, <2>7, <1>1
  <2>9. told' \in BOOLEAN
    BY <2>6
  <2> QED BY <1>5, <2>4, <2>8, <2>9 DEF Deliver
<1> QED BY <1>2, <1>3, <1>4, <1>5 DEF Handler

(* The log's part of a step of the stream.                                 *)
LEMMA StLogStep ==
  ASSUME [StreamNext]_streamVars
  PROVE  [LogNext]_logVars
<1>1. CASE UNCHANGED streamVars
  BY <1>1 DEF streamVars
<1>2. CASE \E p \in Producers : BroadcastNumber(p) \/ BroadcastStamp(p) \/ BroadcastLog(p)
  BY <1>2 DEF BroadcastNumber, BroadcastStamp, BroadcastLog, LogNext
<1>3. CASE LogTime
  BY <1>3 DEF LogTime, LogNext
<1>4. CASE \E p \in Producers : SendLogged(p)
  BY <1>4 DEF SendLogged
<1>5. CASE SyncAppend \/ (\E n \in syncing : SyncBroadcast(n)) \/ Connect \/ Disconnect
  BY <1>5 DEF SyncAppend, SyncBroadcast, Connect, Disconnect
<1>6. CASE Handler
  BY <1>6 DEF Handler, Replay, ReplaySend, ReplayDone, Deliver
<1> QED BY <1>1, <1>2, <1>3, <1>4, <1>5, <1>6 DEF StreamNext, Producer

(* A log step keeps what was given up, and a number is drawn within bounds. *)
LEMMA StLogged ==
  ASSUME LogTypeOK, counter \in 0 .. MaxSeq, [LogNext]_logVars
  PROVE  /\ evicted \subseteq evicted' /\ pruned \subseteq pruned'
         /\ counter' \in 0 .. MaxSeq
<1> USE BoundAssumption
<1>1. CASE \E p \in Producers : NextSeq(p)
  BY <1>1 DEF NextSeq, LogTypeOK
<1>2. CASE \E p \in Producers : Stamp(p)
  BY <1>2 DEF Stamp
<1>3. CASE \E p \in Producers : RingAppend(p)
  BY <1>3 DEF RingAppend, RingInsert, RingEvict, Store
<1>4. CASE Prune \/ Tick
  BY <1>4 DEF Prune, Sweep, Tick
<1>5. CASE UNCHANGED logVars
  BY <1>5 DEF logVars
<1> QED BY <1>1, <1>2, <1>3, <1>4, <1>5 DEF LogNext

(* A number held by a call was drawn.                                      *)
LEMMA StHeldDrawn ==
  ASSUME NumbersAccounted, StTyped, NEW p \in Producers, call[p].at # "idle"
  PROVE  call[p].seq \in 1 .. counter /\ call[p].seq \in 0 .. MaxSeq
<1>1. call[p].seq \in Held
  BY DEF Held
<1> QED BY <1>1, BoundAssumption DEF NumbersAccounted, StTyped

(* The types of the stream.                                                *)
LEMMA StTypedStep ==
  ASSUME LogTypeOK, NumbersAccounted, StTyped, [StreamNext]_streamVars
  PROVE  StTyped'
<1>1. counter' \in 0 .. MaxSeq
  BY StLogStep, StLogged DEF StTyped
<1>2. CASE UNCHANGED stream
  BY <1>1, <1>2 DEF StTyped, StFits, stream
<1>3. ASSUME NEW p \in Producers, BroadcastLog(p) PROVE StTyped'
  <2>1. call[p].at # "idle"
    BY <1>3 DEF BroadcastLog, RingAppend, RingInsert, RingEvict, Store
  <2>2. /\ sending' = [sending EXCEPT ![p] = call[p].seq]
        /\ UNCHANGED <<synced, syncing, current, conns, lastId, got, start, told>>
    BY <1>3 DEF BroadcastLog
  <2>3. sending' \in [Producers -> 0 .. MaxSeq]
    BY <2>1, <2>2, StHeldDrawn DEF StTyped
  <2> QED BY <1>1, <2>2, <2>3 DEF StTyped, StFits
<1>4. ASSUME NEW p \in Producers, SendLogged(p) PROVE StTyped'
  <2>1. sending[p] \in 1 .. MaxSeq /\ sending' = [sending EXCEPT ![p] = 0]
    BY <1>4, BoundAssumption DEF SendLogged, StTyped
  <2>2. sending' \in [Producers -> 0 .. MaxSeq]
    BY <2>1, BoundAssumption DEF StTyped
  <2>3. PICK e : e = Event("log", sending[p])
    OBVIOUS
  <2>4. e \in StEvents
    BY <2>1, <2>3, StEventsAre
  <2>5. Deposit(e)
    BY <1>4, <2>3 DEF SendLogged
  <2>6. StFits'
    BY <2>4, <2>5, StDeposit DEF StTyped
  <2> QED BY <1>1, <1>4, <2>2, <2>6 DEF StTyped, SendLogged
<1>5. CASE SyncAppend
  <2>1. synced' \in 0 .. MaxSync /\ syncing' \subseteq 1 .. synced'
    BY <1>5, StreamBoundAssumption DEF SyncAppend, StTyped
  <2> QED BY <1>1, <1>5, <2>1 DEF SyncAppend, StTyped, StFits
<1>6. ASSUME NEW n \in syncing, SyncBroadcast(n) PROVE StTyped'
  <2>1. n \in Nat /\ syncing' \subseteq 1 .. synced
    BY <1>6 DEF SyncBroadcast, StTyped
  <2>2. PICK e : e = Event("sync", n)
    OBVIOUS
  <2>3. e \in StEvents
    BY <2>1, <2>2, StEventsAre
  <2>4. Deposit(e)
    BY <1>6, <2>2 DEF SyncBroadcast
  <2>5. StFits'
    BY <2>3, <2>4, StDeposit DEF StTyped
  <2> QED BY <1>1, <1>6, <2>1, <2>5 DEF StTyped, SyncBroadcast
<1>7. CASE Connect
  <2>1. StFits'
    <3>1. PICK o : o = [NoConn EXCEPT !.phase = "opening", !.since = lastId]
      OBVIOUS
    <3>2. o \in StConns /\ Len(o.outbox) = 0
      BY <3>1, StOpening DEF StTyped
    <3>3. current' = o
      BY <1>7, <3>1 DEF Connect
    <3> QED BY <3>2, <3>3, OutCapAssumption DEF StFits
  <2>2. conns' \in 0 .. MaxConns /\ start' \in 0 .. MaxSeq
    BY <1>7, StreamBoundAssumption DEF Connect, StTyped
  <2> QED BY <1>1, <1>7, <2>1, <2>2 DEF Connect, StTyped
<1>8. CASE Disconnect
  <2>1. StFits'
    <3>1. NoConn \in StConns /\ Len(NoConn.outbox) =< OutCap
      BY StNoConn, OutCapAssumption
    <3> QED BY <1>8, <3>1 DEF Disconnect, StFits
  <2> QED BY <1>1, <1>8, <2>1 DEF Disconnect, StTyped
<1>9. CASE Handler
  <2>1. /\ StFits' /\ lastId' \in Nat /\ got' \subseteq 1 .. MaxSeq /\ told' \in BOOLEAN
        /\ UNCHANGED <<logVars, sending, synced, syncing, conns, start>>
    BY <1>9, StHandled
  <2> QED BY <1>1, <2>1 DEF StTyped
<1> QED BY <1>2, <1>3, <1>4, <1>5, <1>6, <1>7, <1>8, <1>9
        DEF StreamNext, Producer, BroadcastNumber, BroadcastStamp, LogTime, streamVars, stream

(* What the phases of Append do to the calls and to what is to be sent.     *)
LEMMA StPendingStep ==
  ASSUME LogTypeOK, StTyped, StPending, [StreamNext]_streamVars
  PROVE  StPending'
<1>1. ASSUME NEW p \in Producers, BroadcastNumber(p) PROVE StPending'
  BY <1>1 DEF BroadcastNumber, NextSeq, stream, StPending, LogTypeOK
<1>2. ASSUME NEW p \in Producers, BroadcastStamp(p) PROVE StPending'
  BY <1>2 DEF BroadcastStamp, Stamp, stream, StPending, LogTypeOK
<1>3. ASSUME NEW p \in Producers, BroadcastLog(p) PROVE StPending'
  BY <1>3 DEF BroadcastLog, RingAppend, RingInsert, RingEvict, Store, StPending, LogTypeOK, StTyped, Idle
<1>4. ASSUME NEW p \in Producers, SendLogged(p) PROVE StPending'
  BY <1>4 DEF SendLogged, logVars, StPending, StTyped
<1>5. ASSUME UNCHANGED <<call, sending>> PROVE StPending'
  BY <1>5 DEF StPending
<1>6. CASE Handler \/ Connect \/ Disconnect \/ SyncAppend \/ (\E n \in syncing : SyncBroadcast(n))
  BY <1>5, <1>6 DEF Handler, Replay, ReplaySend, ReplayDone, Deliver, Connect, Disconnect, SyncAppend,
       SyncBroadcast, logVars
<1>7. CASE LogTime \/ UNCHANGED streamVars
  BY <1>5, <1>7 DEF LogTime, Prune, Sweep, Tick, stream, streamVars, logVars
<1> QED BY <1>1, <1>2, <1>3, <1>4, <1>6, <1>7 DEF StreamNext, Producer

(* The Broadcast of a number returns only by its Send.                     *)
LEMMA StSentStep ==
  ASSUME LogTypeOK, NumbersAccounted, StTyped, StPending, [StreamNext]_streamVars, NEW n \in Sent'
  PROVE  n \in Sent \/ \E p \in Producers : SendLogged(p) /\ n = sending[p]
<1>1. /\ n \in 1 .. counter' /\ n \notin Held' /\ \A p \in Producers : sending'[p] # n
  BY DEF Sent
<1>2. /\ \A s : s \in Held' <=> \E p \in Producers : call'[p].at # "idle" /\ call'[p].seq = s
      /\ \A s : s \in Held <=> \E p \in Producers : call[p].at # "idle" /\ call[p].seq = s
  BY DEF Held
<1>3. counter \in Nat /\ call \in [Producers -> Call]
  BY DEF LogTypeOK
<1>4. ASSUME UNCHANGED <<counter, call, sending>> PROVE n \in Sent
  BY <1>1, <1>4 DEF Sent, Held
<1>5. ASSUME NEW p \in Producers, BroadcastNumber(p) PROVE n \in Sent
  <2>1. /\ counter' = counter + 1 /\ sending' = sending /\ call[p].at = "idle"
        /\ call' = [call EXCEPT ![p] = [at |-> "numbered", seq |-> counter + 1, ts |-> 0]]
    BY <1>5 DEF BroadcastNumber, NextSeq, stream
  <2>2. /\ call'[p].at = "numbered" /\ call'[p].seq = counter + 1
        /\ \A q \in Producers : q # p => call'[q] = call[q]
    BY <2>1, <1>3
  <2>3. n # counter + 1
    BY <1>1, <1>2, <2>2
  <2>4. n \in 1 .. counter
    BY <1>1, <2>1, <2>3, <1>3
  <2>5. n \notin Held
    BY <1>1, <1>2, <2>1, <2>2
  <2> QED BY <1>1, <2>1, <2>4, <2>5 DEF Sent
<1>6. ASSUME NEW p \in Producers, BroadcastStamp(p) PROVE n \in Sent
  <2>1. /\ counter' = counter /\ sending' = sending
        /\ \A q \in Producers : call'[q].seq = call[q].seq /\ (call'[q].at = "idle" <=> call[q].at = "idle")
    BY <1>6, <1>3 DEF BroadcastStamp, Stamp, stream, Call
  <2>2. n \notin Held
    BY <1>1, <1>2, <2>1
  <2> QED BY <1>1, <2>1, <2>2 DEF Sent
<1>7. ASSUME NEW p \in Producers, BroadcastLog(p) PROVE n \in Sent
  <2>1. /\ counter' = counter /\ sending' = [sending EXCEPT ![p] = call[p].seq]
        /\ call' = [call EXCEPT ![p] = Idle] /\ call[p].at # "idle"
    BY <1>7 DEF BroadcastLog, RingAppend, RingInsert, RingEvict, Store
  <2>2. /\ sending'[p] = call[p].seq /\ sending[p] = 0
        /\ \A q \in Producers : q # p => sending'[q] = sending[q] /\ call'[q] = call[q]
    BY <2>1, <1>3 DEF StTyped, StPending
  <2>3. n \notin Held
    BY <1>1, <1>2, <2>2
  <2>4. \A q \in Producers : sending[q] # n
    BY <1>1, <2>2
  <2> QED BY <1>1, <2>1, <2>3, <2>4 DEF Sent
<1>8. ASSUME NEW p \in Producers, SendLogged(p) PROVE n \in Sent \/ n = sending[p]
  <2>1. /\ UNCHANGED <<counter, call>>
        /\ \A q \in Producers : q # p => sending'[q] = sending[q]
    BY <1>8 DEF SendLogged, logVars, StTyped
  <2>2. n \in 1 .. counter /\ n \notin Held
    BY <1>1, <1>2, <2>1
  <2> QED BY <1>1, <2>1, <2>2 DEF Sent
<1>9. CASE Handler \/ Connect \/ Disconnect \/ SyncAppend \/ (\E m \in syncing : SyncBroadcast(m))
  BY <1>4, <1>9 DEF Handler, Replay, ReplaySend, ReplayDone, Deliver, Connect, Disconnect, SyncAppend,
       SyncBroadcast, logVars
<1>10. CASE LogTime \/ UNCHANGED streamVars
  BY <1>4, <1>10 DEF LogTime, Prune, Sweep, Tick, stream, streamVars, logVars
<1> QED BY <1>5, <1>6, <1>7, <1>8, <1>9, <1>10 DEF StreamNext, Producer

(* A connection that goes on keeps its since, what it had and what it has   *)
(* to replay, or has it after all.                                         *)
LEMMA StCoveredKept ==
  ASSUME NumbersAccounted, StCovered,
         \A n \in Sent' : n \in Sent \/ Event("log", n) \in current'.had,
         evicted \subseteq evicted', pruned \subseteq pruned',
         current'.phase \in {"replaying", "live"} /\ ~current'.aborted =>
           /\ current.phase \in {"replaying", "live"} /\ ~current.aborted
           /\ current'.since = current.since /\ current.had \subseteq current'.had
           /\ \A n \in current.replay : n \in current'.replay \/ Event("log", n) \in current'.had
  PROVE  StCovered'
<1> SUFFICES ASSUME current'.phase \in {"replaying", "live"}, ~current'.aborted, current'.since # 0,
                    NEW n \in Sent', n > current'.since, n \notin evicted' \union pruned'
             PROVE  Event("log", n) \in current'.had \/ n \in current'.replay
  BY DEF StCovered
<1>1. n \notin evicted \union pruned /\ current.since # 0 /\ n > current.since
  OBVIOUS
<1>2. CASE n \in Sent
  BY <1>1, <1>2 DEF StCovered
<1> QED BY <1>2

(* A Send of e, whoever's: a connection that goes on has it.               *)
LEMMA StSends ==
  ASSUME NumbersAccounted, StTyped, StPhases, StCovered, NEW e, e \in StEvents, Deposit(e),
         evicted \subseteq evicted', pruned \subseteq pruned',
         \A n \in Sent' : n \in Sent \/ Event("log", n) = e
  PROVE  StPhases' /\ StCovered'
<1>1. \/ current' = current /\ ~Up
      \/ current' = NoConn
      \/ /\ current'.phase = current.phase /\ current'.replay = current.replay
         /\ current'.since = current.since /\ current'.aborted = current.aborted
         /\ current'.had = current.had \union {e}
  BY StDeposit DEF StTyped
<1>2. CASE current' = current /\ ~Up
  BY <1>2 DEF Up, StPhases, StCovered
<1>3. CASE current' = NoConn
  BY <1>3, StNoConn DEF StPhases, StCovered
<1>4. CASE /\ current'.phase = current.phase /\ current'.replay = current.replay
           /\ current'.since = current.since /\ current'.aborted = current.aborted
           /\ current'.had = current.had \union {e}
  <2>1. StPhases'
    BY <1>4 DEF StPhases
  <2>2. \A n \in Sent' : n \in Sent \/ Event("log", n) \in current'.had
    BY <1>4
  <2>3. current.had \subseteq current'.had
    BY <1>4
  <2> QED BY <1>4, <2>1, <2>2, <2>3, StCoveredKept
<1> QED BY <1>1, <1>2, <1>3, <1>4

(* The handler's steps.                                                    *)
LEMMA StHandles ==
  ASSUME LogTypeOK, NumbersAccounted, StTyped, StPhases, StCovered, Handler
  PROVE  StPhases' /\ StCovered'
<1>1. /\ current \in StConns /\ Len(current.outbox) =< OutCap
      /\ UNCHANGED <<counter, call, evicted, pruned, sending>>
      /\ Sent' = Sent
  <2>1. UNCHANGED <<logVars, sending>>
    BY StHandled
  <2> QED BY <2>1 DEF logVars, Sent, Held, StTyped, StFits
<1>2. CASE Replay
  <2>1. PICK r : r = IF current.since = 0 THEN {} ELSE Since(current.since, Cap).events
    OBVIOUS
  <2>2. PICK o : current' = [current EXCEPT !.phase = "replaying", !.replay = r, !.outbox = o]
    BY <1>2, <2>1 DEF Replay, ReplayFrom
  <2>3. current'.phase = "replaying" /\ current'.replay = r /\ current'.since = current.since
    BY <1>1, <2>2 DEF StConns
  <2>4. ASSUME current.since # 0, NEW n \in Sent, n > current.since, n \notin evicted \union pruned
        PROVE  n \in r
    <3>1. n \in Logged
      BY <2>4 DEF Sent, NumbersAccounted
    <3>2. Since(current.since, Cap).events = {s \in Logged : s > current.since}
      BY LgSinceAny
    <3>3. n \in Since(current.since, Cap).events
      BY <2>4, <3>1, <3>2
    <3> QED BY <2>1, <2>4, <3>3
  <2> QED BY <1>1, <2>3, <2>4 DEF StPhases, StCovered
<1>3. CASE ReplaySend
  <2>1. PICK n : n = CHOOSE m \in current.replay : \A k \in current.replay : m =< k
    OBVIOUS
  <2>2. /\ current.phase = "replaying"
        /\ current' = IF Len(current.outbox) < OutCap
                      THEN [Queue(Event("log", n)) EXCEPT !.replay = @ \ {n}]
                      ELSE [current EXCEPT !.replay = {}, !.aborted = TRUE]
    BY <1>3, <2>1 DEF ReplaySend
  <2>3. n \in current.replay /\ n \in 1 .. MaxSeq
    <3>1. current.replay # {} /\ current.replay \subseteq Nat /\ current.replay \subseteq 1 .. MaxSeq
      BY <1>1, <1>3 DEF ReplaySend, StConns
    <3> QED BY <2>1, <3>1, LeastNumber
  <2>4. CASE Len(current.outbox) < OutCap
    <3>1. PICK q : q = Queue(Event("log", n))
      OBVIOUS
    <3>2. Event("log", n) \in StEvents
      BY <2>3, StEventsAre
    <3>3. /\ q \in StConns /\ q.phase = current.phase /\ q.replay = current.replay
          /\ q.since = current.since /\ q.had = current.had \union {Event("log", n)}
          /\ q.aborted = current.aborted
      BY <2>4, <3>1, <3>2, StQueue DEF StTyped
    <3>4. current' = [q EXCEPT !.replay = @ \ {n}]
      BY <2>2, <2>4, <3>1
    <3>5. /\ current'.phase = q.phase /\ current'.replay = q.replay \ {n} /\ current'.since = q.since
          /\ current'.had = q.had /\ current'.aborted = q.aborted
      BY <3>3, <3>4 DEF StConns
    <3>6. StPhases'
      BY <2>2, <3>3, <3>5 DEF StPhases
    <3>7. /\ \A m \in Sent' : m \in Sent \/ Event("log", m) \in current'.had
          /\ current.had \subseteq current'.had
          /\ \A m \in current.replay : m \in current'.replay \/ Event("log", m) \in current'.had
      BY <1>1, <3>3, <3>5
    <3> QED BY <1>1, <3>3, <3>5, <3>6, <3>7, StCoveredKept
  <2>5. CASE ~(Len(current.outbox) < OutCap)
    <3>1. current' = [current EXCEPT !.replay = {}, !.aborted = TRUE]
      BY <2>2, <2>5
    <3>2. current'.aborted = TRUE /\ current'.replay = {}
      BY <1>1, <3>1 DEF StConns
    <3> QED BY <3>2 DEF StPhases, StCovered
  <2> QED BY <2>4, <2>5
<1>4. CASE ReplayDone \/ Deliver
  <2>1. /\ current'.since = current.since /\ current'.had = current.had
        /\ current'.replay = current.replay /\ current'.aborted = current.aborted
        /\ \/ current.phase = "replaying" /\ current.replay = {} /\ current'.phase = "live"
           \/ current'.phase = current.phase
    BY <1>1, <1>4 DEF ReplayDone, Deliver, StConns
  <2>2. StPhases'
    BY <2>1 DEF StPhases
  <2>3. /\ \A m \in Sent' : m \in Sent \/ Event("log", m) \in current'.had
        /\ current.had \subseteq current'.had
        /\ \A m \in current.replay : m \in current'.replay \/ Event("log", m) \in current'.had
    BY <1>1, <2>1
  <2> QED BY <1>1, <2>1, <2>2, <2>3, StCoveredKept
<1> QED BY <1>2, <1>3, <1>4 DEF Handler

LEMMA StCoveredStep ==
  ASSUME LogTypeOK, NumbersAccounted, StTyped, StPending, StPhases, StCovered,
         [StreamNext]_streamVars
  PROVE  StPhases' /\ StCovered'
<1>1. evicted \subseteq evicted' /\ pruned \subseteq pruned'
  BY StLogStep, StLogged DEF StTyped
<1>2. \A n \in Sent' : n \in Sent \/ \E p \in Producers : SendLogged(p) /\ n = sending[p]
  BY StSentStep
<1>3. ASSUME current' = current, \A p \in Producers : ~SendLogged(p) PROVE StPhases' /\ StCovered'
  BY <1>1, <1>2, <1>3, StCoveredKept DEF StPhases
<1>4. ASSUME NEW p \in Producers, SendLogged(p) PROVE StPhases' /\ StCovered'
  <2>1. PICK e : e = Event("log", sending[p])
    OBVIOUS
  <2>2. sending[p] \in 1 .. MaxSeq
    BY <1>4, BoundAssumption DEF SendLogged, StTyped
  <2>3. e \in StEvents
    BY <2>1, <2>2, StEventsAre
  <2>4. Deposit(e)
    BY <1>4, <2>1 DEF SendLogged
  <2>5. \A n \in Sent' : n \in Sent \/ n = sending[p]
    <3>1. /\ UNCHANGED <<counter, call>>
          /\ \A q \in Producers : q # p => sending'[q] = sending[q]
      BY <1>4 DEF SendLogged, logVars, StTyped
    <3> QED BY <3>1 DEF Sent, Held
  <2> QED BY <1>1, <2>1, <2>3, <2>4, <2>5, StSends
<1>5. ASSUME NEW n \in syncing, SyncBroadcast(n), \A p \in Producers : ~SendLogged(p)
      PROVE  StPhases' /\ StCovered'
  <2>1. PICK e : e = Event("sync", n)
    OBVIOUS
  <2>2. n \in Nat
    BY <1>5 DEF StTyped
  <2>3. e \in StEvents
    BY <2>1, <2>2, StEventsAre
  <2>4. Deposit(e)
    BY <1>5, <2>1 DEF SyncBroadcast
  <2> QED BY <1>1, <1>2, <1>5, <2>3, <2>4, StSends
<1>6. CASE Connect \/ Disconnect
  <2>1. current'.phase \in {"none", "opening"}
    BY <1>6, StNoConn, StOpening DEF Connect, Disconnect, StTyped
  <2> QED BY <2>1 DEF StPhases, StCovered
<1>7. CASE Handler
  BY <1>7, StHandles
<1>8. CASE \E p \in Producers : SendLogged(p)
  BY <1>4, <1>8
<1>9. CASE ~(\E p \in Producers : SendLogged(p))
  <2>1. CASE SyncAppend \/ LogTime \/ UNCHANGED streamVars
           \/ \E p \in Producers : BroadcastNumber(p) \/ BroadcastStamp(p) \/ BroadcastLog(p)
    BY <1>3, <1>9, <2>1 DEF SyncAppend, LogTime, BroadcastNumber, BroadcastStamp, BroadcastLog,
         stream, streamVars
  <2> QED BY <1>5, <1>6, <1>7, <1>9, <2>1 DEF StreamNext, Producer
<1> QED BY <1>8, <1>9

LEMMA StStart == ASSUME StreamInit PROVE LogInit /\ StTyped /\ StPending /\ StPhases /\ StCovered
<1>1. LogInit /\ current = NoConn
  BY DEF StreamInit
<1>2. StTyped
  <2>1. StFits
    <3>1. NoConn \in StConns /\ Len(NoConn.outbox) =< OutCap
      BY StNoConn, OutCapAssumption
    <3> QED BY <1>1, <3>1 DEF StFits
  <2>2. sending \in [Producers -> 0 .. MaxSeq] /\ counter \in 0 .. MaxSeq /\ start \in 0 .. MaxSeq
    BY BoundAssumption DEF StreamInit, LogInit
  <2>3. synced \in 0 .. MaxSync /\ syncing \subseteq 1 .. synced /\ conns \in 0 .. MaxConns
    BY StreamBoundAssumption DEF StreamInit
  <2>4. lastId \in Nat /\ got \subseteq 1 .. MaxSeq /\ told \in BOOLEAN
    BY DEF StreamInit
  <2> QED BY <2>1, <2>2, <2>3, <2>4 DEF StTyped
<1>3. StPhases /\ StCovered
  BY <1>1, StNoConn DEF StPhases, StCovered
<1> QED BY <1>1, <1>2, <1>3 DEF StPending, LogInit, Idle

(* The stream's log is the log.                                            *)
THEOREM StreamImplementsLog == StreamSpec => LogSpec
<1>1. StreamInit => LogInit
  BY DEF StreamInit
<1>2. [StreamNext]_streamVars => [LogNext]_logVars
  BY StLogStep
<1> QED BY <1>1, <1>2, PTL DEF StreamSpec, LogSpec

(* The invariant of one browser's stream, for any producers, ring and      *)
(* outbox capacities, retention and numbers of events and connections.      *)
THEOREM StreamInvariant == StreamSpec => []StInv
<1>1. StreamInit => StTyped /\ StPending /\ StPhases /\ StCovered
  BY StStart
<1>2. LogTypeOK /\ NumbersAccounted /\ (StTyped /\ StPending /\ StPhases /\ StCovered)
        /\ [StreamNext]_streamVars
      => (StTyped /\ StPending /\ StPhases /\ StCovered)'
  BY StTypedStep, StPendingStep, StCoveredStep
<1>3. StreamSpec => []LogTypeOK /\ []NumbersAccounted
  BY StreamImplementsLog, LogTypeCorrect, NumbersAccountedAlways, PTL
<1>4. (LogTypeOK /\ NumbersAccounted /\ (StTyped /\ StPending /\ StPhases /\ StCovered)) => StInv
  BY DEF StInv
<1> QED BY <1>1, <1>2, <1>3, <1>4, PTL DEF StreamSpec

(* NoGapBetweenReplayAndLive: the hub subscribes a browser before it reads  *)
(* the log, so a live connection has had every event since its last id     *)
(* whose Broadcast returned and that the log still had.                    *)
THEOREM NoGapAlways == StreamSpec => []NoGapBetweenReplayAndLive
<1>1. StInv => NoGapBetweenReplayAndLive
  BY DEF StInv, StPhases, StCovered, NoGapBetweenReplayAndLive
<1> QED BY <1>1, StreamInvariant, PTL

=============================================================================
