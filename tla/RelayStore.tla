----------------------------- MODULE RelayStore -----------------------------
(***************************************************************************)
(* The transport relay and the health of transports.  Senders post events   *)
(* for a peer, a bounded queue keeps them, the peer polls over HTTP.  Both   *)
(* answers can be lost, and a sender that gets none posts again.  Beside it *)
(* runs the monitor that counts health checks, while a failed send marks    *)
(* the transport degraded at once.                                          *)
(***************************************************************************)
EXTENDS Integers, Sequences, FiniteSets, SequencesExt

CONSTANTS
    RelayEvents,     \* ids of the events senders post
    RelayCapacity,   \* s.capacity
    MaxPosts,        \* bound: times an event is posted
    UpThreshold,     \* ts.upThreshold
    DownThreshold    \* ts.downThreshold

ASSUME RelayAssumption == RelayCapacity \in Nat \ {0} /\ UpThreshold \in Nat \ {0} /\ DownThreshold \in Nat \ {0}

VARIABLES
    posted,          \* event -> times it was posted
    accepted,        \* events some post was answered 202 for
    items,           \* q.items
    order,           \* q.order; q.seen holds the same ids
    answer,          \* the poll answer on its way, or <<>>
    delivered,       \* event -> times the peer received it
    gone,            \* events lost with a poll answer, overflow or shutdown
    forgotten,       \* ids that have left the window
    relayClosed,     \* s.closed
    checks,          \* h.counters of the transport
    healthy,         \* ts.health of the transport
    checking,        \* where Check stands and the flag it read
    lastEvent,       \* the last degradation event: is it degraded?
    streak           \* health checks passed in a row since the last failure or mark

storeVars == <<posted, accepted, items, order, answer, delivered, gone, forgotten, relayClosed>>
healthVars == <<checks, healthy, checking, lastEvent, streak>>
relayStoreVars == <<storeVars, healthVars>>

seen == Range(order)

RelayStoreInit ==
    /\ posted = [e \in RelayEvents |-> 0] /\ accepted = {} /\ items = <<>> /\ order = <<>>
    /\ answer = <<>> /\ delivered = [e \in RelayEvents |-> 0] /\ gone = {} /\ forgotten = {} /\ relayClosed = FALSE
    /\ checks = [successes |-> 0, failures |-> 0] /\ healthy = TRUE /\ lastEvent = FALSE
    /\ checking = [pc |-> "idle", was |-> TRUE] /\ streak = 0

-----------------------------------------------------------------------------
(* The queue of a peer *)

\* A list at its capacity loses its oldest element.
Push(list, e) == IF Len(list) = RelayCapacity THEN Append(Tail(list), e) ELSE Append(list, e)

\* Mutant of StoreEnqueue: only ids still queued are duplicates.
EnqueueQueuedOnly(e) ==
    IF e \in Range(items) THEN UNCHANGED <<items, order, gone, forgotten>>
    ELSE /\ order' = Push(order, e) /\ items' = Push(items, e)
         /\ gone' = (gone \ {e}) \cup (Range(items) \ Range(items'))
         /\ forgotten' = forgotten \cup (Range(order) \ Range(order'))

\* An id of the window is a duplicate and dropped.
StoreEnqueue(e) ==
    IF e \in seen THEN UNCHANGED <<items, order, gone, forgotten>>
    ELSE /\ order' = Push(order, e) /\ items' = Push(items, e)
         /\ gone' = (gone \ {e}) \cup (Range(items) \ Range(items'))
         /\ forgotten' = forgotten \cup (Range(order) \ Range(order'))

\* The sender learns of the answer or, when it is lost, may post again.
Post(e) ==
    /\ posted[e] < MaxPosts
    /\ posted' = [posted EXCEPT ![e] = @ + 1]
    /\ IF relayClosed THEN UNCHANGED <<items, order, gone, forgotten, accepted>>
       ELSE StoreEnqueue(e) /\ accepted' = accepted \cup {e}
    /\ UNCHANGED <<answer, delivered, relayClosed>>

\* Poll empties the queue before the answer is written.
Poll ==
    /\ answer = <<>> /\ items # <<>>
    /\ answer' = items /\ items' = <<>>
    /\ UNCHANGED <<posted, accepted, order, delivered, gone, forgotten, relayClosed>>

\* Mutant of PollAnswered: the queue is emptied when the answer is written.
PollAnsweredClears ==
    /\ answer # <<>>
    /\ delivered' = [e \in RelayEvents |-> delivered[e] + (IF e \in Range(answer) THEN 1 ELSE 0)]
    /\ answer' = <<>> /\ items' = <<>>
    /\ UNCHANGED <<posted, accepted, order, gone, forgotten, relayClosed>>

\* RelayPollClient.Poll gets the whole answer.
PollAnswered ==
    /\ answer # <<>>
    /\ delivered' = [e \in RelayEvents |-> delivered[e] + (IF e \in Range(answer) THEN 1 ELSE 0)]
    /\ answer' = <<>>
    /\ UNCHANGED <<posted, accepted, items, order, gone, forgotten, relayClosed>>

\* The answer is lost; nobody keeps a copy.
PollLost ==
    /\ answer # <<>>
    /\ gone' = gone \cup Range(answer) /\ answer' = <<>>
    /\ UNCHANGED <<posted, accepted, items, order, delivered, forgotten, relayClosed>>

\* Shutdown counts and drops what is queued.
ShutdownRelay ==
    /\ ~relayClosed /\ relayClosed' = TRUE
    /\ gone' = gone \cup Range(items) /\ items' = <<>> /\ order' = <<>>
    /\ forgotten' = forgotten \cup seen
    /\ UNCHANGED <<posted, accepted, answer, delivered>>

-----------------------------------------------------------------------------
(* Health of a transport *)

\* Health is asked and counted under the monitor's lock.
CountCheck(ok) ==
    /\ checking.pc = "idle"
    /\ checks' = IF ok THEN [successes |-> Min({checks.successes + 1, UpThreshold}), failures |-> 0]
                 ELSE [successes |-> 0, failures |-> Min({checks.failures + 1, DownThreshold})]
    /\ streak' = IF ok THEN Min({streak + 1, UpThreshold}) ELSE 0
    /\ checking' = [checking EXCEPT !.pc = "read"]
    /\ UNCHANGED <<healthy, lastEvent>>

\* Then the flag is read under the selector's lock.
ReadFlag ==
    /\ checking.pc = "read" /\ checking' = [pc |-> "decide", was |-> healthy]
    /\ UNCHANGED <<checks, healthy, lastEvent, streak>>

\* Mutant of Decide: the flag is written whether or not it changed.
DecideWrites ==
    LET now == IF checking.was THEN checks.failures < DownThreshold
               ELSE checks.successes >= UpThreshold IN
    /\ checking.pc = "decide" /\ healthy' = now
    /\ checking' = [checking EXCEPT !.pc = IF now # checking.was THEN "emit" ELSE "idle", !.was = now]
    /\ UNCHANGED <<checks, lastEvent, streak>>

\* The thresholds are compared with the flag that was read; setHealthy only
\* when the verdict changed.
Decide ==
    LET now == IF checking.was THEN checks.failures < DownThreshold
               ELSE checks.successes >= UpThreshold IN
    /\ checking.pc = "decide"
    /\ healthy' = IF now # checking.was THEN now ELSE healthy
    /\ checking' = [checking EXCEPT !.pc = IF now # checking.was THEN "emit" ELSE "idle", !.was = now]
    /\ UNCHANGED <<checks, lastEvent, streak>>

EmitHealth ==
    /\ checking.pc = "emit" /\ lastEvent' = ~checking.was
    /\ checking' = [checking EXCEPT !.pc = "idle"]
    /\ UNCHANGED <<checks, healthy, streak>>

\* A failed send degrades the transport; the monitor's counters are its own.
MarkDegraded ==
    /\ healthy' = FALSE /\ lastEvent' = (lastEvent \/ healthy) /\ streak' = 0
    /\ UNCHANGED <<checks, checking>>

-----------------------------------------------------------------------------
StoreStep == (\E e \in RelayEvents : Post(e)) \/ Poll \/ PollAnswered \/ PollLost \/ ShutdownRelay

HealthStep == (\E ok \in BOOLEAN : CountCheck(ok)) \/ ReadFlag \/ Decide \/ EmitHealth \/ MarkDegraded

RelayStoreNext == (StoreStep /\ UNCHANGED healthVars) \/ (HealthStep /\ UNCHANGED storeVars)

RelayStoreSpec == RelayStoreInit /\ [][RelayStoreNext]_relayStoreVars

-----------------------------------------------------------------------------
RelayStoreTypeOK ==
    /\ Len(items) <= RelayCapacity /\ Len(order) <= RelayCapacity
    /\ accepted \cup gone \cup Range(items) \cup Range(order) \subseteq RelayEvents
    /\ checks.successes \in 0 .. UpThreshold /\ checks.failures \in 0 .. DownThreshold
    /\ checking.pc \in {"idle", "read", "decide", "emit"} /\ {healthy, lastEvent} \subseteq BOOLEAN

\* An event whose post was answered is queued, on its way, with the peer, or
\* among those an overflow, a lost answer or the shutdown took: there is no
\* other way for the relay to lose it, retries and the id window included.
RelayAccounted ==
    \A e \in accepted : e \in Range(items) \cup Range(answer) \cup gone \/ delivered[e] > 0

\* Until its id has left the window no retry makes the peer get an event twice,
\* even when the event was handed out, or lost on the way, meanwhile.
HandedOnce ==
    \A e \in RelayEvents \ forgotten :
        delivered[e] + Cardinality({i \in DOMAIN items : items[i] = e})
            + Cardinality({i \in DOMAIN answer : answer[i] = e}) <= 1

\* A check that found the transport healthy does not undo a mark that a failed
\* send made after it looked.
MarkSticks == [][~healthy /\ healthy' => ~checking.was]_relayStoreVars

\* What the specification says of recovery: three good checks in a row, all of
\* them after the transport was degraded.
HysteresisHolds == [][~healthy /\ healthy' => streak >= UpThreshold]_relayStoreVars

(***************************************************************************)
(* The relay's frame keys and its provisioning tokens.  Keys are rotated by *)
(* a timer and by hand while frames are signed; an instance is registered   *)
(* with a token that serves once.                                           *)
(***************************************************************************)

CONSTANTS
    Rotators,        \* the rotation loop and manual rotations
    Writers,         \* goroutines that sign a frame
    Registrations,   \* concurrent requests to register an instance
    Tokens,          \* provisioning tokens
    MaxKeyID         \* math.MaxUint16

ASSUME KeysAssumption == MaxKeyID \in Nat \ {0}

VARIABLES
    configKey,       \* HMACKeyID of the service's configuration
    storedKey,       \* hmac_key_id of relay_config
    keyRing,         \* the service's keys: id -> "none", "current", "grace"
    authKeys,        \* the authenticator's keys
    hubKey,          \* h.keyID, the key frames are signed with
    rotation,        \* rotator -> where it stands
    writer,          \* writer -> where it stands and the key it read
    registration,    \* request -> where it stands and its token
    usedTokens,      \* reg.usedTokens
    instances        \* token -> instances registered with it

keyVars == <<configKey, storedKey, keyRing, authKeys, hubKey, rotation, writer, registration, usedTokens, instances>>

KeyIDs == 1 .. MaxKeyID

Ring(current) == {k \in KeyIDs : current[k] # "none"}

RelayKeysInit ==
    /\ configKey = 1 /\ storedKey = 1 /\ hubKey = 1 /\ authKeys = {1}
    /\ keyRing = [k \in KeyIDs |-> IF k = 1 THEN "current" ELSE "none"]
    /\ rotation = [r \in Rotators |-> [pc |-> "idle", id |-> 0]]
    /\ writer = [w \in Writers |-> [pc |-> "idle", key |-> 0]]
    /\ registration = [g \in Registrations |-> [pc |-> "idle", token |-> "none"]]
    /\ usedTokens = {} /\ instances = [t \in Tokens |-> 0]

-----------------------------------------------------------------------------
(* Rotation *)

\* Mutant of RotateBegin: rotations by hand do not wait for the timer's.
RotateUnlocked(r) ==
    /\ rotation[r].pc = "idle" /\ configKey < MaxKeyID
    /\ rotation' = [rotation EXCEPT ![r] = [pc |-> "persist", id |-> configKey + 1]]
    /\ UNCHANGED <<configKey, storedKey, keyRing, authKeys, hubKey, writer, registration, usedTokens, instances>>

\* rotationMu is held by one rotation at a time; ids do not wrap around.
RotateBegin(r) ==
    /\ \A x \in Rotators : rotation[x].pc = "idle"
    /\ configKey < MaxKeyID
    /\ rotation' = [rotation EXCEPT ![r] = [pc |-> "persist", id |-> configKey + 1]]
    /\ UNCHANGED <<configKey, storedKey, keyRing, authKeys, hubKey, writer, registration, usedTokens, instances>>

\* The new id is stored first; without it nothing changes.
PersistHMACRotation(r) ==
    /\ rotation[r].pc = "persist"
    /\ \/ storedKey' = rotation[r].id /\ rotation' = [rotation EXCEPT ![r].pc = "install"]
       \/ rotation' = [rotation EXCEPT ![r] = [pc |-> "idle", id |-> 0]] /\ UNCHANGED storedKey
    /\ UNCHANGED <<configKey, keyRing, authKeys, hubKey, writer, registration, usedTokens, instances>>

\* Mutant of InstallKeys: the hub signs with the new key before it is known.
InstallLate(r) ==
    LET id == rotation[r].id IN
    /\ rotation[r].pc = "install"
    /\ keyRing' = [keyRing EXCEPT ![configKey] = "grace", ![id] = "current"]
    /\ hubKey' = id /\ configKey' = id
    /\ rotation' = [rotation EXCEPT ![r].pc = "switch"]
    /\ UNCHANGED <<storedKey, authKeys, writer, registration, usedTokens, instances>>

\* The ring gets the new key and keeps the old one for the grace period (a day,
\* which outlasts any writer that read the id); keys whose grace is over go.  Then the authenticator gets the whole ring.
InstallKeys(r) ==
    LET id == rotation[r].id IN
    \E expired \in SUBSET {k \in KeyIDs : keyRing[k] = "grace" /\ \A w \in Writers : writer[w].key # k} :
        /\ rotation[r].pc = "install"
        /\ keyRing' = [k \in KeyIDs |->
              IF k = id THEN "current" ELSE IF k = configKey THEN "grace"
              ELSE IF k \in expired THEN "none" ELSE keyRing[k]]
        /\ authKeys' = Ring(keyRing') /\ configKey' = id
        /\ rotation' = [rotation EXCEPT ![r].pc = "switch"]
        /\ UNCHANGED <<storedKey, hubKey, writer, registration, usedTokens, instances>>

\* Only then the hub signs with it.
SwitchKey(r) ==
    /\ rotation[r].pc = "switch"
    /\ hubKey' = rotation[r].id /\ authKeys' = Ring(keyRing)
    /\ rotation' = [rotation EXCEPT ![r] = [pc |-> "idle", id |-> 0]]
    /\ UNCHANGED <<configKey, storedKey, keyRing, writer, registration, usedTokens, instances>>

\* write reads the id under the hub's lock and signs later.
WriteFrame(w) ==
    /\ writer[w].pc = "idle" /\ writer' = [writer EXCEPT ![w] = [pc |-> "sign", key |-> hubKey]]
    /\ UNCHANGED <<configKey, storedKey, keyRing, authKeys, hubKey, rotation, registration, usedTokens, instances>>

Sign(w) ==
    /\ writer[w].pc = "sign"
    /\ writer' = [writer EXCEPT ![w] = IF writer[w].key \in authKeys THEN [pc |-> "idle", key |-> 0]
                                       ELSE [pc |-> "unsigned", key |-> 0]]
    /\ UNCHANGED <<configKey, storedKey, keyRing, authKeys, hubKey, rotation, registration, usedTokens, instances>>

-----------------------------------------------------------------------------
(* Registration of instances *)

\* The token's signature and tenant are valid.
validateProvisioningToken(g, t) ==
    /\ registration[g].pc = "idle"
    /\ registration' = [registration EXCEPT ![g] = [pc |-> "valid", token |-> t]]
    /\ UNCHANGED <<configKey, storedKey, keyRing, authKeys, hubKey, rotation, writer, usedTokens, instances>>

\* Mutant of RegisterInstance: the token is marked whether or not the row is
\* written, but looked at before the lock.
RegisterUnlocked(g) ==
    LET t == registration[g].token IN
    /\ registration[g].pc = "valid"
    /\ instances' = [instances EXCEPT ![t] = @ + 1] /\ usedTokens' = usedTokens \cup {t}
    /\ registration' = [registration EXCEPT ![g] = [pc |-> "done", token |-> "none"]]
    /\ UNCHANGED <<configKey, storedKey, keyRing, authKeys, hubKey, rotation, writer>>

\* Under one lock: a used token is refused, the row is inserted, the token
\* marked.  A failed insert leaves the token unused.
RegisterInstance(g) ==
    LET t == registration[g].token IN
    /\ registration[g].pc = "valid"
    /\ \/ /\ t \notin usedTokens
          /\ instances' = [instances EXCEPT ![t] = @ + 1] /\ usedTokens' = usedTokens \cup {t}
       \/ UNCHANGED <<instances, usedTokens>>
    /\ registration' = [registration EXCEPT ![g] = [pc |-> "done", token |-> "none"]]
    /\ UNCHANGED <<configKey, storedKey, keyRing, authKeys, hubKey, rotation, writer>>

RelayKeysNext ==
    \/ \E r \in Rotators : RotateBegin(r) \/ PersistHMACRotation(r) \/ InstallKeys(r) \/ SwitchKey(r)
    \/ \E w \in Writers : WriteFrame(w) \/ Sign(w)
    \/ \E g \in Registrations : RegisterInstance(g) \/ \E t \in Tokens : validateProvisioningToken(g, t)

RelayKeysSpec == RelayKeysInit /\ [][RelayKeysNext]_keyVars

-----------------------------------------------------------------------------
RelayKeysTypeOK ==
    /\ {configKey, storedKey, hubKey} \subseteq KeyIDs /\ authKeys \subseteq KeyIDs
    /\ usedTokens \subseteq Tokens

\* No frame stays unsigned: the key a writer read is still known when it signs,
\* whatever rotations come between.
AlwaysSigned == \A w \in Writers : writer[w].pc # "unsigned"

\* However rotations race, the stored id is never behind the one in use: a
\* restart does not hand out an id that named another key.
StoredKeyLeads == storedKey >= configKey /\ configKey >= hubKey

\* A token registers one instance, however many requests present it.
TokenServesOnce == \A t \in Tokens : instances[t] <= 1
=============================================================================
