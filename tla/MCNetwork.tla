------------------------------ MODULE MCNetwork ------------------------------
(***************************************************************************)
(* What lies between servers and peers: the SSE replay log, the relay's     *)
(* keys, its store and its health check, federation and its vector clocks.  They   *)
(* share no state, so the run checks one at a time: focus is chosen at the   *)
(* start and stays, and the others keep their initial states.               *)
(***************************************************************************)
EXTENDS EventLog, RelayStore, Federation, FedClocks, TLC

VARIABLE focus

networkVars == <<focus, logVars, keyVars, relayStoreVars, fedVars, clockVars>>

NetworkInit ==
    /\ focus \in {"log", "keys", "store", "health", "federation", "clocks"}
    /\ LogInit /\ RelayKeysInit /\ RelayStoreInit /\ FedInit /\ FedClocksInit

NetworkNext ==
    \/ /\ focus = "log" /\ LogNext
       /\ UNCHANGED <<focus, keyVars, relayStoreVars, fedVars, clockVars>>
    \/ /\ focus = "keys" /\ RelayKeysNext
       /\ UNCHANGED <<focus, logVars, relayStoreVars, fedVars, clockVars>>
    \/ /\ focus = "store" /\ StoreStep
       /\ UNCHANGED <<focus, logVars, keyVars, healthVars, fedVars, clockVars>>
    \/ /\ focus = "health" /\ HealthStep
       /\ UNCHANGED <<focus, logVars, keyVars, storeVars, fedVars, clockVars>>
    \/ /\ focus = "federation" /\ FedNext
       /\ UNCHANGED <<focus, logVars, keyVars, relayStoreVars, clockVars>>
    \/ /\ focus = "clocks" /\ FedClocksNext
       /\ UNCHANGED <<focus, logVars, keyVars, relayStoreVars, fedVars>>

NetworkSpec == NetworkInit /\ [][NetworkNext]_networkVars

\* Deliverers and receivers have the same elements in the cfg, so that one
\* permutation serves both.
NetworkSymmetry == Permutations(Deliverers)

-----------------------------------------------------------------------------
\* A reconnecting client gets what the log still holds: Since returns exactly
\* the retained events past its cursor, and a full ring gives up only events
\* that enough newer ones have followed.
ReplayExact == LogTypeOK /\ SinceIsExact /\ RecentNotEvicted

\* The relay signs every frame with a key its peers know, never falls behind
\* the stored key, lets a token serve once, and neither loses a queued event
\* unseen nor hands one out twice while it remembers its id.
RelaySound ==
    /\ RelayKeysTypeOK /\ RelayStoreTypeOK
    /\ AlwaysSigned /\ StoredKeyLeads /\ TokenServesOnce
    /\ RelayAccounted /\ HandedOnce

\* Federated servers agree: events are acknowledged in order, shown once, and
\* servers that got the same updates show the same one, with every update that
\* lost on record.
FederationSound ==
    /\ FedTypeOK /\ FedClocksTypeOK
    /\ NoneOvertakes /\ ShownOnce /\ Converge /\ NoneSilentlyDropped

\* No step overrides a later decision: the pruner takes only stale events, a
\* health check does not undo a mark made after it looked, a handshake does
\* not revive a revoked link.
NothingOverridden == OnlyStalePruned /\ MarkSticks /\ HandshakeKeepsRevoked
=============================================================================
