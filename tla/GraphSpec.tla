----------------------------- MODULE GraphSpec -----------------------------
(***************************************************************************)
(* What the conversation graph promises to a reader of the database: a     *)
(* node appears together with all of its parent edges, in one step; an     *)
(* edge is never added to, or taken from, a node that already exists; a    *)
(* node's content changes only while the node is live; a deleted node is   *)
(* empty and stays so.  How the services keep this promise with            *)
(* multi-statement transactions is module GraphStore.                      *)
(***************************************************************************)
EXTENDS Integers, FiniteSets

CONSTANTS
    MinSources,     \* fewest sources of a merge or of a multi-reference reply
    MaxSources      \* most sources

VARIABLES
    gtree,          \* node id -> its tree
    gparents,       \* node id -> the set of <<edge type, source id>> of its edges
    gcontent        \* node id -> its content, or Erased for a deleted node

gvars == <<gtree, gparents, gcontent>>

Ids == DOMAIN gtree

Erased == -1

SourcesOf(parents, type) == {e[2] : e \in {x \in parents : x[1] = type}}

SourceCount == MinSources .. MaxSources

(***************************************************************************)
(* The shapes a set of parent edges may have: none for a root, one edge of *)
(* a reply or a fork, a synthesis with its placement edge, a full          *)
(* reference set.                                                          *)
(***************************************************************************)
WellFormedParents(parents) ==
    \/ parents = {}
    \/ \E p \in Ids, type \in {"reply", "fork"} : parents = {<<type, p>>}
    \/ /\ Cardinality(SourcesOf(parents, "reply")) = 1
       /\ Cardinality(SourcesOf(parents, "synthesis")) \in SourceCount
       /\ SourcesOf(parents, "reply") \cap SourcesOf(parents, "synthesis") = {}
       /\ \A e \in parents : e[1] \in {"reply", "synthesis"}
    \/ /\ Cardinality(SourcesOf(parents, "reference")) \in SourceCount
       /\ \A e \in parents : e[1] = "reference"

AddNode(id, t, parents, c) ==
    /\ id \notin Ids
    /\ WellFormedParents(parents)
    /\ \A e \in parents : e[2] \in Ids /\ gtree[e[2]] = t
    /\ gtree'    = [i \in Ids \cup {id} |-> IF i = id THEN t ELSE gtree[i]]
    /\ gparents' = [i \in Ids \cup {id} |-> IF i = id THEN parents ELSE gparents[i]]
    /\ gcontent' = [i \in Ids \cup {id} |-> IF i = id THEN c ELSE gcontent[i]]

EditNode(id, c) ==
    /\ gcontent[id] # Erased /\ c # Erased
    /\ gcontent' = [gcontent EXCEPT ![id] = c]
    /\ UNCHANGED <<gtree, gparents>>

EraseNode(id) ==
    /\ gcontent[id] # Erased
    /\ gcontent' = [gcontent EXCEPT ![id] = Erased]
    /\ UNCHANGED <<gtree, gparents>>

\* The graph a refining specification starts from is its own; the promise is
\* about the steps.
GInit ==
    /\ DOMAIN gparents = Ids /\ DOMAIN gcontent = Ids
    /\ \A id \in Ids : WellFormedParents(gparents[id])

GNext ==
    \/ \E id \in DOMAIN gtree' :
          AddNode(id, gtree'[id], gparents'[id], gcontent'[id])
    \/ \E id \in Ids : EditNode(id, gcontent'[id])
    \/ \E id \in Ids : EraseNode(id)

GSpec == GInit /\ [][GNext]_gvars
=============================================================================
