----------------------------- MODULE References -----------------------------
(***************************************************************************)
(* References to topics.  A message that names topics has them resolved and *)
(* linked after it is stored; topics can be injected into an agent's        *)
(* context, whole or through the resolution cache; a search finds them by   *)
(* the text of their nodes.  Every statement on the database is a step, and *)
(* topics and nodes change in between.                                      *)
(***************************************************************************)
EXTENDS Integers, FiniteSets, SequencesExt

CONSTANTS
    RefCalls,       \* concurrent requests; a send stands for the message too
    RefWriters,     \* concurrent writers of nodes
    RefTopics,      \* topics of the tree, each named by its slug
    Scope,          \* topic -> its nodes from the root down
    FirstNodes,     \* the nodes there are at the start
    Contents,       \* what messages may say: sequences of slugs and "card"
    RefSoftCap,     \* SoftCap
    RefHardCap,     \* HardCap
    Injections,     \* requests to inject: pairs of topics' ids and slugs
    Requested,      \* the topics of a referenced context
    InjectTopics,   \* MaxTopics
    PerTopic,       \* the max_nodes of requests
    GlobalMaxNodes, \* GlobalMaxNodes
    MaxText         \* bound: versions of a node's text

VARIABLES
    topicStatus,    \* topic -> active, archived, deleted
    text,           \* node -> version of its text, 0 when there is none
    gone,           \* the deleted nodes
    refLinks,       \* node_resolved_refs: pairs of message and topic
    refCount,       \* topic -> its ref_count
    rowLock,        \* topic -> the transaction that holds its row, "none"
    refCache,       \* topic -> cached nodes with their text, <<>> when none
    indexed,        \* topic -> node -> the version in the content index
    unindexed,      \* rows of the index whose refresh failed
    refCall,        \* request -> what it does and what it read
    told            \* message -> the events about its references

refVars == <<topicStatus, text, gone, refLinks, refCount, rowLock, refCache, indexed,
             unindexed, refCall, told>>

RefNodes == UNION {Range(Scope[t]) : t \in RefTopics}

\* topic_member_nodes: the live nodes reachable from a live root, in order.
Members(t) ==
    SelectSeq(Scope[t], LAMBDA n : \A m \in Range(Scope[t]) : m <= n => text[m] > 0 /\ m \notin gone)

RefIdle == [pc |-> "idle", todo |-> <<>>, found |-> <<>>, lost |-> <<>>, profile |-> FALSE,
            read |-> <<>>, cached |-> FALSE, out |-> <<>>, cut |-> FALSE]

NotTold == [resolved |-> <<>>, missing |-> <<>>, many |-> FALSE, sent |-> FALSE]

RefInit ==
    /\ topicStatus \in [RefTopics -> {"active", "archived"}]
    /\ text = [n \in RefNodes |-> IF n \in FirstNodes THEN 1 ELSE 0] /\ gone = {}
    /\ refLinks = {} /\ refCount = [t \in RefTopics |-> 0] /\ rowLock = [t \in RefTopics |-> "none"]
    /\ refCache = [t \in RefTopics |-> <<>>]
    /\ indexed = [t \in RefTopics |-> text] /\ unindexed = {}
    /\ refCall = [c \in RefCalls \cup RefWriters |-> RefIdle]
    /\ told = [c \in RefCalls |-> NotTold]

RefGoto(c, pc) == refCall' = [refCall EXCEPT ![c].pc = pc]

storeVars0 == <<topicStatus, text, gone, indexed, unindexed>>

-----------------------------------------------------------------------------
(* Resolution of a message's references *)

\* A card reference is never a topic's, and a slug counts once.
ParseReferences(content) == SelectSeq(content, LAMBDA k : k # "card")

DedupeBySlug(refs) ==
    FoldLeft(LAMBDA seen, s : IF Contains(seen, s) THEN seen ELSE Append(seen, s), <<>>, refs)

\* A deleted topic has deleted_at set and is not found; an archived one is.
GetTopicBySlug(slug) == {t \in RefTopics : t = slug /\ topicStatus[t] # "deleted"}

\* A message too full of references is stored all the same, and nothing said.
SendMessage(c, content) ==
    LET refs == DedupeBySlug(ParseReferences(content)) IN
    /\ refCall[c].pc = "idle" /\ Len(refs) > 0
    /\ \E profile \in BOOLEAN :   \* ResolveProfileID: none, or it failed
          refCall' = [refCall EXCEPT ![c] =
              IF Len(refs) > RefHardCap THEN [RefIdle EXCEPT !.pc = "refused"]
              ELSE [RefIdle EXCEPT !.pc = "resolve", !.todo = refs, !.profile = profile]]
    /\ UNCHANGED <<storeVars0, refLinks, refCount, rowLock, refCache, told>>

\* One slug; a failed lookup counts as not found.
ResolveAtSend(c) ==
    LET q == refCall[c]
        slug == Head(q.todo)
        rest == Tail(q.todo)
        next(found) == IF rest # <<>> THEN "resolve"
                       ELSE IF found # <<>> /\ q.profile THEN "link" ELSE "announce"
    IN
    /\ q.pc = "resolve"
    /\ \/ /\ GetTopicBySlug(slug) # {}
          /\ refCall' = [refCall EXCEPT ![c] =
                [q EXCEPT !.todo = rest, !.found = Append(@, slug),
                          !.pc = next(Append(q.found, slug))]]
       \/ refCall' = [refCall EXCEPT ![c] =
             [q EXCEPT !.todo = rest, !.lost = Append(@, slug), !.pc = next(q.found)]]
    /\ UNCHANGED <<storeVars0, refLinks, refCount, rowLock, refCache, told>>

\* The next row of the transaction.  Its trigger counts the reference on the
\* topic's row, which stays locked until the end.
InsertResolvedRef(c) ==
    LET q == refCall[c]
        t == q.found[Len(q.read) + 1]
    IN
    /\ q.pc = "link" /\ Len(q.read) < Len(q.found)
    /\ rowLock[t] = "none"
    /\ rowLock' = [rowLock EXCEPT ![t] = c]
    /\ refCall' = [refCall EXCEPT ![c].read = Append(@, refCount[t])]
    /\ UNCHANGED <<storeVars0, refLinks, refCount, refCache, told>>

ReleaseRows(c) == rowLock' = [t \in RefTopics |-> IF rowLock[t] = c THEN "none" ELSE rowLock[t]]

CommitResolvedRefs(c) ==
    LET q == refCall[c] IN
    /\ q.pc = "link" /\ Len(q.read) = Len(q.found)
    /\ refLinks' = refLinks \cup {<<c, q.found[i]>> : i \in 1 .. Len(q.found)}
    /\ refCount' = [t \in RefTopics |->
          IF Contains(q.found, t)
          THEN q.read[CHOOSE i \in 1 .. Len(q.found) : q.found[i] = t] + 1 ELSE refCount[t]]
    /\ ReleaseRows(c) /\ RefGoto(c, "announce")
    /\ UNCHANGED <<storeVars0, refCache, told>>

\* A row fails, or PostgreSQL breaks a deadlock between two messages that name
\* the same topics in another order: all of the message's links are lost, and
\* only the log says so.
RollbackResolvedRefs(c) ==
    /\ refCall[c].pc = "link"
    /\ ReleaseRows(c) /\ RefGoto(c, "announce")
    /\ UNCHANGED <<storeVars0, refLinks, refCount, refCache, told>>

\* resolveReferencesAtSend: one event per reference, and one about their number.
AnnounceReferences(c) ==
    LET q == refCall[c] IN
    /\ q.pc = "announce"
    /\ told' = [told EXCEPT ![c] =
          [resolved |-> q.found, missing |-> q.lost, sent |-> TRUE,
           many |-> Len(q.found) + Len(q.lost) > RefSoftCap]]
    /\ RefGoto(c, "sent")
    /\ UNCHANGED <<storeVars0, refLinks, refCount, rowLock, refCache>>

\* Suggestions while a slug is typed: active topics, those that are archived
\* too, or all that are not deleted.
AutocompleteTopics(include) ==
    {t \in RefTopics : CASE include = "active" -> topicStatus[t] = "active"
                         [] include = "archived" -> topicStatus[t] \in {"active", "archived"}
                         [] include = "all" -> topicStatus[t] # "deleted"}

-----------------------------------------------------------------------------
(* Injection *)

\* InjectWithReferences looks every slug up before any topic is read; the
\* lookups of one request are one step here, those that found nothing vanish.
InjectWithReferences(c, ids, slugs) ==
    LET named == ids \cup UNION {GetTopicBySlug(s) : s \in slugs} IN
    /\ refCall[c].pc = "idle" /\ ids \cup slugs # {}
    /\ IF named = {} \/ Cardinality(named) > InjectTopics THEN RefGoto(c, "refused")
       ELSE \E order \in SetToSeqs(named) :    \* the order of a Go map
               refCall' = [refCall EXCEPT ![c] = [RefIdle EXCEPT !.pc = "meta", !.todo = order]]
    /\ UNCHANGED <<storeVars0, refLinks, refCount, rowLock, refCache, told>>

\* GetReferencedContext compiles the same way and looks into the cache then.
GetReferencedContext(c, topics) ==
    /\ refCall[c].pc = "idle" /\ topics # <<>>
    /\ refCall' = [refCall EXCEPT ![c] = [RefIdle EXCEPT !.pc = "meta", !.todo = topics, !.cached = TRUE]]
    /\ UNCHANGED <<storeVars0, refLinks, refCount, rowLock, refCache, told>>

GetTopicForInject(c) ==
    /\ refCall[c].pc = "meta"
    /\ RefGoto(c, IF topicStatus[Head(refCall[c].todo)] = "active" THEN "count" ELSE "refused")
    /\ UNCHANGED <<storeVars0, refLinks, refCount, rowLock, refCache, told>>

\* GetTopicNodes counts first ...
CountTopicNodes(c) ==
    LET t == Head(refCall[c].todo) IN
    /\ refCall[c].pc = "count"
    /\ refCall' = [refCall EXCEPT ![c].pc = "list",
          ![c].read = Append(@, [topic |-> t, total |-> Len(Members(t)), nodes |-> <<>>])]
    /\ UNCHANGED <<storeVars0, refLinks, refCount, rowLock, refCache, told>>

NodesRead(t) ==
    LET m == Members(t)
        k == IF Len(m) < PerTopic THEN Len(m) ELSE PerTopic
    IN  [i \in 1 .. k |-> <<m[i], text[m[i]]>>]

\* Tokens of a context: over the topics, what is listed and what was counted.
ListedNodes(read) == FoldLeft(LAMBDA s, x : s + Len(x.nodes), 0, read)
Counted(read) == FoldLeft(LAMBDA s, x : s + x.total, 0, read)

\* ... and lists then.  After the last topic the counts must fit.
ListTopicNodes(c) ==
    LET q == refCall[c]
        last == [q.read[Len(q.read)] EXCEPT !.nodes = NodesRead(Head(q.todo))]
        read == [q.read EXCEPT ![Len(q.read)] = last]
    IN
    /\ q.pc = "list"
    /\ refCall' = [refCall EXCEPT ![c] =
          [q EXCEPT !.todo = Tail(@), !.read = read,
                    !.pc = IF Len(q.todo) > 1 THEN "meta"
                           ELSE IF Counted(read) > GlobalMaxNodes THEN "refused"
                           ELSE IF q.cached THEN "lookup" ELSE "merge"]]
    /\ UNCHANGED <<storeVars0, refLinks, refCount, rowLock, refCache, told>>

\* The merged text takes nodes until the budget is used up.
compileMultiTopicContext(c) ==
    LET q == refCall[c]
        all == FoldLeft(LAMBDA s, x : s \o x.nodes, <<>>, q.read)
    IN
    /\ q.pc = "merge"
    /\ refCall' = [refCall EXCEPT ![c] =
          [q EXCEPT !.pc = "injected",
                    !.out = <<SubSeq(all, 1, IF Len(all) < GlobalMaxNodes THEN Len(all) ELSE GlobalMaxNodes)>>,
                    !.cut = \E k \in 1 .. Len(q.read) :
                               \/ ListedNodes(SubSeq(q.read, 1, k)) > GlobalMaxNodes
                               \/ ListedNodes(SubSeq(q.read, 1, k - 1)) >= GlobalMaxNodes]]
    /\ UNCHANGED <<storeVars0, refLinks, refCount, rowLock, refCache, told>>

\* contextHash covers the ids of the nodes and not their text.
contextHash(nodes) == [i \in 1 .. Len(nodes) |-> nodes[i][1]]

\* Reading the cache topic by topic: a row that is there and not expired and
\* whose hash is the compiled one is served, anything else is replaced.
ServeReferenced(c) ==
    LET q == refCall[c]
        fresh == q.read[Len(q.out) + 1]
        t == fresh.topic
        done == IF Len(q.out) + 1 = Len(q.read) THEN "served" ELSE "lookup"
    IN
    /\ q.pc = "lookup"
    /\ \/ /\ refCache[t] # <<>> /\ contextHash(refCache[t]) = contextHash(fresh.nodes)
          /\ refCall' = [refCall EXCEPT ![c] = [q EXCEPT !.out = Append(@, refCache[t]), !.pc = done]]
          /\ UNCHANGED refCache
       \/ /\ refCall' = [refCall EXCEPT ![c] = [q EXCEPT !.out = Append(@, fresh.nodes), !.pc = done]]
          /\ refCache' = [refCache EXCEPT ![t] = fresh.nodes]
    /\ UNCHANGED <<storeVars0, refLinks, refCount, rowLock, told>>

-----------------------------------------------------------------------------
(* Nodes and topics change *)

\* A node is posted below a live one, or its text edited.  The trigger drops
\* the cache of the topics it is in after an edit; a new node is in none until
\* its edge is there.
WriteNode(c, n) ==
    LET edit == text[n] > 0 IN
    /\ refCall[c].pc = "idle" /\ n \notin gone /\ text[n] < MaxText
    /\ text' = [text EXCEPT ![n] = @ + 1]
    /\ refCache' = [t \in RefTopics |->
          IF edit /\ Contains(Members(t), n) THEN <<>> ELSE refCache[t]]
    /\ refCall' = [refCall EXCEPT ![c] = [RefIdle EXCEPT !.pc = "topics", !.todo = <<n>>]]
    /\ UNCHANGED <<topicStatus, gone, indexed, unindexed, refLinks, refCount, rowLock, told>>

\* RefreshNodeContentForTopics: which topics have the node ...
GetTopicsForNode(c) ==
    LET n == Head(refCall[c].todo)
        in == {t \in RefTopics : topicStatus[t] # "deleted" /\ Contains(Members(t), n)}
    IN
    /\ refCall[c].pc = "topics"
    /\ refCall' = [refCall EXCEPT ![c] =
          IF in = {} THEN RefIdle ELSE [@ EXCEPT !.pc = "refresh", !.found = SetToSeq(in)]]
    /\ UNCHANGED <<storeVars0, refLinks, refCount, rowLock, refCache, told>>

\* ... and one upsert per topic of the node's text as it is then; it may fail.
RefreshNodeContentIndex(c) ==
    LET q == refCall[c]
        n == Head(q.todo)
        t == Head(q.found)
    IN
    /\ q.pc = "refresh"
    /\ \/ /\ Contains(Members(t), n)
          /\ indexed' = [indexed EXCEPT ![t][n] = text[n]]
          /\ unindexed' = unindexed \ {<<t, n>>}
       \/ unindexed' = unindexed \cup {<<t, n>>} /\ UNCHANGED indexed
    /\ refCall' = [refCall EXCEPT ![c] =
          IF Len(q.found) = 1 THEN RefIdle ELSE [q EXCEPT !.found = Tail(@)]]
    /\ UNCHANGED <<topicStatus, text, gone, refLinks, refCount, rowLock, refCache, told>>

\* The trigger looks for the topics after the row has changed: it finds none.
DeleteTopicNode(n) ==
    /\ text[n] > 0 /\ n \notin gone
    /\ gone' = gone \cup {n}
    /\ UNCHANGED <<topicStatus, text, indexed, unindexed, refLinks, refCount, rowLock, refCache,
                   refCall, told>>

\* Archive, Restore and SoftDelete write the topic's row and wait for its lock.
SetTopicStatus(t, status) ==
    /\ topicStatus[t] # "deleted" /\ rowLock[t] = "none"
    /\ topicStatus' = [topicStatus EXCEPT ![t] = status]
    /\ UNCHANGED <<text, gone, indexed, unindexed, refLinks, refCount, rowLock, refCache, refCall, told>>

\* SearchTopics: the topics of a status in whose index the text is found.
SearchTopics(version, status) ==
    {t \in RefTopics :
        /\ CASE status = "active" -> topicStatus[t] = "active"
             [] status = "all" -> topicStatus[t] # "deleted"
             [] status = "archived" -> topicStatus[t] = "archived"
        /\ \E n \in RefNodes : indexed[t][n] = version}

NodesNext ==
    \/ \E c \in RefWriters, n \in RefNodes : WriteNode(c, n)
    \/ \E n \in RefNodes : DeleteTopicNode(n)

\* Nodes are posted, edited and deleted, and the search's index follows.
IndexingNext ==
    \/ NodesNext
    \/ \E c \in RefWriters : GetTopicsForNode(c) \/ RefreshNodeContentIndex(c)

\* Messages that name the same topics, while topics are archived and deleted.
SendingNext ==
    \/ \E c \in RefCalls :
          \/ \E content \in Contents : SendMessage(c, content)
          \/ ResolveAtSend(c) \/ InsertResolvedRef(c) \/ CommitResolvedRefs(c)
          \/ RollbackResolvedRefs(c) \/ AnnounceReferences(c)
    \/ \E t \in RefTopics, s \in {"active", "archived", "deleted"} : SetTopicStatus(t, s)

\* Contexts are put together while nodes are posted, edited and deleted.
InjectingNext ==
    \/ \E c \in RefCalls :
          \/ \E i \in Injections : InjectWithReferences(c, i[1], i[2])
          \/ \E topics \in Requested : GetReferencedContext(c, topics)
          \/ GetTopicForInject(c) \/ CountTopicNodes(c) \/ ListTopicNodes(c)
          \/ compileMultiTopicContext(c) \/ ServeReferenced(c)
    \/ NodesNext

RefNext == SendingNext \/ InjectingNext \/ IndexingNext

RefSpec == RefInit /\ [][RefNext]_refVars

-----------------------------------------------------------------------------
RefTypeOK ==
    /\ topicStatus \in [RefTopics -> {"active", "archived", "deleted"}]
    /\ text \in [RefNodes -> 0 .. MaxText] /\ gone \subseteq RefNodes
    /\ refLinks \subseteq RefCalls \X RefTopics /\ refCount \in [RefTopics -> Nat]
    /\ unindexed \subseteq RefTopics \X RefNodes

\* A topic's ref_count is the number of links to it, however the transactions
\* of several messages interleave.
CountsAgree == \A t \in RefTopics : refCount[t] = Cardinality({l \in refLinks : l[2] = t})

\* The links of a message are all the topics it was resolved to, or none: a
\* transaction that loses a deadlock leaves no part of itself.
LinksWhole ==
    \A c \in RefCalls : told[c].sent =>
        {l[2] : l \in {k \in refLinks : k[1] = c}} \in {{}, Range(told[c].resolved)}

\* Everybody hears of each reference of a message once, found or not found,
\* and of nothing the message does not say.
ToldOnce ==
    \A c \in RefCalls : told[c].sent =>
        /\ IsInjective(told[c].resolved \o told[c].missing)
        /\ \E content \in Contents :
              /\ Range(told[c].resolved \o told[c].missing) = Range(ParseReferences(content))
              /\ told[c].many = (Cardinality(Range(ParseReferences(content))) > RefSoftCap)
              /\ Cardinality(Range(ParseReferences(content))) <= RefHardCap

\* A merged context keeps within the budget although nodes are posted between
\* the count and the list, and says so when it leaves any out.
InjectedWithinBudget ==
    \A c \in RefCalls : refCall[c].pc = "injected" =>
        /\ Len(refCall[c].out[1]) <= GlobalMaxNodes
        /\ Len(refCall[c].out[1]) < ListedNodes(refCall[c].read) => refCall[c].cut

\* A referenced context names the nodes compiled in this very call, whatever
\* another call, or a deletion, left in the cache.
ServedIdsCurrent ==
    \A c \in RefCalls : \A i \in 1 .. Len(refCall[c].out) :
        refCall[c].pc \in {"lookup", "served"} =>
            contextHash(refCall[c].out[i]) = contextHash(refCall[c].read[i].nodes)

\* A text a topic's node has is found by a search once nobody is refreshing it
\* and no refresh of it failed.
SearchFinds ==
    \A t \in RefTopics : topicStatus[t] = "active" =>
        \A i \in 1 .. Len(Members(t)) :
            LET n == Members(t)[i] IN
            \/ t \in SearchTopics(text[n], "active")
            \/ <<t, n>> \in unindexed
            \/ \E c \in RefWriters : refCall[c].pc \in {"topics", "refresh"} /\ Head(refCall[c].todo) = n

\* Whatever is suggested can be resolved.
OfferedResolves ==
    \A include \in {"active", "archived", "all"} :
        \A t \in AutocompleteTopics(include) : GetTopicBySlug(t) # {}

=============================================================================
