------------------------------- MODULE Topics -------------------------------
(***************************************************************************)
(* Topic proposals of one tree.  Every new node is looked at by AutoDetect, *)
(* which may propose a topic; users confirm or dismiss proposals, a listing *)
(* sweeps expired ones.  Each step is a statement of its own; a mutex       *)
(* orders confirmations, and nothing orders the rest.                       *)
(***************************************************************************)
EXTENDS Integers, FiniteSets

CONSTANTS
    TopicCalls,     \* the requests that may run at the same time
    TopicTitles,    \* the titles a user may give
    Subjects,       \* subject keys of detected signals
    ExpiryMessages, \* proposalExpiryMessages
    MaxMessages     \* bound: nodes posted to the tree

ASSUME TopicsAssumption == MaxMessages \in Nat

VARIABLES
    messages,       \* nodes posted so far; the latest has this sequence number
    proposals,      \* root node -> its proposal; one node gets at most one
    topics,         \* the topics: root node, title, how made
    tracking,       \* last_proposal_seq, messages_since_proposal, auto_create
    cooling,        \* subjects in cooldown
    confirming,     \* holders of proposalMu
    topicCall,      \* request -> what it does and what it read
    gaps            \* what lay between a proposal and the one before it

topicVars == <<messages, proposals, topics, tracking, cooling, confirming, topicCall, gaps>>

MinSpacing == 3     \* max(3, min_messages_per_topic), with the default settings

NoProposal == [status |-> "none", subject |-> "none", unsaved |-> FALSE]

TopicIdle == [pc |-> "idle", root |-> 0, title |-> "none", last |-> 0, subject |-> "none"]

TopicsInit ==
    /\ messages = 0 /\ proposals = [r \in 1 .. MaxMessages |-> NoProposal]
    /\ topics = {} /\ tracking = [last |-> 0, since |-> 0, auto |-> FALSE] /\ cooling = {}
    /\ confirming = {} /\ topicCall = [c \in TopicCalls |-> TopicIdle] /\ gaps = {}

TopicDone(c) == topicCall' = [topicCall EXCEPT ![c] = TopicIdle]

TopicGoto(c, pc) == topicCall' = [topicCall EXCEPT ![c].pc = pc]

NewTopic(r, title, by) == [root |-> r, title |-> title, by |-> by]

GetByRootNode(r) == {t \in topics : t.root = r}

GetBySlug(title) == {t \in topics : t.title = title}

-----------------------------------------------------------------------------
(* Detection *)

\* The limits on how often AutoDetect proposes, on the configuration it reads.
\* Of the two limits only the shorter one binds an explicit request.
WithinLimits(kind) ==
    /\ ~(tracking.since < MinSpacing /\ tracking.since > 0)
    /\ kind # "explicit" => tracking.since = 0

\* A node is posted and looked at; the best signal is an explicit request or
\* something else, about some subject.
AutoDetect(c, kind, subject) ==
    /\ topicCall[c].pc = "idle" /\ messages < MaxMessages
    /\ messages' = messages + 1
    /\ IF WithinLimits(kind) /\ GetByRootNode(messages + 1) = {} /\ subject \notin cooling
       THEN topicCall' = [topicCall EXCEPT ![c] =
               [TopicIdle EXCEPT !.pc = "checked", !.root = messages + 1,
                                 !.last = tracking.last, !.subject = subject]]
       ELSE UNCHANGED topicCall
    /\ UNCHANGED <<proposals, topics, tracking, cooling, confirming, gaps>>

\* Messages between this proposal and the latest earlier one.
Gap(r) ==
    LET made == {p \in 1 .. MaxMessages : p < r /\ proposals[p].status # "none"}
    IN  IF made = {} THEN {} ELSE {r - CHOOSE p \in made : \A q \in made : q <= p}

generateProposal(c) ==
    LET q == topicCall[c] IN
    /\ q.pc = "checked"
    /\ proposals' = [proposals EXCEPT ![q.root] =
          [status |-> "pending", subject |-> q.subject, unsaved |-> FALSE]]
    /\ gaps' = gaps \cup Gap(q.root)
    /\ TopicGoto(c, IF tracking.auto THEN "autoconfirm" ELSE "proposed")
    /\ UNCHANGED <<messages, topics, tracking, cooling, confirming>>

\* UpdateProposalTracking, with what was read before.
UpdateTracking(c) ==
    LET q == topicCall[c] IN
    /\ q.pc = "proposed"
    /\ tracking' = [tracking EXCEPT !.last = q.root,
                       !.since = IF q.last > 0 /\ q.root > q.last THEN q.root - q.last ELSE 0]
    /\ TopicDone(c)
    /\ UNCHANGED <<messages, proposals, topics, cooling, confirming, gaps>>

-----------------------------------------------------------------------------
(* Confirmation and dismissal *)

\* Mutant of ConfirmProposal: without the mutex.
ConfirmUnlocked(c, r, title) ==
    /\ topicCall[c].pc = "idle" /\ proposals[r].status = "pending"
    /\ GetBySlug(title) = {}
    /\ topicCall' = [topicCall EXCEPT ![c] = [TopicIdle EXCEPT !.pc = "create", !.root = r, !.title = title]]
    /\ UNCHANGED <<messages, proposals, topics, tracking, cooling, confirming, gaps>>

\* Takes the mutex; every early return releases it at once.
ConfirmProposal(c, r, title) ==
    /\ topicCall[c].pc = "idle" /\ confirming = {}
    /\ proposals[r].status = "pending"
    /\ GetBySlug(title) = {}
    /\ confirming' = {c}
    /\ topicCall' = [topicCall EXCEPT ![c] = [TopicIdle EXCEPT !.pc = "create", !.root = r, !.title = title]]
    /\ UNCHANGED <<messages, proposals, topics, tracking, cooling, gaps>>

\* With auto_create the detection confirms its own proposal, and does not
\* write the tracking columns.
AutoConfirm(c, title) ==
    LET r == topicCall[c].root IN
    /\ topicCall[c].pc = "autoconfirm" /\ confirming = {}
    /\ IF proposals[r].status = "pending" /\ GetBySlug(title) = {}
       THEN /\ confirming' = {c}
            /\ topicCall' = [topicCall EXCEPT ![c].pc = "create", ![c].title = title]
       ELSE TopicDone(c) /\ UNCHANGED confirming
    /\ UNCHANGED <<messages, proposals, topics, tracking, cooling, gaps>>

\* The unique index on the title decides.
CreateTopic(c) ==
    LET q == topicCall[c] IN
    /\ q.pc = "create"
    /\ IF GetBySlug(q.title) = {}
       THEN topics' = topics \cup {NewTopic(q.root, q.title, "confirm")} /\ TopicGoto(c, "confirm")
            /\ UNCHANGED confirming
       ELSE UNCHANGED topics /\ TopicDone(c) /\ confirming' = confirming \ {c}
    /\ UNCHANGED <<messages, proposals, tracking, cooling, gaps>>

\* The status is written blindly, and a failure to write it is ignored.
MarkConfirmed(c) ==
    LET r == topicCall[c].root IN
    /\ topicCall[c].pc = "confirm"
    /\ \/ proposals' = [proposals EXCEPT ![r].status = "confirmed"]
       \/ proposals' = [proposals EXCEPT ![r].unsaved = TRUE]
    /\ TopicDone(c) /\ confirming' = confirming \ {c}
    /\ UNCHANGED <<messages, topics, tracking, cooling, gaps>>

\* A topic made by hand, on any node of the tree.
CreateTopicByHand(r, title) ==
    /\ r <= messages /\ GetBySlug(title) = {}
    /\ topics' = topics \cup {NewTopic(r, title, "hand")}
    /\ UNCHANGED <<messages, proposals, tracking, cooling, confirming, topicCall, gaps>>

\* A new title has to be free as well.  Archiving changes nothing seen here.
UpdateTopic(t, title) ==
    /\ t \in topics /\ GetBySlug(title) = {}
    /\ topics' = (topics \ {t}) \cup {[t EXCEPT !.title = title]}
    /\ UNCHANGED <<messages, proposals, tracking, cooling, confirming, topicCall, gaps>>

\* The settings are replaced; the tracking columns are left alone.
UpdateDetectionConfig(auto) ==
    /\ tracking.auto # auto /\ tracking' = [tracking EXCEPT !.auto = auto]
    /\ UNCHANGED <<messages, proposals, topics, cooling, confirming, topicCall, gaps>>

DismissProposal(c, r) ==
    /\ topicCall[c].pc = "idle" /\ proposals[r].status = "pending"
    /\ cooling' = cooling \cup {proposals[r].subject}
    /\ topicCall' = [topicCall EXCEPT ![c] = [TopicIdle EXCEPT !.pc = "dismiss", !.root = r]]
    /\ UNCHANGED <<messages, proposals, topics, tracking, confirming, gaps>>

MarkDismissed(c) ==
    /\ topicCall[c].pc = "dismiss"
    /\ proposals' = [proposals EXCEPT ![topicCall[c].root].status = "dismissed"]
    /\ TopicDone(c)
    /\ UNCHANGED <<messages, topics, tracking, cooling, confirming, gaps>>

CooldownEnds(s) ==
    /\ s \in cooling /\ cooling' = cooling \ {s}
    /\ UNCHANGED <<messages, proposals, topics, tracking, confirming, topicCall, gaps>>

\* A listing reads the pending proposals and expires those past their time,
\* then those too many messages old, in one conditional statement.
sweepExpired(c, r) ==
    /\ topicCall[c].pc = "idle" /\ proposals[r].status = "pending"
    /\ topicCall' = [topicCall EXCEPT ![c] = [TopicIdle EXCEPT !.pc = "expire", !.root = r]]
    /\ UNCHANGED <<messages, proposals, topics, tracking, cooling, confirming, gaps>>

MarkExpired(c) ==
    /\ topicCall[c].pc = "expire"
    /\ proposals' = [proposals EXCEPT ![topicCall[c].root].status = "expired"]
    /\ TopicGoto(c, "bulk")
    /\ UNCHANGED <<messages, topics, tracking, cooling, confirming, gaps>>

ExpirePending(c) ==
    /\ topicCall[c].pc = "bulk"
    /\ proposals' = [r \in DOMAIN proposals |->
          IF proposals[r].status = "pending" /\ r < messages - ExpiryMessages
          THEN [proposals[r] EXCEPT !.status = "expired"] ELSE proposals[r]]
    /\ TopicDone(c)
    /\ UNCHANGED <<messages, topics, tracking, cooling, confirming, gaps>>

TopicsNext ==
    \/ \E c \in TopicCalls :
          \/ \E k \in {"explicit", "other"}, s \in Subjects : AutoDetect(c, k, s)
          \/ generateProposal(c) \/ UpdateTracking(c)
          \/ \E r \in 1 .. MaxMessages :
                \/ DismissProposal(c, r) \/ sweepExpired(c, r)
                \/ \E t \in TopicTitles : ConfirmProposal(c, r, t)
          \/ \E t \in TopicTitles : AutoConfirm(c, t)
          \/ CreateTopic(c) \/ MarkConfirmed(c) \/ MarkDismissed(c)
          \/ MarkExpired(c) \/ ExpirePending(c)
    \/ \E r \in 1 .. MaxMessages, t \in TopicTitles : CreateTopicByHand(r, t)
    \/ \E t \in topics, title \in TopicTitles : UpdateTopic(t, title)
    \/ \E auto \in BOOLEAN : UpdateDetectionConfig(auto)
    \/ \E s \in Subjects : CooldownEnds(s)

TopicsSpec == TopicsInit /\ [][TopicsNext]_topicVars

-----------------------------------------------------------------------------
TopicsTypeOK ==
    /\ messages \in 0 .. MaxMessages /\ Cardinality(confirming) <= 1 /\ cooling \subseteq Subjects
    /\ \A r \in 1 .. MaxMessages :
          proposals[r].status \in {"none", "pending", "confirmed", "dismissed", "expired"}

\* However many confirmations of a proposal race, with whatever titles, they
\* create one topic, unless the status was not saved.
OneTopicPerProposal ==
    \A r \in 1 .. MaxMessages :
        ~proposals[r].unsaved => Cardinality({t \in GetByRootNode(r) : t.by = "confirm"}) <= 1

\* At least three messages lie between two proposals of a tree.
ProposalsSpaced == \A g \in gaps : g >= MinSpacing
=============================================================================
