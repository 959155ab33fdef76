--------------------------- MODULE MCCollaboration ---------------------------
(***************************************************************************)
(* What users share: workspaces and invitations, access to trees, topics,   *)
(* lists of trees and nodes, cards with their event stream and feedback,    *)
(* and files.  The parts share no state, so the run checks one at a time:   *)
(* focus is chosen at the start and stays, and the others keep their        *)
(* initial states.                                                          *)
(***************************************************************************)
EXTENDS Workspaces, TreeAccess, Topics, Cards, CardStream,
        FileViewer, TLC

\* The first request is one of the owner's about the tree, the second anything
\* that needs no more than a member.
CONSTANTS v1, v2, q1, q2

Senders == [r \in Requests |-> IF r = q1 THEN {v1} ELSE AccessUsers]
Sending == [r \in Requests |->
              IF r = q1 THEN {"createTree", "updateTree", "deleteTree", "shareTree"}
              ELSE Operations \ {"createTree", "updateTree", "updateNode", "updateFlat",
                                 "merge", "reply"}]

VARIABLE focus

collabVars == <<focus, wsVars, topicVars, treeRowVars, cardVars, csVars, fbVars, fileVars, accessVars>>

CollabInit ==
    /\ focus \in {"workspaces", "topics", "rows", "cards", "stream", "feedback", "files", "ranges",
                 "access"}
    /\ WorkspacesInit /\ TopicsInit /\ TreeRowsInit /\ CardsInit /\ CardStreamInit
    /\ FeedbackInit /\ FileInit
    /\ focus # "rows" => table = "trees"
    /\ AccessInit /\ (focus # "access" => devSecret)
    /\ accounts = IF devSecret THEN {} ELSE {v1}

CollabNext ==
    \/ /\ focus = "workspaces" /\ WorkspacesNext
       /\ UNCHANGED <<focus, topicVars, treeRowVars, cardVars, csVars, fbVars, fileVars, accessVars>>
    \/ /\ focus = "topics" /\ TopicsNext
       /\ UNCHANGED <<focus, wsVars, treeRowVars, cardVars, csVars, fbVars, fileVars, accessVars>>
    \/ /\ focus = "rows" /\ TreeRowsNext
       /\ UNCHANGED <<focus, wsVars, topicVars, cardVars, csVars, fbVars, fileVars, accessVars>>
    \/ /\ focus = "cards" /\ CardsNext
       /\ UNCHANGED <<focus, wsVars, topicVars, treeRowVars, csVars, fbVars, fileVars, accessVars>>
    \/ /\ focus = "stream" /\ CardStreamNext
       /\ UNCHANGED <<focus, wsVars, topicVars, treeRowVars, cardVars, fbVars, fileVars, accessVars>>
    \/ /\ focus = "feedback" /\ FeedbackNext
       /\ UNCHANGED <<focus, wsVars, topicVars, treeRowVars, cardVars, csVars, fileVars, accessVars>>
    \/ /\ focus = "files" /\ UploadStep
       /\ UNCHANGED <<focus, wsVars, topicVars, treeRowVars, cardVars, csVars, fbVars, streamed, accessVars>>
    \/ /\ focus = "ranges" /\ RangeStep
       /\ UNCHANGED <<focus, wsVars, topicVars, treeRowVars, cardVars, csVars, fbVars, uploadVars, accessVars>>
    \/ /\ focus = "access" /\ AccessNext
       /\ UNCHANGED <<focus, wsVars, topicVars, treeRowVars, cardVars, csVars, fbVars, fileVars>>

CollabSpec == CollabInit /\ [][CollabNext]_collabVars

\* The cfg gives the sets of concurrent requests the same elements, and the
\* sets of titles and hashes too, so that two permutations cover them all.
CollabSymmetry == Permutations(WsRequests) \cup Permutations(FileHashes)

-----------------------------------------------------------------------------
\* Whoever is in a workspace was let in: an invitation admits one person once,
\* however many requests race with its token, and nobody but the owner is a
\* member without one.  A request that writes a tree is its owner's, one that
\* writes a node is an editor's, whatever came between its checks.
MembershipEarned ==
    /\ focus = "workspaces" =>
          WorkspacesTypeOK /\ OneJoinPerInvitation /\ OnlyInvitedJoin
    /\ focus = "access" => AccessTypeOK /\ WritesAuthorised /\ OwnerAmongMembers

\* However many confirmations of a proposal race they create one topic.
TopicsSingle == focus = "topics" => TopicsTypeOK /\ OneTopicPerProposal

\* Readers of pages miss and repeat nothing, although rows come and go between
\* two pages: lists of trees and nodes, and of files in id order.
PagesComplete ==
    /\ focus = "rows" => TreeRowsTypeOK /\ ListedOnce /\ WalkComplete
    /\ focus \in {"files", "ranges"} => ListingComplete

\* The card's log, its stream and its feedback agree with the card: one event
\* per change and one answer per action, every event once and none skipped on
\* a connection, and no feedback missed between replay and subscription.
CardsFollowed == focus \in {"cards", "stream", "feedback"} =>
    /\ CardsTypeOK /\ CardStreamTypeOK /\ FeedbackTypeOK
    /\ ChangesAreLogged /\ ActionsAnsweredOnce
    /\ EachSequenceOnce /\ NothingSkipped /\ NoFeedbackMissed

\* Files are kept as long as somebody refers to them and served as asked.
FilesKept == focus \in {"files", "ranges"} =>
    FileTypeOK /\ RowsHaveContent /\ ReferencesCounted /\ RangeExact

\* No step takes back what others rely on, however stale what it read: the
\* owner's admin role, the final states of a card, feedback not acknowledged,
\* a deletion, the role of a member of a tree.
NothingTakenBack ==
    /\ OwnerStaysAdmin /\ LegalTransitions /\ RetainedUntilAcknowledged
    /\ DeletedStays /\ MembershipKept
=============================================================================
