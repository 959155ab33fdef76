----------------------------- MODULE TreeAccess -----------------------------
(***************************************************************************)
(* A request for a tree or a node on its way through the server:           *)
(* authentication and the provisioning of the user (handler/auth.go), the  *)
(* membership gates (handler/middleware.go) and the handlers of trees,     *)
(* nodes and profiles (tree_handler.go, node_handler.go,                   *)
(* profile_handler.go).  Every check is a query of its own, so a share, a  *)
(* deletion or another write may come between a check and what it guards.  *)
(*                                                                         *)
(* There is one tree.  A user is a model value; memberships are one role   *)
(* per user.  Malformed requests answer before any state is read and are   *)
(* left out; what the services do with the content of a node is            *)
(* GraphStore's.                                                           *)
(***************************************************************************)
EXTENDS Integers, Sequences, FiniteSets, SequencesExt

CONSTANTS
    AccessUsers,     \* token subjects
    Requests,        \* requests in flight
    SentBy,          \* SentBy[r]: the users whose request r may be
    Sends,           \* Sends[r]: the operations r may be
    AccessNodes,     \* nodes of the tree; the root is one of them
    RootNode,
    ProfileNames

ASSUME AccessAssumption ==
    /\ RootNode \in AccessNodes /\ DOMAIN Sends = Requests
    /\ \A r \in Requests : SentBy[r] \subseteq AccessUsers

VARIABLES
    devSecret,   \* the server runs with the development JWT secret
    accounts,    \* users with a row
    tree,        \* the tree's owner and deleted_at
    role,        \* role[u]: u's row in tree_members, or NoRole
    nodeRow,     \* nodeRow[n]: "none", "live" or "deleted"
    profileRows, \* <<owner, name>> of every profile
    request      \* where each request is

accessVars == <<devSecret, accounts, tree, role, nodeRow, profileRows, request>>

NoRole == "norole"
Nobody == "nobody"
Viewer == "viewer"
TreeRoles == {"owner", "admin", "member", Viewer}
Editors == TreeRoles \ {Viewer}

TreeRouteOps == {"createTree", "getTree", "updateTree", "deleteTree", "shareTree"}
OwnerOps == {"updateTree", "deleteTree", "shareTree"}
ScopedReads == {"getNode", "listMembers"}
ScopedWrites == {"createNode", "updateNode", "deleteNode", "merge"}
FlatWrites == {"updateFlat", "deleteFlat", "reply", "fork"}
Operations == TreeRouteOps \cup ScopedReads \cup ScopedWrites \cup FlatWrites
              \cup {"createProfile"}

\* isWriteMethod.
IsWrite(op) == op \in ScopedWrites \cup FlatWrites

Idle == [at |-> "idle", user |-> Nobody, op |-> "none", node |-> RootNode,
         invitee |-> Nobody, asRole |-> NoRole, name |-> "none",
         late |-> FALSE]

AccessInit ==
    /\ devSecret \in BOOLEAN
    /\ accounts \in SUBSET AccessUsers
    /\ tree = [state |-> "none", owner |-> Nobody]
    /\ role = [u \in AccessUsers |-> NoRole]
    /\ nodeRow = [n \in AccessNodes |-> "none"]
    /\ profileRows = {}
    /\ request = [r \in Requests |-> Idle]

-----------------------------------------------------------------------------
Of(r) == request[r]
MoveTo(r, stage) == request' = [request EXCEPT ![r].at = stage]

\* The client gets the code and may send its next request; nothing that
\* happens later depends on the code.
Answer(r, code) == code \in 200..599 /\ request' = [request EXCEPT ![r] = Idle]

Rows == <<accounts, tree, role, nodeRow, profileRows>>

\* permissionToRole: an unknown permission is a viewer's.
PermissionToRole(permission) ==
    CASE permission = "admin" -> "admin"
      [] permission = "editor" -> "member"
      [] OTHER -> Viewer

Arrive(r) ==
    /\ Of(r).at = "idle"
    /\ \E u \in SentBy[r], op \in Sends[r], n \in AccessNodes :
       \E v \in IF op = "shareTree" THEN AccessUsers ELSE {Nobody},
          p \in IF op = "shareTree" THEN {"admin", "editor", "viewer"} ELSE {"viewer"},
          name \in IF op = "createProfile" THEN ProfileNames ELSE {"none"} :
          /\ op \notin FlatWrites \cup {"updateNode", "deleteNode", "getNode"} => n = RootNode
          /\ request' = [request EXCEPT ![r] =
                [Idle EXCEPT !.at = "auth", !.user = u, !.op = op, !.node = n,
                   !.invitee = v, !.asRole = PermissionToRole(p), !.name = name,
                   !.late = (tree.state = "deleted")]]
    /\ UNCHANGED <<devSecret, Rows>>

FirstStage(op) ==
    CASE op \in ScopedReads \cup ScopedWrites -> "member"
      [] op \in FlatWrites -> "resolve"
      [] OTHER -> "handler"

\* authMiddleware after the token: with the development secret the subject is
\* given a row (EnsureByID, ON CONFLICT DO NOTHING), otherwise it must have one.
Authenticate(r) ==
    /\ Of(r).at = "auth"
    /\ IF devSecret \/ Of(r).user \in accounts
       THEN /\ accounts' = accounts \cup {Of(r).user}
            /\ MoveTo(r, FirstStage(Of(r).op))
       ELSE Answer(r, 403) /\ UNCHANGED accounts
    /\ UNCHANGED <<devSecret, tree, role, nodeRow, profileRows>>

\* NodeAccessMiddleware finds the tree of a bare node id.
ResolveNode(r) ==
    /\ Of(r).at = "resolve"
    /\ IF nodeRow[Of(r).node] = "live" THEN MoveTo(r, "member") ELSE Answer(r, 404)
    /\ UNCHANGED <<devSecret, Rows>>

HasMembership(u) == role[u] # NoRole

\* A gate that asks for a membership and not for its role.
AnyMember(r) == HasMembership(Of(r).user)

\* The membership and the viewer gate, from one query: the role is not read
\* again later, it travels with the request.
GatePasses(r) == HasMembership(Of(r).user) /\ ~(role[Of(r).user] = Viewer /\ IsWrite(Of(r).op))

\* TreeMembershipMiddleware and the second half of NodeAccessMiddleware, which
\* does not look whether the tree is deleted.
CheckMembership(r) ==
    /\ Of(r).at = "member"
    /\ IF GatePasses(r)
       THEN MoveTo(r, IF Of(r).op \in FlatWrites THEN "handler" ELSE "deleted")
       ELSE Answer(r, 403)
    /\ UNCHANGED <<devSecret, Rows>>

CheckDeleted(r) ==
    /\ Of(r).at = "deleted"
    /\ IF tree.state = "deleted" THEN Answer(r, 410) ELSE MoveTo(r, "handler")
    /\ UNCHANGED <<devSecret, Rows>>

-----------------------------------------------------------------------------
\* TreeHandler.CreateTree: the tree, the owner's membership and the root node
\* are one transaction.
CreateTree(r) ==
    /\ Of(r).at = "handler" /\ Of(r).op = "createTree" /\ tree.state = "none"
    /\ tree' = [state |-> "live", owner |-> Of(r).user]
    /\ role' = [role EXCEPT ![Of(r).user] = "owner"]
    /\ nodeRow' = [nodeRow EXCEPT ![RootNode] = "live"]
    /\ Answer(r, 201)
    /\ UNCHANGED <<devSecret, accounts, profileRows>>

TreeMissing(r) == Answer(r, IF tree.state = "deleted" THEN 410 ELSE 404)

\* GetTree reads the row, then the membership of anyone but the owner.
GetTree(r) ==
    /\ Of(r).op = "getTree"
    /\ \/ /\ Of(r).at = "handler"
          /\ IF tree.state # "live" THEN TreeMissing(r) ELSE MoveTo(r, "view")
       \/ /\ Of(r).at = "view"
          /\ Answer(r, IF Of(r).user = tree.owner \/ HasMembership(Of(r).user) THEN 200 ELSE 403)
    /\ UNCHANGED <<devSecret, Rows>>

\* UpdateTree, DeleteTree and ShareTree read the row and compare the owner.
OwnerCheck(r) ==
    /\ Of(r).at = "handler" /\ Of(r).op \in OwnerOps
    /\ IF tree.state # "live" THEN TreeMissing(r)
       ELSE IF Of(r).user # tree.owner THEN Answer(r, 403) ELSE MoveTo(r, "owner")
    /\ UNCHANGED <<devSecret, Rows>>

\* The service reads the row again and updates it WHERE deleted_at IS NULL.
UpdateTree(r) ==
    /\ Of(r).at = "owner" /\ Of(r).op = "updateTree"
    /\ Answer(r, IF tree.state = "live" THEN 200 ELSE 404)
    /\ UNCHANGED <<devSecret, Rows>>

\* A second deletion finds no row to update.
DeleteTree(r) ==
    /\ Of(r).at = "owner" /\ Of(r).op = "deleteTree"
    /\ IF tree.state = "live"
       THEN tree' = [tree EXCEPT !.state = "deleted"] /\ Answer(r, 204)
       ELSE Answer(r, 500) /\ UNCHANGED tree
    /\ UNCHANGED <<devSecret, accounts, role, nodeRow, profileRows>>

\* The invitee must have an account.
ResolveInvitee(r) ==
    /\ Of(r).at = "owner" /\ Of(r).op = "shareTree"
    /\ IF Of(r).invitee \in accounts THEN MoveTo(r, "add") ELSE Answer(r, 404)
    /\ UNCHANGED <<devSecret, Rows>>

\* An Add that replaces the row that is there.
AddOrReplace(r) ==
    /\ role' = [role EXCEPT ![Of(r).invitee] = Of(r).asRole]
    /\ Answer(r, 201)

\* members.Add: the unique key on (tree, user) refuses a second row, which the
\* handler answers with ALREADY_MEMBER.
MembersAdd(r) ==
    IF HasMembership(Of(r).invitee)
    THEN Answer(r, 409) /\ UNCHANGED role
    ELSE /\ role' = [role EXCEPT ![Of(r).invitee] = Of(r).asRole]
         /\ Answer(r, 201)

ShareTree(r) ==
    /\ Of(r).at = "add"
    /\ MembersAdd(r)
    /\ UNCHANGED <<devSecret, accounts, tree, nodeRow, profileRows>>

\* ListMembers asks for the membership once more; the middleware has seen one.
ListMembers(r) ==
    /\ Of(r).at = "handler" /\ Of(r).op = "listMembers"
    /\ Answer(r, IF HasMembership(Of(r).user) \/ Of(r).user = tree.owner THEN 200 ELSE 403)
    /\ UNCHANGED <<devSecret, Rows>>

\* handleGetByID.
GetNode(r) ==
    /\ Of(r).at = "handler" /\ Of(r).op = "getNode"
    /\ Answer(r, IF nodeRow[Of(r).node] = "live" THEN 200 ELSE 404)
    /\ UNCHANGED <<devSecret, Rows>>

Children(n) == IF n = RootNode THEN {m \in AccessNodes \ {RootNode} : nodeRow[m] = "live"} ELSE {}

\* handleCreate, handleReply, handleFork and CreateMerge: a new node under a
\* live parent; a fork's parent has children.  The tree's row is not read.
AddNode(r) ==
    /\ Of(r).at = "handler" /\ Of(r).op \in {"createNode", "reply", "fork", "merge"}
    /\ IF nodeRow[Of(r).node] # "live" \/ (Of(r).op = "fork" /\ Children(Of(r).node) = {})
       THEN Answer(r, 404) /\ UNCHANGED nodeRow
       ELSE \E n \in AccessNodes :
               /\ nodeRow[n] = "none"
               /\ nodeRow' = [nodeRow EXCEPT ![n] = "live"]
               /\ Answer(r, 201)
    /\ UNCHANGED <<devSecret, accounts, tree, role, profileRows>>

\* handleUpdate and handleDelete: one UPDATE ... WHERE deleted_at IS NULL.
ChangeNode(r) ==
    /\ Of(r).at = "handler" /\ Of(r).op \in {"updateNode", "updateFlat", "deleteNode", "deleteFlat"}
    /\ IF nodeRow[Of(r).node] # "live" THEN Answer(r, 410) /\ UNCHANGED nodeRow
       ELSE /\ nodeRow' = IF Of(r).op \in {"deleteNode", "deleteFlat"}
                          THEN [nodeRow EXCEPT ![Of(r).node] = "deleted"] ELSE nodeRow
            /\ Answer(r, 200)
    /\ UNCHANGED <<devSecret, accounts, tree, role, profileRows>>

\* ProfileHandler.CreateProfile: (owner, name) is unique.
CreateProfile(r) ==
    /\ Of(r).at = "handler" /\ Of(r).op = "createProfile"
    /\ LET profile == <<Of(r).user, Of(r).name>>
       IN  IF profile \in profileRows
           THEN Answer(r, 409) /\ UNCHANGED profileRows
           ELSE profileRows' = profileRows \cup {profile} /\ Answer(r, 201)
    /\ UNCHANGED <<devSecret, accounts, tree, role, nodeRow>>

RequestStep(r) ==
    \/ Arrive(r) \/ Authenticate(r) \/ ResolveNode(r) \/ CheckMembership(r)
    \/ CheckDeleted(r) \/ CreateTree(r) \/ GetTree(r) \/ OwnerCheck(r)
    \/ UpdateTree(r) \/ DeleteTree(r) \/ ResolveInvitee(r) \/ ShareTree(r)
    \/ ListMembers(r) \/ GetNode(r) \/ AddNode(r) \/ ChangeNode(r)
    \/ CreateProfile(r)

AccessNext == \E r \in Requests : RequestStep(r)
AccessSpec == AccessInit /\ [][AccessNext]_accessVars

-----------------------------------------------------------------------------
AccessTypeOK ==
    /\ accounts \subseteq AccessUsers
    /\ tree.state \in {"none", "live", "deleted"} /\ tree.owner \in AccessUsers \cup {Nobody}
    /\ role \in [AccessUsers -> TreeRoles \cup {NoRole}]
    /\ nodeRow \in [AccessNodes -> {"none", "live", "deleted"}]
    /\ \A r \in Requests : Of(r).user \in AccessUsers \cup {Nobody}

\* Whatever came between its checks, a request that is about to write nodes is
\* an editor's and one that is about to write the tree is its owner's; and a
\* request that arrived after the deletion does not get that far through the
\* tree's routes (TreeMembershipMiddleware, NodeAccessMiddleware,
\* isTreeOwner).  The bare node routes do not look at the tree's deletion.
WritesAuthorised ==
    \A r \in Requests :
        /\ Of(r).at = "handler" /\ IsWrite(Of(r).op) => role[Of(r).user] \in Editors
        /\ Of(r).at \in {"owner", "add"} => Of(r).user = tree.owner
        /\ Of(r).at \in {"owner", "add"} \/ (Of(r).at = "handler" /\ Of(r).op \in ScopedWrites)
              => ~Of(r).late

\* A tree that exists has its owner among its members, the only one with that
\* role, and everyone who owns or belongs to something has an account.
OwnerAmongMembers ==
    /\ tree.state # "none" => {u \in AccessUsers : role[u] = "owner"} = {tree.owner}
    /\ \A u \in AccessUsers : role[u] # NoRole => u \in accounts
    /\ \A p \in profileRows : p[1] \in accounts

\* No request takes a membership away or changes its role: two shares of one
\* user end with the first one's role and a 409 for the second (members.Add).
MembershipKept == [][\A u \in AccessUsers : role[u] # NoRole => role'[u] = role[u]]_accessVars

(***************************************************************************)
(* Rows of trees and nodes as their readers and writers see them.  A client *)
(* walks a list page by page with the last id of a page as its cursor while *)
(* rows come and go; a rename reads a whole row and writes it back.         *)
(***************************************************************************)

CONSTANTS
    RowIds,          \* ids, ordered as the database orders them (integers)
    RowKeys,         \* values of created_at or sequence_num; rows may share one
    PageLimit,       \* the limit a client asks for
    Renames,         \* requests that rename a tree
    RowTitles        \* titles

VARIABLES
    table,           \* the table at hand
    rows,            \* its rows: id -> [at, key, title, meta]
    walk,            \* a client's walk over it
    stable,          \* rows that have been live since the walk began
    cut,             \* a cursor was deleted before it was used
    renames          \* request -> where it stands and the row it read

treeRowVars == <<table, rows, walk, stable, cut, renames>>

Tables == {"trees", "nodes"}

Absent == [at |-> "none", key |-> 0, title |-> "none", meta |-> 0]

TreeRowsInit ==
    /\ table \in Tables
    /\ rows = [i \in RowIds |-> Absent]
    /\ walk = [pc |-> "idle", cursor |-> 0, listed |-> <<>>]
    /\ stable = {} /\ cut = FALSE
    /\ renames = [r \in Renames |-> [pc |-> "idle", id |-> 0, row |-> Absent]]

Live == {i \in RowIds : rows[i].at = "live"}

-----------------------------------------------------------------------------
(* Pages *)

\* Trees come newest first, nodes by their number; ids break ties.
Before(i, j) ==
    LET k == rows[i].key  l == rows[j].key IN
    IF table = "trees" THEN k > l \/ (k = l /\ i > j) ELSE k < l \/ (k = l /\ i < j)

Sorted(S) == SetToSortSeq(S, LAMBDA i, j : Before(i, j))

\* Mutant of After: ties are not broken by the id.
AfterKeyOnly(cursor) ==
    IF cursor = 0 THEN Live
    ELSE IF table = "nodes" /\ cursor \notin Live THEN {}
    ELSE {i \in Live : Before(cursor, i) /\ rows[i].key # rows[cursor].key}

\* Mutant of After: the cursor's own row is listed again.
AfterInclusive(cursor) ==
    IF cursor = 0 THEN Live
    ELSE IF table = "nodes" /\ cursor \notin Live THEN {}
    ELSE {i \in Live : i = cursor \/ Before(cursor, i)}

\* The rows a cursor leaves.  The cursor's own row is looked up: a deleted tree
\* is found, a deleted node is not, and nothing compares with it.
After(cursor) ==
    IF cursor = 0 THEN Live
    ELSE IF table = "nodes" /\ cursor \notin Live THEN {}
    ELSE {i \in Live : Before(cursor, i)}

\* One row more than the limit is fetched to know whether there are more.
ListKeyset(cursor, n) ==
    LET s == Sorted(After(cursor)) IN SubSeq(s, 1, IF Len(s) < n THEN Len(s) ELSE n)

BeginWalk ==
    /\ walk.pc = "idle"
    /\ walk' = [pc |-> "more", cursor |-> 0, listed |-> <<>>]
    /\ stable' = Live
    /\ UNCHANGED <<table, rows, cut, renames>>

\* Mutant of NextPage: the row that only tells whether there are more becomes
\* the cursor.
NextPageSkips ==
    LET fetched == ListKeyset(walk.cursor, PageLimit + 1)
        hasMore == Len(fetched) > PageLimit
        page == IF hasMore THEN SubSeq(fetched, 1, PageLimit) ELSE fetched IN
    /\ walk.pc = "more"
    /\ walk' =
          [pc |-> IF hasMore THEN "more" ELSE "done",
           cursor |-> IF hasMore THEN Last(fetched) ELSE 0, listed |-> walk.listed \o page]
    /\ cut' = (cut \/ (walk.cursor # 0 /\ walk.cursor \notin Live))
    /\ UNCHANGED <<table, rows, stable, renames>>

\* listTreesKeyset and ListByTreePage.
NextPage ==
    LET fetched == ListKeyset(walk.cursor, PageLimit + 1)
        hasMore == Len(fetched) > PageLimit
        page == IF hasMore THEN SubSeq(fetched, 1, PageLimit) ELSE fetched IN
    /\ walk.pc = "more"
    /\ walk' =
          [pc |-> IF hasMore THEN "more" ELSE "done",
           cursor |-> IF hasMore THEN Last(page) ELSE 0, listed |-> walk.listed \o page]
    /\ cut' = (cut \/ (walk.cursor # 0 /\ walk.cursor \notin Live))
    /\ UNCHANGED <<table, rows, stable, renames>>

-----------------------------------------------------------------------------
(* Rows *)

\* A new row has the next number, or the number of a row inserted meanwhile.
InsertRow(i, k, title) ==
    /\ rows[i] = Absent
    /\ \A j \in RowIds : rows[j] # Absent => rows[j].key <= k
    /\ rows' = [rows EXCEPT ![i] = [at |-> "live", key |-> k, title |-> title, meta |-> 0]]
    /\ UNCHANGED <<table, walk, stable, cut, renames>>

SoftDeleteRow(i) ==
    /\ i \in Live
    /\ rows' = [rows EXCEPT ![i].at = "deleted"]
    /\ stable' = stable \ {i}
    /\ UNCHANGED <<table, walk, cut, renames>>

\* UpdateTree reads the row ...
ReadForUpdate(r, i) ==
    /\ table = "trees" /\ renames[r].pc = "idle" /\ i \in Live
    /\ renames' = [renames EXCEPT ![r] = [pc |-> "write", id |-> i, row |-> rows[i]]]
    /\ UNCHANGED <<table, rows, walk, stable, cut>>

\* Mutant of WriteBack: the row is written whether or not it is still live.
WriteBackDeleted(r, title) ==
    LET i == renames[r].id IN
    /\ renames[r].pc = "write"
    /\ rows' = [rows EXCEPT ![i].at = "live", ![i].title = title,
                            ![i].meta = renames[r].row.meta]
    /\ renames' = [renames EXCEPT ![r].pc = "done"]
    /\ UNCHANGED <<table, walk, stable, cut>>

\* ... and writes title, description, root and metadata back, the metadata as
\* it was when the row was read.  A row deleted meanwhile is not found.
WriteBack(r, title) ==
    LET i == renames[r].id IN
    /\ renames[r].pc = "write"
    /\ rows' = IF i \in Live
               THEN [rows EXCEPT ![i].title = title, ![i].meta = renames[r].row.meta]
               ELSE rows
    /\ renames' = [renames EXCEPT ![r].pc = "done"]
    /\ UNCHANGED <<table, walk, stable, cut>>

\* An import writes its metadata into the row, in a statement of its own.
UpdateTreeMetadata(i) ==
    /\ table = "trees" /\ i \in Live /\ rows[i].meta = 0
    /\ rows' = [rows EXCEPT ![i].meta = 1]
    /\ UNCHANGED <<table, walk, stable, cut, renames>>

TreeRowsNext ==
    \/ BeginWalk \/ NextPage
    \/ \E i \in RowIds : SoftDeleteRow(i) \/ UpdateTreeMetadata(i)
    \/ \E i \in RowIds, k \in RowKeys, title \in RowTitles : InsertRow(i, k, title)
    \/ \E r \in Renames, i \in RowIds : ReadForUpdate(r, i)
    \/ \E r \in Renames, title \in RowTitles : WriteBack(r, title)

TreeRowsSpec == TreeRowsInit /\ [][TreeRowsNext]_treeRowVars

-----------------------------------------------------------------------------
TreeRowsTypeOK ==
    /\ stable \subseteq RowIds /\ Range(walk.listed) \subseteq RowIds
    /\ \A i \in RowIds : rows[i].at \in {"none", "live", "deleted"}

\* A walk lists no row twice, however many rows are inserted, with equal times
\* or numbers, while it goes on.
ListedOnce == IsInjective(walk.listed)

\* A finished walk has listed every row that was live throughout, unless the
\* node at a page's end was deleted before the next page was asked for.
WalkComplete ==
    walk.pc = "done" /\ ~(table = "nodes" /\ cut) =>
        stable \subseteq Range(walk.listed)

\* A deleted row stays deleted, a rename that read it before included.
DeletedStays ==
    [][\A i \in RowIds : rows[i].at = "deleted" => rows'[i] = rows[i]]_treeRowVars

\* A rename changes title and description only, as UpdateTree's comment says.
RenameKeepsMetadata ==
    [][\A i \in RowIds : rows[i].meta = 1 => rows'[i].meta = 1]_treeRowVars
=============================================================================
