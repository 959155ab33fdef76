---------------------------- MODULE StoreParity ----------------------------
(***************************************************************************)
(* The two implementations of the repository interfaces of internal/db:    *)
(* the PostgreSQL repositories (internal/db/*_repo.go) and the SQLite ones *)
(* (internal/db/sqlite/*_repo.go) a desktop build is to run on.  Each      *)
(* method is translated twice, once from each file, as an operator on a    *)
(* store: PgTreeCreate(s, ...) and LiteTreeCreate(s, ...).  A step issues  *)
(* the same call to both stores.                                           *)
(*                                                                         *)
(* A store is a record of tables and a table a set of rows.  Ids are drawn *)
(* from one counter per table, so that id order is creation order (both    *)
(* stores use UUIDv7); instants are distinct.  0 is NULL, gone stands for  *)
(* deleted_at and edited for edited_at being set.                          *)
(*                                                                         *)
(* SQLite cannot return what its triggers write, so its updates are two    *)
(* statements: the UPDATE and a later read of the row.  Between the two    *)
(* other calls may run: readBack holds the read that is still to come.     *)
(***************************************************************************)
EXTENDS Integers, FiniteSets, Sequences, SequencesExt

CONSTANTS
    Names,       \* names, titles and e-mail addresses
    Texts,       \* what a node is changed to say
    MaxMade,     \* how many rows each table may ever be given
    MaxSeq,      \* the largest sequence number an edge is given
    DefaultPage, \* the page size when the caller's is out of range (50)
    MaxPage      \* the largest page size (200)

ASSUME PageAssumption == DefaultPage \in Nat /\ MaxPage \in Nat /\ MaxSeq \in Nat

VARIABLES
    pg,          \* the PostgreSQL store
    lite,        \* the SQLite store
    made,        \* rows ever given to each table
    readBack,    \* the SQLite update whose row is still to be read back
    alike        \* whether every call so far was answered alike

parityVars == <<pg, lite, made, readBack, alike>>

NULL == 0
Tables == {"users", "profiles", "members", "trees", "nodes", "edges"}
NoRead == [table |-> "trees", id |-> NULL, row |-> NULL, touched |-> FALSE]

-----------------------------------------------------------------------------
(* Rows, and the answers of the methods.                                   *)

Live(rows) == {r \in rows : ~r.gone}
At(rows, id) == {r \in rows : r.id = id}
The(rows, id) == CHOOSE r \in rows : r.id = id

\* The rows of a query in the order of key, rows of equal rank in any order.
Ranked(rows, key(_)) ==
    [k \in {key(r) : r \in rows} |-> {r \in rows : key(r) = k}]

\* ORDER BY created_at DESC: the newest row first.
NewestFirst(rows) == SetToSortSeq(rows, LAMBDA a, b : a.id > b.id)

\* LIMIT l OFFSET o of a sequence of rows.
Slice(rows, l, o) ==
    SubSeq(rows, o + 1, IF o + l < Len(rows) THEN o + l ELSE Len(rows))

Done(s, row) == [kind |-> "ok", store |-> s, row |-> row]
Fail(s, kind) == [kind |-> kind, store |-> s, row |-> NULL]

Put(s, table, row) ==
    [s EXCEPT ![table] = {r \in @ : r.id # row.id} \cup {row}]
Change(s, table, row) == Done(Put(s, table, row), row)

\* A row found by id among rows, or db.ErrNotFound.
Found(s, rows, id) ==
    IF At(rows, id) = {} THEN Fail(s, "not_found") ELSE Done(s, The(rows, id))

\* What can be reached from start by at most depth steps.
Grow(start, step(_), depth) ==
    LET grown[k \in 0..depth] ==
            IF k = 0 THEN start ELSE grown[k - 1] \cup step(grown[k - 1])
    IN  grown[depth]

-----------------------------------------------------------------------------
(* Users: PGUserRepo and sqlite.UserRepo.                                  *)

UserRow(id, hermes, email, name) ==
    [id |-> id, hermes |-> hermes, email |-> email, name |-> name,
     gone |-> FALSE]

PgUserCreate(s, id, hermes, email, name) ==
    IF \E u \in s.users : u.hermes = hermes      \* UNIQUE (hermes_user_id)
    THEN Fail(s, "error")
    ELSE Change(s, "users", UserRow(id, hermes, email, name))

PgUserGetByID(s, id) == Found(s, Live(s.users), id)
PgGetByHermesUserID(s, h) == {u \in Live(s.users) : u.hermes = h}

\* e-mail addresses are not unique: any matching row may be answered.
PgGetByEmail(s, e) == {u \in Live(s.users) : u.email # NULL /\ u.email = e}

PgUserUpdate(s, id, name) ==
    IF At(Live(s.users), id) = {} THEN Fail(s, "not_found")
    ELSE Change(s, "users", [The(s.users, id) EXCEPT !.name = name])

LiteUserCreate(s, id, hermes, email, name) ==
    IF {u \in s.users : u.hermes = hermes} # {}
    THEN Fail(s, "error")
    ELSE Change(s, "users", UserRow(id, hermes, email, name))

LiteUserGetByID(s, id) == Found(s, Live(s.users), id)
LiteGetByHermesUserID(s, h) == {u \in Live(s.users) : u.hermes = h}
LiteGetByEmail(s, e) == {u \in Live(s.users) : u.email # NULL /\ u.email = e}

\* The UPDATE statement only: the row is read back by a later statement.
LiteUserUpdate(s, id, name) ==
    IF At(Live(s.users), id) = {} THEN Fail(s, "not_found")
    ELSE Change(s, "users", [The(s.users, id) EXCEPT !.name = name])

-----------------------------------------------------------------------------
(* Profiles.                                                               *)

ProfileRow(id, owner, kind, name) ==
    [id |-> id, owner |-> owner, kind |-> kind, name |-> name,
     gone |-> FALSE]

\* Foreign key to users, UNIQUE (owner_id, name).
ProfileRefused(s, owner, name) ==
    \/ At(s.users, owner) = {}
    \/ \E p \in s.profiles : p.owner = owner /\ p.name = name

PgProfileCreate(s, id, owner, kind, name) ==
    LET ptype == IF kind = "" THEN "hermes-profile" ELSE kind
    IN  IF ProfileRefused(s, owner, name) THEN Fail(s, "error")
        ELSE Change(s, "profiles", ProfileRow(id, owner, ptype, name))

PgProfileGetByID(s, id) == Found(s, Live(s.profiles), id)
PgProfileGetByOwner(s, owner) ==
    NewestFirst({p \in Live(s.profiles) : p.owner = owner})

\* One row per membership, the latest to join first.
PgProfileListByTree(s, tree) ==
    LET joins == {m \in s.members : m.tree = tree /\
                                    At(Live(s.profiles), m.profile) # {}}
    IN  [i \in DOMAIN NewestFirst(joins) |->
            The(s.profiles, NewestFirst(joins)[i].profile)]

LiteProfileCreate(s, id, owner, kind, name) ==
    LET ptype == IF kind = "" THEN "hermes-profile" ELSE kind
    IN  IF ProfileRefused(s, owner, name) THEN Fail(s, "error")
        ELSE Change(s, "profiles", ProfileRow(id, owner, ptype, name))

LiteProfileGetByID(s, id) == Found(s, Live(s.profiles), id)
LiteProfileGetByOwner(s, owner) ==
    NewestFirst({p \in Live(s.profiles) : p.owner = owner})

LiteProfileListByTree(s, tree) ==
    LET joins == {m \in s.members :
                    /\ m.tree = tree
                    /\ \E p \in Live(s.profiles) : p.id = m.profile}
    IN  [i \in DOMAIN NewestFirst(joins) |->
            The(s.profiles, NewestFirst(joins)[i].profile)]

-----------------------------------------------------------------------------
(* Tree memberships: of a user or of a profile, never of both.             *)

MemberRow(id, tree, user, profile, role, visible) ==
    [id |-> id, tree |-> tree, user |-> user, profile |-> profile,
     role |-> role, visible |-> visible]

\* Foreign keys, and UNIQUE (tree, user) and (tree, profile), NULLs distinct.
MemberRefused(s, tree, user, profile) ==
    \/ At(s.trees, tree) = {}
    \/ user # NULL /\ At(s.users, user) = {}
    \/ profile # NULL /\ At(s.profiles, profile) = {}
    \/ \E m \in s.members :
          /\ m.tree = tree
          /\ m.user = user /\ m.profile = profile

PgMemberAdd(s, id, tree, user, profile, role, visible) ==
    IF (user = NULL) = (profile = NULL) \/ MemberRefused(s, tree, user, profile)
    THEN Fail(s, "error")
    ELSE Change(s, "members", MemberRow(id, tree, user, profile,
                    IF role = "" THEN "member" ELSE role, visible))

PgMemberGetByTree(s, tree) ==
    Reverse(NewestFirst({m \in s.members : m.tree = tree}))
PgMemberGetByUser(s, user) == NewestFirst({m \in s.members : m.user = user})

\* The page and the total, which an empty page leaves at 0.
PgMemberListByTree(s, tree, hidden, limit, offset) ==
    LET all  == Reverse(NewestFirst({m \in s.members :
                            m.tree = tree /\ (hidden \/ m.visible)}))
        page == Slice(all, limit, offset)
    IN  [page |-> page, total |-> IF page = <<>> THEN 0 ELSE Len(all)]

PgUpdateRole(s, id, role) ==
    IF At(s.members, id) = {} THEN Fail(s, "not_found")
    ELSE Change(s, "members", [The(s.members, id) EXCEPT !.role = role])

PgMemberRemove(s, id) ==
    IF At(s.members, id) = {} THEN Fail(s, "not_found")
    ELSE Done([s EXCEPT !.members = {m \in @ : m.id # id}], NULL)

RolesOf(s, tree, user) ==
    {m.role : m \in {n \in s.members : n.tree = tree /\ n.user = user}}

PgIsMember(s, tree, user) == RolesOf(s, tree, user)
PgIsTreeDeleted(s, tree) == \E t \in s.trees : t.id = tree /\ t.gone
PgGetRole(s, tree, user) ==
    IF RolesOf(s, tree, user) = {} THEN Fail(s, "error")
    ELSE Done(s, RolesOf(s, tree, user))

LiteMemberAdd(s, id, tree, user, profile, role, visible) ==
    IF (user = NULL) = (profile = NULL) \/ MemberRefused(s, tree, user, profile)
    THEN Fail(s, "error")
    ELSE Change(s, "members", MemberRow(id, tree, user, profile,
                    IF role = "" THEN "member" ELSE role, visible))

LiteMemberGetByTree(s, tree) ==
    Reverse(NewestFirst({m \in s.members : m.tree = tree}))
LiteMemberGetByUser(s, user) == NewestFirst({m \in s.members : m.user = user})

LiteMemberListByTree(s, tree, hidden, limit, offset) ==
    LET all  == Reverse(NewestFirst({m \in s.members :
                            m.tree = tree /\ (m.visible \/ hidden)}))
        page == Slice(all, limit, offset)
    IN  [page |-> page, total |-> IF page = <<>> THEN 0 ELSE Len(all)]

LiteUpdateRole(s, id, role) ==
    IF At(s.members, id) = {} THEN Fail(s, "not_found")
    ELSE Change(s, "members", [The(s.members, id) EXCEPT !.role = role])

LiteMemberRemove(s, id) ==
    IF At(s.members, id) = {} THEN Fail(s, "not_found")
    ELSE Done([s EXCEPT !.members = {m \in @ : m.id # id}], NULL)

LiteIsMember(s, tree, user) == RolesOf(s, tree, user)
LiteIsTreeDeleted(s, tree) == \E t \in s.trees : t.id = tree /\ t.gone
LiteGetRole(s, tree, user) ==
    IF RolesOf(s, tree, user) = {} THEN Fail(s, "not_found")
    ELSE Done(s, RolesOf(s, tree, user))

-----------------------------------------------------------------------------
(* Trees: PGTreeRepo and sqlite.TreeRepo.                                  *)

TreeRow(id, owner, title) ==
    [id |-> id, owner |-> owner, title |-> title, edited |-> FALSE,
     gone |-> FALSE]

PgTreeCreate(s, id, owner, title) ==
    Change(s, "trees", TreeRow(id, owner, title))
PgTreeGetByID(s, id) == Found(s, Live(s.trees), id)
PgTreeGetByOwner(s, owner) ==
    NewestFirst({t \in Live(s.trees) : t.owner = owner})

PgTreeUpdate(s, id, title) ==
    IF At(Live(s.trees), id) = {} THEN Fail(s, "not_found")
    ELSE Change(s, "trees",
            [The(s.trees, id) EXCEPT !.title = title, !.edited = TRUE])

PgTreeSoftDelete(s, id) ==
    IF At(Live(s.trees), id) = {} THEN Fail(s, "not_found")
    ELSE Change(s, "trees", [The(s.trees, id) EXCEPT !.gone = TRUE])

PgTreeList(s, limit, offset) ==
    Slice(NewestFirst(Live(s.trees)),
          IF limit <= 0 \/ limit > MaxPage THEN DefaultPage ELSE limit,
          IF offset < 0 THEN 0 ELSE offset)

PgTreeCount(s) == Cardinality(Live(s.trees))

\* Trees with no such rows are absent from the three per-tree maps.
PgCountNodesByTreeIDs(s, ids) ==
    LET live == {n \in Live(s.nodes) : n.tree \in ids}
    IN  [t \in {n.tree : n \in live} |-> Cardinality({n \in live : n.tree = t})]
PgCountMembersByTreeIDs(s, ids) ==
    LET all == {m \in s.members : m.tree \in ids}
    IN  [t \in {m.tree : m \in all} |-> Cardinality({m \in all : m.tree = t})]
PgLastActivityByTreeIDs(s, ids) ==
    LET live == {n \in Live(s.nodes) : n.tree \in ids}
    IN  [t \in {n.tree : n \in live} |->
            Max({n.id : n \in {m \in live : m.tree = t}})]

\* The rows before the cursor's, deleted or not; none for an unknown cursor.
PgTreeListKeyset(s, cursor, limit) ==
    LET before == {t \in Live(s.trees) :
                    \/ cursor = NULL
                    \/ At(s.trees, cursor) # {} /\ t.id < cursor}
    IN  Slice(NewestFirst(before),
              IF limit <= 0 \/ limit > MaxPage THEN DefaultPage ELSE limit, 0)

\* An empty query (NULL) is refused; a name stands for the pattern it matches.
PgTreeSearch(s, query, limit, offset) ==
    IF query = NULL THEN Fail(s, "not_found")
    ELSE Done(s, Slice(NewestFirst({t \in Live(s.trees) : t.title = query}),
                 IF limit <= 0 \/ limit > MaxPage THEN DefaultPage ELSE limit,
                 IF offset < 0 THEN 0 ELSE offset))

LiteTreeCreate(s, id, owner, title) ==
    Change(s, "trees", TreeRow(id, owner, title))
LiteTreeGetByID(s, id) == Found(s, Live(s.trees), id)
LiteTreeGetByOwner(s, owner) ==
    NewestFirst({t \in Live(s.trees) : t.owner = owner})

LiteTreeUpdate(s, id, title) ==
    IF At(Live(s.trees), id) = {} THEN Fail(s, "not_found")
    ELSE Change(s, "trees",
            [The(s.trees, id) EXCEPT !.title = title, !.edited = TRUE])

LiteTreeSoftDelete(s, id) ==
    IF At(Live(s.trees), id) = {} THEN Fail(s, "not_found")
    ELSE Change(s, "trees", [The(s.trees, id) EXCEPT !.gone = TRUE])

\* clampPage: the page LIMIT and OFFSET a caller's numbers stand for.
ClampPage(limit, offset) ==
    [limit  |-> IF limit \in 1..MaxPage THEN limit ELSE DefaultPage,
     offset |-> IF offset < 0 THEN 0 ELSE offset]

LiteTreeList(s, limit, offset) ==
    LET p == ClampPage(limit, offset)
    IN  Slice(NewestFirst(Live(s.trees)), p.limit, p.offset)

LiteTreeCount(s) == Cardinality(Live(s.trees))
LiteCountNodesByTreeIDs(s, ids) ==
    LET live == {n \in Live(s.nodes) : n.tree \in ids}
    IN  [t \in {n.tree : n \in live} |-> Cardinality({n \in live : n.tree = t})]
LiteCountMembersByTreeIDs(s, ids) ==
    LET all == {m \in s.members : m.tree \in ids}
    IN  [t \in {m.tree : m \in all} |-> Cardinality({m \in all : m.tree = t})]
LiteLastActivityByTreeIDs(s, ids) ==
    LET live == {n \in Live(s.nodes) : n.tree \in ids}
    IN  [t \in {n.tree : n \in live} |->
            Max({n.id : n \in {m \in live : m.tree = t}})]

\* A keyset query that looks the cursor up among the live rows.
KeysetLiveCursor(s, cursor, limit) ==
    LET before == {t \in Live(s.trees) :
                    cursor = NULL \/ \E c \in Live(s.trees) : c.id = cursor /\ t.id < c.id}
    IN  Slice(NewestFirst(before), ClampPage(limit, 0).limit, 0)

LiteTreeListKeyset(s, cursor, limit) ==
    LET before == IF cursor = NULL THEN Live(s.trees)
                  ELSE {t \in Live(s.trees) :
                            \E c \in s.trees : c.id = cursor /\ t.id < c.id}
    IN  Slice(NewestFirst(before), ClampPage(limit, 0).limit, 0)

LiteTreeSearch(s, query, limit, offset) ==
    LET p == ClampPage(limit, offset)
    IN  IF query = NULL THEN Fail(s, "not_found")
        ELSE Done(s, Slice(NewestFirst({t \in Live(s.trees) : t.title = query}),
                           p.limit, p.offset))

-----------------------------------------------------------------------------
(* Nodes: PGNodeRepo and sqlite.NodeRepo.                                  *)

NodeRow(id, tree, parent, type, seq, text) ==
    [id |-> id, tree |-> tree, parent |-> parent, type |-> type, seq |-> seq,
     text |-> text, hash |-> text, edited |-> FALSE, gone |-> FALSE]

\* set_node_sequence(): one more than the tree's largest number, deleted
\* nodes counted; NextNodeSequence computes it for SQLite.
SetNodeSequence(s, tree) ==
    Max({0} \cup {n.seq : n \in {m \in s.nodes : m.tree = tree}}) + 1

PgNodeCreate(s, id, tree, parent, type, text) ==
    IF At(s.trees, tree) = {} THEN Fail(s, "tree_not_found")
    ELSE IF parent # NULL /\ At(s.nodes, parent) = {} THEN Fail(s, "error")
    ELSE Change(s, "nodes", NodeRow(id, tree, parent,
            IF type = "" THEN "message" ELSE type, SetNodeSequence(s, tree), text))

PgNodeGetByID(s, id) == Found(s, Live(s.nodes), id)
PgNodeGetByTree(s, tree) ==
    Ranked({n \in Live(s.nodes) : n.tree = tree}, LAMBDA n : n.seq)
PgCountByTree(s, tree) == Cardinality({n \in Live(s.nodes) : n.tree = tree})

\* Live nodes at the end of a live edge of parent, once per edge.
PgGetChildren(s, parent) ==
    Ranked({[rank |-> <<e.seq, The(s.nodes, e.target).seq>>, edge |-> e.id,
             node |-> The(s.nodes, e.target)] :
                e \in {d \in Live(s.edges) : d.source = parent /\
                                 At(Live(s.nodes), d.target) # {}}},
           LAMBDA r : r.rank)

\* The node and the live nodes above it, a deleted parent ends the chain.
AncestorsIn(rows, id) ==
    Grow(At(rows, id),
         LAMBDA chain : {n \in rows : \E c \in chain : c.parent = n.id},
         Cardinality(rows))
PgGetAncestors(s, id) ==
    SetToSortSeq(AncestorsIn(Live(s.nodes), id), LAMBDA a, b : a.seq < b.seq)

\* What the live edges lead to; maxDepth 0 is no bound, a node counts once.
PgGetSubtree(s, root, maxDepth) ==
    LET rows == Live(s.nodes)
        below(sub) == {n \in rows : \E e \in Live(s.edges) :
                            e.target = n.id /\ \E m \in sub : m.id = e.source}
    IN  Ranked(Grow(At(rows, root), below,
                    IF maxDepth <= 0 THEN Cardinality(rows) ELSE maxDepth),
               LAMBDA n : n.seq)

\* The newest node both chains of ancestors hold, NULL when there is none.
CommonAncestor(rows, from, to) ==
    LET both == {n.id : n \in AncestorsIn(rows, from)} \cap
                {n.id : n \in AncestorsIn(rows, to)}
    IN  IF both = {} THEN NULL ELSE Max(both)

IndexIn(rows, id) == CHOOSE i \in DOMAIN rows : rows[i].id = id

\* The ancestors are listed from the root down, and the loops read them as
\* if they were listed from the node up: the path leads away from both ends.
PgGetPath(s, from, to) ==
    LET lca == CommonAncestor(Live(s.nodes), from, to)
        ancFrom == PgGetAncestors(s, from)
        ancTo == PgGetAncestors(s, to)
    IN  IF lca = NULL THEN Fail(s, "not_found")
        ELSE Done(s, Reverse(SubSeq(ancFrom, 1, IndexIn(ancFrom, lca)))
                     \o Reverse(SubSeq(ancTo, 1, IndexIn(ancTo, lca) - 1)))

\* The triggers set edited_at only when the text changes, and the hash.
PgNodeUpdate(s, id, text) ==
    IF At(Live(s.nodes), id) = {} THEN Fail(s, "not_found")
    ELSE Change(s, "nodes", [The(s.nodes, id) EXCEPT
            !.text = text, !.hash = text, !.edited = @ \/ text # The(s.nodes, id).text])

PgNodeSoftDelete(s, id) ==
    IF At(Live(s.nodes), id) = {} THEN Fail(s, "not_found")
    ELSE Change(s, "nodes", [The(s.nodes, id) EXCEPT !.gone = TRUE])

\* ON DELETE: the children's parent becomes NULL, the node's edges go with it.
PgNodeHardDelete(s, id) ==
    IF At(s.nodes, id) = {} THEN Fail(s, "not_found")
    ELSE Done([s EXCEPT
            !.nodes = {[n EXCEPT !.parent = IF @ = id THEN NULL ELSE @] :
                            n \in {m \in @ : m.id # id}},
            !.edges = {e \in @ : e.source # id /\ e.target # id}], NULL)

\* The depth of every row of the tree that hangs, deleted or not, off a root.
Depths(rows) ==
    LET within(d) == Grow({n \in rows : n.parent = NULL},
                          LAMBDA up : {n \in rows : \E p \in up : n.parent = p.id}, d)
    IN  {d \in 0..Cardinality(rows) :
            d = 0 \/ within(d) # within(d - 1)}

RowCounts(s, tree) ==
    LET nodes == {n \in s.nodes : n.tree = tree}
        edges == {e \in s.edges : e.tree = tree}
    IN  [total |-> Cardinality(nodes), active |-> Cardinality(Live(nodes)),
         edges |-> Cardinality(edges), activeEdges |-> Cardinality(Live(edges)),
         depth |-> Max(Depths(nodes))]

\* The counts are joined with the depths: with no root there is no row, and
\* every count is answered as zero.
PgNodeGetCounts(s, tree) ==
    IF \E n \in s.nodes : n.tree = tree /\ n.parent = NULL
    THEN RowCounts(s, tree)
    ELSE [total |-> 0, active |-> 0, edges |-> 0, activeEdges |-> 0, depth |-> 0]

\* A missing tree is any other constraint error.
LiteNodeCreate(s, id, tree, parent, type, text) ==
    IF At(s.trees, tree) = {} \/ (parent # NULL /\ At(s.nodes, parent) = {})
    THEN Fail(s, "error")
    ELSE Change(s, "nodes", NodeRow(id, tree, parent,
            IF type = "" THEN "message" ELSE type, SetNodeSequence(s, tree), text))

LiteNodeGetByID(s, id) == Found(s, Live(s.nodes), id)
LiteNodeGetByTree(s, tree) ==
    Ranked({n \in Live(s.nodes) : n.tree = tree}, LAMBDA n : n.seq)

LiteGetChildren(s, parent) ==
    Ranked({[rank |-> <<e.seq, The(s.nodes, e.target).seq>>, edge |-> e.id,
             node |-> The(s.nodes, e.target)] :
                e \in {d \in Live(s.edges) : d.source = parent /\
                                 \E n \in Live(s.nodes) : n.id = d.target}},
           LAMBDA r : r.rank)

LiteGetAncestors(s, id) ==
    SetToSortSeq(AncestorsIn(Live(s.nodes), id), LAMBDA a, b : a.seq < b.seq)

LiteGetSubtree(s, root, maxDepth) ==
    LET rows == Live(s.nodes)
        below(sub) == {n \in rows : \E e \in Live(s.edges), m \in sub :
                            e.target = n.id /\ m.id = e.source}
    IN  Ranked(Grow(At(rows, root), below,
                    IF maxDepth <= 0 THEN Cardinality(rows) ELSE maxDepth),
               LAMBDA n : n.seq)

\* From the node up to the common ancestor, then down to the other one.
LiteGetPath(s, from, to) ==
    LET lca == CommonAncestor(Live(s.nodes), from, to)
        ancFrom == LiteGetAncestors(s, from)
        ancTo == LiteGetAncestors(s, to)
    IN  IF lca = NULL THEN Fail(s, "not_found")
        ELSE Done(s, Reverse(SubSeq(ancFrom, IndexIn(ancFrom, lca), Len(ancFrom)))
                     \o SubSeq(ancTo, IndexIn(ancTo, lca) + 1, Len(ancTo)))

LiteNodeUpdate(s, id, text) ==
    IF At(Live(s.nodes), id) = {} THEN Fail(s, "not_found")
    ELSE Change(s, "nodes", [The(s.nodes, id) EXCEPT
            !.text = text, !.hash = text, !.edited = @ \/ text # The(s.nodes, id).text])

LiteNodeSoftDelete(s, id) ==
    IF At(Live(s.nodes), id) = {} THEN Fail(s, "not_found")
    ELSE Change(s, "nodes", [The(s.nodes, id) EXCEPT !.gone = TRUE])

LiteNodeHardDelete(s, id) ==
    IF At(s.nodes, id) = {} THEN Fail(s, "not_found")
    ELSE Done([s EXCEPT
            !.nodes = {[n EXCEPT !.parent = IF @ = id THEN NULL ELSE @] :
                            n \in {m \in @ : m.id # id}},
            !.edges = {e \in @ : e.source # id /\ e.target # id}], NULL)

LiteNodeGetCounts(s, tree) == RowCounts(s, tree)

-----------------------------------------------------------------------------
(* Edges: PGEdgeRepo and sqlite.EdgeRepo.  No node is in multi_reference   *)
(* mode here: CreateReferenceSet, which makes them, exists on PostgreSQL   *)
(* only (GraphStore models it).                                            *)

EdgeRow(id, tree, source, target, type, seq) ==
    [id |-> id, tree |-> tree, source |-> source, target |-> target,
     type |-> type, seq |-> seq, gone |-> FALSE]

\* Foreign keys, CHECK (source_id != target_id) and UNIQUE (source, target,
\* type), which deleted rows count for; but names the edge being moved.
EdgeRefused(s, tree, source, target, type, but) ==
    \/ At(s.trees, tree) = {} \/ At(s.nodes, source) = {}
    \/ source = target
    \/ \E e \in s.edges : /\ e.id # but
                          /\ e.source = source /\ e.target = target
                          /\ e.type = type

PgEdgeCreate(s, id, tree, source, target, type, seq) ==
    LET targets == At(Live(s.nodes), target)
        parents == {e \in Live(s.edges) : e.target = target}
        targetType == The(targets, target).type
    IN  CASE source = target -> Fail(s, "self_edge")
          [] source # target /\ targets = {} -> Fail(s, "not_found")
          [] OTHER ->
             CASE targetType = "system" -> Fail(s, "system_parent")
               [] targetType = "synthesis" /\ type = "reference" ->
                    Fail(s, "reference_type")
               [] targetType = "message" /\ type = "reference" ->
                    Fail(s, "reference_mode")
               [] targetType = "message" /\ type # "reference" /\ parents # {} ->
                    Fail(s, "multiple_parents")
               [] OTHER ->
                    IF EdgeRefused(s, tree, source, target, type, NULL)
                    THEN Fail(s, "error")
                    ELSE Change(s, "edges",
                                EdgeRow(id, tree, source, target, type, seq))

PgEdgeGetByID(s, id) == Found(s, Live(s.edges), id)
PgGetBySource(s, n) ==
    Ranked({e \in Live(s.edges) : e.source = n}, LAMBDA e : e.seq)
PgGetByTarget(s, n) ==
    Ranked({e \in Live(s.edges) : e.target = n}, LAMBDA e : e.seq)
PgEdgeGetByTree(s, tree) ==
    Ranked({e \in Live(s.edges) : e.tree = tree}, LAMBDA e : <<e.source, e.seq>>)

PgEdgeSoftDelete(s, id) ==
    IF At(Live(s.edges), id) = {} THEN Fail(s, "not_found")
    ELSE Change(s, "edges", [The(s.edges, id) EXCEPT !.gone = TRUE])

PgGetParents(s, target) ==
    Ranked({[rank |-> e.seq, edge |-> e.id, node |-> The(s.nodes, e.source)] :
                e \in {d \in Live(s.edges) : d.target = target /\
                                 At(Live(s.nodes), d.source) # {}}},
           LAMBDA r : r.rank)

\* The type subquery takes any one of the edges from source to target.
PgGetSiblings(s, source, target) ==
    LET types == {e.type : e \in {d \in Live(s.edges) :
                                    d.source = source /\ d.target = target}}
    IN  {Ranked({[rank |-> e.seq, edge |-> e.id, node |-> The(s.nodes, e.target)] :
                    e \in {d \in Live(s.edges) :
                             /\ d.source = source /\ d.type = t
                             /\ At(Live(s.nodes), d.target) # {}}},
                LAMBDA r : r.rank) : t \in types}

PgGetEdgeCounts(s, tree) ==
    LET all == {e \in s.edges : e.tree = tree}
    IN  [total |-> Cardinality(all), active |-> Cardinality(Live(all)),
         byType |-> [t \in {e.type : e \in Live(all)} |->
                        Cardinality({e \in Live(all) : e.type = t})]]

\* The place of a moved edge: after the live edges of its new source.
LastPlace(s, source) ==
    Max({0} \cup {e.seq : e \in {d \in Live(s.edges) : d.source = source}}) + 1

\* One statement; a node moved under itself meets the CHECK constraint.
PgEdgeMove(s, id, source) ==
    LET found == {e \in At(Live(s.edges), id) : e.source # source}
        e == The(found, id)
    IN  IF found = {} THEN Fail(s, "not_found")
        ELSE IF EdgeRefused(s, e.tree, source, e.target, e.type, id)
        THEN Fail(s, "error")
        ELSE Change(s, "edges",
                [e EXCEPT !.source = source, !.seq = LastPlace(s, source)])

LiteEdgeCreate(s, id, tree, source, target, type, seq) ==
    LET targets == At(Live(s.nodes), target)
        targetType == The(targets, target).type
    IN  IF source = target THEN Fail(s, "self_edge")
        ELSE IF targets = {} THEN Fail(s, "not_found")
        ELSE IF targetType = "system" THEN Fail(s, "system_parent")
        ELSE IF targetType = "synthesis" /\ type = "reference"
        THEN Fail(s, "reference_type")
        ELSE IF targetType # "synthesis" /\ type = "reference"
        THEN Fail(s, "reference_mode")
        ELSE IF targetType # "synthesis" /\
                \E e \in Live(s.edges) : e.target = target
        THEN Fail(s, "multiple_parents")
        ELSE IF EdgeRefused(s, tree, source, target, type, NULL)
        THEN Fail(s, "error")
        ELSE Change(s, "edges", EdgeRow(id, tree, source, target, type, seq))

LiteEdgeGetByID(s, id) == Found(s, Live(s.edges), id)
LiteGetBySource(s, n) ==
    Ranked({e \in Live(s.edges) : e.source = n}, LAMBDA e : e.seq)
LiteGetByTarget(s, n) ==
    Ranked({e \in Live(s.edges) : e.target = n}, LAMBDA e : e.seq)
LiteEdgeGetByTree(s, tree) ==
    Ranked({e \in Live(s.edges) : e.tree = tree}, LAMBDA e : <<e.source, e.seq>>)

LiteEdgeSoftDelete(s, id) ==
    IF At(Live(s.edges), id) = {} THEN Fail(s, "not_found")
    ELSE Change(s, "edges", [The(s.edges, id) EXCEPT !.gone = TRUE])

LiteGetParents(s, target) ==
    Ranked({[rank |-> e.seq, edge |-> e.id, node |-> The(s.nodes, e.source)] :
                e \in {d \in Live(s.edges) : d.target = target /\
                                 \E n \in Live(s.nodes) : n.id = d.source}},
           LAMBDA r : r.rank)

LiteGetSiblings(s, source, target) ==
    LET types == {e.type : e \in {d \in Live(s.edges) :
                                    d.source = source /\ d.target = target}}
    IN  {Ranked({[rank |-> e.seq, edge |-> e.id, node |-> The(s.nodes, e.target)] :
                    e \in {d \in Live(s.edges) :
                             /\ d.source = source /\ d.type = t
                             /\ At(Live(s.nodes), d.target) # {}}},
                LAMBDA r : r.rank) : t \in types}

LiteGetEdgeCounts(s, tree) ==
    LET all == {e \in s.edges : e.tree = tree}
    IN  [total |-> Cardinality(all), active |-> Cardinality(Live(all)),
         byType |-> [t \in {e.type : e \in Live(all)} |->
                        Cardinality({e \in Live(all) : e.type = t})]]

\* The target is read first, to name the self edge.
LiteEdgeMove(s, id, source) ==
    LET e == The(s.edges, id)
    IN  IF At(Live(s.edges), id) = {} THEN Fail(s, "not_found")
        ELSE IF e.target = source THEN Fail(s, "self_edge")
        ELSE IF e.source = source THEN Fail(s, "not_found")
        ELSE IF EdgeRefused(s, e.tree, source, e.target, e.type, id)
        THEN Fail(s, "error")
        ELSE Change(s, "edges",
                [e EXCEPT !.source = source, !.seq = LastPlace(s, source)])

-----------------------------------------------------------------------------
(* The calls.                                                              *)

Ids(table) == 1..MaxMade[table]
Roles == {"", "viewer"}
NodeTypes == {"", "synthesis"}
EdgeTypes == {"reply", "synthesis", "reference"}

\* One user and one tree; or these and a node of each type, which the calls
\* below can make as well.
OneTree ==
    [users    |-> {UserRow(1, "h1", NULL, 1)}, profiles |-> {}, members |-> {},
     trees    |-> {TreeRow(1, 1, 1)},
     nodes    |-> {}, edges |-> {}]
ThreeNodes ==
    [OneTree EXCEPT !.nodes =
        {NodeRow(1, 1, NULL, "message", 1, NULL),
         NodeRow(2, 1, 1, "synthesis", 2, NULL), NodeRow(3, 1, 1, "system", 3, NULL)}]

ParityInit ==
    /\ pg \in {OneTree, ThreeNodes}
    /\ lite = pg
    /\ made = [t \in Tables |-> Cardinality(pg[t])]
    /\ readBack = NoRead
    /\ alike = TRUE

\* The answers that may differ: a node for a missing tree, an edge moved
\* under its own target, and (in GetRole) a missing member.
KnownDifferences == {<<"tree_not_found", "error">>, <<"error", "self_edge">>,
                     <<"error", "not_found">>}

SameAnswer(p, l) ==
    \/ p.kind = l.kind /\ p.row = l.row
    \/ <<p.kind, l.kind>> \in KnownDifferences

\* A read that is still to come has been overtaken when its row has changed.
Overtaken(store) ==
    [readBack EXCEPT !.touched = @ \/ At(store[readBack.table], readBack.id)
                                     # At(pg[readBack.table], readBack.id)]

\* One call, made to both stores.
Call(p, l) ==
    /\ pg' = p.store
    /\ lite' = l.store
    /\ alike' = (alike /\ SameAnswer(p, l))
    /\ readBack' = Overtaken(p.store)

\* A call that gives a table a new row.
Insert(table, p, l) ==
    /\ Call(p, l)
    /\ made' = [made EXCEPT ![table] =
                    IF "ok" \in {p.kind, l.kind} THEN @ + 1 ELSE @]

\* A call that changes or removes rows.
Write(p, l) == Call(p, l) /\ UNCHANGED made

\* An UPDATE whose row SQLite reads back later and PostgreSQL returns.
Update(table, id, p, l) ==
    /\ readBack = NoRead
    /\ pg' = p.store
    /\ lite' = l.store
    /\ alike' = (alike /\ SameAnswer(p, l))
    /\ readBack' = IF l.kind # "ok" THEN NoRead
                   ELSE [table |-> table, id |-> id, row |-> p.row,
                         touched |-> FALSE]
    /\ UNCHANGED made

Fresh(table) == made[table] + 1
Room(table) == made[table] < MaxMade[table]

UserCreate == \E h \in {"h1", "h2"}, n \in Names :
    /\ Room("users")
    /\ Insert("users", PgUserCreate(pg, Fresh("users"), h, n, n),
              LiteUserCreate(lite, Fresh("users"), h, n, n))

UserUpdate == \E id \in Ids("users"), n \in Names :
    Update("users", id, PgUserUpdate(pg, id, n), LiteUserUpdate(lite, id, n))

ProfileCreate == \E owner \in Ids("users"), k \in {"", "human"}, n \in Names :
    /\ Room("profiles")
    /\ Insert("profiles", PgProfileCreate(pg, Fresh("profiles"), owner, k, n),
              LiteProfileCreate(lite, Fresh("profiles"), owner, k, n))

MemberAdd ==
    \E tree \in 1..2, user \in Ids("users") \cup {NULL},
       profile \in Ids("profiles") \cup {NULL}, role \in Roles, v \in BOOLEAN :
        /\ Room("members")
        /\ Insert("members",
               PgMemberAdd(pg, Fresh("members"), tree, user, profile, role, v),
               LiteMemberAdd(lite, Fresh("members"), tree, user, profile, role, v))

UpdateRole == \E id \in Ids("members") :
    Write(PgUpdateRole(pg, id, "viewer"), LiteUpdateRole(lite, id, "viewer"))

MemberRemove == \E id \in Ids("members") :
    Write(PgMemberRemove(pg, id), LiteMemberRemove(lite, id))

TreeCreate == \E owner \in Ids("users"), n \in Names :
    /\ Room("trees")
    /\ Insert("trees", PgTreeCreate(pg, Fresh("trees"), owner, n),
              LiteTreeCreate(lite, Fresh("trees"), owner, n))

TreeUpdate == \E id \in Ids("trees"), n \in Names :
    Update("trees", id, PgTreeUpdate(pg, id, n), LiteTreeUpdate(lite, id, n))

TreeSoftDelete == \E id \in Ids("trees") :
    Write(PgTreeSoftDelete(pg, id), LiteTreeSoftDelete(lite, id))

\* NodeService looks the parent up in the tree before it creates the node.
NodeCreate ==
    \E tree \in 1..2, type \in NodeTypes,
       parent \in {n.id : n \in pg.nodes} \cup {NULL} :
        /\ Room("nodes")
        /\ \A n \in pg.nodes : n.id = parent => n.tree = tree
        /\ LET id == Fresh("nodes") IN
           Insert("nodes", PgNodeCreate(pg, id, tree, parent, type, NULL),
                  LiteNodeCreate(lite, id, tree, parent, type, NULL))

NodeUpdate == \E id \in Ids("nodes"), text \in Texts :
    Update("nodes", id, PgNodeUpdate(pg, id, text), LiteNodeUpdate(lite, id, text))

NodeSoftDelete == \E id \in Ids("nodes") :
    Write(PgNodeSoftDelete(pg, id), LiteNodeSoftDelete(lite, id))

NodeHardDelete == \E id \in Ids("nodes") :
    Write(PgNodeHardDelete(pg, id), LiteNodeHardDelete(lite, id))

\* The callers pass the type and a sequence number.
EdgeCreate ==
    \E source, target \in Ids("nodes"), type \in EdgeTypes, seq \in 1..2 :
        /\ Room("edges")
        /\ Insert("edges",
               PgEdgeCreate(pg, Fresh("edges"), 1, source, target, type, seq),
               LiteEdgeCreate(lite, Fresh("edges"), 1, source, target, type, seq))

EdgeSoftDelete == \E id \in Ids("edges") :
    Write(PgEdgeSoftDelete(pg, id), LiteEdgeSoftDelete(lite, id))

EdgeMove == \E id \in Ids("edges"), source \in Ids("nodes") :
    LastPlace(pg, source) <= MaxSeq /\
    Update("edges", id, PgEdgeMove(pg, id, source), LiteEdgeMove(lite, id, source))

\* The second statement of a SQLite update.
ReadBack ==
    /\ readBack # NoRead
    /\ readBack' = NoRead
    /\ UNCHANGED <<pg, lite, made, alike>>

AccountStep ==
    \/ UserCreate \/ UserUpdate \/ ProfileCreate
    \/ MemberAdd \/ UpdateRole \/ MemberRemove
    \/ ReadBack

TreeStep ==
    \/ TreeCreate \/ TreeUpdate \/ TreeSoftDelete
    \/ ReadBack

NodeStep ==
    \/ NodeCreate \/ NodeUpdate \/ NodeSoftDelete \/ NodeHardDelete
    \/ ReadBack

EdgeStep ==
    \/ EdgeCreate \/ EdgeSoftDelete \/ EdgeMove
    \/ NodeSoftDelete \/ NodeHardDelete
    \/ ReadBack

ParityNext == AccountStep \/ TreeStep \/ NodeStep \/ EdgeStep
ParitySpec == ParityInit /\ [][ParityNext]_parityVars

-----------------------------------------------------------------------------
(* The properties.                                                         *)

ParityTypeOK ==
    /\ DOMAIN pg = Tables /\ DOMAIN lite = Tables
    /\ \A t \in Tables : /\ made[t] \in 0..MaxMade[t]
                         /\ \A r \in pg[t] \cup lite[t] : r.id \in 1..made[t]
    /\ readBack.table \in Tables
    /\ alike \in BOOLEAN

AccountReadsAgree ==
    /\ \A id \in Ids("users") :
          /\ PgUserGetByID(pg, id) = LiteUserGetByID(lite, id)
          /\ PgProfileGetByOwner(pg, id) = LiteProfileGetByOwner(lite, id)
          /\ PgMemberGetByUser(pg, id) = LiteMemberGetByUser(lite, id)
          /\ PgTreeGetByOwner(pg, id) = LiteTreeGetByOwner(lite, id)
    /\ \A id \in Ids("profiles") :
          PgProfileGetByID(pg, id) = LiteProfileGetByID(lite, id)
    /\ \A h \in {"h1", "h2"} :
          PgGetByHermesUserID(pg, h) = LiteGetByHermesUserID(lite, h)
    /\ \A e \in Names : PgGetByEmail(pg, e) = LiteGetByEmail(lite, e)
    /\ \A t \in Ids("trees") :
          /\ PgTreeGetByID(pg, t) = LiteTreeGetByID(lite, t)
          /\ PgIsTreeDeleted(pg, t) = LiteIsTreeDeleted(lite, t)
          /\ PgProfileListByTree(pg, t) = LiteProfileListByTree(lite, t)
          /\ PgMemberGetByTree(pg, t) = LiteMemberGetByTree(lite, t)
          /\ \A hidden \in BOOLEAN, l \in 1..2, o \in 0..1 :
                PgMemberListByTree(pg, t, hidden, l, o)
                    = LiteMemberListByTree(lite, t, hidden, l, o)
          /\ \A u \in Ids("users") :
                /\ PgIsMember(pg, t, u) = LiteIsMember(lite, t, u)
                /\ SameAnswer([PgGetRole(pg, t, u) EXCEPT !.store = NULL],
                              [LiteGetRole(lite, t, u) EXCEPT !.store = NULL])
    /\ PgCountMembersByTreeIDs(pg, Ids("trees"))
          = LiteCountMembersByTreeIDs(lite, Ids("trees"))

TreeListsAgree ==
    /\ PgTreeCount(pg) = LiteTreeCount(lite)
    /\ \A l \in 0..(MaxPage + 1), o \in -1..1 :
          /\ PgTreeList(pg, l, o) = LiteTreeList(lite, l, o)
          /\ \A q \in Names \cup {NULL} :
                PgTreeSearch(pg, q, l, o).row = LiteTreeSearch(lite, q, l, o).row
    /\ \A l \in 0..(MaxPage + 1), c \in Ids("trees") \cup {NULL} :
          PgTreeListKeyset(pg, c, l) = LiteTreeListKeyset(lite, c, l)

GraphReadsAgree ==
    /\ \A id \in Ids("nodes") :
          /\ PgNodeGetByID(pg, id) = LiteNodeGetByID(lite, id)
          /\ PgGetChildren(pg, id) = LiteGetChildren(lite, id)
          /\ PgGetAncestors(pg, id) = LiteGetAncestors(lite, id)
          /\ PgGetBySource(pg, id) = LiteGetBySource(lite, id)
          /\ PgGetByTarget(pg, id) = LiteGetByTarget(lite, id)
          /\ PgGetParents(pg, id) = LiteGetParents(lite, id)
          /\ \A d \in 0..2 : PgGetSubtree(pg, id, d) = LiteGetSubtree(lite, id, d)
          /\ \A to \in Ids("nodes") :
                /\ PgGetSiblings(pg, id, to) = LiteGetSiblings(lite, id, to)
                /\ PgGetPath(pg, id, to).kind = LiteGetPath(lite, id, to).kind
    /\ \A id \in Ids("edges") : PgEdgeGetByID(pg, id) = LiteEdgeGetByID(lite, id)
    /\ \A t \in Ids("trees") :
          /\ PgNodeGetByTree(pg, t) = LiteNodeGetByTree(lite, t)
          /\ PgCountByTree(pg, t) = LiteNodeGetCounts(lite, t).active
          /\ PgEdgeGetByTree(pg, t) = LiteEdgeGetByTree(lite, t)
          /\ PgGetEdgeCounts(pg, t) = LiteGetEdgeCounts(lite, t)
          /\ \/ PgNodeGetCounts(pg, t) = LiteNodeGetCounts(lite, t)
             \/ \A n \in pg.nodes : n.tree = t => n.parent # NULL
    /\ PgCountNodesByTreeIDs(pg, Ids("trees"))
          = LiteCountNodesByTreeIDs(lite, Ids("trees"))
    /\ PgLastActivityByTreeIDs(pg, Ids("trees"))
          = LiteLastActivityByTreeIDs(lite, Ids("trees"))

ReadBackFaithful ==
    readBack # NoRead /\ ~readBack.touched =>
        At(Live(lite[readBack.table]), readBack.id) = {readBack.row}

\* A caller may move between the two stores: after the same calls they hold
\* the same rows, have given the same answers but for the known differences,
\* and answer every read alike; a row read back after an update is the one
\* PostgreSQL returns, unless another call changed it in between.  GetPath is
\* compared by whether there is a path, and a tree without a root row is the
\* one case in which GetCounts differs (sqlite/repo.go's promise).
Interchangeable ==
    /\ pg = lite
    /\ alike
    /\ AccountReadsAgree /\ TreeListsAgree /\ GraphReadsAgree
    /\ ReadBackFaithful

\* The path SQLite answers starts at one node, ends at the other, and every
\* step of it goes to a node's parent or to a child (sqlite.NodeRepo.GetPath).
PathConnects ==
    \A from, to \in Ids("nodes") :
        LET answer == LiteGetPath(lite, from, to)
            path == answer.row
        IN  answer.kind = "ok" =>
                /\ Head(path).id = from /\ Last(path).id = to
                /\ \A i \in 1..(Len(path) - 1) :
                      \/ path[i].parent = path[i + 1].id
                      \/ path[i + 1].parent = path[i].id
                /\ IsInjective(path)

\* The error values of the two stores are the same, so that a caller can move
\* between them without new error handling (the package comment of
\* sqlite/repo.go); the known differences refute it.
SentinelsMatch ==
    \A id \in Ids("edges"), n \in Ids("nodes") :
        PgEdgeMove(pg, id, n).kind = LiteEdgeMove(lite, id, n).kind

(***************************************************************************)
(* The SQLite files of the core graph (internal/db/sqlite): processes that *)
(* open one file and bring its schema up to date (OpenRuntime), and        *)
(* `canopyd db export`, which copies PostgreSQL into a temporary file and  *)
(* renames it onto the same path while other processes write PostgreSQL,   *)
(* open the path or export to it.  Any process may be killed between two   *)
(* steps.                                                                  *)
(*                                                                         *)
(* A file is the inode its creator made: an open store keeps the inode     *)
(* when a rename gives the path to another one.  A migration is its number *)
(* and creates one table of that number; Foreign is a table no migration   *)
(* creates.                                                                *)
(***************************************************************************)

CONSTANTS
    Openers,         \* processes that call OpenRuntime
    Exporters,       \* processes that call ExportPostgres
    BinaryVersion,   \* BinaryVersion[p]: EmbeddedCoreVersion of p's binary
    SourceRows,      \* the rows PostgreSQL may hold
    RowRefs,         \* RowRefs[r]: the rows r's foreign keys name
    RowTable,        \* RowTable[r]: the table r is a row of
    BadHashRows,     \* nodes whose stored hash is not that of the content
    MaxWrites        \* bound on the writes to PostgreSQL

ASSUME StoreFilesAssumption ==
    /\ \A r \in SourceRows : RowRefs[r] \subseteq SourceRows
    /\ BinaryVersion \in [Openers \cup Exporters -> Nat \ {0}]
    /\ MaxWrites \in Nat

VARIABLES
    pgRows,      \* the rows PostgreSQL holds
    writes,      \* how often they changed
    inode,       \* the files: their migrations, tables, rows and health
    target,      \* the inode at the path, or NoFile
    opener,      \* where each opener is, its inode and what it read
    exporter,    \* where each exporter is, and its snapshot
    tmpLeft      \* the exporters whose temporary file is on the disk

fileVars == <<pgRows, writes, inode, target, opener, exporter, tmpLeft>>

NoFile == "nofile"
FoundFile == "found"  \* a file that was there before
Foreign == 0
CopyOrder == <<"users", "trees", "nodes", "edges">>

Closed(rows) == \A r \in rows : RowRefs[r] \subseteq rows

NewFile == [applied |-> {}, tables |-> {}, rows |-> {},
            empty |-> TRUE, corrupt |-> FALSE]
IdleOpener == [at |-> "down", file |-> NoFile, done |-> {}]
IdleExporter == [at |-> "down", snap |-> {}, copied |-> 0, buffer |-> {},
                 during |-> {}]

\* A file is named by the process that made it, or was found; the export
\* covers every table.
ASSUME FileNamesAssumption ==
    /\ Openers \cap Exporters = {}
    /\ {NoFile, FoundFile} \cap (Openers \cup Exporters) = {}
    /\ \A r \in SourceRows : \E i \in 1..4 : RowTable[r] = CopyOrder[i]

\* What an operator may have left at the path: an empty file, another
\* program's database, or a broken one.
FoundFiles == {NewFile, [NewFile EXCEPT !.empty = FALSE, !.tables = {Foreign}],
               [NewFile EXCEPT !.empty = FALSE, !.corrupt = TRUE]}

FilesInit ==
    /\ pgRows \in {rows \in SUBSET SourceRows : Closed(rows)}
    /\ writes = 0
    /\ \E found \in FoundFiles :
          inode = [f \in Openers \cup Exporters \cup {FoundFile} |->
                     IF f = FoundFile THEN found ELSE NewFile]
    /\ target \in {NoFile, FoundFile}
    /\ opener = [o \in Openers |-> IdleOpener]
    /\ exporter = [e \in Exporters |-> IdleExporter]
    /\ tmpLeft = {}

-----------------------------------------------------------------------------
\* A transaction of a PostgreSQL writer: it adds a row whose references are
\* there, or removes one nothing refers to.
WriteSource ==
    /\ writes < MaxWrites
    /\ writes' = writes + 1
    /\ \E r \in SourceRows :
          /\ pgRows' = IF r \in pgRows THEN pgRows \ {r} ELSE pgRows \cup {r}
          /\ Closed(pgRows')
    /\ exporter' = [e \in Exporters |->
                      [exporter[e] EXCEPT !.during = @ \cup {pgRows'}]]
    /\ UNCHANGED <<inode, target, opener, tmpLeft>>

-----------------------------------------------------------------------------
\* OpenRuntime, step by step.  Every early return closes the store.
OpenerAt(o, at) == opener' = [opener EXCEPT ![o].at = at]
OpenFails(o) == opener' = [opener EXCEPT ![o] = IdleOpener]

\* Open: the connection's pragmas create the file if there is none, and
\* journal_mode(WAL) writes its first page.
Open(o) ==
    /\ opener[o].at = "down"
    /\ LET f == IF target = NoFile THEN o ELSE target
       IN  /\ target' = f
           /\ inode' = [inode EXCEPT ![f].empty = FALSE]
           /\ opener' = [opener EXCEPT ![o].at = "opened", ![o].file = f]
    /\ UNCHANGED <<pgRows, writes, exporter, tmpLeft>>

QuickCheck(o) ==
    /\ opener[o].at = "opened"
    /\ IF inode[opener[o].file].corrupt THEN OpenFails(o) ELSE OpenerAt(o, "checked")
    /\ UNCHANGED <<pgRows, writes, inode, target, exporter, tmpLeft>>

AppliedMigrations(f) == inode[f].applied

\* The stale-build guard: maxMigrationVersion of what is applied.
RefuseNewer(o) ==
    /\ opener[o].at = "checked"
    /\ IF \E v \in AppliedMigrations(opener[o].file) : v > BinaryVersion[o]
       THEN OpenFails(o) ELSE OpenerAt(o, "current")
    /\ UNCHANGED <<pgRows, writes, inode, target, exporter, tmpLeft>>

\* ApplyCoreSchema reads the ledger once, before the first migration.
ApplyCoreSchema(o) ==
    /\ opener[o].at = "current"
    /\ opener' = [opener EXCEPT ![o].at = "applying",
                                ![o].done = AppliedMigrations(opener[o].file)]
    /\ UNCHANGED <<pgRows, writes, inode, target, exporter, tmpLeft>>

ToApply(o) == (1..BinaryVersion[o]) \ opener[o].done

\* A migration that forgets its ledger row.
MigrationUnrecorded(f, v) ==
    inode' = [inode EXCEPT ![f].tables = @ \cup {v}]

\* applyMigration: the body and the ledger row in one transaction.
MigrationCommits(f, v) ==
    inode' = [inode EXCEPT ![f].tables = @ \cup {v}, ![f].applied = @ \cup {v}]

\* The lowest migration that is not done.  One another process applied since
\* fails, in its body or at the ledger's key, and is rolled back.
ApplyMigration(o) ==
    /\ opener[o].at = "applying" /\ ToApply(o) # {}
    /\ LET f == opener[o].file
           v == CHOOSE v \in ToApply(o) : \A w \in ToApply(o) : v <= w
       IN  IF v \in inode[f].tables \cup inode[f].applied
           THEN OpenFails(o) /\ UNCHANGED inode
           ELSE /\ MigrationCommits(f, v)
                /\ opener' = [opener EXCEPT ![o].done = @ \cup {v}]
    /\ UNCHANGED <<pgRows, writes, target, exporter, tmpLeft>>

\* CheckCoreSchema: the tables are exactly the binary's.
CheckCoreSchema(o) ==
    /\ opener[o].at = "applying" /\ ToApply(o) = {}
    /\ IF inode[opener[o].file].tables = 1..BinaryVersion[o]
       THEN OpenerAt(o, "ready") ELSE OpenFails(o)
    /\ UNCHANGED <<pgRows, writes, inode, target, exporter, tmpLeft>>

\* The store is closed, an I/O error ends the call, or the process is killed:
\* the transaction under way is rolled back.
CloseStore(o) ==
    /\ opener[o].at # "down"
    /\ OpenFails(o)
    /\ UNCHANGED <<pgRows, writes, inode, target, exporter, tmpLeft>>

-----------------------------------------------------------------------------
\* ExportPostgres, step by step.
ExporterAt(e, at) == exporter' = [exporter EXCEPT ![e].at = at]

\* A target that is there and not empty is refused.
InspectTarget(e) ==
    /\ exporter[e].at = "down"
    /\ target # NoFile => inode[target].empty
    /\ exporter' = [exporter EXCEPT ![e] = [IdleExporter EXCEPT
                      !.at = "inspected", !.during = {pgRows}]]
    /\ UNCHANGED <<pgRows, writes, inode, target, opener, tmpLeft>>

CreateTemp(e) ==
    /\ exporter[e].at = "inspected"
    /\ inode' = [inode EXCEPT ![e] = NewFile]
    /\ tmpLeft' = tmpLeft \cup {e}
    /\ ExporterAt(e, "temp")
    /\ UNCHANGED <<pgRows, writes, target, opener>>

\* OpenRuntime on a file no other process knows of.
OpenTemp(e) ==
    /\ exporter[e].at = "temp"
    /\ inode' = [inode EXCEPT ![e].empty = FALSE,
                              ![e].applied = 1..BinaryVersion[e],
                              ![e].tables = 1..BinaryVersion[e]]
    /\ ExporterAt(e, "copying")
    /\ UNCHANGED <<pgRows, writes, target, opener, tmpLeft>>

\* REPEATABLE READ: PostgreSQL takes the snapshot at the first query, that of
\* exportUsers, and every later query of the transaction sees it.
SourceSnapshot(e) == IF exporter[e].copied = 0 THEN pgRows ELSE exporter[e].snap

\* exportUsers, exportTrees, exportNodes, exportEdges: one table each, into
\* the target's transaction.
ExportTable(e) ==
    /\ exporter[e].at = "copying" /\ exporter[e].copied < Len(CopyOrder)
    /\ LET rows == {r \in SourceSnapshot(e) :
                      RowTable[r] = CopyOrder[exporter[e].copied + 1]}
       IN  exporter' = [exporter EXCEPT ![e].snap = SourceSnapshot(e),
                                        ![e].copied = @ + 1,
                                        ![e].buffer = @ \cup rows]
    /\ UNCHANGED <<pgRows, writes, inode, target, opener, tmpLeft>>

\* Every error return: the deferred calls roll back and remove the file.
ExportEnds(e) ==
    /\ exporter' = [exporter EXCEPT ![e] = IdleExporter]
    /\ tmpLeft' = tmpLeft \ {e}

\* The target's commit checks the deferred foreign keys.
CommitTarget(e) ==
    /\ exporter[e].at = "copying" /\ exporter[e].copied = Len(CopyOrder)
    /\ IF Closed(exporter[e].buffer)
       THEN /\ inode' = [inode EXCEPT ![e].rows = exporter[e].buffer]
            /\ ExporterAt(e, "copied") /\ UNCHANGED tmpLeft
       ELSE ExportEnds(e) /\ UNCHANGED inode
    /\ UNCHANGED <<pgRows, writes, target, opener>>

CountsMatch(e) ==
    \A i \in DOMAIN CopyOrder :
        LET OfTable(rows) == {r \in rows : RowTable[r] = CopyOrder[i]}
        IN  Cardinality(OfTable(SourceSnapshot(e))) = Cardinality(OfTable(inode[e].rows))

\* verifyNodeHashes computes the hash of every node of the snapshot.
NodeHashesMatch(e) ==
    /\ SourceSnapshot(e) \cap BadHashRows = {}
    /\ \A r \in SourceSnapshot(e) : RowTable[r] = "nodes" => r \in inode[e].rows

\* verifyTargetReferentialIntegrity.
ReferencesHold(e) == Closed(inode[e].rows)

VerifyTarget(e) ==
    /\ exporter[e].at = "copied"
    /\ IF CountsMatch(e) /\ NodeHashesMatch(e) /\ ReferencesHold(e)
       THEN ExporterAt(e, "verified") /\ UNCHANGED tmpLeft ELSE ExportEnds(e)
    /\ UNCHANGED <<pgRows, writes, inode, target, opener>>

\* The source transaction and the file are closed; the rename publishes.
Publish(e) ==
    /\ exporter[e].at = "verified"
    /\ target' = e
    /\ ExportEnds(e)
    /\ UNCHANGED <<pgRows, writes, inode, opener>>

\* A connection or a disk fails.
ExportFails(e) ==
    /\ exporter[e].at # "down"
    /\ ExportEnds(e)
    /\ UNCHANGED <<pgRows, writes, inode, target, opener>>

\* The process is killed: nothing removes its temporary file.
KillExporter(e) ==
    /\ exporter[e].at # "down"
    /\ exporter' = [exporter EXCEPT ![e] = IdleExporter]
    /\ UNCHANGED <<pgRows, writes, inode, target, opener, tmpLeft>>

OpenerStep(o) ==
    \/ Open(o) \/ QuickCheck(o) \/ RefuseNewer(o) \/ ApplyCoreSchema(o)
    \/ ApplyMigration(o) \/ CheckCoreSchema(o) \/ CloseStore(o)

ExporterStep(e) ==
    \/ InspectTarget(e) \/ CreateTemp(e) \/ OpenTemp(e) \/ ExportTable(e)
    \/ CommitTarget(e) \/ VerifyTarget(e) \/ Publish(e)
    \/ ExportFails(e) \/ KillExporter(e)

FilesNext ==
    \/ WriteSource
    \/ \E o \in Openers : OpenerStep(o)
    \/ \E e \in Exporters : ExporterStep(e)

FilesSpec == FilesInit /\ [][FilesNext]_fileVars

-----------------------------------------------------------------------------
FilesTypeOK ==
    /\ pgRows \subseteq SourceRows /\ writes \in 0..MaxWrites
    /\ target \in DOMAIN inode \cup {NoFile}
    /\ tmpLeft \subseteq Exporters
    /\ \A o \in Openers : opener[o].at \in {"down", "opened", "checked", "current",
                                            "applying", "ready"}
    /\ \A e \in Exporters : exporter[e].at \in {"down", "inspected", "temp", "copying",
                                                "copied", "verified"}

\* However the openers interleave and wherever they are killed, a file holds
\* the tables of a prefix of the migrations, each recorded when it is there
\* (ApplyCoreSchema, applyMigration).
MigrationsInOrder ==
    \A f \in DOMAIN inode :
        /\ inode[f].tables \ {Foreign} = inode[f].applied
        /\ inode[f].applied = 1..Cardinality(inode[f].applied)

\* An opened store has every table of its binary and is neither a broken file
\* nor another program's (OpenRuntime).
OpenedComplete ==
    \A o \in Openers : opener[o].at = "ready" =>
        LET f == inode[opener[o].file]
        IN  1..BinaryVersion[o] \subseteq f.tables /\ Foreign \notin f.tables /\ ~f.corrupt

\* What an export publishes was PostgreSQL's content at one instant of the
\* export, under the whole schema, with no bad hash, whatever was written
\* meanwhile; and a file that has been published never changes its rows.
PublishedIsSnapshot ==
    /\ \A e \in Exporters : exporter[e].at = "verified" =>
          inode[e].rows \in exporter[e].during
    /\ target \in Exporters =>
          LET f == inode[target]
          IN  /\ Closed(f.rows) /\ f.rows \cap BadHashRows = {}
              /\ 1..BinaryVersion[target] \subseteq f.tables

\* ExportPostgres's promise "A non-empty target is refused rather than merged,
\* making a repeated operator invocation fail closed and avoiding accidental
\* overwrites" (export.go:20): the path is inspected long before the rename,
\* so a file that appears in between is replaced.
NonEmptyTargetKept ==
    [][target' # target => target = NoFile \/ inode[target].empty]_fileVars
=============================================================================
