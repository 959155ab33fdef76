----------------------------- MODULE GraphStore -----------------------------
(***************************************************************************)
(* The conversation graph: trees, nodes and typed edges in PostgreSQL, as  *)
(* the node, merge and multi-reference services write them.  Every request *)
(* runs in a goroutine of its own and a write is a READ COMMITTED          *)
(* transaction of several statements, so the steps of two requests         *)
(* interleave between the statements.  Rows a transaction has inserted are *)
(* invisible until it commits; SELECT ... FOR SHARE keeps a row from being *)
(* updated until the locking transaction ends.                             *)
(***************************************************************************)
EXTENDS Integers, FiniteSets, Sequences, Functions, FiniteSetsExt

CONSTANTS
    Trees,          \* the trees that may ever exist
    Writers,        \* the requests: one goroutine each, all of one author
    RequestIDs,     \* idempotency keys the author's client uses
    Contents,       \* what a node may say; 0 is the empty text
    MinSources,     \* mergeMinSources, referenceSourceMinCount
    MaxSources,     \* mergeMaxSources, referenceSourceMaxCount
    MaxNodes,       \* bound: how many rows are ever inserted into nodes
    MaxDeleted      \* bound: how many of them are deleted

ASSUME GraphAssumption ==
    /\ {0, 1} \subseteq Contents /\ Contents \subseteq Nat
    /\ MinSources \in Nat \ {0, 1} /\ MaxSources \in Nat /\ MinSources <= MaxSources
    /\ MaxNodes \in Nat \ 0 .. 2 /\ MaxDeleted \in Nat

None == 0           \* uuid.Nil, SQL NULL

VARIABLES
    trees,      \* tree -> "absent", "live" or "deleted" (deleted_at set)
    node,       \* id -> committed row of nodes; ids are allocated in order (uuidv7)
    edges,      \* the committed rows of edges
    nextId,     \* the next id the database will allocate
    tx,         \* writer -> the state of its request
    announced   \* the nodes whose node_added was broadcast to the tree's subscribers

vars == <<trees, node, edges, nextId, tx, announced>>

-----------------------------------------------------------------------------
(* Rows *)

Row(t, p, mode, type, seq, c, meta) ==
    [tree |-> t, parent |-> p, mode |-> mode, type |-> type, seq |-> seq,
     content |-> c, meta |-> meta, deleted |-> FALSE]

\* The reserved metadata.multi_reference and metadata.context_audit objects:
\* the request id and the content hash of each source at creation.
NoMeta == [req |-> None, audit |-> <<>>]

Edge(t, from, to, type, seq) ==
    [tree |-> t, source |-> from, target |-> to, type |-> type, seq |-> seq]

Live(id) == id \in DOMAIN node /\ ~node[id].deleted

LiveIn(t, id) == Live(id) /\ node[id].tree = t

\* content_hash of a row: equal contents have equal hashes.
Hash(id) == node[id].content

Incoming(id) == {e \in edges : e.target = id}

GetChildren(id) == {e.target : e \in {x \in edges : x.source = id /\ Live(x.target)}}

\* SELECT COALESCE(MAX(sequence_num), 0) over the committed rows of the tree.
MaxSeq(t) == Max({0} \cup {node[i].seq : i \in {x \in DOMAIN node : node[x].tree = t}})

MaxEdgeSeq(t) == Max({0} \cup {e.seq : e \in {x \in edges : x.tree = t}})

\* The display-parent chain of a node: itself and its ancestors, as far as
\* they are live.  A parent is always an older row.
DisplayChain ==
    LET chain[id \in 0 .. MaxNodes] ==
          IF Live(id) THEN {id} \cup chain[IF node[id].parent < id THEN node[id].parent ELSE 0]
                      ELSE {}
    IN chain

\* computeBranchSpan fails unless the sources share a live display ancestor.
ShareAncestor(srcs) ==
    LET chain == DisplayChain
    IN \E a \in chain[srcs[1]] : \A i \in DOMAIN srcs : a \in chain[srcs[i]]

-----------------------------------------------------------------------------
(* Requests, their transactions and the locks they hold *)

Idle == [pc |-> "idle", op |-> "none", tree |-> "none", parent |-> None, srcs |-> <<>>,
         etype |-> "reply", req |-> None, hashes |-> <<>>, seq |-> 0, id |-> None,
         edges |-> {}]

Done == [Idle EXCEPT !.pc = "done"]

InTx(w) == tx[w].pc \in {"insert", "commit"}

\* Mutant of ShareLocked: the sources are read without FOR SHARE.
NothingLocked(id) == FALSE

\* The rows of nodes a transaction holds FOR SHARE.  Create takes none.
ShareLocked(id) ==
    \E w \in Writers : /\ InTx(w) /\ tx[w].op \in {"merge", "refer"}
                       /\ id \in {tx[w].parent} \cup Range(tx[w].srcs)

TreeShareLocked(t) == \E w \in Writers : InTx(w) /\ tx[w].op \in {"merge", "refer"} /\ tx[w].tree = t

\* Mutant of AdvisoryHeld: requests with one id are not serialised.
NoAdvisoryLock(t, r) == FALSE

\* pg_advisory_xact_lock on (author, tree, request id).
AdvisoryHeld(t, r) == \E w \in Writers : InTx(w) /\ tx[w].tree = t /\ tx[w].req = r /\ r # None

SourceLists == {s \in UNION {[1 .. n -> DOMAIN node] : n \in MinSources .. MaxSources} :
                     IsInjective(s)}

\* A conversation of a root and two replies to it.
Init ==
    /\ \E t \in Trees :
          /\ trees = [x \in Trees |-> IF x = t THEN "live" ELSE "absent"]
          /\ node  = [i \in 1 .. 3 |->
                        Row(t, IF i = 1 THEN None ELSE 1, "lineage", "message", i, 1, NoMeta)]
          /\ edges = {Edge(t, 1, i, "reply", i - 1) : i \in {2, 3}}
    /\ nextId = 4
    /\ tx = [w \in Writers |-> Idle]
    /\ announced = {}

Begin(w, r) == tx[w].pc = "idle" /\ tx' = [tx EXCEPT ![w] = r]

-----------------------------------------------------------------------------
(* What a transaction requires of the rows it reads *)

\* Create: the parent is a live node of the tree of the URL.  The row is read,
\* not locked, and the tree row is not read at all.
ParentOK(t, p) == p = None \/ LiveIn(t, p)

\* lockTreeRow: a share lock on the tree row, refused for a deleted tree.
TreeLockOK(t) == trees[t] = "live"

\* Mutant of SourcesOK: a source of another tree passes.
LiveAnywhere(t, srcs) == \A i \in DOMAIN srcs : Live(srcs[i])

\* validateMergeSources and lockReferenceSources: every source is a live node
\* of this tree.  System nodes have no service that creates them.
SourcesOK(t, srcs) == \A i \in DOMAIN srcs : LiveIn(t, srcs[i])

\* The locked snapshot is the one the selection token was signed for.
SnapshotOK(srcs, hashes) == \A i \in DOMAIN srcs : Hash(srcs[i]) = hashes[i]

\* loadReplayedReply: the author's earlier reply with this request id.
Replayed(t, r) ==
    /\ r # None
    /\ \E id \in DOMAIN node : LiveIn(t, id) /\ node[id].meta.req = r

-----------------------------------------------------------------------------
(* Requests that create nodes: the opening statements of the transaction.   *)
(* A refused request changes nothing.                                       *)

CreateTree(t) ==
    /\ trees[t] = "absent" /\ nextId <= MaxNodes
    /\ trees' = [trees EXCEPT ![t] = "live"]
    /\ node' = [i \in DOMAIN node \cup {nextId} |->
                  IF i = nextId THEN Row(t, None, "lineage", "message", 1, 1, NoMeta) ELSE node[i]]
    /\ nextId' = nextId + 1
    /\ UNCHANGED <<edges, tx, announced>>

Create(w, t, p) ==
    /\ Begin(w, [Idle EXCEPT !.pc = "insert", !.op = "create", !.tree = t, !.parent = p])
    /\ trees[t] # "absent" /\ ParentOK(t, p)
    /\ UNCHANGED <<trees, node, edges, nextId, announced>>

\* Reply and Fork read the parent for its tree and go through Create; a fork
\* is refused on a leaf.
Fork(w, p) ==
    /\ Live(p) /\ GetChildren(p) # {}
    /\ Begin(w, [Idle EXCEPT !.pc = "insert", !.op = "create", !.tree = node[p].tree,
                             !.parent = p, !.etype = "fork"])
    /\ UNCHANGED <<trees, node, edges, nextId, announced>>

CreateMerge(w, t, p, srcs) ==
    /\ Begin(w, [Idle EXCEPT !.pc = "insert", !.op = "merge", !.tree = t, !.parent = p,
                             !.srcs = srcs])
    /\ TreeLockOK(t) /\ LiveIn(t, p) /\ p \notin Range(srcs) /\ SourcesOK(t, srcs)
    /\ UNCHANGED <<trees, node, edges, nextId, announced>>

\* ValidateReferenceSelection signs a token for the ordered sources and their
\* hashes; it reads without locks and writes nothing.
ValidateReferenceSelection(w, t, srcs) ==
    /\ Begin(w, [Idle EXCEPT !.pc = "token", !.tree = t, !.srcs = srcs, !.parent = srcs[1],
                             !.hashes = [i \in DOMAIN srcs |-> Hash(srcs[i])]])
    /\ SourcesOK(t, srcs) /\ ShareAncestor(srcs)
    /\ UNCHANGED <<trees, node, edges, nextId, announced>>

\* CreateMultiReferenceReply up to the insert: the advisory lock of the request
\* id, the replay query, the share locks, the comparison with the token.
CreateMultiReferenceReply(w, r) ==
    LET q == tx[w] IN
    /\ q.pc = "token" /\ ~AdvisoryHeld(q.tree, r)
    /\ ~Replayed(q.tree, r)
    /\ TreeLockOK(q.tree) /\ SourcesOK(q.tree, q.srcs)
    /\ SnapshotOK(q.srcs, q.hashes) /\ ShareAncestor(q.srcs)
    /\ tx' = [tx EXCEPT ![w] = [q EXCEPT !.pc = "insert", !.op = "refer", !.req = r]]
    /\ UNCHANGED <<trees, node, edges, nextId, announced>>

-----------------------------------------------------------------------------
(* The rest of the transaction *)

\* Mutant of NewEdges: the placement edge of a merge is forgotten.
EdgesWithoutParent(q, id) ==
    {Edge(q.tree, q.srcs[i], id, IF q.op = "merge" THEN "synthesis" ELSE "reference",
          MaxEdgeSeq(q.tree) + i) : i \in DOMAIN q.srcs}

\* The edges of the new node: the parent edge first, then one edge for each
\* source in request order, numbered on from the tree's last edge.
NewEdges(q, id) ==
    LET base == MaxEdgeSeq(q.tree)
        type == IF q.op = "merge" THEN "synthesis" ELSE "reference"
        own  == IF q.op = "refer" \/ q.parent = None THEN {}
                ELSE {Edge(q.tree, q.parent, id, q.etype, base + 1)}
    IN own \cup {Edge(q.tree, q.srcs[i], id, type, base + Cardinality(own) + i) : i \in DOMAIN q.srcs}

\* ValidateIncomingInvariant for a new multi-reference message.
ValidateIncoming(q, es) ==
    /\ Cardinality(es) \in MinSources .. MaxSources
    /\ \A e \in es : e.type = "reference" /\ e.tree = q.tree
    /\ q.parent \in {e.source : e \in es}

\* Mutant of Insert: two transactions are given one id.
InsertSameId(w) ==
    LET q == tx[w] IN
    /\ q.pc = "insert" /\ nextId <= MaxNodes
    /\ tx' = [tx EXCEPT ![w] = [q EXCEPT !.pc = "commit", !.id = nextId,
                                         !.edges = NewEdges(q, nextId), !.seq = MaxSeq(q.tree) + 1]]
    /\ UNCHANGED <<trees, node, edges, nextId, announced>>

\* The number is read and the rows are written without a lock on the tree: two
\* transactions may take the same one.
Insert(w) ==
    LET q  == tx[w]
        es == NewEdges(q, nextId) IN
    /\ q.pc = "insert" /\ nextId <= MaxNodes
    /\ q.op = "refer" => ValidateIncoming(q, es)
    /\ nextId' = nextId + 1
    /\ tx' = [tx EXCEPT ![w] = [q EXCEPT !.pc = "commit", !.id = nextId, !.edges = es,
                                         !.seq = MaxSeq(q.tree) + 1]]
    /\ UNCHANGED <<trees, node, edges, announced>>

NewRow(q) ==
    Row(q.tree, q.parent,
        IF q.op = "refer" THEN "multi_reference" ELSE "lineage",
        IF q.op = "merge" THEN "synthesis" ELSE "message",
        q.seq, 1,
        IF q.op = "refer" THEN [req |-> q.req, audit |-> q.hashes] ELSE NoMeta)

\* Mutant of Commit: the request ends with the transaction.
CommitSilently(w) ==
    LET q == tx[w] IN
    /\ q.pc = "commit"
    /\ node' = [i \in DOMAIN node \cup {q.id} |-> IF i = q.id THEN NewRow(q) ELSE node[i]]
    /\ edges' = edges \cup q.edges
    /\ tx' = [tx EXCEPT ![w] = Done]
    /\ UNCHANGED <<trees, nextId, announced>>

Commit(w) ==
    LET q == tx[w] IN
    /\ q.pc = "commit"
    /\ node' = [i \in DOMAIN node \cup {q.id} |-> IF i = q.id THEN NewRow(q) ELSE node[i]]
    /\ edges' = edges \cup q.edges
    /\ tx' = [tx EXCEPT ![w] = [Idle EXCEPT !.pc = "publish", !.op = q.op, !.id = q.id]]
    /\ UNCHANGED <<trees, nextId, announced>>

\* A failed statement rolls the transaction back.
Rollback(w) ==
    /\ InTx(w)
    /\ tx' = [tx EXCEPT ![w] = Done]
    /\ UNCHANGED <<trees, node, edges, nextId, announced>>

\* An expired token, a stale selection, a replay or a conflict: nothing is written.
DropToken(w) ==
    /\ tx[w].pc = "token"
    /\ tx' = [tx EXCEPT ![w] = Done]
    /\ UNCHANGED <<trees, node, edges, nextId, announced>>

\* The broadcast that follows a commit: node_added or node_updated.
Publish(w) ==
    /\ tx[w].pc = "publish"
    /\ announced' = announced \cup (IF tx[w].op = "edit" THEN {} ELSE {tx[w].id})
    /\ tx' = [tx EXCEPT ![w] = Done]
    /\ UNCHANGED <<trees, node, edges, nextId>>

-----------------------------------------------------------------------------
(* Edits and deletions: single UPDATE statements, which wait for share locks *)

Update(w, id) ==
    /\ Live(id)
    /\ Begin(w, [Idle EXCEPT !.pc = "update", !.op = "edit", !.id = id])
    /\ UNCHANGED <<trees, node, edges, nextId, announced>>

\* Mutant of ApplyUpdate: no "deleted_at IS NULL" in the UPDATE.
UpdateAnyRow(w) ==
    LET id == tx[w].id IN
    /\ tx[w].pc = "update" /\ ~ShareLocked(id)
    /\ \E c \in Contents : node' = [node EXCEPT ![id].content = c]
    /\ tx' = [tx EXCEPT ![w].pc = "publish"]
    /\ UNCHANGED <<trees, edges, nextId, announced>>

\* applyUpdate: new content, or a replacement of the whole metadata object.
\* The WHERE clause finds no row if the node was deleted after Update read it.
ApplyUpdate(w) ==
    LET id == tx[w].id IN
    /\ tx[w].pc = "update" /\ ~ShareLocked(id)
    /\ IF Live(id)
       THEN /\ \/ \E c \in Contents : node' = [node EXCEPT ![id].content = c]
               \/ node' = [node EXCEPT ![id].meta = NoMeta]
               \/ node' = node      \* only the format or the pin changes
            /\ tx' = [tx EXCEPT ![w].pc = "publish"]
       ELSE node' = node /\ tx' = [tx EXCEPT ![w] = Done]
    /\ UNCHANGED <<trees, edges, nextId, announced>>

\* One UPDATE; its node_deleted is not followed here.
SoftDelete(id) ==
    /\ Live(id) /\ ~ShareLocked(id)
    /\ Cardinality({i \in DOMAIN node : node[i].deleted}) < MaxDeleted
    /\ node' = [node EXCEPT ![id].deleted = TRUE, ![id].content = 0, ![id].meta = NoMeta]
    /\ UNCHANGED <<trees, edges, nextId, tx, announced>>

\* The nodes of a deleted tree stay as they are.
DeleteTree(t) ==
    /\ trees[t] = "live" /\ ~TreeShareLocked(t)
    /\ trees' = [trees EXCEPT ![t] = "deleted"]
    /\ UNCHANGED <<node, edges, nextId, tx, announced>>

-----------------------------------------------------------------------------
(* Reading a multi-reference reply back.  The two reads of the sources of a  *)
(* reply decide separately whether the sources still are what was selected.  *)

\* Its reference edges in selection order.
ReferenceSources(id) ==
    LET es == {e \in Incoming(id) : e.type = "reference"}
    IN [i \in 1 .. Cardinality(es) |->
          (CHOOSE e \in es : Cardinality({x \in es : x.seq < e.seq}) = i - 1).source]

Readable(id) == Live(id) /\ node[id].mode = "multi_reference" /\ node[id].meta # NoMeta

\* Mutant of checkReferenceContextInvalidated: only the hashes are compared.
InvalidatedByHash(id) ==
    LET srcs == ReferenceSources(id) IN
    {srcs[i] : i \in {j \in DOMAIN srcs : Hash(srcs[j]) # node[id].meta.audit[j]}}

\* The sources that were deleted or edited since the reply was created.
checkReferenceContextInvalidated(id) ==
    LET srcs == ReferenceSources(id) IN
    {srcs[i] : i \in {j \in DOMAIN srcs : \/ node[srcs[j]].deleted
                                         \/ Hash(srcs[j]) # node[id].meta.audit[j]}}

\* What the compiler is given: the current sources, or a stale selection.
LoadCompileSelection(id) ==
    LET srcs == ReferenceSources(id) IN
    IF \/ \E i \in DOMAIN srcs : node[srcs[i]].deleted
       \/ [i \in DOMAIN srcs |-> Hash(srcs[i])] # node[id].meta.audit
    THEN <<>> ELSE srcs

-----------------------------------------------------------------------------
WriterNext(w) ==
    \/ \E t \in Trees, p \in {None} \cup DOMAIN node : Create(w, t, p)
    \/ \E p \in DOMAIN node : Fork(w, p)
    \/ /\ tx[w].pc = "idle"
       /\ \E t \in Trees, s \in SourceLists :
             \/ \E p \in DOMAIN node : CreateMerge(w, t, p, s)
             \/ ValidateReferenceSelection(w, t, s)
    \/ \E r \in {None} \cup RequestIDs : CreateMultiReferenceReply(w, r)
    \/ Insert(w) \/ Commit(w) \/ Rollback(w) \/ DropToken(w) \/ Publish(w)
    \/ \E id \in DOMAIN node : Update(w, id)
    \/ ApplyUpdate(w)

Next ==
    \/ \E w \in Writers : WriterNext(w)
    \/ \E id \in DOMAIN node : SoftDelete(id)
    \/ \E t \in Trees : CreateTree(t) \/ DeleteTree(t)

Spec == Init /\ [][Next]_vars
-----------------------------------------------------------------------------
(* Properties *)

Committed == DOMAIN node

TypeOK ==
    /\ trees \in [Trees -> {"absent", "live", "deleted"}]
    /\ Committed \subseteq 1 .. MaxNodes /\ nextId \in 1 .. MaxNodes + 1
    /\ \A id \in Committed : /\ node[id].tree \in Trees /\ node[id].parent \in {None} \cup Committed
                             /\ node[id].content \in Contents
                             /\ id < nextId
    /\ \A e \in edges : {e.source, e.target} \subseteq Committed

\* The incoming edges of every row a reader can see agree with its parent mode
\* and its type (the matrix of ValidateIncomingInvariant): a message has at
\* most the edge of its parent, a synthesis that edge and its sources, a
\* multi-reference reply reference edges only, its parent among them; and all
\* of them are in the tree of the node.
IncomingInvariant ==
    \A id \in Committed :
        LET es    == Incoming(id)
            own   == {e \in es : e.type \in {"reply", "fork"}}
            n     == node[id]
        IN /\ \A e \in es : e.tree = n.tree /\ node[e.source].tree = n.tree /\ e.source < id
           /\ n.mode = "lineage" => {e.source : e \in own} = {n.parent} \ {None}
           /\ n.mode = "lineage" /\ n.type = "message" => es = own
           /\ n.type = "synthesis" =>
                /\ Cardinality(es \ own) \in MinSources .. MaxSources
                /\ \A e \in es \ own : e.type = "synthesis" /\ e.source # n.parent
           /\ n.mode = "multi_reference" =>
                /\ \A e \in es : e.type = "reference"
                /\ Cardinality({e.source : e \in es}) \in MinSources .. MaxSources
                /\ n.parent \in {e.source : e \in es}

\* When a merge or a multi-reference reply commits, its tree and every source
\* are live, and the sources of a reply say what they said when the author
\* selected them: the share locks keep what the checks saw until the commit.
SourcesCurrentAtCommit ==
    \A w \in Writers :
        tx[w].pc = "commit" /\ tx[w].op \in {"merge", "refer"} =>
            /\ trees[tx[w].tree] = "live"
            /\ SourcesOK(tx[w].tree, tx[w].srcs)
            /\ tx[w].op = "refer" => SnapshotOK(tx[w].srcs, tx[w].hashes)

\* However two calls with one request id interleave, one live reply of the
\* tree carries it.
OneReplyPerRequest ==
    \A i, j \in Committed :
        /\ Live(i) /\ Live(j) /\ node[i].tree = node[j].tree
        /\ node[i].meta.req = node[j].meta.req /\ node[i].meta.req # None
        => i = j

\* GetReferenceContext reports a source as invalidated exactly when the
\* compiler refuses the selection as stale, a deleted source that was already
\* empty included.
DetectorsAgree ==
    \A id \in Committed :
        Readable(id) => (checkReferenceContextInvalidated(id) # {} <=> LoadCompileSelection(id) = <<>>)

\* A deleted node is never written again: an edit that read it before the
\* deletion neither restores its text nor its metadata.
DeletedStaysErased ==
    [][\A id \in Committed : node[id].deleted => node'[id] = node[id]]_vars

\* When no request is under way, every reply, fork, merge and reference reply
\* that was committed has been announced to the subscribers of its tree.
NothingLeftUnannounced ==
    (\A w \in Writers : tx[w].pc \in {"idle", "token", "done"}) =>
        \A id \in Committed : id > 3 /\ node[id].parent # None => id \in announced

\* A reader who sees the graph between any two steps sees the abstract graph of
\* GraphSpec: nodes appear with all their edges, deleted nodes stay empty.
GTree    == [i \in Committed |-> node[i].tree]
GParents == [i \in Committed |-> {<<e.type, e.source>> : e \in Incoming(i)}]
GContent == [i \in Committed |-> IF node[i].deleted THEN -1 ELSE node[i].content]

G == INSTANCE GraphSpec WITH gtree <- GTree, gparents <- GParents, gcontent <- GContent

Refinement == G!GSpec

\* A reply created from several sources keeps its manifest: the compiler takes
\* one without for a corrupt row.
ManifestKept ==
    \A id \in Committed : Live(id) /\ node[id].mode = "multi_reference" => node[id].meta # NoMeta
=============================================================================
