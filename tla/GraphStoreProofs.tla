-------------------------- MODULE GraphStoreProofs --------------------------
(***************************************************************************)
(* What holds of the conversation graph for any number of trees, writers,  *)
(* request ids and rows.                                                   *)
(*                                                                         *)
(* The properties of GraphStore say what is true of committed rows, but a  *)
(* commit publishes what several earlier statements prepared, so none of   *)
(* them is inductive.  GrInv adds what a request under way has             *)
(* established and still holds: Chosen (its parent and sources are rows of *)
(* its tree), Held (its locked sources are live and unchanged) and Written *)
(* (the edges it has inserted fit the row it will commit); that no two     *)
(* requests hold one id or one request id (GrApart); and who still owes an *)
(* announcement (GrAnnounced).  Four lemmas carry the steps: GrMoves (rows *)
(* stay, a request goes on), GrRewrites (one unlocked row changes), GrAdds *)
(* (a row and its edges appear) and GrDeleteTree.  NewEdgesFit is where    *)
(* the edges Insert numbers are compared with the row.  The last part maps *)
(* every step to a step of GraphSpec or a stutter.                         *)
(***************************************************************************)
EXTENDS MCGraphStore, FiniteSetTheorems, TLAPS

Modes == {"lineage", "multi_reference"}
Manifests == [req : RequestIDs \cup {None}, audit : Seq(Contents)]

\* A row of nodes, whatever its sequence number.
IsRow(n) ==
  \E s : n \in [tree : Trees, parent : Nat, mode : Modes, type : {"message", "synthesis"}, seq : {s},
                content : Contents, meta : Manifests, deleted : BOOLEAN]

\* The state of a request.
IsRequest(q) ==
  \E s, es, p : q \in [pc : {"idle", "token", "insert", "commit", "publish", "update", "done"},
                    op : {"none", "create", "merge", "refer", "edit"}, tree : Trees \cup {"none"},
                    parent : Nat, srcs : Seq(Nat), etype : {"reply", "fork"},
                    req : RequestIDs \cup {None}, hashes : Seq(Contents), seq : {s},
                    id : Nat, edges : {es}]

GrTypes ==
  /\ trees \in [Trees -> {"absent", "live", "deleted"}]
  /\ nextId \in 1 .. MaxNodes + 1
  /\ \A i \in Committed : IsRow(node[i]) /\ i \in 1 .. MaxNodes /\ i < nextId /\ node[i].parent \in {None} \cup Committed
  /\ \A e \in edges : e.source \in Committed /\ e.target \in Committed
  /\ tx = [w \in Writers |-> tx[w]] /\ \A w \in Writers : IsRequest(tx[w])

\* The parents of a node, by edge type.
Pairs(es) == {<<e.type, e.source>> : e \in es}

\* The edges into a row with its mode, type and parent.
WellShaped(es, n) ==
  /\ \A e, f \in es : e.source = f.source => e = f
  /\ n.mode = "lineage" /\ n.type = "message" =>
       \/ n.parent = None /\ es = {}
       \/ n.parent # None /\ \E ty \in {"reply", "fork"} : Pairs(es) = {<<ty, n.parent>>}
  /\ n.type = "synthesis" =>
       /\ n.mode = "lineage" /\ n.parent # None
       /\ \E S : /\ IsFiniteSet(S) /\ Cardinality(S) \in MinSources .. MaxSources /\ n.parent \notin S
                 /\ Pairs(es) = {<<"reply", n.parent>>} \cup {<<"synthesis", s>> : s \in S}
  /\ n.mode = "multi_reference" =>
       \E S : /\ IsFiniteSet(S) /\ Cardinality(S) \in MinSources .. MaxSources /\ n.parent \in S
              /\ Pairs(es) = {<<"reference", s>> : s \in S}
              /\ (n.meta = NoMeta \/ DOMAIN n.meta.audit = 1 .. Cardinality(S))

\* Where they come from.
Rooted(es, t, id) ==
  \A e \in es : /\ e.target = id /\ e.tree = t /\ e.source \in Committed /\ e.source < id
                /\ node[e.source].tree = t

GrShape == \A i \in Committed : WellShaped(Incoming(i), node[i]) /\ Rooted(Incoming(i), node[i].tree, i)

\* What a request under way has established and holds.
Chosen(q) ==
  /\ q.tree \in Trees
  /\ q.parent \in {None} \cup Committed /\ (q.parent # None => node[q.parent].tree = q.tree)
  /\ \A i \in DOMAIN q.srcs : q.srcs[i] \in Committed

Selected(q) ==
  /\ IsInjective(q.srcs) /\ Len(q.srcs) \in MinSources .. MaxSources

Held(q) ==
  /\ q.op \in {"create", "merge", "refer"}
  /\ q.op = "create" => q.srcs = <<>>
  /\ q.op \in {"merge", "refer"} => Selected(q) /\ trees[q.tree] = "live" /\ SourcesOK(q.tree, q.srcs)
  /\ q.op = "merge" => q.etype = "reply" /\ q.parent # None /\ q.parent \notin Range(q.srcs)
  /\ q.op = "refer" => /\ q.parent = q.srcs[1] /\ DOMAIN q.hashes = DOMAIN q.srcs
                       /\ SnapshotOK(q.srcs, q.hashes)
  /\ q.op # "refer" => q.req = None

Written(q) ==
  /\ q.id \in 1 .. MaxNodes /\ q.id < nextId /\ q.id \notin Committed
  /\ WellShaped(q.edges, NewRow(q)) /\ Rooted(q.edges, q.tree, q.id)

GrRequests ==
  \A w \in Writers :
    /\ tx[w].pc \in {"token", "insert", "commit"} => Chosen(tx[w])
    /\ tx[w].pc = "token" => /\ Selected(tx[w]) /\ tx[w].parent = tx[w].srcs[1] /\ tx[w].op = "none"
                             /\ DOMAIN tx[w].hashes = DOMAIN tx[w].srcs /\ tx[w].req = None
    /\ InTx(w) => Held(tx[w])
    /\ tx[w].pc = "commit" => Written(tx[w])
    /\ tx[w].pc = "update" => tx[w].op = "edit"

\* Ids are given once, a request id is worked on once.
GrApart ==
  /\ \A v, w \in Writers : tx[v].pc = "commit" /\ tx[w].pc = "commit" /\ tx[v].id = tx[w].id => v = w
  /\ \A v, w \in Writers : InTx(v) /\ InTx(w) /\ tx[v].req # None /\ tx[v].req = tx[w].req /\ tx[v].tree = tx[w].tree => v = w
  /\ \A w \in Writers : InTx(w) => ~Replayed(tx[w].tree, tx[w].req)
  /\ OneReplyPerRequest

GrAnnounced ==
  \A i \in Committed : i > 3 /\ node[i].parent # None
     => i \in announced \/ \E w \in Writers : tx[w].pc = "publish" /\ tx[w].op # "edit" /\ tx[w].id = i

\* The inductive invariant.
GrInv == GrTypes /\ GrShape /\ GrRequests /\ GrApart /\ GrAnnounced

-----------------------------------------------------------------------------

\* The fields of a row and of a request, one by one.
LEMMA RowFields ==
  ASSUME NEW n, IsRow(n)
  PROVE  /\ n.tree \in Trees /\ n.parent \in Nat /\ n.mode \in Modes /\ n.type \in {"message", "synthesis"}
         /\ n.content \in Contents /\ n.meta \in Manifests /\ n.deleted \in BOOLEAN
         /\ n = [tree |-> n.tree, parent |-> n.parent, mode |-> n.mode, type |-> n.type, seq |-> n.seq,
                 content |-> n.content, meta |-> n.meta, deleted |-> n.deleted]
  BY DEF IsRow

LEMMA RowMade ==
  ASSUME NEW t \in Trees, NEW p \in Nat, NEW mo \in Modes, NEW ty \in {"message", "synthesis"}, NEW s,
         NEW c \in Contents, NEW me \in Manifests, NEW d \in BOOLEAN
  PROVE  IsRow([tree |-> t, parent |-> p, mode |-> mo, type |-> ty, seq |-> s,
                content |-> c, meta |-> me, deleted |-> d])
  BY DEF IsRow

LEMMA RequestFields ==
  ASSUME NEW q, IsRequest(q)
  PROVE  /\ q.pc \in {"idle", "token", "insert", "commit", "publish", "update", "done"}
         /\ q.op \in {"none", "create", "merge", "refer", "edit"} /\ q.parent \in Nat
         /\ q.srcs \in Seq(Nat) /\ q.etype \in {"reply", "fork"} /\ q.req \in RequestIDs \cup {None}
         /\ q.hashes \in Seq(Contents) /\ q.id \in Nat /\ q.tree \in Trees \cup {"none"}
         /\ q = [pc |-> q.pc, op |-> q.op, tree |-> q.tree, parent |-> q.parent, srcs |-> q.srcs,
                 etype |-> q.etype, req |-> q.req, hashes |-> q.hashes, seq |-> q.seq, id |-> q.id,
                 edges |-> q.edges]
  BY DEF IsRequest

LEMMA Empties == None \in Nat /\ <<>> \in Seq(Nat) /\ <<>> \in Seq(Contents) /\ 0 \in Nat
  BY DEF None

LEMMA IdFacts == ASSUME GrTypes, NEW i \in Committed PROVE i \in Nat /\ i \in 1 .. MaxNodes /\ i < nextId /\ IsRow(node[i])
  BY DEF GrTypes

\* A request goes on and the rows stay.
LEMMA GrMoves ==
  ASSUME GrInv, NEW w \in Writers, NEW q, IsRequest(q), tx' = [tx EXCEPT ![w] = q],
         UNCHANGED <<trees, node, edges, announced>>, nextId' \in nextId .. MaxNodes + 1,
         q.pc \in {"token", "insert", "commit", "update", "done"}, tx[w].pc # "publish",
         q.pc # "done" => q.pc = "update" \/ Chosen(q),
         q.pc = "token" => /\ Selected(q) /\ q.parent = q.srcs[1] /\ q.op = "none"
                           /\ DOMAIN q.hashes = DOMAIN q.srcs /\ q.req = None,
         q.pc \in {"insert", "commit"} =>
           /\ Held(q) /\ ~Replayed(q.tree, q.req)
           /\ q.req = None \/ \A v \in Writers \ {w} : ~(InTx(v) /\ tx[v].tree = q.tree /\ tx[v].req = q.req),
         q.pc = "commit" => Written(q)' /\ \A v \in Writers : v # w /\ tx[v].pc = "commit" => tx[v].id # q.id,
         q.pc = "update" => q.op = "edit"
  PROVE  GrInv'
<1>a. GrTypes /\ GrShape /\ GrRequests /\ GrApart /\ GrAnnounced
  BY DEF GrInv
<1>b. /\ \A v \in Writers : v # w => tx'[v] = tx[v]
      /\ tx'[w] = q /\ tx' = [v \in Writers |-> tx'[v]]
  BY <1>a DEF GrTypes
<1>1. GrTypes'
  <2>1. nextId' \in 1 .. MaxNodes + 1 /\ \A i \in Nat : i < nextId => i < nextId'
    BY <1>a, GraphAssumption DEF GrTypes
  <2>2. \A i \in Committed : i \in Nat /\ IsRow(node[i]) /\ i \in 1 .. MaxNodes /\ i < nextId /\ node[i].parent \in {None} \cup Committed
    BY <1>a, GraphAssumption DEF GrTypes
  <2>3. Committed' = Committed /\ node' = node /\ trees' = trees /\ edges' = edges
    BY DEF Committed
  <2>4. \A v \in Writers : IsRequest(tx'[v])
    BY <1>a, <1>b DEF GrTypes
  <2>5. \A i \in Committed' : IsRow(node'[i]) /\ i \in 1 .. MaxNodes /\ i < nextId' /\ node'[i].parent \in {None} \cup Committed'
    BY <2>1, <2>2, <2>3
  <2>. QED
    BY <1>a, <1>b, <2>1, <2>3, <2>4, <2>5, ZenonT(60) DEF GrTypes, IsRow, IsRequest
<1>2. GrShape'
  BY <1>a DEF GrShape, Committed, Incoming, WellShaped, Rooted
<1>3. GrRequests'
  <2>1. /\ \A x : Chosen(x)' <=> Chosen(x)
        /\ \A x : Held(x)' <=> Held(x)
        /\ \A x : Written(x) => Written(x)'
    <3>1. \A x \in Nat : x < nextId => x < nextId'
      BY <1>a DEF GrTypes
    <3>. QED
      BY <3>1, GraphAssumption
      DEF Chosen, Held, Written, Committed, SourcesOK, SnapshotOK, Selected, LiveIn, Live, Hash,
      Rooted
  <2>2. ASSUME NEW v \in Writers
        PROVE  \A x : x = tx'[v] =>
                 /\ x.pc \in {"token", "insert", "commit"} => Chosen(x)
                 /\ x.pc = "token" => /\ Selected(x) /\ x.parent = x.srcs[1] /\ x.op = "none"
                                      /\ DOMAIN x.hashes = DOMAIN x.srcs /\ x.req = None
                 /\ x.pc \in {"insert", "commit"} => Held(x)
                 /\ x.pc = "commit" => Written(x)'
                 /\ x.pc = "update" => x.op = "edit"
    <3>1. CASE v = w
      BY <3>1, <1>b
    <3>2. CASE v # w
      <4>1. PICK x : x = tx[v] /\ x = tx'[v]
        BY <3>2, <1>b
      <4>2. /\ x.pc \in {"token", "insert", "commit"} => Chosen(x)
            /\ x.pc = "token" => /\ Selected(x) /\ x.parent = x.srcs[1] /\ x.op = "none"
                                 /\ DOMAIN x.hashes = DOMAIN x.srcs /\ x.req = None
            /\ x.pc \in {"insert", "commit"} => Held(x)
            /\ x.pc = "commit" => Written(x)
            /\ x.pc = "update" => x.op = "edit"
        BY <1>a, <4>1 DEF GrRequests, InTx
      <4>. QED
        BY <4>1, <4>2, <2>1
    <3>. QED
      BY <3>1, <3>2
  <2>3. ASSUME NEW v \in Writers
        PROVE  /\ (tx[v].pc \in {"token", "insert", "commit"} => Chosen(tx[v]))'
               /\ (tx[v].pc = "token" => /\ Selected(tx[v]) /\ tx[v].parent = tx[v].srcs[1] /\ tx[v].op = "none"
                             /\ DOMAIN tx[v].hashes = DOMAIN tx[v].srcs /\ tx[v].req = None)'
               /\ (InTx(v) => Held(tx[v]))'
               /\ (tx[v].pc = "commit" => Written(tx[v]))'
               /\ (tx[v].pc = "update" => tx[v].op = "edit")'
    <3>1. PICK x : x = tx'[v]
      OBVIOUS
    <3>2. /\ x.pc \in {"token", "insert", "commit"} => Chosen(x)'
          /\ x.pc = "token" => /\ Selected(x) /\ x.parent = x.srcs[1] /\ x.op = "none"
                               /\ DOMAIN x.hashes = DOMAIN x.srcs /\ x.req = None
          /\ x.pc \in {"insert", "commit"} => Held(x)'
          /\ x.pc = "commit" => Written(x)'
          /\ x.pc = "update" => x.op = "edit"
      BY <2>1, <2>2, <3>1
    <3>3. (tx[v].pc \in {"token", "insert", "commit"} => Chosen(tx[v]))'
      BY <3>1, <3>2 DEF Chosen
    <3>4. (InTx(v) => Held(tx[v]))'
      BY <3>1, <3>2 DEF Held, InTx
    <3>5. (tx[v].pc = "commit" => Written(tx[v]))'
      BY <3>1, <3>2 DEF Written
    <3>6. (tx[v].pc = "token" => /\ Selected(tx[v]) /\ tx[v].parent = tx[v].srcs[1] /\ tx[v].op = "none"
                             /\ DOMAIN tx[v].hashes = DOMAIN tx[v].srcs /\ tx[v].req = None)'
      BY <3>1, <3>2 DEF Selected
    <3>. QED
      BY <3>1, <3>2, <3>3, <3>4, <3>5, <3>6
  <2>. QED
    BY <2>3 DEF GrRequests
<1>4. GrApart'
  <2>1. \A t, r : Replayed(t, r)' <=> Replayed(t, r)
    BY DEF Replayed, LiveIn, Live
  <2>2. \A u, v \in Writers : tx'[u].pc = "commit" /\ tx'[v].pc = "commit" /\ tx'[u].id = tx'[v].id => u = v
    BY <1>a, <1>b DEF GrApart
  <2>3. \A u, v \in Writers :
           tx'[u].pc \in {"insert", "commit"} /\ tx'[v].pc \in {"insert", "commit"}
           /\ tx'[u].req # None /\ tx'[u].req = tx'[v].req /\ tx'[u].tree = tx'[v].tree => u = v
    <3>1. q.pc \in {"insert", "commit"} /\ q.req # None
            => \A v \in Writers \ {w} : ~(tx[v].pc \in {"insert", "commit"} /\ tx[v].tree = q.tree /\ tx[v].req = q.req)
      BY DEF InTx
    <3>2. ASSUME NEW u \in Writers, NEW v \in Writers, tx[u].pc \in {"insert", "commit"},
                 tx[v].pc \in {"insert", "commit"}, tx[u].req # None, tx[u].req = tx[v].req,
                 tx[u].tree = tx[v].tree
          PROVE  u = v
      <4>1. InTx(u) /\ InTx(v)
        BY <3>2 DEF InTx
      <4>. QED
        BY <1>a, <3>2, <4>1 DEF GrApart
    <3>a. TAKE u, v \in Writers
    <3>3. HAVE tx'[u].pc \in {"insert", "commit"} /\ tx'[v].pc \in {"insert", "commit"}
               /\ tx'[u].req # None /\ tx'[u].req = tx'[v].req /\ tx'[u].tree = tx'[v].tree
    <3>4. CASE u = w /\ v # w
      <4>1. q.pc \in {"insert", "commit"} /\ q.req # None /\ tx'[v] = tx[v]
        BY <3>3, <3>4, <1>b
      <4>. QED
        BY <3>1, <3>3, <3>4, <4>1, <1>b
    <3>5. CASE v = w /\ u # w
      <4>1. q.pc \in {"insert", "commit"} /\ q.req # None /\ tx'[u] = tx[u]
        BY <3>3, <3>5, <1>b
      <4>. QED
        BY <3>1, <3>3, <3>5, <4>1, <1>b
    <3>6. CASE u # w /\ v # w
      BY <3>2, <3>3, <3>6, <1>b
    <3>. QED
      BY <3>4, <3>5, <3>6
  <2>4. \A v \in Writers : tx'[v].pc \in {"insert", "commit"} => ~Replayed(tx'[v].tree, tx'[v].req)
    BY <1>a, <1>b DEF GrApart, InTx
  <2>5. OneReplyPerRequest'
    BY <1>a DEF GrApart, OneReplyPerRequest, Committed, Live
  <2>. QED
    BY <2>1, <2>2, <2>3, <2>4, <2>5 DEF GrApart, InTx
<1>5. GrAnnounced'
  BY <1>a, <1>b DEF GrAnnounced, Committed
<1>. QED
  BY <1>1, <1>2, <1>3, <1>4, <1>5 DEF GrInv

LEMMA IdleMade == IsRequest(Idle) /\ IsRequest(Done) /\ Done.pc = "done" /\ Done = [Idle EXCEPT !.pc = "done"]
<1>1. PICK i : i = Idle /\ IsRequest(i)
  <2>1. IsRequest(Idle)
    BY Empties DEF Idle, IsRequest, None
  <2>. QED
    BY <2>1
<1>2. PICK d : d = [i EXCEPT !.pc = "done"]
  OBVIOUS
<1>3. d.pc = "done" /\ IsRequest(d)
  <2>1. PICK s, es : i \in [pc : {"idle", "token", "insert", "commit", "publish", "update", "done"},
                    op : {"none", "create", "merge", "refer", "edit"}, tree : Trees \cup {"none"},
                    parent : Nat, srcs : Seq(Nat), etype : {"reply", "fork"},
                    req : RequestIDs \cup {None}, hashes : Seq(Contents), seq : {s},
                    id : Nat, edges : {es}]
    BY <1>1 DEF IsRequest
  <2>. QED
    BY <1>2, <2>1 DEF IsRequest
<1>. QED
  BY <1>1, <1>2, <1>3 DEF Done

\* A request that gives up has changed nothing.
LEMMA GrGivesUp == ASSUME GrInv, NEW w \in Writers, Rollback(w) \/ DropToken(w) PROVE GrInv'
<1>1. nextId' \in nextId .. MaxNodes + 1
  BY DEF GrInv, GrTypes, Rollback, DropToken
<1>2. /\ tx' = [tx EXCEPT ![w] = Done] /\ tx[w].pc # "publish" /\ UNCHANGED <<trees, node, edges, announced>>
  BY DEF Rollback, DropToken, InTx
<1>3. PICK q : q = Done /\ IsRequest(q) /\ q.pc = "done"
  BY IdleMade
<1>. QED
  BY <1>1, <1>2, <1>3, GrMoves

\* The requests, one by one: what the opening statements of each have checked
\* is what GrRequests says of it.
LEMMA GrCreate == ASSUME GrInv, NEW w \in Writers, NEW t \in Trees, NEW p \in {None} \cup DOMAIN node, Create(w, t, p) PROVE GrInv'
<1>a. GrTypes
  BY DEF GrInv
<1>1. PICK q : q = [Idle EXCEPT !.pc = "insert", !.op = "create", !.tree = t, !.parent = p]
  OBVIOUS
<1>2. q = [pc |-> "insert", op |-> "create", tree |-> t, parent |-> p, srcs |-> <<>>, etype |-> "reply",
           req |-> None, hashes |-> <<>>, seq |-> 0, id |-> None, edges |-> {}]
  BY <1>1 DEF Idle
<1>3. p \in Nat /\ p \in {None} \cup Committed /\ (p # None => node[p].tree = t)
  BY <1>a DEF GrTypes, Create, ParentOK, LiveIn, Live, Committed, None
<1>4. IsRequest(q)
  BY <1>2, <1>3, Empties DEF IsRequest, None
<1>5. Chosen(q) /\ Held(q) /\ ~Replayed(q.tree, q.req) /\ nextId' \in nextId .. MaxNodes + 1
  BY <1>a, <1>2, <1>3 DEF Chosen, Held, Replayed, GrTypes, Create, Fork
<1>6. /\ tx' = [tx EXCEPT ![w] = q] /\ tx[w].pc = "idle" /\ q.pc = "insert" /\ q.req = None
      /\ UNCHANGED <<trees, node, edges, announced>>
  <2>1. tx' = [tx EXCEPT ![w] = q]
    BY <1>1, Zenon DEF Create, Begin
  <2>. QED
    BY <1>2, <2>1 DEF Create, Begin
<1>. QED
  BY <1>4, <1>5, <1>6, GrMoves

LEMMA GrFork == ASSUME GrInv, NEW w \in Writers, NEW p \in DOMAIN node, Fork(w, p) PROVE GrInv'
<1>a. GrTypes
  BY DEF GrInv
<1>t. PICK t \in Trees : t = node[p].tree
  BY <1>a, RowFields DEF GrTypes, Committed
<1>1. PICK q : q = [Idle EXCEPT !.pc = "insert", !.op = "create", !.tree = node[p].tree, !.parent = p, !.etype = "fork"]
  OBVIOUS
<1>2. q = [pc |-> "insert", op |-> "create", tree |-> t, parent |-> p, srcs |-> <<>>, etype |-> "fork",
           req |-> None, hashes |-> <<>>, seq |-> 0, id |-> None, edges |-> {}]
  BY <1>1, <1>t DEF Idle
<1>3. p \in Nat /\ p \in Committed
  BY <1>a DEF GrTypes, Committed
<1>4. IsRequest(q)
  BY <1>2, <1>3, Empties DEF IsRequest, None
<1>5. Chosen(q) /\ Held(q) /\ ~Replayed(q.tree, q.req) /\ nextId' \in nextId .. MaxNodes + 1
  BY <1>a, <1>2, <1>3, <1>t DEF Chosen, Held, Replayed, GrTypes, Create, Fork
<1>6. /\ tx' = [tx EXCEPT ![w] = q] /\ tx[w].pc = "idle" /\ q.pc = "insert" /\ q.req = None
      /\ UNCHANGED <<trees, node, edges, announced>>
  <2>1. tx' = [tx EXCEPT ![w] = q]
    BY <1>1, Zenon DEF Fork, Begin
  <2>. QED
    BY <1>2, <2>1 DEF Fork, Begin
<1>. QED
  BY <1>4, <1>5, <1>6, GrMoves

LEMMA ListFacts ==
  ASSUME GrTypes, NEW srcs \in SourceLists
  PROVE  /\ srcs \in Seq(Nat) /\ IsInjective(srcs) /\ Len(srcs) \in MinSources .. MaxSources
         /\ \A i \in DOMAIN srcs : srcs[i] \in Committed
         /\ 1 \in DOMAIN srcs
<1>1. PICK n \in MinSources .. MaxSources : srcs \in [1 .. n -> Committed] /\ IsInjective(srcs)
  BY DEF SourceLists, Committed
<1>2. n \in Nat /\ n >= 2 /\ Committed \subseteq Nat
  BY <1>1, GraphAssumption DEF GrTypes
<1>3. srcs \in [1 .. n -> Nat]
  BY <1>1, <1>2
<1>4. srcs \in Seq(Nat) /\ Len(srcs) = n
  BY <1>2, <1>3
<1>. QED
  BY <1>1, <1>2, <1>4

LEMMA GrMerge ==
  ASSUME GrInv, NEW w \in Writers, NEW t \in Trees, NEW p \in DOMAIN node, NEW srcs \in SourceLists,
         CreateMerge(w, t, p, srcs)
  PROVE  GrInv'
<1>a. GrTypes
  BY DEF GrInv
<1>1. PICK q : q = [Idle EXCEPT !.pc = "insert", !.op = "merge", !.tree = t, !.parent = p, !.srcs = srcs]
  OBVIOUS
<1>2. q = [pc |-> "insert", op |-> "merge", tree |-> t, parent |-> p, srcs |-> srcs, etype |-> "reply",
           req |-> None, hashes |-> <<>>, seq |-> 0, id |-> None, edges |-> {}]
  BY <1>1 DEF Idle
<1>3. p \in Nat /\ p \in Committed /\ node[p].tree = t /\ p # None
  BY <1>a DEF GrTypes, Committed, CreateMerge, LiveIn, None
<1>4. IsRequest(q)
  BY <1>2, <1>3, <1>a, ListFacts, Empties DEF IsRequest, None
<1>5. Chosen(q) /\ Held(q) /\ ~Replayed(q.tree, q.req) /\ nextId' \in nextId .. MaxNodes + 1
  BY <1>2, <1>3, <1>a, ListFacts DEF Chosen, Held, Selected, Replayed, CreateMerge, TreeLockOK,
     GrTypes
<1>6. /\ tx' = [tx EXCEPT ![w] = q] /\ tx[w].pc = "idle" /\ q.pc = "insert" /\ q.req = None
      /\ UNCHANGED <<trees, node, edges, announced>>
  <2>1. tx' = [tx EXCEPT ![w] = q]
    BY <1>1, Zenon DEF CreateMerge, Begin
  <2>. QED
    BY <1>2, <2>1 DEF CreateMerge, Begin
<1>. QED
  BY <1>4, <1>5, <1>6, GrMoves

LEMMA GrValidate ==
  ASSUME GrInv, NEW w \in Writers, NEW t \in Trees, NEW srcs \in SourceLists, ValidateReferenceSelection(w, t, srcs)
  PROVE  GrInv'
<1>a. GrTypes
  BY DEF GrInv
<1>h. PICK h : h = [i \in DOMAIN srcs |-> Hash(srcs[i])]
  OBVIOUS
<1>1. PICK q : q = [Idle EXCEPT !.pc = "token", !.tree = t, !.srcs = srcs, !.parent = srcs[1], !.hashes = h]
  OBVIOUS
<1>2. q = [pc |-> "token", op |-> "none", tree |-> t, parent |-> srcs[1], srcs |-> srcs, etype |-> "reply",
           req |-> None, hashes |-> h, seq |-> 0, id |-> None, edges |-> {}]
  BY <1>1 DEF Idle
<1>3. /\ srcs[1] \in Committed /\ srcs[1] \in Nat /\ node[srcs[1]].tree = t
      /\ DOMAIN h = DOMAIN srcs
  BY <1>a, <1>h, ListFacts DEF GrTypes, ValidateReferenceSelection, SourcesOK, LiveIn
<1>4. h \in Seq(Contents)
  <2>1. \A i \in DOMAIN srcs : Hash(srcs[i]) \in Contents
    BY <1>a, ListFacts, RowFields DEF GrTypes, Hash
  <2>2. PICK n \in Nat : DOMAIN srcs = 1 .. n
    BY <1>a, ListFacts
  <2>. QED
    BY <1>h, <2>1, <2>2
<1>5. IsRequest(q)
  BY <1>2, <1>3, <1>4, <1>a, ListFacts, Empties DEF IsRequest, None
<1>6. Chosen(q) /\ Selected(q)
  BY <1>2, <1>3, <1>a, ListFacts DEF Chosen, Selected
<1>7. /\ q.pc = "token" /\ q.parent = q.srcs[1] /\ q.op = "none" /\ DOMAIN q.hashes = DOMAIN q.srcs /\ q.req = None
      /\ tx' = [tx EXCEPT ![w] = q] /\ tx[w].pc = "idle" /\ UNCHANGED <<trees, node, edges, announced>>
      /\ nextId' \in nextId .. MaxNodes + 1
  <2>1. tx' = [tx EXCEPT ![w] = q]
    BY <1>h, <1>1, Zenon DEF ValidateReferenceSelection, Begin
  <2>2. nextId' \in nextId .. MaxNodes + 1
    BY <1>a DEF ValidateReferenceSelection, GrTypes
  <2>. QED
    BY <1>2, <1>3, <2>1, <2>2 DEF ValidateReferenceSelection, Begin
<1>. QED
  BY <1>5, <1>6, <1>7, GrMoves

LEMMA GrReply ==
  ASSUME GrInv, NEW w \in Writers, NEW r \in {None} \cup RequestIDs, CreateMultiReferenceReply(w, r)
  PROVE  GrInv'
<1>a. GrTypes /\ GrRequests
  BY DEF GrInv
<1>1. PICK o : o = tx[w] /\ IsRequest(o) /\ o.pc = "token"
  BY <1>a DEF GrTypes, CreateMultiReferenceReply
<1>2. PICK q : q = [o EXCEPT !.pc = "insert", !.op = "refer", !.req = r]
  OBVIOUS
<1>3. q = [pc |-> "insert", op |-> "refer", tree |-> o.tree, parent |-> o.parent, srcs |-> o.srcs,
           etype |-> o.etype, req |-> r, hashes |-> o.hashes, seq |-> o.seq, id |-> o.id, edges |-> o.edges]
  <2>1. o = [pc |-> o.pc, op |-> o.op, tree |-> o.tree, parent |-> o.parent, srcs |-> o.srcs,
             etype |-> o.etype, req |-> o.req, hashes |-> o.hashes, seq |-> o.seq, id |-> o.id,
             edges |-> o.edges]
    BY <1>1, RequestFields
  <2>. QED
    BY <1>2, <2>1
<1>4. IsRequest(q)
  <2>1. PICK s, es : o \in [pc : {"idle", "token", "insert", "commit", "publish", "update", "done"},
                    op : {"none", "create", "merge", "refer", "edit"}, tree : Trees \cup {"none"},
                    parent : Nat, srcs : Seq(Nat), etype : {"reply", "fork"},
                    req : RequestIDs \cup {None}, hashes : Seq(Contents), seq : {s},
                    id : Nat, edges : {es}]
    BY <1>1 DEF IsRequest
  <2>. QED
    BY <1>3, <2>1 DEF IsRequest
<1>5. Chosen(o) /\ Selected(o) /\ o.parent = o.srcs[1] /\ DOMAIN o.hashes = DOMAIN o.srcs
  BY <1>1, <1>a DEF GrRequests
<1>6. Chosen(q) /\ Held(q)
  BY <1>1, <1>3, <1>5 DEF Chosen, Held, Selected, CreateMultiReferenceReply, TreeLockOK
<1>7. ~Replayed(q.tree, q.req) /\ ~AdvisoryHeld(q.tree, q.req)
  BY <1>1, <1>3 DEF CreateMultiReferenceReply
<1>8. q.req = None \/ \A v \in Writers \ {w} : ~(InTx(v) /\ tx[v].tree = q.tree /\ tx[v].req = q.req)
  BY <1>7 DEF AdvisoryHeld
<1>9. /\ tx' = [tx EXCEPT ![w] = q] /\ tx[w].pc = "token" /\ q.pc = "insert"
      /\ UNCHANGED <<trees, node, edges, announced>> /\ nextId' \in nextId .. MaxNodes + 1
  BY <1>a, <1>1, <1>2, <1>3 DEF CreateMultiReferenceReply, GrTypes
<1>. QED
  BY <1>4, <1>6, <1>7, <1>8, <1>9, GrMoves

LEMMA GrUpdate == ASSUME GrInv, NEW w \in Writers, NEW id \in DOMAIN node, Update(w, id) PROVE GrInv'
<1>a. GrTypes
  BY DEF GrInv
<1>1. PICK q : q = [Idle EXCEPT !.pc = "update", !.op = "edit", !.id = id]
  OBVIOUS
<1>2. q = [pc |-> "update", op |-> "edit", tree |-> "none", parent |-> None, srcs |-> <<>>, etype |-> "reply",
           req |-> None, hashes |-> <<>>, seq |-> 0, id |-> id, edges |-> {}]
  BY <1>1 DEF Idle
<1>3. IsRequest(q)
  <2>1. id \in Nat
    BY <1>a, IdFacts DEF Committed
  <2>. QED
    BY <1>2, <2>1, Empties DEF IsRequest, None
<1>4. /\ tx' = [tx EXCEPT ![w] = q] /\ tx[w].pc = "idle" /\ q.pc = "update" /\ q.op = "edit"
      /\ UNCHANGED <<trees, node, edges, announced>> /\ nextId' \in nextId .. MaxNodes + 1
  BY <1>a, <1>1, <1>2 DEF Update, Begin, GrTypes
<1>. QED
  BY <1>3, <1>4, GrMoves

-----------------------------------------------------------------------------
(* The edges of a new node *)

\* A list without repetitions has as many members as places.
LEMMA RangeCount ==
  ASSUME NEW s \in Seq(Nat), IsInjective(s)
  PROVE  IsFiniteSet(Range(s)) /\ Cardinality(Range(s)) = Len(s) /\ \A i \in DOMAIN s : s[i] \in Range(s)
<1>1. PICK n \in Nat : n = Len(s) /\ DOMAIN s = 1 .. n
  OBVIOUS
<1>2. s \in Bijection(1 .. n, Range(s))
  BY <1>1 DEF Bijection, Injection, Surjection, Range, IsInjective
<1>3. IsFiniteSet(1 .. n) /\ Cardinality(1 .. n) = n
  BY FS_Interval
<1>4. IsFiniteSet(Range(s)) /\ Cardinality(Range(s)) = n
  BY <1>2, <1>3, FS_Bijection DEF ExistsBijection
<1>. QED
  BY <1>1, <1>4 DEF Range

\* However the sources and the parent were chosen, the edges Insert makes fit
\* the row Commit writes.
LEMMA NewEdgesFit ==
  ASSUME NEW q, IsRequest(q), Held(q), NEW id, NEW es, es = NewEdges(q, id), NEW n,
         n.parent = q.parent, n.mode = (IF q.op = "refer" THEN "multi_reference" ELSE "lineage"),
         n.type = (IF q.op = "merge" THEN "synthesis" ELSE "message"),
         q.op = "refer" => n.meta.audit = q.hashes
  PROVE  /\ WellShaped(es, n)
         /\ \A e \in es : /\ e.target = id /\ e.tree = q.tree
                          /\ \/ e.source = q.parent /\ q.parent # None
                             \/ \E i \in DOMAIN q.srcs : e.source = q.srcs[i]
<1>q. q.srcs \in Seq(Nat) /\ q.etype \in {"reply", "fork"} /\ q.op \in {"create", "merge", "refer"} /\ q.parent \in Nat
  BY RequestFields DEF Held
<1>b. PICK b : b = MaxEdgeSeq(q.tree)
  OBVIOUS
<1>1. CASE q.op = "create"
  <2>1. q.srcs = <<>> /\ n.mode = "lineage" /\ n.type = "message"
    BY <1>1 DEF Held
  <2>2. CASE q.parent = None
    <3>1. es = {}
      BY <1>1, <2>1, <2>2 DEF NewEdges
    <3>. QED
      BY <2>1, <2>2, <3>1 DEF WellShaped
  <2>3. CASE q.parent # None
    <3>1. PICK e : e = Edge(q.tree, q.parent, id, q.etype, b + 1)
      OBVIOUS
    <3>2. es = {e}
      BY <1>b, <1>1, <2>1, <2>3, <3>1 DEF NewEdges
    <3>3. e.tree = q.tree /\ e.target = id /\ e.source = q.parent /\ e.type = q.etype
      BY <3>1 DEF Edge
    <3>4. Pairs(es) = {<<q.etype, q.parent>>}
      BY <3>2, <3>3 DEF Pairs
    <3>. QED
      BY <1>q, <2>1, <2>3, <3>2, <3>3, <3>4 DEF WellShaped
  <2>. QED
    BY <2>2, <2>3
<1>2. ASSUME q.op \in {"merge", "refer"}
      PROVE  /\ IsInjective(q.srcs) /\ IsFiniteSet(Range(q.srcs))
             /\ Cardinality(Range(q.srcs)) = Len(q.srcs) /\ Len(q.srcs) \in MinSources .. MaxSources
             /\ Range(q.srcs) = {q.srcs[i] : i \in DOMAIN q.srcs}
  BY <1>2, <1>q, RangeCount DEF Held, Selected, Range
<1>3. CASE q.op = "merge"
  <2>. DEFINE Link(i, k) == Edge(q.tree, q.srcs[i], id, "synthesis", b + k + i)
  <2>0. q.parent # None /\ q.parent \notin Range(q.srcs) /\ q.etype = "reply" /\ n.mode = "lineage" /\ n.type = "synthesis"
    BY <1>3 DEF Held
  <2>1. PICK e : e = Edge(q.tree, q.parent, id, "reply", b + 1)
    OBVIOUS
  <2>2. PICK k : k = Cardinality({e})
    OBVIOUS
  <2>3. es = {e} \cup {Link(i, k) : i \in DOMAIN q.srcs}
    BY <1>b, <1>3, <2>0, <2>1, <2>2 DEF NewEdges
  <2>4. e.tree = q.tree /\ e.target = id /\ e.source = q.parent /\ e.type = "reply"
    BY <2>1 DEF Edge
  <2>5. \A i : Link(i, k).tree = q.tree /\ Link(i, k).target = id /\ Link(i, k).source = q.srcs[i] /\ Link(i, k).type = "synthesis"
    BY DEF Edge
  <2>. HIDE DEF Link
  <2>6. \A x, y \in es : x.source = y.source => x = y
    BY <1>2, <1>3, <2>0, <2>3, <2>4, <2>5 DEF IsInjective
  <2>7. Pairs(es) = {<<"reply", q.parent>>} \cup {<<"synthesis", s>> : s \in Range(q.srcs)}
    BY <1>2, <1>3, <2>3, <2>4, <2>5 DEF Pairs
  <2>8. \A x \in es : /\ x.target = id /\ x.tree = q.tree
                      /\ x.source = q.parent \/ \E i \in DOMAIN q.srcs : x.source = q.srcs[i]
    BY <2>3, <2>4, <2>5
  <2>. QED
    BY <1>2, <1>3, <2>0, <2>6, <2>7, <2>8 DEF WellShaped
<1>4. CASE q.op = "refer"
  <2>. DEFINE Link(i, k) == Edge(q.tree, q.srcs[i], id, "reference", b + k + i)
  <2>0. q.parent = q.srcs[1] /\ DOMAIN q.hashes = DOMAIN q.srcs /\ n.mode = "multi_reference" /\ n.type = "message"
    BY <1>4 DEF Held
  <2>2. PICK k : k = Cardinality({})
    OBVIOUS
  <2>3. es = {Link(i, k) : i \in DOMAIN q.srcs}
    BY <1>b, <1>4, <2>2 DEF NewEdges
  <2>5. \A i : Link(i, k).tree = q.tree /\ Link(i, k).target = id /\ Link(i, k).source = q.srcs[i] /\ Link(i, k).type = "reference"
    BY DEF Edge
  <2>. HIDE DEF Link
  <2>6. \A x, y \in es : x.source = y.source => x = y
    BY <1>2, <1>4, <2>3, <2>5 DEF IsInjective
  <2>7. Pairs(es) = {<<"reference", s>> : s \in Range(q.srcs)}
    BY <1>2, <1>4, <2>3, <2>5 DEF Pairs
  <2>8. \A x \in es : x.target = id /\ x.tree = q.tree /\ \E i \in DOMAIN q.srcs : x.source = q.srcs[i]
    BY <2>3, <2>5
  <2>9. PICK m \in Nat : m = Len(q.srcs) /\ DOMAIN q.srcs = 1 .. m /\ m = Cardinality(Range(q.srcs)) /\ m >= 2
    BY <1>q, <1>2, <1>4, GraphAssumption
  <2>10. q.parent \in Range(q.srcs) /\ DOMAIN n.meta.audit = 1 .. Cardinality(Range(q.srcs))
    BY <1>2, <1>4, <2>0, <2>9
  <2>. QED
    BY <1>2, <1>4, <2>0, <2>6, <2>7, <2>8, <2>10 DEF WellShaped
<1>. QED
  BY <1>q, <1>1, <1>3, <1>4

\* The rows a transaction inserts are its own until it commits.
LEMMA GrInsert == ASSUME GrInv, NEW w \in Writers, Insert(w) PROVE GrInv'
<1>a. GrTypes /\ GrRequests /\ GrApart
  BY DEF GrInv
<1>1. PICK o : o = tx[w] /\ IsRequest(o) /\ o.pc = "insert" /\ Held(o) /\ Chosen(o)
  BY <1>a DEF GrTypes, GrRequests, Insert, InTx
<1>2. PICK id, es, m : id \in Nat /\ id = nextId /\ es = NewEdges(o, id) /\ m = MaxSeq(o.tree) + 1
  BY <1>a DEF GrTypes
<1>. id \in Nat
  BY <1>2
<1>3. PICK q : q = [o EXCEPT !.pc = "commit", !.id = id, !.edges = es, !.seq = m]
  OBVIOUS
<1>4. q = [pc |-> "commit", op |-> o.op, tree |-> o.tree, parent |-> o.parent, srcs |-> o.srcs,
           etype |-> o.etype, req |-> o.req, hashes |-> o.hashes, seq |-> m, id |-> id, edges |-> es]
  <2>1. o = [pc |-> o.pc, op |-> o.op, tree |-> o.tree, parent |-> o.parent, srcs |-> o.srcs,
             etype |-> o.etype, req |-> o.req, hashes |-> o.hashes, seq |-> o.seq, id |-> o.id,
             edges |-> o.edges]
    BY <1>1, RequestFields
  <2>. QED
    BY <1>3, <2>1
<1>5. IsRequest(q)
  <2>1. PICK s, fs : o \in [pc : {"idle", "token", "insert", "commit", "publish", "update", "done"},
                    op : {"none", "create", "merge", "refer", "edit"}, tree : Trees \cup {"none"},
                    parent : Nat, srcs : Seq(Nat), etype : {"reply", "fork"},
                    req : RequestIDs \cup {None}, hashes : Seq(Contents), seq : {s},
                    id : Nat, edges : {fs}]
    BY <1>1 DEF IsRequest
  <2>. QED
    BY <1>4, <2>1 DEF IsRequest
<1>6. Chosen(q) /\ Held(q)
  BY <1>1, <1>4 DEF Chosen, Held, Selected
<1>7. Written(q)'
  <2>1. PICK n : n = NewRow(q)
    OBVIOUS
  <2>2. /\ n.parent = o.parent /\ n.mode = (IF o.op = "refer" THEN "multi_reference" ELSE "lineage")
        /\ n.type = (IF o.op = "merge" THEN "synthesis" ELSE "message")
        /\ (o.op = "refer" => n.meta.audit = o.hashes)
    BY <2>1, <1>4 DEF NewRow, Row
  <2>3. /\ WellShaped(es, n)
        /\ \A e \in es : /\ e.target = id /\ e.tree = o.tree
                         /\ \/ e.source = o.parent /\ o.parent # None
                            \/ \E i \in DOMAIN o.srcs : e.source = o.srcs[i]
    BY <1>1, <1>2, <2>2, NewEdgesFit
  <2>4. \A i \in DOMAIN o.srcs : o.srcs[i] \in Committed /\ node[o.srcs[i]].tree = o.tree
    BY <1>1 DEF Chosen, Held, SourcesOK, LiveIn
  <2>5. Rooted(es, o.tree, id)
    BY <1>1, <1>2, <1>a, <2>3, <2>4, IdFacts DEF Rooted, Chosen
  <2>6. id \in 1 .. MaxNodes /\ id < nextId' /\ id \notin Committed /\ Committed' = Committed /\ node' = node
    BY <1>2, <1>a, IdFacts DEF Insert, GrTypes, Committed
  <2>7. Rooted(es, o.tree, id)'
    BY <2>5, <2>6 DEF Rooted
  <2>8. WellShaped(q.edges, NewRow(q))' /\ q.edges = es /\ q.tree = o.tree /\ q.id = id
    BY <1>4, <2>1, <2>3 DEF WellShaped, NewRow
  <2>. QED
    BY <2>6, <2>7, <2>8 DEF Written
<1>8. \A v \in Writers : v # w /\ tx[v].pc = "commit" => tx[v].id # q.id
  BY <1>2, <1>4, <1>a DEF GrRequests, Written, GrTypes
<1>9. ~Replayed(q.tree, q.req)
  BY <1>1, <1>4, <1>a DEF GrApart, InTx
<1>10. q.req = None \/ \A v \in Writers \ {w} : ~(InTx(v) /\ tx[v].tree = q.tree /\ tx[v].req = q.req)
  BY <1>1, <1>4, <1>a DEF GrApart, InTx
<1>11. /\ tx' = [tx EXCEPT ![w] = q] /\ tx[w].pc = "insert" /\ q.pc = "commit" /\ UNCHANGED <<trees, node, edges, announced>>
       /\ nextId' \in nextId .. MaxNodes + 1
  <2>1. tx' = [tx EXCEPT ![w] = q]
    BY <1>1, <1>2, <1>3, Zenon DEF Insert
  <2>2. nextId' \in nextId .. MaxNodes + 1
    BY <1>a, GraphAssumption DEF Insert, GrTypes
  <2>. QED
    BY <1>1, <1>4, <2>1, <2>2 DEF Insert
<1>. QED
  BY <1>5, <1>6, <1>7, <1>8, <1>9, <1>10, <1>11, GrMoves

-----------------------------------------------------------------------------
(* Rows that change and rows that are added *)

\* A committed row is rewritten while no transaction holds it, and its request
\* goes on to announce the edit or ends.
LEMMA GrRewrites ==
  ASSUME GrInv, NEW id \in Committed, NEW n, IsRow(n), ~node[id].deleted, ~ShareLocked(id),
         n.tree = node[id].tree, n.parent = node[id].parent, n.mode = node[id].mode, n.type = node[id].type,
         n.meta \in {node[id].meta, NoMeta},
         DOMAIN node' = Committed, \A i \in Committed : node'[i] = IF i = id THEN n ELSE node[i],
         UNCHANGED <<trees, edges, nextId, announced>>, tx' = [v \in Writers |-> tx'[v]],
         \A v \in Writers : \/ tx'[v] = tx[v]
                            \/ /\ tx[v].pc = "update" /\ IsRequest(tx'[v])
                               /\ tx'[v].pc = "publish" \/ tx'[v].pc = "done"
  PROVE  GrInv'
<1>a. GrTypes /\ GrShape /\ GrRequests /\ GrApart /\ GrAnnounced
  BY DEF GrInv
<1>b. /\ Committed' = Committed /\ \A i \in Committed : i # id => node'[i] = node[i]
      /\ node'[id] = n /\ \A i \in Committed : node'[i].tree = node[i].tree /\ node'[i].parent = node[i].parent
  BY DEF Committed
<1>1. GrTypes'
  <2>1. \A i \in Committed : IsRow(node'[i]) /\ i \in 1 .. MaxNodes /\ i < nextId /\ node'[i].parent \in {None} \cup Committed
    BY <1>a, <1>b DEF GrTypes
  <2>2. \A v \in Writers : IsRequest(tx'[v])
    BY <1>a DEF GrTypes
  <2>. QED
    BY <1>a, <1>b, <2>1, <2>2 DEF GrTypes, IsRow, IsRequest
<1>2. GrShape'
  <2>1. ASSUME NEW i \in Committed PROVE WellShaped(Incoming(i), node'[i]) /\ Rooted(Incoming(i), node'[i].tree, i)
    <3>1. WellShaped(Incoming(i), node[i]) /\ Rooted(Incoming(i), node[i].tree, i)
      BY <1>a DEF GrShape
    <3>2. CASE i # id
      BY <1>b, <3>1, <3>2
    <3>3. CASE i = id
      <4>1. WellShaped(Incoming(i), n)
        BY <3>1, <3>3 DEF WellShaped, NoMeta
      <4>. QED
        BY <1>b, <3>1, <3>3, <4>1
    <3>. QED
      BY <3>2, <3>3
  <2>2. \A i \in Committed : Incoming(i)' = Incoming(i)
    BY DEF Incoming
  <2>. QED
    BY <1>b, <2>1, <2>2 DEF GrShape, WellShaped, Rooted
<1>3. GrRequests'
  <2>1. ASSUME NEW v \in Writers, tx'[v] = tx[v]
        PROVE  /\ (tx[v].pc \in {"token", "insert", "commit"} => Chosen(tx[v]))'
               /\ (InTx(v) => Held(tx[v]))'
               /\ (tx[v].pc = "commit" => Written(tx[v]))'
    <3>1. PICK x : x = tx[v] /\ x = tx'[v]
      BY <2>1
    <3>2. (tx[v].pc \in {"token", "insert", "commit"} => Chosen(tx[v]))'
      <4>1. x.pc \in {"token", "insert", "commit"} => Chosen(x)
        BY <3>1, <1>a DEF GrRequests
      <4>. QED
        BY <3>1, <4>1, <1>b DEF Chosen
    <3>3. (InTx(v) => Held(tx[v]))'
      <4>1. x.pc \in {"insert", "commit"} => Held(x)
        BY <3>1, <1>a DEF GrRequests, InTx
      <4>2. x.pc \in {"insert", "commit"} /\ x.op \in {"merge", "refer"}
               => SourcesOK(x.tree, x.srcs) /\ \A i \in DOMAIN x.srcs : x.srcs[i] # id
        BY <3>1, <4>1 DEF Held, ShareLocked, InTx, Range
      <4>3. x.pc \in {"insert", "commit"} /\ x.op \in {"merge", "refer"}
               => SourcesOK(x.tree, x.srcs)' /\ (SnapshotOK(x.srcs, x.hashes) => SnapshotOK(x.srcs, x.hashes)')
        BY <4>2, <1>b DEF SourcesOK, SnapshotOK, LiveIn, Live, Hash, Committed
      <4>4. x.pc \in {"insert", "commit"} => Held(x)'
        BY <4>1, <4>3 DEF Held, Selected
      <4>. QED
        BY <3>1, <4>4 DEF Held, InTx
    <3>4. (tx[v].pc = "commit" => Written(tx[v]))'
      <4>1. x.pc = "commit" => Written(x)
        BY <3>1, <1>a DEF GrRequests
      <4>. QED
        BY <3>1, <4>1, <1>b DEF Written, Rooted
    <3>. QED
      BY <3>2, <3>3, <3>4
  <2>2. \A v \in Writers : tx'[v] # tx[v] => tx'[v].pc = "publish" \/ tx'[v].pc = "done"
    OBVIOUS
  <2>3. ASSUME NEW v \in Writers
        PROVE  /\ (tx[v].pc \in {"token", "insert", "commit"} => Chosen(tx[v]))'
               /\ (tx[v].pc = "token" => /\ Selected(tx[v]) /\ tx[v].parent = tx[v].srcs[1] /\ tx[v].op = "none"
                             /\ DOMAIN tx[v].hashes = DOMAIN tx[v].srcs /\ tx[v].req = None)'
               /\ (InTx(v) => Held(tx[v]))'
               /\ (tx[v].pc = "commit" => Written(tx[v]))'
               /\ (tx[v].pc = "update" => tx[v].op = "edit")'
    <3>1. CASE tx'[v] = tx[v]
      <4>1. /\ (tx[v].pc = "token" => /\ Selected(tx[v]) /\ tx[v].parent = tx[v].srcs[1] /\ tx[v].op = "none"
                             /\ DOMAIN tx[v].hashes = DOMAIN tx[v].srcs /\ tx[v].req = None)'
            /\ (tx[v].pc = "update" => tx[v].op = "edit")'
        BY <3>1, <1>a DEF GrRequests, Selected
      <4>. QED
        BY <2>1, <3>1, <4>1
    <3>2. CASE tx'[v] # tx[v]
      BY <2>2, <3>2 DEF InTx
    <3>. QED
      BY <3>1, <3>2
  <2>. QED
    BY <2>3 DEF GrRequests
<1>4. GrApart'
  <2>0. \A v \in Writers : tx'[v].pc \in {"insert", "commit"} => tx'[v] = tx[v]
    OBVIOUS
  <2>1. \A i \in Committed : Live(i)' => Live(i)
    BY <1>b DEF Live, Committed
  <2>2. \A i \in Committed : node'[i].meta.req = node[i].meta.req \/ node'[i].meta.req = None
    BY <1>b DEF NoMeta
  <2>3. \A t, r : Replayed(t, r)' => Replayed(t, r)
    BY <1>b, <2>1, <2>2 DEF Replayed, LiveIn, Committed, Live
  <2>4. OneReplyPerRequest'
    BY <1>a, <1>b, <2>1, <2>2 DEF GrApart, OneReplyPerRequest
  <2>5. \A u, v \in Writers : tx'[u].pc = "commit" /\ tx'[v].pc = "commit" /\ tx'[u].id = tx'[v].id => u = v
    BY <1>a, <2>0 DEF GrApart
  <2>6. \A u, v \in Writers :
           tx'[u].pc \in {"insert", "commit"} /\ tx'[v].pc \in {"insert", "commit"}
           /\ tx'[u].req # None /\ tx'[u].req = tx'[v].req /\ tx'[u].tree = tx'[v].tree => u = v
    BY <1>a, <2>0 DEF GrApart, InTx
  <2>7. \A v \in Writers : tx'[v].pc \in {"insert", "commit"} => ~Replayed(tx'[v].tree, tx'[v].req)
    BY <1>a, <2>0 DEF GrApart, InTx
  <2>. QED
    BY <2>3, <2>4, <2>5, <2>6, <2>7 DEF GrApart, InTx
<1>5. GrAnnounced'
  BY <1>a, <1>b DEF GrAnnounced
<1>. QED
  BY <1>1, <1>2, <1>3, <1>4, <1>5 DEF GrInv

\* The rows an edit and a deletion write.
LEMMA RowEdited ==
  ASSUME GrTypes, NEW id \in Committed, NEW c \in Contents
  PROVE  /\ IsRow([node[id] EXCEPT !.content = c])
         /\ IsRow([node[id] EXCEPT !.meta = NoMeta])
         /\ IsRow([node[id] EXCEPT !.deleted = TRUE, !.content = 0, !.meta = NoMeta])
<1>1. PICK n : n = node[id] /\ IsRow(n)
  BY DEF GrTypes
<1>2. PICK s : n \in [tree : Trees, parent : Nat, mode : Modes, type : {"message", "synthesis"}, seq : {s},
                content : Contents, meta : Manifests, deleted : BOOLEAN]
  BY <1>1 DEF IsRow
<1>3. NoMeta \in Manifests /\ 0 \in Contents
  BY GraphAssumption, Empties DEF NoMeta, Manifests
<1>4. IsRow([n EXCEPT !.content = c]) /\ IsRow([n EXCEPT !.meta = NoMeta])
  BY <1>2, <1>3 DEF IsRow
<1>5. PICK k : k = [n EXCEPT !.deleted = TRUE, !.content = 0, !.meta = NoMeta]
  OBVIOUS
<1>6. k = [tree |-> n.tree, parent |-> n.parent, mode |-> n.mode, type |-> n.type, seq |-> n.seq,
           content |-> 0, meta |-> NoMeta, deleted |-> TRUE]
  <2>1. n = [tree |-> n.tree, parent |-> n.parent, mode |-> n.mode, type |-> n.type, seq |-> n.seq,
             content |-> n.content, meta |-> n.meta, deleted |-> n.deleted]
    BY <1>1, RowFields
  <2>. QED
    BY <1>5, <2>1
<1>7. IsRow(k)
  BY <1>2, <1>3, <1>6 DEF IsRow
<1>. QED
  BY <1>1, <1>4, <1>5, <1>7

LEMMA GrApplyUpdate == ASSUME GrInv, NEW w \in Writers, ApplyUpdate(w) PROVE GrInv'
<1>a. GrTypes /\ GrRequests
  BY DEF GrInv
<1>b. PICK id : id = tx[w].id /\ tx[w].pc = "update" /\ ~ShareLocked(id)
  BY DEF ApplyUpdate
<1>t. PICK o : o = tx[w] /\ IsRequest(o)
  BY <1>a DEF GrTypes
<1>1. CASE Live(id)
  <2>1. id \in Committed /\ ~node[id].deleted
    BY <1>1 DEF Live, Committed
  <2>2. PICK q : q = [o EXCEPT !.pc = "publish"]
    OBVIOUS
  <2>3. IsRequest(q) /\ q.pc = "publish"
    <3>1. PICK s, es : o \in [pc : {"idle", "token", "insert", "commit", "publish", "update", "done"},
                    op : {"none", "create", "merge", "refer", "edit"}, tree : Trees \cup {"none"},
                    parent : Nat, srcs : Seq(Nat), etype : {"reply", "fork"},
                    req : RequestIDs \cup {None}, hashes : Seq(Contents), seq : {s},
                    id : Nat, edges : {es}]
      BY <1>t DEF IsRequest
    <3>. QED
      BY <2>2, <3>1 DEF IsRequest
  <2>4. tx' = [tx EXCEPT ![w] = q]
    <3>1. tx' = [tx EXCEPT ![w].pc = "publish"]
      BY <1>1, <1>b DEF ApplyUpdate
    <3>. QED
      BY <1>t, <2>2, <3>1
  <2>5. UNCHANGED <<trees, edges, nextId, announced>>
    BY DEF ApplyUpdate
  <2>6. tx' = [v \in Writers |-> tx'[v]] /\ \A v \in Writers : tx'[v] = tx[v] \/ (v = w /\ tx'[v] = q)
    BY <1>a, <2>4 DEF GrTypes
  <2>7. PICK n : /\ IsRow(n) /\ n.tree = node[id].tree /\ n.parent = node[id].parent
                 /\ n.mode = node[id].mode /\ n.type = node[id].type /\ n.meta \in {node[id].meta, NoMeta}
                 /\ DOMAIN node' = Committed /\ \A i \in Committed : node'[i] = IF i = id THEN n ELSE node[i]
    <3>1. \/ \E c \in Contents : node' = [node EXCEPT ![id].content = c]
          \/ node' = [node EXCEPT ![id].meta = NoMeta]
          \/ node' = node
      BY <1>1, <1>b DEF ApplyUpdate
    <3>r. PICK r : /\ r = node[id] /\ IsRow(r)
                   /\ r = [tree |-> r.tree, parent |-> r.parent, mode |-> r.mode, type |-> r.type, seq |-> r.seq,
                           content |-> r.content, meta |-> r.meta, deleted |-> r.deleted]
      BY <1>a, <2>1, RowFields DEF GrTypes
    <3>2. CASE \E c \in Contents : node' = [node EXCEPT ![id].content = c]
      <4>1. PICK c \in Contents : node' = [node EXCEPT ![id].content = c]
        BY <3>2
      <4>2. PICK n : n = [r EXCEPT !.content = c]
        OBVIOUS
      <4>3. IsRow(n)
        BY <1>a, <2>1, <3>r, <4>2, RowEdited
      <4>4. n.tree = r.tree /\ n.parent = r.parent /\ n.mode = r.mode /\ n.type = r.type /\ n.meta = r.meta
        BY <3>r, <4>2
      <4>5. DOMAIN node' = Committed /\ \A i \in Committed : node'[i] = IF i = id THEN n ELSE node[i]
        BY <3>r, <4>1, <4>2 DEF Committed
      <4>. QED
        BY <3>r, <4>3, <4>4, <4>5
    <3>3. CASE node' = [node EXCEPT ![id].meta = NoMeta]
      <4>2. PICK n : n = [r EXCEPT !.meta = NoMeta]
        OBVIOUS
      <4>3. IsRow(n)
        BY <1>a, <2>1, <3>r, <4>2, RowEdited, GraphAssumption
      <4>4. n.tree = r.tree /\ n.parent = r.parent /\ n.mode = r.mode /\ n.type = r.type /\ n.meta = NoMeta
        BY <3>r, <4>2
      <4>5. DOMAIN node' = Committed /\ \A i \in Committed : node'[i] = IF i = id THEN n ELSE node[i]
        BY <3>r, <3>3, <4>2 DEF Committed
      <4>. QED
        BY <3>r, <4>3, <4>4, <4>5
    <3>4. CASE node' = node
      BY <3>r, <3>4 DEF Committed
    <3>. QED
      BY <3>1, <3>2, <3>3, <3>4
  <2>8. \A v \in Writers : \/ tx'[v] = tx[v]
                           \/ /\ tx[v].pc = "update" /\ IsRequest(tx'[v])
                              /\ tx'[v].pc = "publish" \/ tx'[v].pc = "done"
    BY <1>b, <2>3, <2>6
  <2>. QED
    BY <1>b, <2>1, <2>5, <2>6, <2>7, <2>8, GrRewrites
<1>2. CASE ~Live(id)
  <2>1. nextId' \in nextId .. MaxNodes + 1
    BY <1>a DEF GrTypes, ApplyUpdate
  <2>2. tx' = [tx EXCEPT ![w] = Done] /\ tx[w].pc # "publish" /\ UNCHANGED <<trees, node, edges, announced>>
    BY <1>2, <1>b DEF ApplyUpdate
  <2>3. PICK q : q = Done /\ IsRequest(q) /\ q.pc = "done"
    BY IdleMade
  <2>. QED
    BY <2>1, <2>2, <2>3, GrMoves
<1>. QED
  BY <1>1, <1>2

LEMMA GrSoftDelete == ASSUME GrInv, NEW id \in DOMAIN node, SoftDelete(id) PROVE GrInv'
<1>a. GrTypes
  BY DEF GrInv
<1>1. id \in Committed /\ ~node[id].deleted /\ ~ShareLocked(id) /\ UNCHANGED <<trees, edges, nextId, tx, announced>>
  BY DEF SoftDelete, Live, Committed
<1>2. PICK r : /\ r = node[id] /\ IsRow(r)
               /\ r = [tree |-> r.tree, parent |-> r.parent, mode |-> r.mode, type |-> r.type, seq |-> r.seq,
                       content |-> r.content, meta |-> r.meta, deleted |-> r.deleted]
  BY <1>a, <1>1, RowFields DEF GrTypes
<1>3. PICK n : n = [r EXCEPT !.deleted = TRUE, !.content = 0, !.meta = NoMeta]
  OBVIOUS
<1>4. IsRow(n)
  BY <1>a, <1>1, <1>2, <1>3, RowEdited, GraphAssumption
<1>5. n.tree = r.tree /\ n.parent = r.parent /\ n.mode = r.mode /\ n.type = r.type /\ n.meta = NoMeta
  BY <1>2, <1>3
<1>6. DOMAIN node' = Committed /\ \A i \in Committed : node'[i] = IF i = id THEN n ELSE node[i]
  <2>1. node' = [node EXCEPT ![id].deleted = TRUE, ![id].content = 0, ![id].meta = NoMeta]
    BY DEF SoftDelete
  <2>. QED
    BY <1>2, <1>3, <2>1 DEF Committed
<1>7. tx' = [v \in Writers |-> tx'[v]] /\ \A v \in Writers : tx'[v] = tx[v]
  BY <1>a, <1>1 DEF GrTypes
<1>. QED
  BY <1>1, <1>2, <1>4, <1>5, <1>6, <1>7, GrRewrites

LEMMA GrPublish == ASSUME GrInv, NEW w \in Writers, Publish(w) PROVE GrInv'
<1>a. GrTypes /\ GrShape /\ GrRequests /\ GrApart /\ GrAnnounced
  BY DEF GrInv
<1>1. PICK q : q = Done /\ IsRequest(q) /\ q.pc = "done"
  BY IdleMade
<1>2. tx' = [tx EXCEPT ![w] = q] /\ UNCHANGED <<trees, node, edges, nextId>> /\ tx[w].pc = "publish"
  BY <1>1 DEF Publish
<1>b. /\ \A v \in Writers : v # w => tx'[v] = tx[v]
      /\ tx'[w] = q /\ tx' = [v \in Writers |-> tx'[v]]
  BY <1>a, <1>2 DEF GrTypes
<1>3. GrTypes'
  BY <1>a, <1>b, <1>1, <1>2, ZenonT(60) DEF GrTypes, IsRow, IsRequest, Committed
<1>4. GrShape'
  BY <1>a, <1>2 DEF GrShape, Committed, Incoming, WellShaped, Rooted
<1>5. GrRequests'
  <2>1. ASSUME NEW v \in Writers
        PROVE  /\ (tx[v].pc \in {"token", "insert", "commit"} => Chosen(tx[v]))'
               /\ (tx[v].pc = "token" => /\ Selected(tx[v]) /\ tx[v].parent = tx[v].srcs[1] /\ tx[v].op = "none"
                             /\ DOMAIN tx[v].hashes = DOMAIN tx[v].srcs /\ tx[v].req = None)'
               /\ (InTx(v) => Held(tx[v]))'
               /\ (tx[v].pc = "commit" => Written(tx[v]))'
               /\ (tx[v].pc = "update" => tx[v].op = "edit")'
    <3>1. CASE v = w
      BY <3>1, <1>b, <1>1 DEF InTx
    <3>2. CASE v # w
      <4>1. PICK x : x = tx[v] /\ x = tx'[v]
        BY <1>b, <3>2
      <4>2. /\ x.pc \in {"token", "insert", "commit"} => Chosen(x)
            /\ x.pc \in {"insert", "commit"} => Held(x)
            /\ x.pc = "commit" => Written(x)
        BY <4>1, <1>a DEF GrRequests, InTx
      <4>3. (tx[v].pc \in {"token", "insert", "commit"} => Chosen(tx[v]))'
        BY <1>2, <4>1, <4>2 DEF Chosen, Committed
      <4>4. (InTx(v) => Held(tx[v]))'
        BY <1>2, <4>1, <4>2 DEF Held, InTx, Selected, SourcesOK, SnapshotOK, LiveIn, Live, Hash
      <4>5. (tx[v].pc = "commit" => Written(tx[v]))'
        BY <1>2, <4>1, <4>2 DEF Written, Committed, Rooted
      <4>6. /\ (tx[v].pc = "token" => /\ Selected(tx[v]) /\ tx[v].parent = tx[v].srcs[1] /\ tx[v].op = "none"
                             /\ DOMAIN tx[v].hashes = DOMAIN tx[v].srcs /\ tx[v].req = None)'
            /\ (tx[v].pc = "update" => tx[v].op = "edit")'
        BY <1>a, <4>1 DEF GrRequests, Selected
      <4>. QED
        BY <4>3, <4>4, <4>5, <4>6
    <3>. QED
      BY <3>1, <3>2
  <2>. QED
    BY <2>1 DEF GrRequests
<1>6. GrApart'
  <2>0. \A v \in Writers : tx'[v].pc \in {"insert", "commit"} => tx'[v] = tx[v]
    BY <1>1, <1>b
  <2>3. \A t, r : Replayed(t, r)' => Replayed(t, r)
    BY <1>2 DEF Replayed, LiveIn, Live
  <2>4. OneReplyPerRequest'
    BY <1>a, <1>2 DEF GrApart, OneReplyPerRequest, Live, Committed
  <2>5. \A u, v \in Writers : tx'[u].pc = "commit" /\ tx'[v].pc = "commit" /\ tx'[u].id = tx'[v].id => u = v
    BY <1>a, <2>0 DEF GrApart
  <2>6. \A u, v \in Writers :
           tx'[u].pc \in {"insert", "commit"} /\ tx'[v].pc \in {"insert", "commit"}
           /\ tx'[u].req # None /\ tx'[u].req = tx'[v].req /\ tx'[u].tree = tx'[v].tree => u = v
    BY <1>a, <2>0 DEF GrApart, InTx
  <2>7. \A v \in Writers : tx'[v].pc \in {"insert", "commit"} => ~Replayed(tx'[v].tree, tx'[v].req)
    BY <1>a, <2>0 DEF GrApart, InTx
  <2>. QED
    BY <2>3, <2>4, <2>5, <2>6, <2>7 DEF GrApart, InTx
<1>7. GrAnnounced'
  <2>1. announced' = announced \cup (IF tx[w].op = "edit" THEN {} ELSE {tx[w].id})
    BY DEF Publish
  <2>. QED
    BY <1>a, <1>b, <1>2, <2>1 DEF GrAnnounced, Committed
<1>. QED
  BY <1>3, <1>4, <1>5, <1>6, <1>7 DEF GrInv

\* A row and its edges become visible together.
LEMMA GrAdds ==
  ASSUME GrInv, NEW id \in 1 .. MaxNodes, NEW n, NEW es, IsRow(n), ~n.deleted,
         id \notin Committed, id < nextId', nextId' \in nextId .. MaxNodes + 1,
         n.parent \in {None} \cup Committed, WellShaped(es, n), Rooted(es, n.tree, id),
         DOMAIN node' = Committed \cup {id}, \A i \in Committed : node'[i] = node[i], node'[id] = n,
         edges' = edges \cup es, announced' = announced,
         trees' \in [Trees -> {"absent", "live", "deleted"}], \A t \in Trees : trees[t] = "live" => trees'[t] = "live",
         n.meta.req = None \/ ~Replayed(n.tree, n.meta.req),
         tx' = [v \in Writers |-> tx'[v]],
         \A v \in Writers : \/ /\ tx'[v] = tx[v]
                               /\ tx[v].pc = "commit" => tx[v].id # id
                               /\ InTx(v) /\ tx[v].req # None => tx[v].tree # n.tree \/ tx[v].req # n.meta.req
                            \/ /\ tx[v].pc = "commit" /\ IsRequest(tx'[v]) /\ tx'[v].pc = "publish",
         n.parent # None => \E v \in Writers : tx'[v].pc = "publish" /\ tx'[v].op # "edit" /\ tx'[v].id = id
  PROVE  GrInv'
<1>a. GrTypes /\ GrShape /\ GrRequests /\ GrApart /\ GrAnnounced
  BY DEF GrInv
<1>b. Committed' = Committed \cup {id} /\ \A i \in Committed : i # id
  BY DEF Committed
<1>t. \A i \in Nat : i < nextId => i < nextId'
  BY <1>a, GraphAssumption DEF GrTypes
<1>1. GrTypes'
  <2>1. nextId' \in 1 .. MaxNodes + 1
    BY <1>a, GraphAssumption DEF GrTypes
  <2>2. \A i \in Committed : i \in Nat /\ IsRow(node[i]) /\ i \in 1 .. MaxNodes /\ i < nextId /\ node[i].parent \in {None} \cup Committed
    BY <1>a, GraphAssumption DEF GrTypes
  <2>3. \A i \in Committed' : IsRow(node'[i]) /\ i \in 1 .. MaxNodes /\ i < nextId' /\ node'[i].parent \in {None} \cup Committed'
    BY <1>b, <1>t, <2>2
  <2>4. \A v \in Writers : IsRequest(tx'[v])
    BY <1>a DEF GrTypes
  <2>5. \A e \in edges' : e.source \in Committed' /\ e.target \in Committed'
    BY <1>a, <1>b DEF GrTypes, Rooted
  <2>. QED
    BY <2>1, <2>3, <2>4, <2>5 DEF GrTypes, IsRow, IsRequest
<1>2. GrShape'
  <2>1. Incoming(id)' = es /\ \A i \in Committed : Incoming(i)' = Incoming(i)
    <3>1. \A e \in edges : e.target # id
      BY <1>a DEF GrTypes
    <3>2. \A e \in es : e.target = id
      BY DEF Rooted
    <3>. QED
      BY <1>b, <3>1, <3>2 DEF Incoming
  <2>2. \A fs, t, i : Rooted(fs, t, i) => Rooted(fs, t, i)'
    BY <1>b DEF Rooted
  <2>3. ASSUME NEW i \in Committed PROVE (WellShaped(Incoming(i), node[i]) /\ Rooted(Incoming(i), node[i].tree, i))'
    <3>1. WellShaped(Incoming(i), node[i]) /\ Rooted(Incoming(i), node[i].tree, i)
      BY <1>a DEF GrShape
    <3>2. PICK fs, m : fs = Incoming(i) /\ m = node[i] /\ node'[i] = m /\ Incoming(i)' = fs
      BY <2>1
    <3>3. WellShaped(fs, m) /\ Rooted(fs, m.tree, i)'
      BY <2>2, <3>1, <3>2
    <3>. QED
      BY <3>2, <3>3 DEF WellShaped, Rooted
  <2>4. (WellShaped(Incoming(id), node[id]) /\ Rooted(Incoming(id), node[id].tree, id))'
    <3>3. WellShaped(es, n) /\ Rooted(es, n.tree, id)'
      BY <2>2
    <3>. QED
      BY <2>1, <3>3 DEF WellShaped, Rooted
  <2>. QED
    BY <1>b, <2>3, <2>4 DEF GrShape
<1>3. GrRequests'
  <2>1. ASSUME NEW v \in Writers, tx'[v] = tx[v]
        PROVE  /\ (tx[v].pc \in {"token", "insert", "commit"} => Chosen(tx[v]))'
               /\ (InTx(v) => Held(tx[v]))'
               /\ (tx[v].pc = "commit" => Written(tx[v]))'
    <3>1. PICK x : x = tx[v] /\ x = tx'[v]
      BY <2>1
    <3>2. (tx[v].pc \in {"token", "insert", "commit"} => Chosen(tx[v]))'
      <4>1. x.pc \in {"token", "insert", "commit"} => Chosen(x)
        BY <3>1, <1>a DEF GrRequests
      <4>. QED
        BY <3>1, <4>1, <1>b DEF Chosen
    <3>3. (InTx(v) => Held(tx[v]))'
      <4>1. x.pc \in {"insert", "commit"} => Held(x) /\ Chosen(x)
        BY <3>1, <1>a DEF GrRequests, InTx
      <4>2. x.pc \in {"insert", "commit"} /\ x.op \in {"merge", "refer"}
               => SourcesOK(x.tree, x.srcs) /\ trees'[x.tree] = "live"
        BY <3>1, <4>1 DEF Held, Chosen
      <4>3. x.pc \in {"insert", "commit"} /\ x.op \in {"merge", "refer"}
               => SourcesOK(x.tree, x.srcs)' /\ (SnapshotOK(x.srcs, x.hashes) => SnapshotOK(x.srcs, x.hashes)')
        BY <4>2, <1>b DEF SourcesOK, SnapshotOK, LiveIn, Live, Hash, Committed
      <4>4. x.pc \in {"insert", "commit"} => Held(x)'
        BY <4>1, <4>2, <4>3 DEF Held, Selected
      <4>. QED
        BY <3>1, <4>4 DEF Held, InTx
    <3>4. (tx[v].pc = "commit" => Written(tx[v]))'
      <4>1. x.pc = "commit" => Written(x) /\ x.id # id
        BY <2>1, <3>1, <1>a DEF GrRequests
      <4>2. x.pc = "commit" => Written(x)'
        BY <4>1, <1>b, <1>t, GraphAssumption DEF Written, Rooted
      <4>. QED
        BY <3>1, <4>2 DEF Written
    <3>. QED
      BY <3>2, <3>3, <3>4
  <2>2. \A v \in Writers : tx'[v] # tx[v] => tx'[v].pc = "publish"
    OBVIOUS
  <2>3. ASSUME NEW v \in Writers
        PROVE  /\ (tx[v].pc \in {"token", "insert", "commit"} => Chosen(tx[v]))'
               /\ (tx[v].pc = "token" => /\ Selected(tx[v]) /\ tx[v].parent = tx[v].srcs[1] /\ tx[v].op = "none"
                             /\ DOMAIN tx[v].hashes = DOMAIN tx[v].srcs /\ tx[v].req = None)'
               /\ (InTx(v) => Held(tx[v]))'
               /\ (tx[v].pc = "commit" => Written(tx[v]))'
               /\ (tx[v].pc = "update" => tx[v].op = "edit")'
    <3>1. CASE tx'[v] = tx[v]
      <4>1. /\ (tx[v].pc = "token" => /\ Selected(tx[v]) /\ tx[v].parent = tx[v].srcs[1] /\ tx[v].op = "none"
                             /\ DOMAIN tx[v].hashes = DOMAIN tx[v].srcs /\ tx[v].req = None)'
            /\ (tx[v].pc = "update" => tx[v].op = "edit")'
        BY <3>1, <1>a DEF GrRequests, Selected
      <4>. QED
        BY <2>1, <3>1, <4>1
    <3>2. CASE tx'[v] # tx[v]
      BY <2>2, <3>2 DEF InTx
    <3>. QED
      BY <3>1, <3>2
  <2>. QED
    BY <2>3 DEF GrRequests
<1>4. GrApart'
  <2>0. \A v \in Writers : tx'[v].pc \in {"insert", "commit"} =>
            /\ tx'[v] = tx[v] /\ InTx(v)
            /\ tx[v].req # None => tx[v].tree # n.tree \/ tx[v].req # n.meta.req
    BY DEF InTx
  <2>1. /\ \A i \in Committed : (Live(i)' <=> Live(i))
        /\ \A t, i : i # id /\ LiveIn(t, i)' => i \in Committed /\ LiveIn(t, i)
    BY <1>b DEF Live, LiveIn, Committed
  <2>3. \A t, r : Replayed(t, r)' => Replayed(t, r) \/ (r # None /\ t = n.tree /\ r = n.meta.req)
    BY <1>b, <2>1 DEF Replayed, LiveIn, Committed
  <2>4. OneReplyPerRequest'
    <3>1. \A i \in Committed : Live(i) /\ node[i].tree = n.tree /\ node[i].meta.req = n.meta.req => n.meta.req = None
      BY DEF Replayed, LiveIn, Live, Committed
    <3>2. ASSUME NEW i \in Committed', NEW j \in Committed', Live(i)', Live(j)', node'[i].tree = node'[j].tree,
                 node'[i].meta.req = node'[j].meta.req, node'[i].meta.req # None
          PROVE  i = j
      <4>1. CASE i \in Committed /\ j \in Committed
        BY <1>a, <2>1, <3>2, <4>1 DEF GrApart, OneReplyPerRequest
      <4>2. CASE i = id /\ j \in Committed
        BY <2>1, <3>1, <3>2, <4>2
      <4>3. CASE i \in Committed /\ j = id
        BY <2>1, <3>1, <3>2, <4>3
      <4>. QED
        BY <1>b, <4>1, <4>2, <4>3
    <3>. QED
      BY <3>2 DEF OneReplyPerRequest
  <2>5. \A u, v \in Writers : tx'[u].pc = "commit" /\ tx'[v].pc = "commit" /\ tx'[u].id = tx'[v].id => u = v
    BY <1>a, <2>0 DEF GrApart
  <2>6. \A u, v \in Writers :
           tx'[u].pc \in {"insert", "commit"} /\ tx'[v].pc \in {"insert", "commit"}
           /\ tx'[u].req # None /\ tx'[u].req = tx'[v].req /\ tx'[u].tree = tx'[v].tree => u = v
    BY <1>a, <2>0 DEF GrApart, InTx
  <2>7. ASSUME NEW v \in Writers, tx'[v].pc \in {"insert", "commit"}
        PROVE  ~(Replayed(tx[v].tree, tx[v].req)')
    <3>1. ~Replayed(tx[v].tree, tx[v].req)
      BY <1>a, <2>0, <2>7 DEF GrApart
    <3>2. PICK t, r : t = tx[v].tree /\ r = tx[v].req /\ t = tx'[v].tree /\ r = tx'[v].req
      BY <2>0, <2>7
    <3>3. ~(Replayed(t, r)')
      BY <2>0, <2>3, <2>7, <3>1, <3>2
    <3>. QED
      BY <3>2, <3>3 DEF Replayed
  <2>. QED
    BY <2>4, <2>5, <2>6, <2>7 DEF GrApart, InTx
<1>5. GrAnnounced'
  <2>1. ASSUME NEW i \in Committed', i > 3, node'[i].parent # None
        PROVE  i \in announced \/ \E v \in Writers : tx'[v].pc = "publish" /\ tx'[v].op # "edit" /\ tx'[v].id = i
    <3>1. CASE i = id
      BY <2>1, <3>1
    <3>2. CASE i \in Committed
      BY <1>a, <2>1, <3>2 DEF GrAnnounced
    <3>. QED
      BY <1>b, <3>1, <3>2
  <2>. QED
    BY <2>1 DEF GrAnnounced
<1>. QED
  BY <1>1, <1>2, <1>3, <1>4, <1>5 DEF GrInv

\* No transaction that locked the tree row is under way.
LEMMA GrDeleteTree == ASSUME GrInv, NEW t \in Trees, DeleteTree(t) PROVE GrInv'
<1>a. GrTypes /\ GrShape /\ GrRequests /\ GrApart /\ GrAnnounced
  BY DEF GrInv
<1>1. UNCHANGED <<node, edges, nextId, tx, announced>> /\ trees' = [trees EXCEPT ![t] = "deleted"] /\ ~TreeShareLocked(t)
  BY DEF DeleteTree
<1>2. GrTypes'
  BY <1>a, <1>1 DEF GrTypes, IsRow, IsRequest, Committed
<1>3. GrShape'
  BY <1>a, <1>1 DEF GrShape, Committed, Incoming, WellShaped, Rooted
<1>4. GrRequests'
  <2>1. \A x : (Chosen(x)' <=> Chosen(x)) /\ (Written(x)' <=> Written(x))
    BY <1>1 DEF Chosen, Written, Committed, Rooted
  <2>2. ASSUME NEW v \in Writers, InTx(v) PROVE Held(tx[v])'
    <3>1. PICK x : x = tx[v] /\ x = tx'[v] /\ Held(x) /\ Chosen(x) /\ x.pc \in {"insert", "commit"}
      BY <1>a, <1>1, <2>2 DEF GrRequests, InTx
    <3>2. x.op \in {"merge", "refer"} => x.tree # t
      BY <1>1, <2>2, <3>1 DEF TreeShareLocked
    <3>3. x.op \in {"merge", "refer"} => trees'[x.tree] = "live"
      BY <1>a, <1>1, <3>1, <3>2 DEF Held, Chosen, GrTypes
    <3>4. Held(x)'
      BY <1>1, <3>1, <3>3 DEF Held, Selected, SourcesOK, SnapshotOK, LiveIn, Live, Hash
    <3>. QED
      BY <3>1, <3>4 DEF Held
  <2>. QED
    BY <1>a, <1>1, <2>1, <2>2 DEF GrRequests, InTx, Selected, Chosen, Written, Committed, Rooted
<1>5. GrApart'
  BY <1>a, <1>1 DEF GrApart, InTx, Replayed, LiveIn, Live, OneReplyPerRequest, Committed
<1>6. GrAnnounced'
  BY <1>a, <1>1 DEF GrAnnounced, Committed
<1>. QED
  BY <1>2, <1>3, <1>4, <1>5, <1>6 DEF GrInv

\* A transaction publishes its row, its edges and its request id in one step.
LEMMA GrCommit == ASSUME GrInv, NEW w \in Writers, Commit(w) PROVE GrInv'
<1>a. GrTypes /\ GrRequests /\ GrApart
  BY DEF GrInv
<1>1. PICK o : /\ o = tx[w] /\ IsRequest(o) /\ o.pc = "commit" /\ Held(o) /\ Chosen(o) /\ Written(o)
               /\ ~Replayed(o.tree, o.req)
  BY <1>a DEF GrTypes, GrRequests, Commit, InTx, GrApart
<1>2. PICK n : n = NewRow(o)
  OBVIOUS
<1>3. /\ n = [tree |-> o.tree, parent |-> o.parent,
              mode |-> IF o.op = "refer" THEN "multi_reference" ELSE "lineage",
              type |-> IF o.op = "merge" THEN "synthesis" ELSE "message", seq |-> o.seq, content |-> 1,
              meta |-> IF o.op = "refer" THEN [req |-> o.req, audit |-> o.hashes] ELSE NoMeta, deleted |-> FALSE]
  BY <1>2 DEF NewRow, Row
<1>4. IsRow(n)
  <2>1. o.req \in RequestIDs \cup {None} /\ o.hashes \in Seq(Contents) /\ o.tree \in Trees /\ o.parent \in Nat
    BY <1>1, RequestFields DEF Chosen
  <2>2. NoMeta \in Manifests /\ [req |-> o.req, audit |-> o.hashes] \in Manifests
    BY <2>1, Empties DEF NoMeta, Manifests
  <2>3. PICK mo, ty, me : mo = (IF o.op = "refer" THEN "multi_reference" ELSE "lineage")
                       /\ ty = (IF o.op = "merge" THEN "synthesis" ELSE "message")
                       /\ me = IF o.op = "refer" THEN [req |-> o.req, audit |-> o.hashes] ELSE NoMeta
    OBVIOUS
  <2>4. mo \in Modes /\ ty \in {"message", "synthesis"} /\ me \in Manifests /\ 1 \in Contents
    BY <2>2, <2>3, GraphAssumption DEF Modes
  <2>5. n = [tree |-> o.tree, parent |-> o.parent, mode |-> mo, type |-> ty, seq |-> o.seq, content |-> 1,
             meta |-> me, deleted |-> FALSE]
    BY <1>3, <2>3
  <2>. QED
    BY <2>1, <2>4, <2>5, RowMade
<1>5. n.tree = o.tree /\ n.parent = o.parent /\ ~n.deleted /\ (n.meta.req = o.req \/ n.meta.req = None)
  BY <1>3 DEF NoMeta
<1>6. PICK id, es : /\ id \in 1 .. MaxNodes /\ id = o.id /\ es = o.edges /\ id \notin Committed /\ id < nextId
                    /\ WellShaped(es, n) /\ Rooted(es, n.tree, id)
  BY <1>1, <1>2, <1>5 DEF Written
<1>. id \in 1 .. MaxNodes
  BY <1>6
<1>7. PICK q : q = [Idle EXCEPT !.pc = "publish", !.op = o.op, !.id = o.id]
  OBVIOUS
<1>8. q = [pc |-> "publish", op |-> o.op, tree |-> "none", parent |-> None, srcs |-> <<>>, etype |-> "reply",
           req |-> None, hashes |-> <<>>, seq |-> 0, id |-> id, edges |-> {}]
  BY <1>6, <1>7 DEF Idle
<1>9. IsRequest(q) /\ q.pc = "publish" /\ q.op # "edit" /\ q.id = id
  <2>1. o.op \in {"none", "create", "merge", "refer", "edit"} /\ o.op # "edit"
    BY <1>1, RequestFields DEF Held
  <2>. QED
    BY <1>8, <2>1, Empties DEF IsRequest, None
<1>10. tx' = [tx EXCEPT ![w] = q] /\ UNCHANGED <<trees, nextId, announced>> /\ edges' = edges \cup es
  BY <1>1, <1>6, <1>7, Zenon DEF Commit
<1>11. DOMAIN node' = Committed \cup {id} /\ (\A i \in Committed : node'[i] = node[i]) /\ node'[id] = n
  <2>1. node' = [i \in Committed \cup {id} |-> IF i = id THEN n ELSE node[i]]
    BY <1>1, <1>2, <1>6, Zenon DEF Commit, Committed
  <2>. QED
    BY <1>6, <2>1
<1>12. tx' = [v \in Writers |-> tx'[v]] /\ tx'[w] = q /\ \A v \in Writers : v # w => tx'[v] = tx[v]
  BY <1>a, <1>10 DEF GrTypes
<1>13. ASSUME NEW v \in Writers, v # w
       PROVE  /\ tx[v].pc = "commit" => tx[v].id # id
              /\ InTx(v) /\ tx[v].req # None => tx[v].tree # n.tree \/ tx[v].req # n.meta.req
  BY <1>a, <1>1, <1>5, <1>6, <1>13 DEF GrApart, InTx
<1>14. \A v \in Writers : \/ /\ tx'[v] = tx[v]
                             /\ tx[v].pc = "commit" => tx[v].id # id
                             /\ InTx(v) /\ tx[v].req # None => tx[v].tree # n.tree \/ tx[v].req # n.meta.req
                          \/ /\ tx[v].pc = "commit" /\ IsRequest(tx'[v]) /\ tx'[v].pc = "publish"
  BY <1>1, <1>9, <1>12, <1>13
<1>15. n.parent \in {None} \cup Committed /\ (n.meta.req = None \/ ~Replayed(n.tree, n.meta.req))
  BY <1>1, <1>5 DEF Chosen
<1>16. id < nextId' /\ nextId' \in nextId .. MaxNodes + 1 /\ trees' \in [Trees -> {"absent", "live", "deleted"}]
       /\ \A t \in Trees : trees[t] = "live" => trees'[t] = "live"
  BY <1>a, <1>6, <1>10 DEF GrTypes
<1>17. \E v \in Writers : tx'[v].pc = "publish" /\ tx'[v].op # "edit" /\ tx'[v].id = id
  BY <1>9, <1>12
<1>. QED
  BY <1>4, <1>5, <1>6, <1>10, <1>11, <1>12, <1>14, <1>15, <1>16, <1>17, GrAdds

LEMMA GrCreateTree == ASSUME GrInv, NEW t \in Trees, CreateTree(t) PROVE GrInv'
<1>a. GrTypes /\ GrRequests /\ GrApart
  BY DEF GrInv
<1>1. PICK n : n = Row(t, None, "lineage", "message", 1, 1, NoMeta)
  OBVIOUS
<1>2. n = [tree |-> t, parent |-> None, mode |-> "lineage", type |-> "message", seq |-> 1, content |-> 1,
           meta |-> NoMeta, deleted |-> FALSE]
  BY <1>1 DEF Row
<1>3. IsRow(n)
  <2>1. NoMeta \in Manifests /\ 1 \in Contents /\ None \in Nat
    BY GraphAssumption, Empties DEF NoMeta, Manifests
  <2>. QED
    BY <1>2, <2>1, RowMade DEF Modes
<1>4. PICK id \in 1 .. MaxNodes : id = nextId
  BY <1>a, GraphAssumption DEF GrTypes, CreateTree
<1>5. id \notin Committed /\ id < nextId' /\ nextId' \in nextId .. MaxNodes + 1
  BY <1>a, <1>4, GraphAssumption DEF GrTypes, CreateTree
<1>6. n.parent = None /\ n.meta.req = None /\ ~n.deleted /\ WellShaped({}, n) /\ Rooted({}, n.tree, id)
  BY <1>2 DEF WellShaped, Rooted, NoMeta
<1>7. DOMAIN node' = Committed \cup {id} /\ (\A i \in Committed : node'[i] = node[i]) /\ node'[id] = n
  <2>1. node' = [i \in Committed \cup {id} |-> IF i = id THEN n ELSE node[i]]
    BY <1>1, <1>4, Zenon DEF CreateTree, Committed
  <2>. QED
    BY <1>5, <2>1
<1>8. /\ edges' = edges \cup {} /\ announced' = announced /\ tx' = tx
      /\ trees' \in [Trees -> {"absent", "live", "deleted"}] /\ \A x \in Trees : trees[x] = "live" => trees'[x] = "live"
  BY <1>a DEF GrTypes, CreateTree
<1>9. tx' = [v \in Writers |-> tx'[v]] /\ \A v \in Writers : tx'[v] = tx[v]
  BY <1>a, <1>8 DEF GrTypes
<1>10. \A v \in Writers : tx[v].pc = "commit" => tx[v].id # id
  BY <1>a, <1>4 DEF GrRequests, Written, GrTypes
<1>11. \A v \in Writers : \/ /\ tx'[v] = tx[v]
                             /\ tx[v].pc = "commit" => tx[v].id # id
                             /\ InTx(v) /\ tx[v].req # None => tx[v].tree # n.tree \/ tx[v].req # n.meta.req
                          \/ /\ tx[v].pc = "commit" /\ IsRequest(tx'[v]) /\ tx'[v].pc = "publish"
  BY <1>6, <1>9, <1>10
<1>. QED
  BY <1>3, <1>5, <1>6, <1>7, <1>8, <1>9, <1>11, GrAdds

\* The conversation every instance starts from.
LEMMA GrStarts == Init => GrInv
<1>. SUFFICES ASSUME Init PROVE GrInv
  OBVIOUS
<1>1. PICK t \in Trees : /\ trees = [x \in Trees |-> IF x = t THEN "live" ELSE "absent"]
                         /\ node = [i \in 1 .. 3 |->
                               Row(t, IF i = 1 THEN None ELSE 1, "lineage", "message", i, 1, NoMeta)]
                         /\ edges = {Edge(t, 1, i, "reply", i - 1) : i \in {2, 3}}
  BY DEF Init
<1>2. nextId = 4 /\ announced = {} /\ tx = [w \in Writers |-> Idle] /\ \A w \in Writers : tx[w] = Idle
  BY DEF Init
<1>3. Committed = 1 .. 3 /\ \A i \in 1 .. 3 : /\ node[i].tree = t /\ node[i].parent = IF i = 1 THEN None ELSE 1
                                              /\ node[i].mode = "lineage" /\ node[i].type = "message"
                                              /\ node[i].meta = NoMeta /\ ~node[i].deleted
  BY <1>1 DEF Committed, Row
<1>4. \A i \in 1 .. 3 : IsRow(node[i])
  <2>1. NoMeta \in Manifests /\ 1 \in Contents /\ None \in Nat /\ 1 \in Nat
    BY GraphAssumption, Empties DEF NoMeta, Manifests
  <2>2. \A i \in 1 .. 3 : node[i] =
           [tree |-> t, parent |-> IF i = 1 THEN None ELSE 1, mode |-> "lineage", type |-> "message", seq |-> i,
            content |-> 1, meta |-> NoMeta, deleted |-> FALSE]
    BY <1>1 DEF Row
  <2>3. ASSUME NEW i \in 1 .. 3 PROVE IsRow(node[i])
    <3>1. PICK p \in Nat : p = IF i = 1 THEN None ELSE 1
      BY <2>1
    <3>2. node[i] = [tree |-> t, parent |-> p, mode |-> "lineage", type |-> "message", seq |-> i,
                     content |-> 1, meta |-> NoMeta, deleted |-> FALSE]
      BY <2>2, <3>1
    <3>. QED
      BY <2>1, <3>2, RowMade DEF Modes
  <2>. QED
    BY <2>3
<1>5. edges = {Edge(t, 1, 2, "reply", 1), Edge(t, 1, 3, "reply", 2)}
  BY <1>1
<1>6. \A e \in edges : e.tree = t /\ e.source = 1 /\ e.target \in {2, 3} /\ e.type = "reply" /\ e.seq = e.target - 1
  BY <1>5 DEF Edge
<1>7. GrTypes
  <2>1. trees \in [Trees -> {"absent", "live", "deleted"}]
    BY <1>1
  <2>2. nextId \in 1 .. MaxNodes + 1
    BY <1>2, GraphAssumption
  <2>3. \A i \in Committed : IsRow(node[i]) /\ i \in 1 .. MaxNodes /\ i < nextId /\ node[i].parent \in {None} \cup Committed
    BY <1>2, <1>3, <1>4, GraphAssumption
  <2>4. \A e \in edges : e.source \in Committed /\ e.target \in Committed
    BY <1>3, <1>6
  <2>. QED
    BY <1>2, <2>1, <2>2, <2>3, <2>4, IdleMade DEF GrTypes
<1>8. GrShape
  <2>1. \A i \in 1 .. 3 : Rooted(Incoming(i), t, i)
    BY <1>3, <1>6 DEF Rooted, Incoming
  <2>2. Incoming(1) = {}
    BY <1>6 DEF Incoming
  <2>3. ASSUME NEW i \in {2, 3} PROVE Pairs(Incoming(i)) = {<<"reply", 1>>} /\ \A e, f \in Incoming(i) : e = f
    <3>1. PICK e : e = Edge(t, 1, i, "reply", i - 1)
      OBVIOUS
    <3>2. Incoming(i) = {e}
      BY <1>5, <1>6, <3>1 DEF Incoming, Edge
    <3>3. e.type = "reply" /\ e.source = 1
      BY <3>1 DEF Edge
    <3>. QED
      BY <3>2, <3>3 DEF Pairs
  <2>4. ASSUME NEW i \in {2, 3} PROVE WellShaped(Incoming(i), node[i])
    <3>1. node[i].mode = "lineage" /\ node[i].type = "message" /\ node[i].parent = 1
      BY <1>3
    <3>. QED
      BY <2>3, <3>1 DEF WellShaped, None
  <2>5. WellShaped(Incoming(1), node[1])
    BY <1>3, <2>2 DEF WellShaped
  <2>. QED
    BY <1>3, <2>1, <2>4, <2>5 DEF GrShape
<1>9. GrRequests
  BY <1>2 DEF GrRequests, Idle, InTx
<1>10. GrApart
  BY <1>2, <1>3 DEF GrApart, Idle, InTx, OneReplyPerRequest, NoMeta
<1>11. GrAnnounced
  BY <1>3 DEF GrAnnounced
<1>. QED
  BY <1>7, <1>8, <1>9, <1>10, <1>11 DEF GrInv

LEMMA GrStutters == ASSUME GrInv, UNCHANGED vars PROVE GrInv'
<1>a. GrTypes /\ GrShape /\ GrRequests /\ GrApart /\ GrAnnounced
  BY DEF GrInv
<1>b. trees' = trees /\ node' = node /\ edges' = edges /\ nextId' = nextId /\ tx' = tx /\ announced' = announced
  BY DEF vars
<1>1. GrTypes'
  BY <1>a, <1>b DEF GrTypes, Committed, IsRow, IsRequest
<1>2. GrShape'
  BY <1>a, <1>b DEF GrShape, Committed, Incoming, WellShaped, Rooted
<1>3. GrRequests'
  <2>1. \A x : (Chosen(x)' <=> Chosen(x)) /\ (Written(x)' <=> Written(x)) /\ (Held(x)' <=> Held(x))
    BY <1>b DEF Chosen, Written, Committed, Rooted, Held, SourcesOK, SnapshotOK, LiveIn, Live,
       Hash, Selected
  <2>2. ASSUME NEW v \in Writers
        PROVE  /\ (tx[v].pc \in {"token", "insert", "commit"} => Chosen(tx[v]))'
               /\ (InTx(v) => Held(tx[v]))'
               /\ (tx[v].pc = "commit" => Written(tx[v]))'
    <3>1. PICK x : x = tx[v] /\ x = tx'[v]
      BY <1>b
    <3>2. /\ x.pc \in {"token", "insert", "commit"} => Chosen(x)'
          /\ x.pc \in {"insert", "commit"} => Held(x)'
          /\ x.pc = "commit" => Written(x)'
      BY <1>a, <2>1, <3>1 DEF GrRequests, InTx
    <3>3. (tx[v].pc \in {"token", "insert", "commit"} => Chosen(tx[v]))'
      BY <3>1, <3>2 DEF Chosen
    <3>4. (InTx(v) => Held(tx[v]))'
      BY <3>1, <3>2 DEF Held, InTx
    <3>5. (tx[v].pc = "commit" => Written(tx[v]))'
      BY <3>1, <3>2 DEF Written
    <3>. QED
      BY <3>3, <3>4, <3>5
  <2>3. ASSUME NEW v \in Writers
        PROVE  /\ (tx[v].pc = "token" => /\ Selected(tx[v]) /\ tx[v].parent = tx[v].srcs[1] /\ tx[v].op = "none"
                             /\ DOMAIN tx[v].hashes = DOMAIN tx[v].srcs /\ tx[v].req = None)'
               /\ (tx[v].pc = "update" => tx[v].op = "edit")'
    BY <1>a, <1>b DEF GrRequests, Selected
  <2>. QED
    BY <2>2, <2>3 DEF GrRequests
<1>4. GrApart'
  BY <1>a, <1>b DEF GrApart, InTx, Replayed, LiveIn, Live, OneReplyPerRequest, Committed
<1>5. GrAnnounced'
  BY <1>a, <1>b DEF GrAnnounced, Committed
<1>. QED
  BY <1>1, <1>2, <1>3, <1>4, <1>5 DEF GrInv

LEMMA GrStep == ASSUME GrInv, [Next]_vars PROVE GrInv'
<1>1. ASSUME NEW w \in Writers, WriterNext(w) PROVE GrInv'
  BY <1>1, GrCreate, GrFork, GrMerge, GrValidate, GrReply, GrInsert, GrCommit, GrGivesUp,
     GrPublish, GrUpdate, GrApplyUpdate
     DEF WriterNext
<1>2. ASSUME NEW id \in DOMAIN node, SoftDelete(id) PROVE GrInv'
  BY <1>2, GrSoftDelete
<1>3. ASSUME NEW t \in Trees, CreateTree(t) \/ DeleteTree(t) PROVE GrInv'
  BY <1>3, GrCreateTree, GrDeleteTree
<1>4. CASE UNCHANGED vars
  BY <1>4, GrStutters
<1>. QED
  BY <1>1, <1>2, <1>3, <1>4 DEF Next

\* Everything the steps of GraphStore preserve holds in every reachable state.
THEOREM GraphInvariant == Spec => []GrInv
<1>1. Init => GrInv
  BY GrStarts
<1>2. GrInv /\ [Next]_vars => GrInv'
  BY GrStep
<1>. QED
  BY <1>1, <1>2, PTL DEF Spec

-----------------------------------------------------------------------------
(* What the invariant says to a reader of the graph *)

\* An edge is a pair of the set of pairs, and the reverse.
LEMMA Members ==
  ASSUME NEW es
  PROVE  /\ \A e \in es : <<e.type, e.source>> \in Pairs(es)
         /\ \A x \in Pairs(es) : \E e \in es : x = <<e.type, e.source>>
  BY DEF Pairs

\* Edges of different sources are as many as their sources.
LEMMA AsManyAsSources ==
  ASSUME NEW es, \A e, f \in es : e.source = f.source => e = f,
         NEW S, IsFiniteSet(S), {e.source : e \in es} = S
  PROVE  IsFiniteSet(es) /\ Cardinality(es) = Cardinality(S)
<1>1. PICK h : h = [s \in S |-> CHOOSE e \in es : e.source = s]
  OBVIOUS
<1>2. \A s \in S : h[s] \in es /\ h[s].source = s
  BY <1>1
<1>3. \A e \in es : e.source \in S /\ h[e.source] = e
  BY <1>2
<1>4. h \in [S -> es]
  BY <1>1, <1>2
<1>5. h \in Bijection(S, es)
  <2>1. DOMAIN h = S
    BY <1>1
  <2>2. \A s, r \in S : h[s] = h[r] => s = r
    BY <1>2
  <2>3. h \in Injection(S, es)
    BY <1>4, <2>1, <2>2, Zenon DEF Injection, IsInjective
  <2>4. h \in Surjection(S, es)
    BY <1>3, <1>4, Zenon DEF Surjection
  <2>. QED
    BY <2>3, <2>4 DEF Bijection
<1>6. ExistsBijection(S, es)
  BY <1>5 DEF ExistsBijection
<1>. QED
  BY <1>6, FS_Bijection

\* The shapes of WellShaped are the rows of ValidateIncomingInvariant's matrix.
LEMMA GrIncoming == GrInv => IncomingInvariant
<1>. SUFFICES ASSUME GrInv, NEW id \in Committed, NEW es, es = Incoming(id), NEW n, n = node[id],
                     NEW own, own = {e \in es : e.type \in {"reply", "fork"}}
              PROVE  /\ \A e \in es : e.tree = n.tree /\ node[e.source].tree = n.tree /\ e.source < id
                     /\ n.mode = "lineage" => {e.source : e \in own} = {n.parent} \ {None}
                     /\ n.mode = "lineage" /\ n.type = "message" => es = own
                     /\ n.type = "synthesis" =>
                          /\ Cardinality(es \ own) \in MinSources .. MaxSources
                          /\ \A e \in es \ own : e.type = "synthesis" /\ e.source # n.parent
                     /\ n.mode = "multi_reference" =>
                          /\ \A e \in es : e.type = "reference"
                          /\ Cardinality({e.source : e \in es}) \in MinSources .. MaxSources
                          /\ n.parent \in {e.source : e \in es}
  BY DEF IncomingInvariant
<1>1. IsRow(n) /\ WellShaped(es, n) /\ Rooted(es, n.tree, id)
  BY DEF GrInv, GrTypes, GrShape
<1>2. n.mode \in Modes /\ n.type \in {"message", "synthesis"}
  BY <1>1, RowFields
<1>3. \A e \in es : e.tree = n.tree /\ node[e.source].tree = n.tree /\ e.source < id
  BY <1>1 DEF Rooted
<1>4. ASSUME n.mode = "lineage", n.type = "message"
      PROVE  es = own /\ {e.source : e \in own} = {n.parent} \ {None}
  <2>1. CASE n.parent = None /\ es = {}
    BY <2>1
  <2>2. CASE n.parent # None /\ \E ty \in {"reply", "fork"} : Pairs(es) = {<<ty, n.parent>>}
    <3>1. PICK ty \in {"reply", "fork"} : Pairs(es) = {<<ty, n.parent>>}
      BY <2>2
    <3>2. (\A e \in es : <<e.type, e.source>> = <<ty, n.parent>>) /\ \E e \in es : <<ty, n.parent>> = <<e.type, e.source>>
      BY <3>1, Members
    <3>3. (\A e \in es : e.type = ty /\ e.source = n.parent) /\ es # {}
      BY <3>2
    <3>. QED
      BY <2>2, <3>3
  <2>. QED
    BY <1>1, <1>4, <2>1, <2>2 DEF WellShaped
<1>5. ASSUME n.type = "synthesis"
      PROVE  /\ {e.source : e \in own} = {n.parent} \ {None}
             /\ Cardinality(es \ own) \in MinSources .. MaxSources
             /\ \A e \in es \ own : e.type = "synthesis" /\ e.source # n.parent
  <2>1. PICK S : /\ IsFiniteSet(S) /\ Cardinality(S) \in MinSources .. MaxSources /\ n.parent \notin S
                 /\ Pairs(es) = {<<"reply", n.parent>>} \cup {<<"synthesis", s>> : s \in S}
    BY <1>1, <1>5 DEF WellShaped
  <2>2. n.parent # None
    BY <1>1, <1>5 DEF WellShaped
  <2>3. ASSUME NEW e \in es
        PROVE  <<e.type, e.source>> = <<"reply", n.parent>> \/ \E s \in S : <<e.type, e.source>> = <<"synthesis", s>>
    <3>1. PICK x : x = <<e.type, e.source>> /\ x \in Pairs(es)
      BY Members
    <3>. QED
      BY <2>1, <3>1
  <2>4. \A e \in es : \/ e.type = "reply" /\ e.source = n.parent
                      \/ e.type = "synthesis" /\ e.source \in S
    BY <2>3
  <2>5. \E e \in es : <<"reply", n.parent>> = <<e.type, e.source>>
    BY <2>1, Members
  <2>6. \E e \in es : e.type = "reply" /\ e.source = n.parent
    BY <2>5
  <2>7. \A s \in S : \E e \in es : <<"synthesis", s>> = <<e.type, e.source>>
    <3>1. \A s \in S : <<"synthesis", s>> \in Pairs(es)
      BY <2>1
    <3>. QED
      BY <3>1, Members
  <2>8. \A s \in S : \E e \in es : e.type = "synthesis" /\ e.source = s
    BY <2>7
  <2>9. {e.source : e \in es \ own} = S
    BY <2>4, <2>8
  <2>10. \A e, f \in es \ own : e.source = f.source => e = f
    BY <1>1 DEF WellShaped
  <2>11. Cardinality(es \ own) = Cardinality(S)
    BY <2>1, <2>9, <2>10, AsManyAsSources
  <2>. QED
    BY <2>1, <2>2, <2>4, <2>6, <2>11
<1>6. ASSUME n.mode = "multi_reference"
      PROVE  /\ \A e \in es : e.type = "reference"
             /\ Cardinality({e.source : e \in es}) \in MinSources .. MaxSources
             /\ n.parent \in {e.source : e \in es}
  <2>1. PICK S : /\ IsFiniteSet(S) /\ Cardinality(S) \in MinSources .. MaxSources /\ n.parent \in S
                 /\ Pairs(es) = {<<"reference", s>> : s \in S}
    BY <1>1, <1>6 DEF WellShaped
  <2>2. ASSUME NEW e \in es PROVE \E s \in S : <<e.type, e.source>> = <<"reference", s>>
    <3>1. PICK x : x = <<e.type, e.source>> /\ x \in Pairs(es)
      BY Members
    <3>. QED
      BY <2>1, <3>1
  <2>3. \A s \in S : \E e \in es : <<"reference", s>> = <<e.type, e.source>>
    BY <2>1, Members
  <2>4. (\A e \in es : e.type = "reference" /\ e.source \in S) /\ \A s \in S : \E e \in es : e.source = s
    BY <2>2, <2>3
  <2>5. {e.source : e \in es} = S
    BY <2>4
  <2>. QED
    BY <2>1, <2>4, <2>5
<1>7. n.mode = "lineage" => {e.source : e \in own} = {n.parent} \ {None}
  BY <1>2, <1>4, <1>5
<1>. QED
  BY <1>3, <1>4, <1>5, <1>6, <1>7

\* The manifest of a reply has one hash for each of its sources, so the two
\* readers compare the same positions.
LEMMA GrDetectors == GrInv => DetectorsAgree
<1>. SUFFICES ASSUME GrInv, NEW id \in Committed, Readable(id)
              PROVE  checkReferenceContextInvalidated(id) # {} <=> LoadCompileSelection(id) = <<>>
  BY DEF DetectorsAgree
<1>1. PICK n, es : n = node[id] /\ es = Incoming(id) /\ IsRow(n) /\ WellShaped(es, n) /\ n.mode = "multi_reference" /\ n.meta # NoMeta
  BY DEF GrInv, GrTypes, GrShape, Readable
<1>2. PICK S : /\ IsFiniteSet(S) /\ Cardinality(S) \in MinSources .. MaxSources
               /\ Pairs(es) = {<<"reference", s>> : s \in S} /\ DOMAIN n.meta.audit = 1 .. Cardinality(S)
  BY <1>1 DEF WellShaped
<1>3. PICK k \in Nat : k = Cardinality(S) /\ k >= 2
  BY <1>2, GraphAssumption
<1>4. ASSUME NEW e \in es PROVE \E s \in S : <<e.type, e.source>> = <<"reference", s>>
  <2>1. PICK x : x = <<e.type, e.source>> /\ x \in Pairs(es)
    BY Members
  <2>. QED
    BY <1>2, <2>1
<1>5. \A s \in S : \E e \in es : <<"reference", s>> = <<e.type, e.source>>
  BY <1>2, Members
<1>6. (\A e \in es : e.type = "reference" /\ e.source \in S) /\ \A s \in S : \E e \in es : e.source = s
  BY <1>4, <1>5
<1>7. {e.source : e \in es} = S /\ {e \in Incoming(id) : e.type = "reference"} = es
  BY <1>1, <1>6
<1>8. Cardinality(es) = k
  <2>1. \A e, f \in es : e.source = f.source => e = f
    BY <1>1 DEF WellShaped
  <2>. QED
    BY <1>2, <1>3, <1>7, <2>1, AsManyAsSources
<1>9. PICK srcs : srcs = ReferenceSources(id)
  OBVIOUS
<1>10. DOMAIN srcs = 1 .. k
  BY <1>7, <1>8, <1>9 DEF ReferenceSources
<1>11. PICK a : a = n.meta.audit /\ a \in Seq(Contents) /\ DOMAIN a = 1 .. k
  BY <1>1, <1>2, <1>3, RowFields DEF Manifests
<1>12. checkReferenceContextInvalidated(id) # {}
         <=> \E i \in 1 .. k : node[srcs[i]].deleted \/ Hash(srcs[i]) # a[i]
  BY <1>1, <1>9, <1>10, <1>11 DEF checkReferenceContextInvalidated
<1>13. [i \in DOMAIN srcs |-> Hash(srcs[i])] # a <=> \E i \in 1 .. k : Hash(srcs[i]) # a[i]
  <2>1. a = [i \in 1 .. k |-> a[i]]
    BY <1>11
  <2>. QED
    BY <1>10, <2>1
<1>14. srcs # <<>>
  <2>1. 1 \in DOMAIN srcs
    BY <1>3, <1>10
  <2>. QED
    BY <2>1
<1>15. LoadCompileSelection(id) = <<>>
         <=> (\E i \in 1 .. k : node[srcs[i]].deleted) \/ [i \in DOMAIN srcs |-> Hash(srcs[i])] # a
  BY <1>1, <1>9, <1>10, <1>11, <1>14 DEF LoadCompileSelection
<1>. QED
  BY <1>12, <1>13, <1>15

LEMMA GrSound == GrInv => RequestsSound
<1>. SUFFICES ASSUME GrInv PROVE RequestsSound
  OBVIOUS
<1>a. GrTypes /\ GrShape /\ GrRequests /\ GrApart /\ GrAnnounced
  BY DEF GrInv
<1>1. TypeOK
  <2>1. \A id \in Committed : node[id].tree \in Trees /\ node[id].content \in Contents
    BY <1>a, RowFields DEF GrTypes
  <2>. QED
    BY <1>a, <2>1 DEF GrTypes, TypeOK
<1>2. SourcesCurrentAtCommit
  BY <1>a DEF GrRequests, SourcesCurrentAtCommit, InTx, Held
<1>3. NothingLeftUnannounced
  BY <1>a DEF GrAnnounced, NothingLeftUnannounced
<1>. QED
  BY <1>a, <1>1, <1>2, <1>3, GrDetectors DEF GrApart, RequestsSound

\* Whatever requests interleave, the incoming edges of every committed row agree
\* with its parent mode and its type: the matrix of ValidateIncomingInvariant
\* holds although only the multi-reference path evaluates it.
THEOREM IncomingAlways == Spec => []IncomingInvariant
  BY GraphInvariant, GrIncoming, PTL

\* Requests under way do not disturb each other: what the share locks protect is
\* unchanged at the commit, one request id has one live reply, the two staleness
\* checks agree and every committed node is announced once its request is over.
THEOREM RequestsSoundAlways == Spec => []RequestsSound
  BY GraphInvariant, GrSound, PTL

\* A step leaves deleted rows alone: the UPDATE of an edit finds none.
LEMMA GrErased == ASSUME GrInv, [Next]_vars, NEW id \in Committed, node[id].deleted PROVE node'[id] = node[id]
<1>a. GrTypes /\ GrRequests
  BY DEF GrInv
<1>1. ASSUME NEW w \in Writers, Commit(w) PROVE node'[id] = node[id]
  BY <1>a, <1>1 DEF Commit, GrRequests, Written, Committed
<1>2. ASSUME NEW w \in Writers, ApplyUpdate(w) PROVE node'[id] = node[id]
  <2>1. PICK i : i = tx[w].id
    OBVIOUS
  <2>2. CASE Live(i)
    <3>1. i # id /\ id \in DOMAIN node
      BY <2>2 DEF Live, Committed
    <3>2. \/ \E c \in Contents : node' = [node EXCEPT ![i].content = c]
          \/ node' = [node EXCEPT ![i].meta = NoMeta]
          \/ node' = node
      BY <1>2, <2>1, <2>2 DEF ApplyUpdate
    <3>. QED
      BY <3>1, <3>2
  <2>3. CASE ~Live(i)
    BY <1>2, <2>1, <2>3 DEF ApplyUpdate
  <2>. QED
    BY <2>2, <2>3
<1>3. ASSUME NEW i \in DOMAIN node, SoftDelete(i) PROVE node'[id] = node[id]
  <2>1. i # id /\ id \in DOMAIN node
    BY <1>3 DEF SoftDelete, Live, Committed
  <2>2. node' = [node EXCEPT ![i].deleted = TRUE, ![i].content = 0, ![i].meta = NoMeta]
    BY <1>3 DEF SoftDelete
  <2>. QED
    BY <2>1, <2>2
<1>4. ASSUME NEW t \in Trees, CreateTree(t) \/ DeleteTree(t) PROVE node'[id] = node[id]
  BY <1>a, <1>4 DEF CreateTree, DeleteTree, GrTypes, Committed
<1>5. ASSUME NEW w \in Writers, WriterNext(w) PROVE node'[id] = node[id]
  BY <1>1, <1>2, <1>5 DEF WriterNext, Create, Fork, CreateMerge, ValidateReferenceSelection,
     CreateMultiReferenceReply, Insert, Rollback, DropToken, Publish, Update
<1>. QED
  BY <1>3, <1>4, <1>5 DEF Next, vars

\* No edit that read a node before its deletion writes it afterwards.
THEOREM ErasedAlways == Spec => DeletedStaysErased
<1>1. GrInv /\ [Next]_vars => [\A id \in Committed : node[id].deleted => node'[id] = node[id]]_vars
  BY GrErased
<1>. QED
  BY <1>1, GraphInvariant, PTL DEF Spec, DeletedStaysErased

-----------------------------------------------------------------------------
(* The graph a reader sees moves as GraphSpec promises *)

\* The instance has its own Cardinality.
LEMMA SameCount == \A S : G!Cardinality(S) = Cardinality(S)
  BY DEF G!Cardinality, Cardinality

\* A well shaped row has a set of parents GraphSpec knows.
LEMMA ShapeAllowed ==
  ASSUME NEW es, NEW n, IsRow(n), WellShaped(es, n), \A e \in es : e.source \in Committed
  PROVE  G!WellFormedParents(Pairs(es))
<1>1. n.mode \in Modes /\ n.type \in {"message", "synthesis"}
  BY RowFields
<1>2. ASSUME n.mode = "lineage", n.type = "message" PROVE G!WellFormedParents(Pairs(es))
  <2>1. CASE es = {}
    BY <2>1 DEF Pairs, G!WellFormedParents
  <2>2. CASE \E ty \in {"reply", "fork"} : Pairs(es) = {<<ty, n.parent>>}
    <3>1. PICK ty \in {"reply", "fork"} : Pairs(es) = {<<ty, n.parent>>}
      BY <2>2
    <3>2. n.parent \in Committed
      <4>1. PICK e \in es : <<ty, n.parent>> = <<e.type, e.source>>
        BY <3>1, Members
      <4>. QED
        BY <4>1
    <3>3. n.parent \in G!Ids
      BY <3>2 DEF G!Ids, GTree
    <3>. QED
      BY <3>1, <3>3 DEF G!WellFormedParents
  <2>. QED
    BY <1>2, <2>1, <2>2 DEF WellShaped
<1>3. ASSUME n.type = "synthesis" PROVE G!WellFormedParents(Pairs(es))
  <2>1. PICK S, p : /\ IsFiniteSet(S) /\ Cardinality(S) \in MinSources .. MaxSources /\ p \notin S
                 /\ Pairs(es) = {<<"reply", p>>} \cup {<<"synthesis", s>> : s \in S}
    BY <1>3 DEF WellShaped
  <2>2. G!SourcesOf(Pairs(es), "reply") = {p} /\ G!SourcesOf(Pairs(es), "synthesis") = S
    <3>1. PICK X : X = Pairs(es) /\ X = {<<"reply", p>>} \cup {<<"synthesis", s>> : s \in S}
      BY <2>1
    <3>2. /\ \A x \in X : x[1] = "reply" => x[2] = p
          /\ \A x \in X : x[1] = "synthesis" => x[2] \in S
          /\ \E x \in X : x[1] = "reply" /\ x[2] = p
          /\ \A s \in S : \E x \in X : x[1] = "synthesis" /\ x[2] = s
      <4>1. <<"reply", p>> \in X /\ \A s \in S : <<"synthesis", s>> \in X
        BY <3>1
      <4>2. \A x \in X : (x[1] = "reply" /\ x[2] = p) \/ (x[1] = "synthesis" /\ x[2] \in S)
        BY <3>1
      <4>3. \A s \in S : \E x \in X : x[1] = "synthesis" /\ x[2] = s
        <5>1. ASSUME NEW s \in S PROVE \E x \in X : x[1] = "synthesis" /\ x[2] = s
          <6>1. PICK x \in X : x = <<"synthesis", s>>
            BY <4>1
          <6>. QED
            BY <6>1
        <5>. QED
          BY <5>1
      <4>4. PICK x \in X : x = <<"reply", p>>
        BY <4>1
      <4>. QED
        BY <4>2, <4>3, <4>4
    <3>3. G!SourcesOf(X, "reply") = {p}
      BY <3>2 DEF G!SourcesOf
    <3>4. G!SourcesOf(X, "synthesis") = S
      BY <3>2 DEF G!SourcesOf
    <3>. QED
      BY <3>1, <3>3, <3>4
  <2>3. Cardinality({p}) = 1
    BY FS_Singleton
  <2>4. \A e \in Pairs(es) : e[1] \in {"reply", "synthesis"}
    BY <2>1
  <2>. QED
    BY <2>1, <2>2, <2>3, <2>4, SameCount DEF G!WellFormedParents, G!SourceCount
<1>4. ASSUME n.mode = "multi_reference" PROVE G!WellFormedParents(Pairs(es))
  <2>1. PICK S : /\ IsFiniteSet(S) /\ Cardinality(S) \in MinSources .. MaxSources
                 /\ Pairs(es) = {<<"reference", s>> : s \in S}
    BY <1>4 DEF WellShaped
  <2>2. G!SourcesOf(Pairs(es), "reference") = S
    <3>1. PICK X : X = Pairs(es) /\ X = {<<"reference", s>> : s \in S}
      BY <2>1
    <3>2. /\ \A x \in X : x[1] = "reference" /\ x[2] \in S
          /\ \A s \in S : \E x \in X : x[2] = s
      <4>1. ASSUME NEW s \in S PROVE \E x \in X : x[2] = s
        <5>1. PICK x \in X : x = <<"reference", s>>
          BY <3>1
        <5>. QED
          BY <5>1
      <4>. QED
        BY <3>1, <4>1
    <3>3. G!SourcesOf(X, "reference") = S
      BY <3>2 DEF G!SourcesOf
    <3>. QED
      BY <3>1, <3>3
  <2>4. \A e \in Pairs(es) : e[1] = "reference"
    BY <2>1
  <2>. QED
    BY <2>1, <2>2, <2>4, SameCount DEF G!WellFormedParents, G!SourceCount
<1>. QED
  BY <1>1, <1>2, <1>3, <1>4 DEF Modes

\* The parents of every row have an allowed shape.
LEMMA GStarts == GrInv => G!GInit
<1>. SUFFICES ASSUME GrInv PROVE G!GInit
  OBVIOUS
<1>1. ASSUME NEW i \in Committed PROVE G!WellFormedParents(Pairs(Incoming(i)))
  <2>1. IsRow(node[i]) /\ WellShaped(Incoming(i), node[i]) /\ \A e \in Incoming(i) : e.source \in Committed
    BY DEF GrInv, GrTypes, GrShape, Rooted
  <2>. QED
    BY <2>1, ShapeAllowed
<1>2. \A i \in Committed : G!WellFormedParents({<<e.type, e.source>> : e \in Incoming(i)})
  BY <1>1 DEF Pairs
<1>. QED
  BY <1>2 DEF G!GInit, G!Ids, GTree, GParents, GContent

\* A row that appears with all its edges is an AddNode.
LEMMA GAdds ==
  ASSUME NEW id, NEW t, NEW ps, NEW c, id \notin Committed, G!WellFormedParents(ps),
         \A e \in ps : e[2] \in Committed /\ node[e[2]].tree = t,
         GTree' = [i \in Committed \cup {id} |-> IF i = id THEN t ELSE GTree[i]],
         GParents' = [i \in Committed \cup {id} |-> IF i = id THEN ps ELSE GParents[i]],
         GContent' = [i \in Committed \cup {id} |-> IF i = id THEN c ELSE GContent[i]]
  PROVE  G!GNext
<1>1. id \in DOMAIN GTree' /\ GTree'[id] = t /\ GParents'[id] = ps /\ GContent'[id] = c
  OBVIOUS
<1>2. DOMAIN GTree = Committed /\ \A e \in ps : GTree[e[2]] = t
  BY DEF GTree
<1>3. DOMAIN GParents = Committed /\ DOMAIN GContent = Committed
  BY DEF GParents, GContent
<1>4. PICK T, P, C : T = GTree' /\ P = GParents' /\ C = GContent'
  OBVIOUS
<1>5. G!AddNode(id, T[id], P[id], C[id])
  BY <1>1, <1>2, <1>4 DEF G!AddNode, G!Ids
<1>6. \E i \in DOMAIN GTree' : G!AddNode(i, GTree'[i], GParents'[i], GContent'[i])
  BY <1>1, <1>4, <1>5
<1>. QED
  BY <1>6 DEF G!GNext

LEMMA GNewRow ==
  ASSUME GrTypes, NEW id, NEW n, NEW es, IsRow(n), ~n.deleted, id \notin Committed,
         WellShaped(es, n), Rooted(es, n.tree, id),
         DOMAIN node' = Committed \cup {id}, \A i \in Committed : node'[i] = node[i], node'[id] = n,
         edges' = edges \cup es
  PROVE  G!GNext
<1>1. Committed' = Committed \cup {id}
  BY DEF Committed
<1>2. Incoming(id)' = es /\ \A i \in Committed : Incoming(i)' = Incoming(i)
  <2>1. \A e \in edges : e.target # id
    BY DEF GrTypes
  <2>2. \A e \in es : e.target = id
    BY DEF Rooted
  <2>. QED
    BY <2>1, <2>2 DEF Incoming
<1>3. PICK t, ps, c : t = n.tree /\ ps = Pairs(es) /\ c = n.content
  OBVIOUS
<1>4. G!WellFormedParents(ps)
  BY <1>3, ShapeAllowed DEF Rooted
<1>5. \A e \in ps : e[2] \in Committed /\ node[e[2]].tree = t
  BY <1>3 DEF Pairs, Rooted
<1>6. GTree' = [i \in Committed \cup {id} |-> IF i = id THEN t ELSE GTree[i]]
  BY <1>1, <1>3 DEF GTree
<1>7. GContent' = [i \in Committed \cup {id} |-> IF i = id THEN c ELSE GContent[i]]
  BY <1>1, <1>3 DEF GContent
<1>8. GParents' = [i \in Committed \cup {id} |-> IF i = id THEN ps ELSE GParents[i]]
  <2>1. GParents' = [i \in Committed' |-> {<<e.type, e.source>> : e \in Incoming(i)'}]
    BY DEF GParents
  <2>2. GParents' = [i \in Committed \cup {id} |-> {<<e.type, e.source>> : e \in Incoming(i)'}]
    BY <1>1, <2>1
  <2>3. {<<e.type, e.source>> : e \in Incoming(id)'} = ps
    BY <1>2, <1>3 DEF Pairs
  <2>4. \A i \in Committed : {<<e.type, e.source>> : e \in Incoming(i)'} = GParents[i]
    BY <1>2 DEF GParents
  <2>. QED
    BY <2>2, <2>3, <2>4
<1>. QED
  BY <1>4, <1>5, <1>6, <1>7, <1>8, GAdds

\* An edit of the content is an EditNode, one of the metadata is not seen, a
\* deletion is an EraseNode.
LEMMA GRewritten ==
  ASSUME GrTypes, NEW id \in Committed, ~node[id].deleted, NEW n, n.tree = node[id].tree,
         n.content \in Contents, n.deleted \in BOOLEAN,
         DOMAIN node' = Committed, \A i \in Committed : node'[i] = IF i = id THEN n ELSE node[i], edges' = edges
  PROVE  G!GNext
<1>1. Committed' = Committed
  BY DEF Committed
<1>2. GTree' = GTree
  BY <1>1 DEF GTree
<1>3. GParents' = GParents
  BY <1>1 DEF GParents, Incoming
<1>4. PICK c : c = IF n.deleted THEN -1 ELSE n.content
  OBVIOUS
<1>5. GContent' = [GContent EXCEPT ![id] = c] /\ GContent'[id] = c
  BY <1>1, <1>4 DEF GContent
<1>6. GContent[id] # -1
  <2>1. node[id].content \in Contents
    BY RowFields DEF GrTypes
  <2>. QED
    BY <2>1, GraphAssumption DEF GContent
<1>7. id \in G!Ids /\ G!Erased = -1
  BY DEF G!Ids, GTree, G!Erased
<1>8. CASE n.deleted
  <2>1. G!EraseNode(id)
    BY <1>2, <1>3, <1>4, <1>5, <1>6, <1>7, <1>8 DEF G!EraseNode
  <2>. QED
    BY <1>7, <2>1 DEF G!GNext
<1>9. CASE ~n.deleted
  <2>0. c # -1
    BY <1>4, <1>9, GraphAssumption
  <2>1. G!EditNode(id, c)
    BY <1>2, <1>3, <1>5, <1>6, <1>7, <2>0 DEF G!EditNode
  <2>2. \E i \in G!Ids : G!EditNode(i, GContent'[i])
    BY <1>5, <1>7, <2>1
  <2>. QED
    BY <2>2 DEF G!GNext
<1>. QED
  BY <1>8, <1>9

\* What only touches requests and trees is not seen by a reader of the graph.
LEMMA GUnseen ==
  ASSUME UNCHANGED <<node, edges>>
  PROVE  UNCHANGED G!gvars
  BY DEF G!gvars, GTree, GParents, GContent, Committed, Incoming

\* Every step of the services is a step of GraphSpec or a stutter.
LEMMA GSteps == ASSUME GrInv, [Next]_vars PROVE [G!GNext]_(G!gvars)
<1>a. GrTypes /\ GrRequests
  BY DEF GrInv
<1>1. ASSUME NEW w \in Writers, Commit(w) PROVE G!GNext
  <2>1. PICK o : o = tx[w] /\ IsRequest(o) /\ o.pc = "commit" /\ Held(o) /\ Chosen(o) /\ Written(o)
    BY <1>a, <1>1 DEF GrTypes, GrRequests, Commit, InTx
  <2>2. PICK n, id, es : n = NewRow(o) /\ id = o.id /\ es = o.edges
    OBVIOUS
  <2>3. n.tree = o.tree /\ n.deleted = FALSE /\ id \notin Committed /\ WellShaped(es, n) /\ Rooted(es, n.tree, id)
    BY <2>1, <2>2 DEF NewRow, Row, Written
  <2>4. DOMAIN node' = Committed \cup {id} /\ (\A i \in Committed : node'[i] = node[i]) /\ node'[id] = n
    <3>1. node' = [i \in Committed \cup {id} |-> IF i = id THEN n ELSE node[i]]
      BY <1>1, <2>1, <2>2, Zenon DEF Commit, Committed
    <3>. QED
      BY <2>3, <3>1
  <2>5. edges' = edges \cup es
    BY <1>1, <2>1, <2>2 DEF Commit
  <2>6. IsRow(n)
    <3>1. GrTypes'
      BY <1>1, GrCommit DEF GrInv
    <3>2. id \in Committed' /\ node'[id] = n
      BY <2>4 DEF Committed
    <3>3. \A i \in Committed' : IsRow(node'[i])
      BY <3>1 DEF GrTypes, IsRow
    <3>. QED
      BY <3>2, <3>3
  <2>. QED
    BY <1>a, <2>3, <2>4, <2>5, <2>6, GNewRow
<1>2. ASSUME NEW t \in Trees, CreateTree(t) PROVE G!GNext
  <2>1. PICK n, id : n = Row(t, None, "lineage", "message", 1, 1, NoMeta) /\ id = nextId
    OBVIOUS
  <2>2. n.tree = t /\ n.parent = None /\ n.mode = "lineage" /\ n.type = "message" /\ n.deleted = FALSE
    BY <2>1 DEF Row
  <2>3. id \notin Committed
    BY <1>a, <2>1 DEF GrTypes
  <2>4. DOMAIN node' = Committed \cup {id} /\ (\A i \in Committed : node'[i] = node[i]) /\ node'[id] = n
    <3>1. node' = [i \in Committed \cup {id} |-> IF i = id THEN n ELSE node[i]]
      BY <1>2, <2>1, Zenon DEF CreateTree, Committed
    <3>. QED
      BY <2>3, <3>1
  <2>5. edges' = edges \cup {}
    BY <1>2 DEF CreateTree
  <2>6. IsRow(n)
    <3>1. GrTypes'
      BY <1>2, GrCreateTree DEF GrInv
    <3>2. id \in Committed' /\ node'[id] = n
      BY <2>4 DEF Committed
    <3>3. \A i \in Committed' : IsRow(node'[i])
      BY <3>1 DEF GrTypes, IsRow
    <3>. QED
      BY <3>2, <3>3
  <2>7. WellShaped({}, n) /\ Rooted({}, n.tree, id)
    BY <2>2 DEF WellShaped, Rooted
  <2>. QED
    BY <1>a, <2>2, <2>3, <2>4, <2>5, <2>6, <2>7, GNewRow
<1>3. ASSUME NEW w \in Writers, ApplyUpdate(w) PROVE G!GNext \/ UNCHANGED <<node, edges>>
  <2>1. PICK id : id = tx[w].id
    OBVIOUS
  <2>2. edges' = edges
    BY <1>3 DEF ApplyUpdate
  <2>3. CASE ~Live(id)
    BY <1>3, <2>1, <2>2, <2>3 DEF ApplyUpdate
  <2>4. CASE Live(id) /\ node' # node
    <3>1. id \in Committed /\ ~node[id].deleted
      BY <2>4 DEF Live, Committed
    <3>2. PICK r : /\ r = node[id] /\ r.content \in Contents /\ r.deleted \in BOOLEAN
                   /\ r = [tree |-> r.tree, parent |-> r.parent, mode |-> r.mode, type |-> r.type, seq |-> r.seq,
                           content |-> r.content, meta |-> r.meta, deleted |-> r.deleted]
      BY <1>a, <3>1, RowFields DEF GrTypes
    <3>3. \/ \E c \in Contents : node' = [node EXCEPT ![id].content = c]
          \/ node' = [node EXCEPT ![id].meta = NoMeta]
      BY <1>3, <2>1, <2>4 DEF ApplyUpdate
    <3>4. PICK n : /\ n.tree = r.tree /\ n.content \in Contents /\ n.deleted \in BOOLEAN
                   /\ DOMAIN node' = Committed /\ \A i \in Committed : node'[i] = IF i = id THEN n ELSE node[i]
      <4>1. CASE \E c \in Contents : node' = [node EXCEPT ![id].content = c]
        <5>1. PICK c \in Contents : node' = [node EXCEPT ![id].content = c]
          BY <4>1
        <5>2. PICK n : n = [r EXCEPT !.content = c]
          OBVIOUS
        <5>3. n.tree = r.tree /\ n.content = c /\ n.deleted = r.deleted
          BY <3>2, <5>2
        <5>4. DOMAIN node' = Committed /\ \A i \in Committed : node'[i] = IF i = id THEN n ELSE node[i]
          BY <3>2, <5>1, <5>2 DEF Committed
        <5>. QED
          BY <3>2, <5>3, <5>4
      <4>2. CASE node' = [node EXCEPT ![id].meta = NoMeta]
        <5>2. PICK n : n = [r EXCEPT !.meta = NoMeta]
          OBVIOUS
        <5>3. n.tree = r.tree /\ n.content = r.content /\ n.deleted = r.deleted
          BY <3>2, <5>2
        <5>4. DOMAIN node' = Committed /\ \A i \in Committed : node'[i] = IF i = id THEN n ELSE node[i]
          BY <3>2, <4>2, <5>2 DEF Committed
        <5>. QED
          BY <3>2, <5>3, <5>4
      <4>. QED
        BY <3>3, <4>1, <4>2
    <3>. QED
      BY <1>a, <2>2, <3>1, <3>2, <3>4, GRewritten
  <2>. QED
    BY <2>2, <2>3, <2>4
<1>4. ASSUME NEW id \in DOMAIN node, SoftDelete(id) PROVE G!GNext
  <2>1. id \in Committed /\ ~node[id].deleted /\ edges' = edges
    BY <1>4 DEF SoftDelete, Live, Committed
  <2>2. PICK r : /\ r = node[id]
                 /\ r = [tree |-> r.tree, parent |-> r.parent, mode |-> r.mode, type |-> r.type, seq |-> r.seq,
                         content |-> r.content, meta |-> r.meta, deleted |-> r.deleted]
    BY <1>a, <2>1, RowFields DEF GrTypes
  <2>3. PICK n : n = [r EXCEPT !.deleted = TRUE, !.content = 0, !.meta = NoMeta]
    OBVIOUS
  <2>4. n.tree = r.tree /\ n.content = 0 /\ n.deleted = TRUE
    BY <2>2, <2>3
  <2>5. DOMAIN node' = Committed /\ \A i \in Committed : node'[i] = IF i = id THEN n ELSE node[i]
    <3>1. node' = [node EXCEPT ![id].deleted = TRUE, ![id].content = 0, ![id].meta = NoMeta]
      BY <1>4 DEF SoftDelete
    <3>. QED
      BY <2>2, <2>3, <3>1 DEF Committed
  <2>. QED
    <3>1. n.tree = node[id].tree /\ n.content \in Contents /\ n.deleted \in BOOLEAN
      BY <2>2, <2>4, GraphAssumption
    <3>. QED
      BY <1>a, <2>1, <2>5, <3>1, GRewritten
<1>5. ASSUME NEW t \in Trees, DeleteTree(t) PROVE UNCHANGED <<node, edges>>
  BY <1>5 DEF DeleteTree
<1>6. ASSUME NEW w \in Writers, WriterNext(w) PROVE G!GNext \/ UNCHANGED <<node, edges>>
  BY <1>1, <1>3, <1>6 DEF WriterNext, Create, Fork, CreateMerge, ValidateReferenceSelection,
     CreateMultiReferenceReply, Insert, Rollback, DropToken, Publish, Update
<1>7. ASSUME UNCHANGED vars PROVE UNCHANGED <<node, edges>>
  BY <1>7 DEF vars
<1>8. G!GNext \/ UNCHANGED <<node, edges>>
  BY <1>2, <1>4, <1>5, <1>6, <1>7 DEF Next
<1>. QED
  BY <1>8, GUnseen

\* The services keep GraphSpec's promise: a reader sees a node appear with all of
\* its parent edges in one step, and a deleted node stays empty.
THEOREM GraphRefines == Spec => Refinement
<1>1. Init => G!GInit
  BY GrStarts, GStarts
<1>2. GrInv /\ [Next]_vars => [G!GNext]_(G!gvars)
  BY GSteps
<1>. QED
  BY <1>1, <1>2, GraphInvariant, PTL DEF Spec, Refinement, G!GSpec
=============================================================================
