------------------------------ MODULE Sessions ------------------------------
(***************************************************************************)
(* Importing Hermes sessions (internal/session, cmd/canopyd/session_cmd.go)*)
(*                                                                         *)
(*   import     `canopyd session import` walks the sessions of a snapshot  *)
(*              oldest first.  Each becomes a tree whose nodes are its     *)
(*              messages, one transaction each; a file holds the watermark,*)
(*              the last session done.  A run may be killed or fail        *)
(*              between any two steps and is run again.  The backfill      *)
(*              rewrites the associations of trees already imported.       *)
(*   snapshots  which snapshot file a run reads, its private copy, and who *)
(*              removes it.                                                *)
(*                                                                         *)
(* Hermes itself and the job that writes the snapshots are external.  A    *)
(* dry run writes nothing and is left out.                                 *)
(***************************************************************************)
EXTENDS Naturals, Sequences, FiniteSets, SequencesExt

CONSTANTS
  Importers,     \* processes that import or backfill
  Stories,       \* session ids, ordered as strings are: a set of numbers
  StartedAt,     \* sessions.started_at
  ParentStory,   \* sessions.parent_session_id, or NoStory
  FirstAsk,      \* which message of a session is its first non-empty user message
  Unstorable,    \* sessions whose first user message PostgreSQL refuses (a NUL byte)
  NoStory,
  ImportOptions, \* records [limit, archived]
  Lengths,       \* bound: messages each session gets at most
  Archivable,    \* bound: sessions that may be archived
  MaxRuns,       \* bound: runs of the importer and the backfill
  Readers,       \* processes that open a snapshot
  MaxAge,        \* how old the newest snapshot may be, 0 for any age
  StaleCopy,     \* staleCopyMaxAge
  MaxHour,       \* bound: the wall clock
  MaxCopies,     \* bound: private copies made
  MaxFiles       \* bound: snapshot files kept

ASSUME StoriesAssumption == Stories \subseteq Nat \ {NoStory} /\ StartedAt \in [Stories -> Nat]

VARIABLES
  shot,       \* the newest snapshot of Hermes: sessions, messages of each, which are archived
  watermark,  \* session-import.json
  trees,      \* rows of trees with a session_id, and their nodes
  imports,    \* per importer: where its run stands
  runs,       \* runs begun
  overlap,    \* history: the most runs there were at a time
  passedOver, \* sessions some run left out as archived
  hour,       \* the wall clock
  snapshots,  \* files of the snapshot directory
  copies,     \* private copies in the temporary directory
  readers,    \* per reader: where it stands
  copied,     \* copies made so far
  abandoned   \* copies whose process died or exited without closing its reader

importVars == <<shot, watermark, trees, imports, runs, overlap, passedOver>>
snapshotVars == <<hour, snapshots, copies, readers, copied, abandoned>>
sessionVars == <<importVars, snapshotVars>>

-----------------------------------------------------------------------------
(* The import.                                                             *)

NotImporting == [at |-> "idle", from |-> [moment |-> 0], todo |-> <<>>, left |-> <<>>, tree |-> 0,
                 parent |-> 0]

ImportInit ==
  /\ shot = [moment |-> 0, said |-> [s \in Stories |-> 0], archived |-> {}]
  /\ watermark = [started |-> 0, id |-> NoStory]
  /\ trees = <<>>
  /\ imports = [p \in Importers |-> NotImporting]
  /\ runs = 0
  /\ overlap = 0
  /\ passedOver = {}

Present(h) == {s \in Stories : StartedAt[s] <= h.moment}

(* A later snapshot: Hermes has started the next sessions, added a message *)
(* to one, archived one or taken it back.  A run reads the snapshot that   *)
(* is the newest when it begins.                                           *)
HermesBegins ==
  /\ Present(shot) # Stories
  /\ shot' = [shot EXCEPT !.moment = @ + 1]
  /\ UNCHANGED <<watermark, trees, imports, runs, overlap, passedOver>>

HermesSays(s) ==
  /\ s \in Present(shot)
  /\ shot.said[s] < Lengths[s]
  /\ shot' = [shot EXCEPT !.said[s] = @ + 1]
  /\ UNCHANGED <<watermark, trees, imports, runs, overlap, passedOver>>

HermesArchives(s) ==
  /\ s \in Present(shot) \cap Archivable
  /\ shot' = [shot EXCEPT !.archived = IF s \in @ THEN @ \ {s} ELSE @ \union {s}]
  /\ UNCHANGED <<watermark, trees, imports, runs, overlap, passedOver>>

(* sortSessionOrder: by start, then id.                                    *)
StartsBefore(s, t) == StartedAt[s] < StartedAt[t] \/ (StartedAt[s] = StartedAt[t] /\ s < t)

AllSessions == SetToSortSeq(Stories, StartsBefore)
ListSessions(h) == SelectSeq(AllSessions, LAMBDA s : s \in Present(h))

SessionAfter(s, wm) ==
  \/ wm.id = NoStory
  \/ StartedAt[s] > wm.started
  \/ StartedAt[s] = wm.started /\ s > wm.id

(* MapSession: the first non-empty user message is the root, the others    *)
(* follow it in order; without one the title is the root.                  *)
ListMessages(h, s) == [i \in 1 .. h.said[s] |-> i]
RootOf(h, s) == IF FirstAsk[s] \in 1 .. h.said[s] THEN FirstAsk[s] ELSE 0
MapSession(h, s) == SelectSeq(ListMessages(h, s), LAMBDA m : m # RootOf(h, s))

(* ComputeAssociations: the parent is in the session's own row, children   *)
(* are looked up among the sessions listed.                                *)
Associations(h, s) ==
  [parent |-> ParentStory[s], children |-> {t \in Present(h) : ParentStory[t] = s}]

(* Mutant: nobody asks whether the session is there already. *)
ImportedBeforeUnasked(s) == FALSE

(* Any live tree, or node, with the session's id.                          *)
ImportedBefore(s) == \E i \in DOMAIN trees : trees[i].story = s

Begins(p, run) ==
  /\ imports[p].at = "idle"
  /\ runs < MaxRuns
  /\ runs' = runs + 1
  /\ LET busy == 1 + Cardinality({q \in Importers : imports[q].at # "idle"})
     IN  overlap' = IF busy > overlap THEN busy ELSE overlap
  /\ imports' = [imports EXCEPT ![p] = run]

(* Run: the watermark is read once; archived sessions are left out, the    *)
(* limit cuts what remains.                                                *)
ImportBegins(p, o) ==
  LET new     == SelectSeq(ListSessions(shot), LAMBDA s : SessionAfter(s, watermark))
      out     == {s \in Range(new) : s \in shot.archived /\ ~o.archived}
      pending == SelectSeq(new, LAMBDA s : s \notin out)
      cut     == IF o.limit > 0 /\ Len(pending) > o.limit THEN SubSeq(pending, 1, o.limit)
                                                          ELSE pending
  IN  /\ Begins(p, [NotImporting EXCEPT !.at = "next", !.from = shot, !.todo = cut])
      /\ passedOver' = passedOver \union out
      /\ UNCHANGED <<shot, watermark, trees>>

Story(p) == imports[p].todo[1]

(* A session that is there already is only noted in the watermark.         *)
ImportLooks(p) ==
  /\ imports[p].at = "next"
  /\ imports[p].todo # <<>>
  /\ imports' = [imports EXCEPT
       ![p].at = IF ImportedBefore(Story(p)) THEN "save" ELSE "tree",
       ![p].left = MapSession(imports[p].from, Story(p))]
  /\ UNCHANGED <<shot, watermark, trees, runs, overlap, passedOver>>

(* CreateTree commits the tree with its root, or refuses both.             *)
ImportsTree(p) ==
  LET s == Story(p)
      h == imports[p].from
  IN  /\ imports[p].at = "tree"
      /\ s \in Unstorable => RootOf(h, s) = 0
      /\ trees' = Append(trees, [story |-> s, root |-> RootOf(h, s), nodes |-> <<>>,
                                 of |-> h.said[s], kin |-> Associations(h, s)])
      /\ imports' = [imports EXCEPT ![p].at = "nodes", ![p].tree = Len(trees) + 1, ![p].parent = 0]
      /\ UNCHANGED <<shot, watermark, runs, overlap, passedOver>>

(* The next message becomes a reply to the one before it.                  *)
ImportsNode(p) ==
  LET i == imports[p].tree
  IN  /\ imports[p].at = "nodes"
      /\ imports[p].left # <<>>
      /\ trees' = [trees EXCEPT ![i].nodes =
           Append(@, [message |-> imports[p].left[1], under |-> imports[p].parent])]
      /\ imports' = [imports EXCEPT ![p].left = Tail(@), ![p].parent = Len(trees[i].nodes) + 1]
      /\ UNCHANGED <<shot, watermark, runs, overlap, passedOver>>

ImportedSession(p) ==
  /\ imports[p].at = "nodes"
  /\ imports[p].left = <<>>
  /\ imports' = [imports EXCEPT ![p].at = "save"]
  /\ UNCHANGED <<shot, watermark, trees, runs, overlap, passedOver>>

(* FileWatermarkStore.Save, by temporary file and rename.                  *)
ImportSaves(p) ==
  /\ imports[p].at = "save"
  /\ watermark' = [started |-> StartedAt[Story(p)], id |-> Story(p)]
  /\ imports' = [imports EXCEPT ![p].at = "next", ![p].todo = Tail(@)]
  /\ UNCHANGED <<shot, trees, runs, overlap, passedOver>>

(* The run is over, fails at the step it is about to take, or is killed.   *)
ImportEnds(p) ==
  /\ imports[p].at # "idle"
  /\ imports' = [imports EXCEPT ![p] = NotImporting]
  /\ UNCHANGED <<shot, watermark, trees, runs, overlap, passedOver>>

(* The backfill resolves the snapshot's sessions to the trees there are,   *)
(* of several trees of a session to any one, and replaces their metadata.  *)
BackfillBegins(p) ==
  /\ Begins(p, [NotImporting EXCEPT !.at = "backfill", !.from = shot, !.tree = Len(trees),
                   !.todo = SelectSeq(ListSessions(shot), ImportedBefore)])
  /\ UNCHANGED <<shot, watermark, trees, passedOver>>

BackfillUpdates(p) ==
  /\ imports[p].at = "backfill"
  /\ imports[p].todo # <<>>
  /\ \E i \in 1 .. imports[p].tree :
       /\ trees[i].story = Story(p)
       /\ trees' = [trees EXCEPT ![i].kin = Associations(imports[p].from, Story(p))]
  /\ imports' = [imports EXCEPT ![p].todo = Tail(@)]
  /\ UNCHANGED <<shot, watermark, runs, overlap, passedOver>>

ImportStep(p) ==
  \/ \E o \in ImportOptions : ImportBegins(p, o)
  \/ ImportLooks(p) \/ ImportsTree(p) \/ ImportsNode(p) \/ ImportedSession(p) \/ ImportSaves(p)
  \/ ImportEnds(p) \/ BackfillBegins(p) \/ BackfillUpdates(p)

ImportNext ==
  \/ HermesBegins
  \/ \E s \in Stories : HermesSays(s) \/ HermesArchives(s)
  \/ \E p \in Importers : ImportStep(p)

-----------------------------------------------------------------------------
(* Snapshot files and private copies.                                      *)

NotReading == [at |-> "idle", file |-> 0, asof |-> 0, copy |-> 0, made |-> 0]

SnapshotInit ==
  /\ hour = 0
  /\ snapshots \in {{}} \union {{[stamp |-> 0, packed |-> z, whole |-> TRUE]} : z \in BOOLEAN}
  /\ copies = {}
  /\ readers = [p \in Readers |-> NotReading]
  /\ copied = 0
  /\ abandoned = {}

(* The backup job writes a file named after the time, completes it, and    *)
(* removes old ones.                                                       *)
HourPasses ==
  /\ hour < MaxHour
  /\ hour' = hour + 1
  /\ \/ snapshots' = snapshots
     \/ /\ Cardinality(snapshots) < MaxFiles
        /\ \E z \in BOOLEAN :
             snapshots' = snapshots \union {[stamp |-> hour + 1, packed |-> z, whole |-> FALSE]}
  /\ UNCHANGED <<copies, readers, copied, abandoned>>

BackupEnds(f) ==
  /\ snapshots' = (snapshots \ {f}) \union {[f EXCEPT !.whole = TRUE]}
  /\ ~f.whole
  /\ UNCHANGED <<hour, copies, readers, copied, abandoned>>

BackupPrunes(f) ==
  /\ f.stamp < hour
  /\ snapshots' = snapshots \ {f}
  /\ UNCHANGED <<hour, copies, readers, copied, abandoned>>

Goes(p, l) == readers' = [readers EXCEPT ![p].at = l]
GivesUp(p) == readers' = [readers EXCEPT ![p] = NotReading]

FileOf(p) == {f \in snapshots : f.stamp = readers[p].file}
CopyOf(p) == {c \in copies : c.id = readers[p].copy}

(* ResolveSnapshot: the newest file, and none when that one is too old.    *)
ResolveSnapshot(p) ==
  /\ readers[p].at = "idle"
  /\ \E f \in snapshots :
       /\ \A g \in snapshots : g.stamp <= f.stamp
       /\ MaxAge = 0 \/ hour - f.stamp <= MaxAge
       /\ readers' = [readers EXCEPT ![p] =
                        [NotReading EXCEPT !.at = "resolved", !.file = f.stamp, !.asof = hour]]
  /\ UNCHANGED <<hour, snapshots, copies, copied, abandoned>>

(* Materialize: a plain file is read where it lies.  For a compressed one  *)
(* the old copies of anybody are swept, then a private directory is made.  *)
MaterializePlain(p) ==
  /\ readers[p].at = "resolved"
  /\ \A f \in FileOf(p) : ~f.packed
  /\ Goes(p, "ready")
  /\ UNCHANGED <<hour, snapshots, copies, copied, abandoned>>

SweepStaleCopies == {c \in copies : hour - c.made < StaleCopy}

Materialize(p) ==
  /\ readers[p].at = "resolved"
  /\ \E f \in FileOf(p) : f.packed
  /\ copied < MaxCopies
  /\ copied' = copied + 1
  /\ copies' = SweepStaleCopies \union {[id |-> copied + 1, made |-> hour, whole |-> FALSE]}
  /\ readers' = [readers EXCEPT ![p].at = "copying", ![p].copy = copied + 1, ![p].made = hour]
  /\ UNCHANGED <<hour, snapshots, abandoned>>

(* decompress: a file that is torn or gone ends it and the directory is    *)
(* removed; so does a copy that was swept away meanwhile.                  *)
Decompress(p) ==
  /\ readers[p].at = "copying"
  /\ \/ /\ \E f \in FileOf(p) : f.whole
        /\ CopyOf(p) # {}
        /\ copies' = {IF c.id = readers[p].copy THEN [c EXCEPT !.whole = TRUE] ELSE c : c \in copies}
        /\ Goes(p, "ready")
     \/ copies' = copies \ CopyOf(p) /\ GivesUp(p)
  /\ UNCHANGED <<hour, snapshots, copied, abandoned>>

(* openAttachedReader: a copy is there or was swept; a plain file may be   *)
(* gone, and one still being written may pass for a database.  On failure  *)
(* the source is closed.                                                   *)
AttachReader(p) ==
  /\ readers[p].at = "ready"
  /\ \/ /\ IF readers[p].copy = 0 THEN FileOf(p) # {} ELSE CopyOf(p) # {}
        /\ Goes(p, "open")
        /\ UNCHANGED copies
     \/ copies' = copies \ CopyOf(p) /\ GivesUp(p)
  /\ UNCHANGED <<hour, snapshots, copied, abandoned>>

(* Reader.Close, deferred by the commands: the handle, then the copy.      *)
CloseReader(p) ==
  /\ readers[p].at = "open"
  /\ copies' = copies \ CopyOf(p)
  /\ GivesUp(p)
  /\ UNCHANGED <<hour, snapshots, copied, abandoned>>

(* A command that fails exits at once, so its deferred Close never runs;   *)
(* one that is killed leaves its copy just so.                             *)
ReaderExits(p) ==
  /\ readers[p].at # "idle"
  /\ abandoned' = abandoned \union {c.id : c \in CopyOf(p)}
  /\ GivesUp(p)
  /\ UNCHANGED <<hour, snapshots, copies, copied>>

SnapshotNext ==
  \/ HourPasses
  \/ \E f \in snapshots : BackupEnds(f) \/ BackupPrunes(f)
  \/ \E p \in Readers :
       \/ ResolveSnapshot(p) \/ MaterializePlain(p) \/ Materialize(p) \/ Decompress(p)
       \/ AttachReader(p) \/ CloseReader(p) \/ ReaderExits(p)

-----------------------------------------------------------------------------
(* Properties.                                                             *)

SessionsTypeOK ==
  /\ shot.said \in [Stories -> Nat]
  /\ \A i \in DOMAIN trees : trees[i].story \in Stories /\ trees[i].of <= Lengths[trees[i].story]
  /\ \A p \in Importers : imports[p].at \in {"idle", "next", "tree", "nodes", "save", "backfill"}
  /\ \A p \in Readers : readers[p].at \in {"idle", "resolved", "copying", "ready", "open"}

(* A session gets a second tree only from runs that overlap: one run after *)
(* the other there is at most one, wherever they were cut off and begun    *)
(* again (Run, ImportedBefore).                                            *)
NoSecondTree ==
  \A s \in Stories : Cardinality({i \in DOMAIN trees : trees[i].story = s}) <= overlap

(* The watermark never passes a session by: each one up to it has a tree   *)
(* or was archived when a run left it out, whatever runs overlap, fail or  *)
(* are limited (Run, sessionAfter, ListSessions's order).                  *)
NonePassedBy ==
  \A s \in Stories :
    watermark.id # NoStory /\ ~SessionAfter(s, watermark) =>
      s \in passedOver \/ \E i \in DOMAIN trees : trees[i].story = s

(* A tree holds its session's messages from the first on, each once, each  *)
(* a reply to the one before it, however its import was cut off.           *)
MessagesChained ==
  \A i \in DOMAIN trees :
    LET t == trees[i]
    IN  \A k \in DOMAIN t.nodes :
          /\ t.nodes[k].under = k - 1
          /\ t.nodes[k].message = IF t.root # 0 /\ k >= t.root THEN k + 1 ELSE k

(* A private copy is read only when it was decompressed to its end; it     *)
(* comes from the snapshot that was the newest when it was resolved.       *)
CopiesWhole ==
  \A p \in Readers :
    /\ readers[p].at = "open" => \A c \in CopyOf(p) : c.whole
    /\ readers[p].at # "idle" =>
         \A f \in snapshots : f.stamp > readers[p].file => f.stamp > readers[p].asof

(* Copies are left only by commands that died; a later one sweeps them     *)
(* once they are old, and never the copy of a command that is not.         *)
CopiesSwept ==
  /\ \A c \in copies : c.id \in abandoned \/ \E p \in Readers : readers[p].copy = c.id
  /\ \A p \in Readers :
       readers[p].copy # 0 =>
         /\ CopyOf(p) = {} => hour - readers[p].made >= StaleCopy
         /\ \A c \in copies : c.made + StaleCopy > readers[p].made
=============================================================================
