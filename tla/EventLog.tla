------------------------------ MODULE EventLog ------------------------------
(***************************************************************************)
(* The replay log of the SSE hub, for one tree: a sequence counter under   *)
(* one mutex and a bounded ring under another (internal/sse/               *)
(* sse_event_log.go).  Trees share neither, so one tree is the general     *)
(* case.                                                                   *)
(*                                                                         *)
(* Append is three steps, because the code takes the two mutexes one after *)
(* the other and reads the clock in between:                               *)
(*   NextSeq    the number is drawn (countersMu);                          *)
(*   Stamp      the event is built, with its timestamp (no lock);          *)
(*   RingAppend the event enters the ring, evicting the oldest entry when  *)
(*              the ring is full (the ring's mutex).                       *)
(*                                                                         *)
(* A ring entry carries pos, its place in insertion order: entries[0] of   *)
(* the code is the retained entry with the least pos.  Clock values are    *)
(* coarse ticks.  evicted and pruned are history: which numbers the ring   *)
(* gave up, and why.                                                       *)
(***************************************************************************)
EXTENDS Integers, FiniteSets

CONSTANTS
  Producers,  \* goroutines that may be inside Append at the same time
  Cap,        \* ring capacity (DefaultLogSize)
  Retention,  \* how long an entry is kept, in ticks
  MaxSeq,     \* bound: numbers drawn
  MaxNow      \* bound: clock ticks

ASSUME CapAssumption == Cap \in Nat \ {0}
ASSUME RetentionAssumption == Retention \in Nat
ASSUME BoundAssumption == MaxSeq \in Nat /\ MaxNow \in Nat
ASSUME ProducersAssumption == IsFiniteSet(Producers)

VARIABLES
  counter,   \* *counters[treeID]
  ring,      \* shards[treeID].entries, as a set of entries with positions
  appends,   \* number of ring insertions so far: the next position
  call,      \* per producer: where it is inside Append, and its event
  now,       \* time.Now()
  evicted,   \* history: numbers dropped by a full ring
  pruned     \* history: numbers dropped by the retention sweep

logVars == <<counter, ring, appends, call, now, evicted, pruned>>

Idle == [at |-> "idle", seq |-> 0, ts |-> 0]

Entry == [seq : Nat, ts : Nat, pos : Nat]

Call == [at : {"idle", "numbered", "stamped"}, seq : Nat, ts : Nat]

LogInit ==
  /\ counter = 0
  /\ ring = {}
  /\ appends = 0
  /\ call = [p \in Producers |-> Idle]
  /\ now = 0
  /\ evicted = {}
  /\ pruned = {}

-----------------------------------------------------------------------------

\* Mutant: the counter is read and written back in two critical sections, so
\* an increment can be lost.
NextSeqLostUpdate(p) ==
  /\ call[p].at = "idle"
  /\ counter < MaxSeq
  /\ counter' \in {counter, counter + 1}
  /\ call' = [call EXCEPT ![p] = [at |-> "numbered", seq |-> counter + 1, ts |-> 0]]
  /\ UNCHANGED <<ring, appends, now, evicted, pruned>>

\* nextSeq: the increment is atomic under countersMu; numbers start at 1.
NextSeq(p) ==
  /\ call[p].at = "idle"
  /\ counter < MaxSeq
  /\ counter' = counter + 1
  /\ call' = [call EXCEPT ![p] = [at |-> "numbered", seq |-> counter + 1, ts |-> 0]]
  /\ UNCHANGED <<ring, appends, now, evicted, pruned>>

\* The SSEEvent is built with time.Now(), holding no lock.
Stamp(p) ==
  /\ call[p].at = "numbered"
  /\ call' = [call EXCEPT ![p].at = "stamped", ![p].ts = now]
  /\ UNCHANGED <<counter, ring, appends, now, evicted, pruned>>

\* entries[0]: the entry inserted first among the retained ones.
Oldest(e) == \A f \in ring : e.pos =< f.pos

NewEntry(p) == [seq |-> call[p].seq, ts |-> call[p].ts, pos |-> appends]

Store(p, kept) ==
  /\ call[p].at = "stamped"
  /\ ring' = kept \cup {NewEntry(p)}
  /\ appends' = appends + 1
  /\ call' = [call EXCEPT ![p] = Idle]
  /\ UNCHANGED <<counter, now, pruned>>

\* Mutant: the capacity test is off by one.
RingInsertOverfull(p) ==
  Cardinality(ring) =< Cap /\ Store(p, ring) /\ UNCHANGED evicted

\* ringBuf.append below capacity: the event goes to the tail.
RingInsert(p) ==
  Cardinality(ring) < Cap /\ Store(p, ring) /\ UNCHANGED evicted

\* Mutant: a full ring gives up the entry inserted last.
RingEvictNewest(p) ==
  /\ Cardinality(ring) >= Cap
  /\ \E e \in ring : /\ \A f \in ring : e.pos >= f.pos
                     /\ Store(p, ring \ {e})
                     /\ evicted' = evicted \cup {e.seq}

\* ringBuf.append at capacity: entries[0] goes, the event enters at the tail.
RingEvict(p) ==
  /\ Cardinality(ring) >= Cap
  /\ \E e \in ring : /\ Oldest(e)
                     /\ Store(p, ring \ {e})
                     /\ evicted' = evicted \cup {e.seq}

RingAppend(p) == RingInsert(p) \/ RingEvict(p)

\* Timestamp.Before(now - retention).
Stale(e) == e.ts < now - Retention

Sweep(gone) ==
  /\ gone # {}
  /\ ring' = ring \ gone
  /\ pruned' = pruned \cup {e.seq : e \in gone}
  /\ UNCHANGED <<counter, appends, call, now, evicted>>

\* Mutant: the comparison with the cutoff is reversed.
PruneFresh == Sweep({e \in ring : ~Stale(e)})

\* ringBuf.prune, called by pruneLoop and by Prune: the stale entries go, the
\* others keep their order.  A sweep that removes nothing changes nothing.
Prune == Sweep({e \in ring : Stale(e)})

\* Time passes.
Tick ==
  /\ now < MaxNow
  /\ now' = now + 1
  /\ UNCHANGED <<counter, ring, appends, call, evicted, pruned>>

LogNext ==
  \/ \E p \in Producers : NextSeq(p) \/ Stamp(p) \/ RingAppend(p)
  \/ Prune
  \/ Tick

LogSpec == LogInit /\ [][LogNext]_logVars

-----------------------------------------------------------------------------
(* Queries.                                                                *)

\* The retained entries past a cursor, and those of them the loop of since
\* reaches before it has collected max: the cap is applied in insertion
\* order, the sort by number comes after.
Past(k) == {e \in ring : e.seq > k}

Collected(k, max) ==
  {e \in Past(k) : Cardinality({f \in Past(k) : f.pos < e.pos}) < max}

\* Mutant: the cursor itself is returned again.
SinceInclusive(k, max) ==
  [events    |-> {e.seq : e \in {f \in ring : f.seq >= k}},
   truncated |-> Cardinality(Past(k)) > max]

\* ringBuf.since: the numbers returned (always sent in ascending order) and
\* the truncated flag.
Since(k, max) ==
  [events    |-> {e.seq : e \in Collected(k, max)},
   truncated |-> Cardinality(Past(k)) > max]

-----------------------------------------------------------------------------
(* Properties.                                                             *)

LogTypeOK ==
  /\ counter \in Nat
  /\ ring \subseteq Entry
  /\ appends \in Nat
  /\ call \in [Producers -> Call]
  /\ now \in Nat
  /\ evicted \subseteq Nat
  /\ pruned \subseteq Nat
  /\ IsFiniteSet(ring)
  /\ Cardinality(ring) =< Cap

Held == {call[p].seq : p \in {q \in Producers : call[q].at # "idle"}}

Logged == {e.seq : e \in ring}

\* Every number drawn from the counter is in exactly one place: with the
\* Append call that drew it, in the ring, or given up by eviction or by the
\* retention sweep; and no two calls or entries carry the same number.  So an
\* SSE id "tree:seq" names one event, and an event leaves the log only by the
\* two ways the code means it to.
NumbersAccounted ==
  /\ Held \cup Logged \cup evicted \cup pruned = 1..counter
  /\ \A p, q \in Producers : /\ call[p].at # "idle" /\ call[q].at # "idle"
                             /\ call[p].seq = call[q].seq
                             => p = q
  /\ \A e, f \in ring : e.seq = f.seq => e = f
  /\ Held \cap (Logged \cup evicted \cup pruned) = {}
  /\ Logged \cap (evicted \cup pruned) = {}
  /\ evicted \cap pruned = {}

\* A full ring never gives up a recent event: when a number is evicted at
\* least Cap - (number of producers - 1) newer ones have been drawn, however
\* the concurrent Appends interleave between nextSeq and ring.append.
RecentNotEvicted ==
  \A s \in evicted : s + Cap < counter + Cardinality(Producers)

\* A number leaves the ring by the sweep only once its event is older than
\* the retention; the sweep never takes a fresh one.
OnlyStalePruned ==
  [][\A e \in ring : e.seq \in pruned' \ pruned => Stale(e)]_logVars

\* What a reconnecting client asks for (max = Cap = DefaultLogSize): every
\* retained event past its cursor, and none at or before it.
SinceIsExact ==
  \A k \in 0..counter : Since(k, Cap).events = {s \in Logged : s > k}
=============================================================================
