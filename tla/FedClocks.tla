------------------------------ MODULE FedClocks ------------------------------
(***************************************************************************)
(* Updates of one node that several federated servers make, applied by each *)
(* server in the order they reach it.  An update is its origin and sequence; *)
(* its vector clock has the origin's entry only, and its Lamport number is   *)
(* its sequence, as envelopes are made.                                      *)
(***************************************************************************)
EXTENDS Integers, FiniteSets

CONSTANTS
    Origins,         \* servers that make updates, as numbers: their ids are ordered
    Receivers,       \* servers that apply them
    MaxSequence      \* updates per origin

ASSUME ClocksAssumption == Origins \subseteq Int /\ MaxSequence \in Nat

VARIABLES
    nodeClock,       \* federation_node_clocks: receiver -> [known, clock, whose Lamport number and id]
    content,         \* the node's row and winner_payload: receiver -> the update it shows
    conflicts,       \* federation_conflicts: receiver -> rows
    taken,           \* receiver -> updates applied or found old
    resolved         \* receivers on which someone has resolved a conflict

clockVars == <<nodeClock, content, conflicts, taken, resolved>>

Updates == [origin : Origins, seq : 1 .. MaxSequence]
NoUpdate == [origin |-> 0, seq |-> 0]
Empty == [o \in Origins |-> 0]

\* The clock of an envelope.
ClockOf(u) == [Empty EXCEPT ![u.origin] = u.seq]

FedClocksInit ==
    /\ nodeClock = [r \in Receivers |-> [known |-> FALSE, clock |-> Empty, winner |-> NoUpdate]]
    /\ content = [r \in Receivers |-> NoUpdate]
    /\ conflicts = [r \in Receivers |-> {}] /\ taken = [r \in Receivers |-> {}]
    /\ resolved = {}

\* Mutant of Compare: entries the first clock lacks are not looked at.
CompareOwn(c, other) ==
    LET less == \E o \in Origins : c[o] > 0 /\ c[o] < other[o]
        greater == \E o \in Origins : c[o] > other[o]
    IN  IF less /\ greater THEN "concurrent" ELSE IF less THEN "before"
        ELSE IF greater THEN "after" ELSE "equal"

\* A missing entry is 0.
Compare(c, other) ==
    LET less == \E o \in Origins : c[o] < other[o]
        greater == \E o \in Origins : c[o] > other[o]
    IN  IF less /\ greater THEN "concurrent" ELSE IF less THEN "before"
        ELSE IF greater THEN "after" ELSE "equal"

Merge(c, other) == [o \in Origins |-> IF other[o] > c[o] THEN other[o] ELSE c[o]]

\* Mutant of CurrentWins: the update that comes later wins a tie.
LaterWinsTies(current, incoming) == current.seq > incoming.seq

\* Of two concurrent updates the larger Lamport number wins, then the larger
\* server id.
CurrentWins(current, incoming) ==
    \/ current.seq > incoming.seq
    \/ current.seq = incoming.seq /\ current.origin > incoming.origin

\* The first update of a node is applied as it is.
applyFirst(r, u) ==
    /\ ~nodeClock[r].known
    /\ nodeClock' = [nodeClock EXCEPT ![r] = [known |-> TRUE, clock |-> ClockOf(u), winner |-> u]]
    /\ content' = [content EXCEPT ![r] = u]
    /\ UNCHANGED conflicts

\* Later ones under the row's lock: an old one is dropped, a newer one applied,
\* a concurrent one recorded with the one it meets before either is applied.
applyNext(r, u) ==
    LET row == nodeClock[r]
        relation == Compare(row.clock, ClockOf(u))
        stays == relation = "concurrent" /\ CurrentWins(row.winner, u)
    IN  /\ row.known
        /\ IF relation \in {"equal", "after"} THEN UNCHANGED <<nodeClock, content, conflicts>>
           ELSE /\ nodeClock' = [nodeClock EXCEPT ![r] = [known |-> TRUE, clock |-> Merge(row.clock, ClockOf(u)),
                                                              winner |-> IF stays THEN row.winner ELSE u]]
                /\ content' = [content EXCEPT ![r] = IF stays THEN @ ELSE u]
                /\ conflicts' = IF relation = "concurrent"
                                THEN [conflicts EXCEPT ![r] = @ \cup {[left |-> content[r], right |-> u, open |-> TRUE]}]
                                ELSE conflicts

\* Any update may come at any time, and again.
apply(r, u) ==
    /\ applyFirst(r, u) \/ applyNext(r, u)
    /\ taken' = [taken EXCEPT ![r] = @ \cup {u}]
    /\ UNCHANGED resolved

\* Someone picks a side: the node shows it; the winner's Lamport number stays.
resolve(r) ==
    \E row \in conflicts[r], side \in {"left", "right"} :
        /\ row.open
        /\ content' = [content EXCEPT ![r] = row[side]]
        /\ conflicts' = [conflicts EXCEPT ![r] = (@ \ {row}) \cup {[row EXCEPT !.open = FALSE]}]
        /\ resolved' = resolved \cup {r}
        /\ UNCHANGED <<nodeClock, taken>>

FedClocksNext == \E r \in Receivers : resolve(r) \/ \E u \in Updates : apply(r, u)

FedClocksSpec == FedClocksInit /\ [][FedClocksNext]_clockVars

-----------------------------------------------------------------------------
FedClocksTypeOK ==
    /\ \A r \in Receivers : content[r] \in Updates \cup {NoUpdate} /\ taken[r] \subseteq Updates
    /\ resolved \subseteq Receivers

\* Servers that have got the same updates show the same one, in whatever order
\* and however often they came, as long as nobody has picked a side.
Converge ==
    \A r, s \in Receivers : taken[r] = taken[s] /\ {r, s} \cap resolved = {} => content[r] = content[s]

\* No update disappears unseen: one that a server got and does not show was
\* followed by a later one of its origin, or is in a recorded conflict.
NoneSilentlyDropped ==
    \A r \in Receivers : \A u \in taken[r] :
        \/ content[r] = u
        \/ \E v \in taken[r] : v.origin = u.origin /\ v.seq > u.seq
        \/ \E row \in conflicts[r] : u \in {row.left, row.right}
=============================================================================
