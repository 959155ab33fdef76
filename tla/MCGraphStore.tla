---------------------------- MODULE MCGraphStore ----------------------------
(***************************************************************************)
(* Small instances of GraphStore: the conversation of Init and two more    *)
(* rows, two requests at a time.                                           *)
(***************************************************************************)
EXTENDS GraphStore, TLC

CONSTANTS t1, t2, w1, w2

MCTrees   == {t1, t2}
MCWriters == {w1, w2}

Symm == Permutations(MCTrees) \cup Permutations(MCWriters)

\* What requests under way on the same graph may not do to each other: commit
\* on sources that changed since they were checked, answer one request id
\* twice, judge staleness differently, or leave a committed node unannounced.
RequestsSound ==
    /\ TypeOK /\ SourcesCurrentAtCommit /\ OneReplyPerRequest
    /\ DetectorsAgree /\ NothingLeftUnannounced
=============================================================================
