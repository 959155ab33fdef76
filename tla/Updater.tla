------------------------------ MODULE Updater ------------------------------
(***************************************************************************)
(* The self-updater: which release it takes, and the files it moves while   *)
(* the process may die between any two steps.  A version is the number of   *)
(* its core and its pre-release identifiers, each a number or a word.       *)
(***************************************************************************)
EXTENDS Integers, Sequences

CONSTANTS
    Cores,           \* core versions, as numbers
    MaxIdentifiers   \* pre-release identifiers of a version

ASSUME VersionsAssumption == Cores \subseteq Nat \ {0} /\ MaxIdentifiers \in Nat

VARIABLES
    running,         \* the version the process was started as, or Nothing
    disk,            \* the files: current, old, staged (.new), partial
    updating,        \* where the updater stands
    offered          \* the artifact of the last check, or Nothing

updVars == <<running, disk, updating, offered>>

\* Two numbers and a word.
Identifiers == {[numeric |-> TRUE, value |-> 0], [numeric |-> TRUE, value |-> 1], [numeric |-> FALSE, value |-> 0]}
Versions == [core : Cores, pre : UNION {[1 .. n -> Identifiers] : n \in 0 .. MaxIdentifiers}]
Nothing == [core |-> 0, pre |-> <<>>]
Garbage == [core |-> -1, pre |-> <<>>]
Release(c) == [core |-> c, pre |-> <<>>]
Releases == {Release(c) : c \in Cores}

-----------------------------------------------------------------------------
(* Versions *)

\* Mutant of compareIdentifiers: words are compared with numbers by value.
CompareValues(left, right) ==
    IF left = right THEN 0 ELSE IF left.value < right.value THEN -1 ELSE 1

\* Numbers by value and before words, words in their order.
compareIdentifiers(left, right) ==
    IF left = right THEN 0
    ELSE IF left.numeric = right.numeric THEN IF left.value < right.value THEN -1 ELSE 1
    ELSE IF left.numeric THEN -1 ELSE 1

\* The core first; a release comes after its pre-releases; these by their first
\* different identifier, then by length.
compareVersions(a, b) ==
    LET shared == {i \in DOMAIN a.pre : i \in DOMAIN b.pre}
        differing == {i \in shared : compareIdentifiers(a.pre[i], b.pre[i]) # 0}
        first == CHOOSE i \in differing : \A j \in differing : i <= j
    IN  IF a.core # b.core THEN IF a.core < b.core THEN -1 ELSE 1
        ELSE IF a.pre = b.pre THEN 0
        ELSE IF a.pre = <<>> THEN 1
        ELSE IF b.pre = <<>> THEN -1
        ELSE IF differing # {} THEN compareIdentifiers(a.pre[first], b.pre[first])
        ELSE IF Len(a.pre) < Len(b.pre) THEN -1 ELSE 1

-----------------------------------------------------------------------------
(* The update *)

UpdInit ==
    /\ \E v \in Versions : running = v /\ disk = [current |-> v, old |-> Nothing, staged |-> Nothing, partial |-> Nothing]
    /\ updating = "idle" /\ offered = Nothing

\* The first artifact of the manifest for this platform that is newer than the
\* running version; an unsigned or wrongly signed manifest, or none, offers
\* nothing.
CheckForUpdate ==
    /\ running # Nothing /\ updating = "idle"
    /\ offered' \in {Nothing} \cup {v \in Releases : compareVersions(v, running) > 0}
    /\ UNCHANGED <<running, disk, updating>>

\* What an earlier download left is removed.
DownloadBegin ==
    /\ running # Nothing /\ updating = "idle" /\ offered # Nothing
    /\ disk' = [disk EXCEPT !.partial = Nothing, !.staged = Nothing]
    /\ updating' = "fetch"
    /\ UNCHANGED <<running, offered>>

\* The partial file holds a part of it, then what was served: the artifact or
\* something else; a failed transfer removes it.
Stream ==
    /\ \/ /\ updating = "fetch" /\ disk' = [disk EXCEPT !.partial = Garbage] /\ updating' = "stream"
       \/ /\ updating = "stream" /\ updating' = "verify"
          /\ \E served \in {offered, Garbage} : disk' = [disk EXCEPT !.partial = served]
       \/ /\ updating = "stream" /\ updating' = "idle" /\ disk' = [disk EXCEPT !.partial = Nothing]
    /\ UNCHANGED <<running, offered>>

\* Mutant of DownloadUpdate: the file is published before it is checked.
PublishUnchecked ==
    /\ updating = "verify"
    /\ disk' = [disk EXCEPT !.staged = disk.partial, !.partial = Nothing]
    /\ updating' = "idle"
    /\ UNCHANGED <<running, offered>>

\* Digest and signature are those of the artifact, or the file is removed.
DownloadUpdate ==
    /\ updating = "verify"
    /\ disk' = [disk EXCEPT !.staged = IF disk.partial = offered THEN offered ELSE @, !.partial = Nothing]
    /\ updating' = "idle"
    /\ UNCHANGED <<running, offered>>

\* Mutant of applySwap: the current binary is removed first.
SwapRemoves ==
    /\ running # Nothing /\ updating = "idle" /\ disk.staged # Nothing /\ disk.current # Nothing
    /\ disk' = [disk EXCEPT !.current = Nothing, !.old = Nothing]
    /\ updating' = "swap"
    /\ UNCHANGED <<running, offered>>

\* A staged update is required; the current binary becomes the old one ...
applySwap ==
    /\ running # Nothing /\ updating = "idle" /\ disk.staged # Nothing /\ disk.current # Nothing
    /\ disk' = [disk EXCEPT !.old = disk.current, !.current = Nothing]
    /\ updating' = "swap"
    /\ UNCHANGED <<running, offered>>

\* ... and the staged one the current one; if that fails the old one returns.
ApplyUpdate ==
    /\ updating = "swap"
    /\ \/ disk' = [disk EXCEPT !.current = disk.staged, !.staged = Nothing]
       \/ disk' = [disk EXCEPT !.current = disk.old, !.old = Nothing]
    /\ updating' = "idle"
    /\ UNCHANGED <<running, offered>>

Rollback ==
    /\ updating = "idle" /\ disk.old # Nothing
    /\ disk' = [disk EXCEPT !.current = disk.old, !.old = Nothing]
    /\ UNCHANGED <<running, updating, offered>>

Cleanup ==
    /\ updating = "idle" /\ running # Nothing
    /\ disk' = [disk EXCEPT !.old = Nothing]
    /\ UNCHANGED <<running, updating, offered>>

\* The process ends, at any point, and is started again from what is on disk.
Stop ==
    /\ running # Nothing /\ running' = Nothing /\ updating' = "idle" /\ offered' = Nothing
    /\ UNCHANGED disk

Launch ==
    /\ running = Nothing /\ disk.current # Nothing /\ running' = disk.current
    /\ UNCHANGED <<disk, updating, offered>>

UpdNext ==
    \/ CheckForUpdate \/ DownloadBegin \/ Stream \/ DownloadUpdate \/ applySwap \/ ApplyUpdate
    \/ Rollback \/ Cleanup \/ Stop \/ Launch

UpdSpec == UpdInit /\ [][UpdNext]_updVars

-----------------------------------------------------------------------------
UpdTypeOK ==
    /\ \A f \in DOMAIN disk : disk[f] \in Versions \cup {Nothing, Garbage}
    /\ updating \in {"idle", "fetch", "stream", "verify", "swap"}

\* Whenever the process dies there is a binary to start: the current one, or
\* the old one for a rollback.
NeverStranded == disk.current # Nothing \/ disk.old # Nothing

\* Nothing but a complete release is ever staged, installed or kept: a
\* download that was cut short or served something else leaves no trace.
OnlyReleasesKept == Garbage \notin {disk.current, disk.old, disk.staged}

\* compareVersions puts the running version in one order with all others: of
\* two different ones exactly one is newer, and what is older than a version
\* older than it is older than it.
VersionsOrdered ==
    updating = "idle" /\ running # Nothing => \A a \in Versions :
        /\ compareVersions(a, running) = -compareVersions(running, a)
        /\ compareVersions(a, running) = 0 <=> a = running
        /\ compareVersions(a, running) < 0 => \A b \in Versions : compareVersions(b, a) < 0 => compareVersions(b, running) < 0

\* What SPEC-FTR-06 says of the swap: it is crash-safe.
SwapCrashSafe == disk.current # Nothing
=============================================================================
