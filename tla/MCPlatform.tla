----------------------------- MODULE MCPlatform ------------------------------
(***************************************************************************)
(* What an installation runs besides the conversation itself: updates of    *)
(* the binary, the plugin registry and its sandbox, MLS groups, the two     *)
(* implementations of its store, and its SQLite files.  They share no       *)
(* state, so the run checks one at a time: focus is chosen at the start and *)
(* stays, and the others keep their initial states.                         *)
(***************************************************************************)
EXTENDS Updater, Plugins, MLSGroups, StoreParity, TLC

CONSTANTS o1, o2, e1, e2

\* One opener has an older binary than the other and the exporters.
BinaryVersions == [p \in {o1, o2, e1, e2} |-> IF p = o1 THEN 1 ELSE 2]
FirstExporter == e1

ASSUME FirstExporterAssumption == FirstExporter \in Exporters

\* A user, two of its nodes, the second with a bad hash, and their edge.
Refs == [r \in SourceRows |->
           CASE r = "u" -> {} [] r = "e" -> {"n1", "n2"} [] OTHER -> {"u"}]
TableOf == [r \in SourceRows |->
              CASE r = "u" -> "users" [] r = "e" -> "edges" [] OTHER -> "nodes"]
ExportedAtFirst == {{"u"}, {"u", "n1"}}

\* Rows each table is given in the course of a run.
RowsMade == [users |-> 2, profiles |-> 1, members |-> 2, trees |-> 3, nodes |-> 3, edges |-> 2]

ParityFoci == {"accounts", "trees", "nodes", "edges"}

VARIABLE focus

platformVars == <<focus, updVars, plugVars, sandVars, mlsVars, parityVars, fileVars>>

PlatformInit ==
    /\ focus \in {"updater", "plugins", "sandbox", "mls", "migrate", "export"} \cup ParityFoci
    /\ UpdInit /\ PlugInit /\ SandInit /\ MlsInit /\ ParityInit /\ FilesInit
    /\ focus # "mls" => Existing = {}
    /\ focus # "updater" => running = Release(1)
    /\ pg = IF focus = "edges" THEN ThreeNodes ELSE OneTree
    /\ focus # "migrate" => target = NoFile /\ inode[FoundFile] = NewFile
    /\ pgRows \in IF focus = "export" THEN ExportedAtFirst ELSE {{"u"}}

\* Processes open the file while one export may replace it; and exports copy
\* what others write.
MigrateStep == \E p \in Openers \cup {FirstExporter} :
    IF p \in Openers THEN OpenerStep(p) ELSE ExporterStep(p)
ExportStep == WriteSource \/ \E e \in Exporters : ExporterStep(e)

PlatformNext ==
    \/ /\ focus = "updater" /\ UpdNext
       /\ UNCHANGED <<focus, plugVars, sandVars, mlsVars, parityVars, fileVars>>
    \/ /\ focus = "plugins" /\ PlugNext
       /\ UNCHANGED <<focus, updVars, sandVars, mlsVars, parityVars, fileVars>>
    \/ /\ focus = "sandbox" /\ SandNext
       /\ UNCHANGED <<focus, updVars, plugVars, mlsVars, parityVars, fileVars>>
    \/ /\ focus = "mls" /\ MlsNext
       /\ UNCHANGED <<focus, updVars, plugVars, sandVars, parityVars, fileVars>>
    \/ /\ focus = "accounts" /\ AccountStep
       /\ UNCHANGED <<focus, updVars, plugVars, sandVars, mlsVars, fileVars>>
    \/ /\ focus = "trees" /\ TreeStep
       /\ UNCHANGED <<focus, updVars, plugVars, sandVars, mlsVars, fileVars>>
    \/ /\ focus = "nodes" /\ NodeStep
       /\ UNCHANGED <<focus, updVars, plugVars, sandVars, mlsVars, fileVars>>
    \/ /\ focus = "edges" /\ EdgeStep
       /\ UNCHANGED <<focus, updVars, plugVars, sandVars, mlsVars, fileVars>>
    \/ /\ focus = "migrate" /\ MigrateStep
       /\ UNCHANGED <<focus, updVars, plugVars, sandVars, mlsVars, parityVars>>
    \/ /\ focus = "export" /\ ExportStep
       /\ UNCHANGED <<focus, updVars, plugVars, sandVars, mlsVars, parityVars>>

PlatformSpec == PlatformInit /\ [][PlatformNext]_platformVars

\* Versions of a plugin and requests to a group have the same elements in the
\* cfg, and so have the other sets of requests and the profiles, so that two
\* groups of permutations cover them all.
PlatformSymmetry == Permutations(MlsCalls) \cup Permutations(SandCalls)

-----------------------------------------------------------------------------
\* An update never leaves an installation without a binary to start, nothing
\* but a complete release is staged or kept, and versions are in one order.
UpdatesSafe == focus = "updater" => UpdTypeOK /\ NeverStranded /\ OnlyReleasesKept /\ VersionsOrdered

\* A registered plugin is served until it is withdrawn, by a version at the end
\* of its chain; its calls use what it declares, within its quota.
PluginsSound ==
    /\ focus = "plugins" => PlugTypeOK /\ ServedUntilWithdrawn /\ ChainEnds
    /\ focus = "sandbox" => SandTypeOK /\ QuotaHolds /\ OnlyDeclaredUsed /\ InstallsCounted

\* Members of a group read what is sent: each epoch has one secret, renewed by
\* every change of membership, and live streams learn of each change.
GroupsSound == focus = "mls" => MlsTypeOK /\ EpochOpens /\ SecretRenewed /\ NoChangeMissed

\* After the same calls, and whatever ran between an update and the reading
\* back of its row, the SQLite store holds and answers what PostgreSQL does
\* (Interchangeable, each part where its tables change).
StoresAgree ==
    /\ focus \in ParityFoci => ParityTypeOK /\ pg = lite /\ alike /\ ReadBackFaithful
    /\ focus = "accounts" => AccountReadsAgree
    /\ focus = "trees" => TreeListsAgree
    /\ focus \in {"nodes", "edges"} => GraphReadsAgree /\ PathConnects

\* Files hold whole schemas, and what an export publishes is what PostgreSQL
\* held at one instant of it.
FilesComplete == focus \in {"migrate", "export"} =>
    FilesTypeOK /\ MigrationsInOrder /\ OpenedComplete /\ PublishedIsSnapshot
=============================================================================
