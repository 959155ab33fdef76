----------------------------- MODULE ServerBoot -----------------------------
(***************************************************************************)
(* The start of canopyd on PostgreSQL: the stale-build guard, the          *)
(* migrations with the repair of a dirty bookkeeping row                   *)
(* (internal/db/migrate_repair.go), and the rows a development server      *)
(* provisions (internal/db/bootstrap.go).  The process may be killed       *)
(* between any two steps and started again, with an older or a newer       *)
(* binary; the database keeps what was committed.                          *)
(*                                                                         *)
(* A migration is its version number.  What its SQL creates is one element *)
(* of schema; a body that is not idempotent fails with a duplicate-object  *)
(* error when that is there already, and any body fails when what it       *)
(* alters is missing.                                                      *)
(***************************************************************************)
EXTENDS Integers, FiniteSets

CONSTANTS
    Binaries,     \* the newest migration each binary embeds
    Idempotent,   \* the migrations that can be run again
    Altering      \* the migrations that alter what the first one creates

ASSUME BinaryAssumption ==
    /\ Binaries \subseteq Nat \ {0}
    /\ \E b \in Binaries : \A c \in Binaries : c <= b

VARIABLES
    schema,       \* the migrations whose SQL was committed
    ledger,       \* schema_migrations: the version and the dirty flag
    provisioned,  \* the development rows in the database
    boot,         \* where the process is
    binary,       \* the binary that runs
    repair,       \* repairDirty: off, or the version the walk has reached
    repaired      \* whether some boot has entered repairDirty

bootVars == <<schema, ledger, provisioned, boot, binary, repair, repaired>>

Off == -1
Newest == CHOOSE b \in Binaries : \A c \in Binaries : c <= b
DevRows == {"workspace", "profile", "route", "member"}

BootInit ==
    /\ schema = {}
    /\ ledger = [version |-> 0, dirty |-> FALSE]
    /\ provisioned = {}
    /\ boot = "down"
    /\ binary \in Binaries
    /\ repair = Off
    /\ repaired = FALSE

EmbeddedMaxVersion == binary
SchemaVersion == ledger.version

\* A start that does not look at the schema first.
StartUnguarded ==
    /\ boot = "down"
    /\ binary' \in Binaries
    /\ boot' = "up"
    /\ repair' = Off
    /\ UNCHANGED <<schema, ledger, provisioned, repaired>>

\* main: a schema newer than the binary's migrations refuses the start.
StartServer ==
    /\ boot = "down"
    /\ \E b \in Binaries :
          /\ binary' = b
          /\ boot' = IF SchemaVersion > b THEN "down" ELSE "up"
    /\ repair' = Off
    /\ UNCHANGED <<schema, ledger, provisioned, repaired>>

\* Migrate.Force rewrites the bookkeeping row and runs nothing.
ForceVersion(version) == ledger' = [version |-> version, dirty |-> FALSE]

\* m.Up on a dirty row: ErrDirty.  The first one enters repairDirty, which
\* forces the version it names, or empties the table for one it has not got;
\* a later one goes on from the version it names.
UpDirty ==
    /\ boot = "up" /\ ledger.dirty
    /\ LET known == ledger.version \in 1..EmbeddedMaxVersion
       IN  \/ /\ known \/ repair = Off
              /\ ForceVersion(IF known THEN ledger.version ELSE 0)
              /\ repair' = IF known THEN ledger.version ELSE 0
              /\ UNCHANGED boot
           \/ /\ ~known /\ repair # Off
              /\ boot' = "down"
              /\ UNCHANGED <<ledger, repair>>
    /\ repaired' = TRUE
    /\ UNCHANGED <<schema, provisioned, binary>>

\* m.Up on a clean row: marks the next migration dirty, or there is none.
UpNext ==
    /\ boot = "up" /\ ~ledger.dirty
    /\ \/ /\ ledger.version < EmbeddedMaxVersion
          /\ ledger' = [version |-> ledger.version + 1, dirty |-> TRUE]
          /\ boot' = "body"
       \/ /\ ledger.version >= EmbeddedMaxVersion
          /\ boot' = "migrated"
          /\ UNCHANGED ledger
    /\ UNCHANGED <<schema, provisioned, binary, repair, repaired>>

AlreadyThere == ledger.version \in schema /\ ledger.version \notin Idempotent
Missing == ledger.version \in Altering /\ 1 \notin schema

\* The SQL of the migration, one transaction.
RunBody ==
    /\ boot = "body" /\ ~AlreadyThere /\ ~Missing
    /\ schema' = schema \cup {ledger.version}
    /\ boot' = "mark"
    /\ UNCHANGED <<ledger, provisioned, binary, repair, repaired>>

\* The row is marked clean, and Up goes on with the next migration.
MarkClean ==
    /\ boot = "mark"
    /\ ledger' = [ledger EXCEPT !.dirty = FALSE]
    /\ boot' = "up"
    /\ UNCHANGED <<schema, provisioned, binary, repair, repaired>>

\* A body that fails ends the boot with the row dirty, but for a duplicate
\* object in a repair: the migration is accepted and the NEXT version forced,
\* the last one excepted.
BodyFails ==
    /\ boot = "body" /\ (AlreadyThere \/ Missing)
    /\ IF repair # Off /\ AlreadyThere /\ ledger.version > repair
       THEN /\ LET next == IF ledger.version >= EmbeddedMaxVersion
                           THEN ledger.version ELSE ledger.version + 1
               IN  ForceVersion(next) /\ repair' = next
            /\ boot' = IF ledger.version >= EmbeddedMaxVersion
                       THEN "migrated" ELSE "up"
       ELSE boot' = "down" /\ UNCHANGED <<ledger, repair>>
    /\ UNCHANGED <<schema, provisioned, binary, repaired>>

\* EnsureDevJWTUser: ON CONFLICT DO NOTHING.
EnsureDevJWTUser ==
    /\ boot = "migrated"
    /\ provisioned' = provisioned \cup {"user"}
    /\ boot' = "user"
    /\ UNCHANGED <<schema, ledger, binary, repair, repaired>>

\* EnsureDevWorkspaceProfile: four inserts, one transaction.
EnsureDevWorkspaceProfile ==
    /\ boot = "user"
    /\ provisioned' = provisioned \cup DevRows
    /\ boot' = "serving"
    /\ UNCHANGED <<schema, ledger, binary, repair, repaired>>

\* SIGKILL, or the end of a server that was asked to stop.
Kill ==
    /\ boot # "down"
    /\ boot' = "down"
    /\ UNCHANGED <<schema, ledger, provisioned, binary, repair, repaired>>

BootStep ==
    \/ UpDirty \/ UpNext \/ RunBody \/ MarkClean \/ BodyFails
    \/ EnsureDevJWTUser \/ EnsureDevWorkspaceProfile

BootNext == StartServer \/ BootStep \/ Kill
BootSpec == BootInit /\ [][BootNext]_bootVars /\ WF_bootVars(BootStep)

-----------------------------------------------------------------------------
BootTypeOK ==
    /\ schema \subseteq 1..Newest
    /\ ledger \in [version : 0..Newest, dirty : BOOLEAN]
    /\ provisioned \subseteq {"user"} \cup DevRows
    /\ boot \in {"down", "up", "body", "mark", "migrated", "user", "serving"}
    /\ binary \in Binaries /\ repair \in Off..Newest /\ repaired \in BOOLEAN

\* A server that serves has a clean row at its own newest migration, which no
\* repair forced past it, and the rows a development user needs; the rows of
\* the workspace are there together, and never without the user they refer
\* to (main.go's stale-build guard, migrate_repair.go, bootstrap.go).
ServingCurrent ==
    /\ boot \in {"migrated", "user", "serving"} =>
          ledger = [version |-> EmbeddedMaxVersion, dirty |-> FALSE]
    /\ boot = "serving" => provisioned = {"user"} \cup DevRows
    /\ provisioned \cap DevRows \in {{}, DevRows}
    /\ provisioned # {} => "user" \in provisioned

\* As long as no boot had to repair, the row tells what the schema holds:
\* every migration up to it, the one that is marked dirty perhaps excepted,
\* and nothing after it.
RowTellsSchema ==
    ~repaired =>
        /\ 1..(ledger.version - 1) \subseteq schema
        /\ ~ledger.dirty /\ ledger.version > 0 => ledger.version \in schema
        /\ \A v \in schema : v <= ledger.version

\* A boot ends, whatever state the kills left behind: repairDirty's walk does
\* not go round in circles.
BootEnds == []<>~(boot \in {"up", "body", "mark", "migrated", "user"})

\* repairDirty's promise: "force the same version N and re-run"
\* (migrate_repair.go:69), so a server that serves lacks no migration.  Force
\* marks N as applied and Up goes on after it, so a migration the kill came
\* before is never run.
NoMigrationSkipped == boot = "serving" => 1..EmbeddedMaxVersion \subseteq schema

=============================================================================
