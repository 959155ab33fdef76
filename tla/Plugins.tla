------------------------------ MODULE Plugins ------------------------------
(***************************************************************************)
(* The plugin registry: one row per name and version, at most one of them   *)
(* active (a partial unique index), linked by superseded_by (the back link   *)
(* previous_version_id is written and not read).  A request is a            *)
(* transaction that locks the active row, and for most operations an audit  *)
(* insert after it.                                                         *)
(***************************************************************************)
EXTENDS Integers, Sequences, FiniteSetsExt

CONSTANTS PlugNames, PlugVersions, PlugCalls

VARIABLES
    registry,    \* key -> its row
    pcall,       \* call -> the request and where it stands
    rowLock,     \* key -> the call whose transaction holds the row, or FreeRow
    withdrawn    \* names whose active version Disable or Archive took away

plugVars == <<registry, pcall, rowLock, withdrawn>>

Keys == PlugNames \X PlugVersions
NoKey == <<>>
FreeRow == "free"

ASSUME RegistryAssumption ==
    IsFiniteSet(PlugNames) /\ IsFiniteSet(PlugVersions) /\ FreeRow \notin PlugCalls

PlugOps == {"register", "update", "rollback", "activate", "disable", "archive"}
NoRow == [status |-> "none", super |-> NoKey]

PlugInit ==
    /\ registry = [k \in Keys |-> NoRow]
    /\ pcall = [c \in PlugCalls |-> [op |-> "", key |-> NoKey, pc |-> "idle", active |-> NoKey, answer |-> "", changed |-> FALSE]]
    /\ rowLock = [k \in Keys |-> FreeRow]
    /\ withdrawn = {}

-----------------------------------------------------------------------------
(* The rows *)

\* The rows of the name that are active; update and rollback look by slug.
PlugActive(name) == {k \in Keys : k[1] = name /\ registry[k].status = "active"}

\* The two unique indexes: of name and version, and of an active name.
RowsAllowed(rows) == \A n \in PlugNames : Cardinality({k \in Keys : k[1] = n /\ rows[k].status = "active"}) <= 1

PlugEnd(c, answer) == pcall' = [pcall EXCEPT ![c] = [@ EXCEPT !.pc = "done", !.answer = answer, !.key = NoKey, !.active = NoKey]]

Unlock(c) == rowLock' = [k \in Keys |-> IF rowLock[k] = c THEN FreeRow ELSE rowLock[k]]

-----------------------------------------------------------------------------
(* A request *)

\* The source carries a manifest with a name, a version, a render type and
\* known permissions, or the request is refused.
parseRegistryManifest(c, op, wellFormed) ==
    op \in {"register", "update"} /\ ~wellFormed

\* The handlers; a call that has ended serves the next request.  A body that cannot be decoded is refused with the manifest.
PlugRequest(c, op, key, wellFormed) ==
    /\ pcall[c].pc \in {"idle", "done"}
    /\ pcall' = [pcall EXCEPT ![c].op = op, ![c].key = key, ![c].changed = FALSE,
                              ![c].pc = IF parseRegistryManifest(c, op, wellFormed) THEN "done" ELSE "look",
                              ![c].answer = IF parseRegistryManifest(c, op, wellFormed) THEN "invalid" ELSE ""]
    /\ UNCHANGED <<registry, rowLock, withdrawn>>

\* Before the lock: Register refuses a version that exists; Activate reads the
\* versions and needs the one asked for.
PlugLook(c) ==
    LET call == pcall[c] exists == registry[call.key].status # "none"
    IN  /\ call.pc = "look"
        /\ IF call.op = "register" /\ exists THEN PlugEnd(c, "conflict")
           ELSE IF call.op = "activate" /\ ~exists THEN PlugEnd(c, "missing")
           ELSE pcall' = [pcall EXCEPT ![c].pc = "select"]
        /\ UNCHANGED <<registry, rowLock, withdrawn>>

\* No row is active: Register and Activate go on without one, the others end.
PlugNoneActive(c) ==
    IF pcall[c].op \in {"register", "activate"}
    THEN pcall' = [pcall EXCEPT ![c].pc = "write", ![c].active = NoKey]
    ELSE PlugEnd(c, "missing")

\* SELECT ... WHERE status = 'active' FOR UPDATE.  A row that another
\* transaction holds is waited for ...
PlugSelect(c) ==
    /\ pcall[c].pc = "select"
    /\ LET rows == PlugActive(pcall[c].key[1])
       IN  \/ /\ rows = {} /\ PlugNoneActive(c) /\ UNCHANGED rowLock
           \/ \E k \in rows :
                /\ pcall' = [pcall EXCEPT ![c].active = k, ![c].pc = IF rowLock[k] = FreeRow THEN "write" ELSE "wait"]
                /\ rowLock' = IF rowLock[k] = FreeRow THEN [rowLock EXCEPT ![k] = c] ELSE rowLock
    /\ UNCHANGED <<registry, withdrawn>>

\* ... and then read again: if it is no longer active there is no row, even
\* when another version has become active meanwhile.
PlugAwaited(c) ==
    /\ pcall[c].pc = "wait" /\ rowLock[pcall[c].active] = FreeRow
    /\ IF registry[pcall[c].active].status = "active"
       THEN pcall' = [pcall EXCEPT ![c].pc = "write"] /\ rowLock' = [rowLock EXCEPT ![pcall[c].active] = c]
       ELSE PlugNoneActive(c) /\ UNCHANGED rowLock
    /\ UNCHANGED <<registry, withdrawn>>

-----------------------------------------------------------------------------
(* What each operation writes; "same" when it changes nothing *)

\* The active row (if any) is archived and superseded by the new one.
RegisterRows(key, active) ==
    [k \in Keys |-> IF k = key THEN [status |-> "active", super |-> NoKey]
                    ELSE IF k = active THEN [registry[k] EXCEPT !.status = "archived", !.super = key]
                    ELSE registry[k]]

\* Mutant of ActivateRows: the version stays marked as superseded.
ActivateStale(key, active) ==
    [k \in Keys |-> IF k = key THEN [registry[k] EXCEPT !.status = "active"]
                    ELSE IF k = active THEN [registry[k] EXCEPT !.status = "archived", !.super = key]
                    ELSE registry[k]]

\* Mutant of ActivateRows: the active version is archived and no other activated.
ActivateForgets(key, active) ==
    [k \in Keys |-> IF k = active THEN [registry[k] EXCEPT !.status = "archived", !.super = key] ELSE registry[k]]

ActivateRows(key, active) ==
    [k \in Keys |-> IF k = key THEN [registry[k] EXCEPT !.status = "active", !.super = NoKey]
                    ELSE IF k = active THEN [registry[k] EXCEPT !.status = "archived", !.super = key]
                    ELSE registry[k]]

\* Mutant of PlugRefusal: Update does not look for the version.
RefusalMissed(call) ==
    IF call.op = "rollback" /\ registry[call.key].status = "none" THEN "missing" ELSE ""

\* Update: the version must be new.  RollbackTo: it must exist and not be the
\* active one.
PlugRefusal(call) ==
    IF call.op = "update" /\ registry[call.key].status # "none" THEN "conflict"
    ELSE IF call.op = "rollback" /\ registry[call.key].status = "none" THEN "missing"
    ELSE IF call.op = "rollback" /\ call.key = call.active THEN "conflict"
    ELSE ""

setStatus(active, status) == [registry EXCEPT ![active].status = status]

PlugRows(call) ==
    CASE call.op \in {"register", "update"} -> RegisterRows(call.key, call.active)
      [] call.op = "rollback" -> ActivateRows(call.key, call.active)
      [] call.op = "activate" -> IF call.key = call.active THEN registry ELSE ActivateRows(call.key, call.active)
      [] OTHER -> setStatus(call.active, IF call.op = "disable" THEN "disabled" ELSE "archived")

\* The writes and the commit.  A row inserted meanwhile, or a second active
\* one, violates an index: Register reports a conflict, the others an error.
\* Update and RollbackTo have written their audit row; the others do so next.
PlugCommit(c) ==
    LET call == pcall[c]
        duplicate == call.op = "register" /\ registry[call.key].status # "none"
    IN  /\ call.pc = "write"
        /\ IF PlugRefusal(call) # ""
           THEN PlugEnd(c, PlugRefusal(call)) /\ UNCHANGED <<registry, withdrawn>>
           ELSE IF duplicate \/ ~RowsAllowed(PlugRows(call))
           THEN PlugEnd(c, IF call.op = "register" THEN "conflict" ELSE "error") /\ UNCHANGED <<registry, withdrawn>>
           ELSE /\ registry' = PlugRows(call)
                /\ pcall' = [pcall EXCEPT ![c].changed = registry' # registry, ![c].active = NoKey,
                                          ![c].pc = IF call.op \in {"update", "rollback"} THEN "done" ELSE "audit",
                                          ![c].answer = IF call.op \in {"update", "rollback"} THEN "ok" ELSE ""]
                /\ withdrawn' = IF call.op \in {"disable", "archive"} THEN withdrawn \cup {call.key[1]}
                                ELSE withdrawn \ {call.key[1]}
        /\ Unlock(c)

\* The audit row of Register, Activate, Disable and Archive, after the commit:
\* its actor must be a profile.  Without it the answer is an error.
PlugAudit(c) ==
    /\ pcall[c].pc = "audit"
    /\ \E recorded \in BOOLEAN : PlugEnd(c, IF recorded THEN "ok" ELSE "error")
    /\ UNCHANGED <<registry, rowLock, withdrawn>>

PlugNext ==
    \E c \in PlugCalls :
        \/ \E op \in PlugOps, key \in Keys, ok \in BOOLEAN : PlugRequest(c, op, key, ok)
        \/ PlugLook(c) \/ PlugSelect(c) \/ PlugAwaited(c) \/ PlugCommit(c) \/ PlugAudit(c)

PlugSpec == PlugInit /\ [][PlugNext]_plugVars

-----------------------------------------------------------------------------
PlugTypeOK ==
    /\ \A k \in Keys : registry[k].status \in {"none", "active", "disabled", "archived"} /\ rowLock[k] \in PlugCalls \cup {FreeRow}
    /\ \A c \in PlugCalls : pcall[c].pc \in {"idle", "look", "select", "wait", "write", "audit", "done"}
    /\ withdrawn \subseteq PlugNames

\* A name that was registered stays served: until Disable or Archive takes its
\* active version away there is one, whatever updates, rollbacks and
\* activations run into each other.
ServedUntilWithdrawn ==
    \A n \in PlugNames : (\E v \in PlugVersions : registry[<<n, v>>].status # "none") /\ n \notin withdrawn => PlugActive(n) # {}

\* The active version is superseded by none, and following superseded_by from
\* any version comes to an end.
ChainEnds ==
    /\ \A k \in Keys : registry[k].status = "active" => registry[k].super = NoKey
    /\ \A S \in SUBSET {k \in Keys : registry[k].super # NoKey} : S # {} => \E k \in S : registry[k].super \notin S

\* A version is published once: its row is not written again by Register or
\* Update, which would lose its source and its place in the chain.
PublishedOnce ==
    [][\A c \in PlugCalls : pcall[c].op \in {"register", "update"} /\ ~pcall[c].changed /\ pcall'[c].changed
            => registry[pcall[c].key] = NoRow]_plugVars

\* What docs/API.md lists: an error code is a refusal, a change is answered
\* with the row.
RefusedUnchanged == \A c \in PlugCalls : pcall[c].answer \notin {"", "ok"} => ~pcall[c].changed

(***************************************************************************)
(* Instances of one plugin, and the gate an API call of an instance goes    *)
(* through: the instance is active, it holds the permission of the method,  *)
(* and the quota of the method is not used up.  Each operation reads the    *)
(* instance and acts in a later step.                                       *)
(***************************************************************************)

CONSTANTS
    Profiles, SandCalls,
    DeclaredPermissions, OtherPermissions,   \* each the permission of a method
    QuotaLimit,                              \* calls of an instance in a window
    QuotaWindow,                             \* ticks
    MaxTicks

ASSUME SandboxAssumption ==
    IsFiniteSet(Profiles) /\ QuotaLimit \in Nat /\ QuotaWindow \in Nat /\ MaxTicks \in Nat

VARIABLES
    inst,            \* profile -> its instance
    installCount,    \* install_count of the plugin
    gate,            \* call -> where it stands
    admitted,        \* profile -> ticks of the calls its limiter remembers
    ever,            \* profile -> ticks of all calls it let through
    tick

sandVars == <<inst, installCount, gate, admitted, ever, tick>>

AllPermissions == DeclaredPermissions \cup OtherPermissions
Outside == [at |-> "outside", profile |-> "", granted |-> {}]

SandInit ==
    /\ inst = [p \in Profiles |-> [status |-> "none", granted |-> {}]]
    /\ installCount = 0
    /\ gate = [c \in SandCalls |-> Outside]
    /\ admitted = [p \in Profiles |-> <<>>] /\ ever = [p \in Profiles |-> <<>>] /\ tick = 0

-----------------------------------------------------------------------------
(* Installing *)

\* Mutant of InstallBegin: whatever is asked for is granted.
InstallAnything(c, p, granted) ==
    /\ gate[c] = Outside
    /\ gate' = [gate EXCEPT ![c] = [at |-> "install", profile |-> p, granted |-> granted]]
    /\ UNCHANGED <<inst, installCount, admitted, ever, tick>>

\* The plugin's row is read: every permission asked for must be declared.
InstallBegin(c, p, granted) ==
    /\ gate[c] = Outside /\ granted \subseteq DeclaredPermissions
    /\ gate' = [gate EXCEPT ![c] = [at |-> "install", profile |-> p, granted |-> granted]]
    /\ UNCHANGED <<inst, installCount, admitted, ever, tick>>

\* Mutant of Install: the counter is raised before the index is met.
InstallCountsFirst(c) ==
    /\ gate[c].at = "install" /\ gate' = [gate EXCEPT ![c] = Outside]
    /\ inst' = [inst EXCEPT ![gate[c].profile] = IF @.status = "none" THEN [status |-> "active", granted |-> gate[c].granted] ELSE @]
    /\ installCount' = installCount + 1
    /\ UNCHANGED <<admitted, ever, tick>>

\* One transaction: the instance, of which a profile has one (an index), and
\* the counter.
Install(c) ==
    LET p == gate[c].profile
    IN  /\ gate[c].at = "install" /\ gate' = [gate EXCEPT ![c] = Outside]
        /\ IF inst[p].status = "none"
           THEN inst' = [inst EXCEPT ![p] = [status |-> "active", granted |-> gate[c].granted]] /\ installCount' = installCount + 1
           ELSE UNCHANGED <<inst, installCount>>
        /\ UNCHANGED <<admitted, ever, tick>>

\* PauseInstance and ResumeInstance; a call that has passed the check goes on.
UpdateInstanceStatus(p, status) ==
    /\ inst[p].status # "none" /\ inst' = [inst EXCEPT ![p].status = status]
    /\ UNCHANGED <<installCount, gate, admitted, ever, tick>>

-----------------------------------------------------------------------------
(* Calling *)

\* Mutant of CheckPermissionGate: the permission is not looked at.
GateOpen(p, permission) == inst[p].status = "active"

CheckPermissionGate(p, permission) == inst[p].status = "active" /\ permission \in inst[p].granted

CheckPermission(c, p, permission) ==
    /\ gate[c] = Outside /\ CheckPermissionGate(p, permission)
    /\ gate' = [gate EXCEPT ![c] = [at |-> "quota", profile |-> p, granted |-> {permission}]]
    /\ UNCHANGED <<inst, installCount, admitted, ever, tick>>

\* The calls remembered, without those at the front that are as old as the
\* window.
Recent(calls) ==
    LET first == Max({i \in 0 .. Len(calls) : \A j \in 1 .. i : calls[j] + QuotaWindow <= tick})
    IN  SubSeq(calls, first + 1, Len(calls))

\* Mutant of QuotaAllows: one call too many.
QuotaLax(p) == Len(Recent(admitted[p])) <= QuotaLimit

QuotaAllows(p) == Len(Recent(admitted[p])) < QuotaLimit

\* The limiter, under its mutex: old calls are dropped, and this one is noted if
\* it passes; then invoke_count is raised.
Allow(c) ==
    LET p == gate[c].profile
    IN  /\ gate[c].at = "quota" /\ gate' = [gate EXCEPT ![c] = Outside]
        /\ admitted' = [admitted EXCEPT ![p] = IF QuotaAllows(p) THEN Append(Recent(@), tick) ELSE Recent(@)]
        /\ ever' = [ever EXCEPT ![p] = IF QuotaAllows(p) THEN Append(@, tick) ELSE @]
        /\ UNCHANGED <<inst, installCount, tick>>

Tick == tick < MaxTicks /\ tick' = tick + 1 /\ UNCHANGED <<inst, installCount, gate, admitted, ever>>

SandNext ==
    \/ \E c \in SandCalls, p \in Profiles :
        \/ \E granted \in SUBSET AllPermissions : InstallBegin(c, p, granted)
        \/ \E permission \in AllPermissions : CheckPermission(c, p, permission)
    \/ \E c \in SandCalls : Install(c) \/ Allow(c)
    \/ \E p \in Profiles, status \in {"active", "paused"} : UpdateInstanceStatus(p, status)
    \/ Tick

SandSpec == SandInit /\ [][SandNext]_sandVars

-----------------------------------------------------------------------------
SandTypeOK ==
    /\ \A p \in Profiles : inst[p].status \in {"none", "active", "paused"}
    /\ \A c \in SandCalls : gate[c].at \in {"outside", "install", "quota"}
    /\ tick \in 0 .. MaxTicks

\* Wherever a window begins, no more calls of an instance pass in it than the
\* quota allows.
QuotaHolds ==
    \A p \in Profiles : \A i \in DOMAIN ever[p] :
        i + QuotaLimit \in DOMAIN ever[p] => ever[p][i + QuotaLimit] >= ever[p][i] + QuotaWindow

\* No call uses a permission the plugin does not declare, however the instance
\* came by its grants.
OnlyDeclaredUsed == \A c \in SandCalls : gate[c].at = "quota" => gate[c].granted \subseteq DeclaredPermissions

\* install_count is the number of instances, also when a profile installs twice.
InstallsCounted == installCount = Cardinality({p \in Profiles : inst[p].status # "none"})
=============================================================================
