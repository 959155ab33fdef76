------------------------------ MODULE MLSGroups ------------------------------
(***************************************************************************)
(* The MLS groups of one workspace: membership, epochs and the secret that  *)
(* seals messages, as requests of several members interleave on the         *)
(* database, and the event stream a member watches.  A secret is a number,  *)
(* drawn in increasing order; 0 is the NULL of a row older than the column. *)
(***************************************************************************)
EXTENDS Integers, FiniteSets, FiniteSetsExt

CONSTANTS
    Groups,      \* identities of group rows
    Members,     \* profiles
    MlsCalls     \* requests

ASSUME GroupsAssumption == IsFiniteSet(Groups)

VARIABLES
    group,       \* group -> [exists, epoch, secret]
    leaf,        \* group -> profile -> leaf index, -1 when no member
    drawn,       \* the last secret drawn
    sealed,      \* ciphertexts handed out
    mcall,       \* request -> where it stands and what it has read
    watcher,     \* the watching stream: "off", "subscribed", "live"
    told         \* membership changes the watcher has been told of

mlsVars == <<group, leaf, drawn, sealed, mcall, watcher, told>>

Existing == {g \in Groups : group[g].exists}
MembersOf(g) == {p \in Members : leaf[g][p] >= 0}
IdleCall == [pc |-> "idle", op |-> "none", profile |-> "none", grp |-> "none",
             epoch |-> 0, secret |-> 0, leafIndex |-> 0, mark |-> 0, cipher |-> "none"]
Membership == {"join", "leave"}

\* An empty table, or one row from before secrets were stored.
MlsInit ==
    /\ \/ group = [g \in Groups |-> [exists |-> FALSE, epoch |-> 0, secret |-> 0]]
          /\ leaf = [g \in Groups |-> [p \in Members |-> -1]]
       \/ \E old \in Groups, p \in Members :
             /\ group = [g \in Groups |-> [exists |-> g = old, epoch |-> 0, secret |-> 0]]
             /\ leaf = [g \in Groups |-> [q \in Members |-> IF g = old /\ q = p THEN 0 ELSE -1]]
    /\ drawn = 0 /\ sealed = {} /\ watcher = "off" /\ told = {}
    /\ mcall = [c \in MlsCalls |-> IdleCall]

To(c, pc) == mcall' = [mcall EXCEPT ![c].pc = pc]

-----------------------------------------------------------------------------
(* Membership *)

\* Row and creator are inserted in one transaction.
persistGroupAndCreator(g, p, secret) ==
    /\ group' = [group EXCEPT ![g] = [exists |-> TRUE, epoch |-> 0, secret |-> secret]]
    /\ leaf' = [leaf EXCEPT ![g] = [q \in Members |-> IF q = p THEN 0 ELSE -1]]

\* Nothing keeps a workspace from having a second group.
CreateGroup(c, p) ==
    \E g \in Groups \ Existing :
        /\ mcall[c].pc = "idle"
        /\ drawn' = drawn + 1
        /\ persistGroupAndCreator(g, p, drawn')
        /\ mcall' = [mcall EXCEPT ![c] = [IdleCall EXCEPT !.pc = "broadcast", !.op = "create", !.profile = p, !.grp = g]]
        /\ UNCHANGED <<sealed, watcher, told>>

\* What a request does with the row: join adds a member, leave and removal
\* delete one, and messages ask for membership.
FirstStep(op) == CASE op = "join" -> "leaf" [] op = "leave" -> "remove" [] OTHER -> "member"

\* Every other request starts by reading the row of the workspace: one of them,
\* in no stated order.
GetByWorkspace(c, op, p) ==
    \E g \in Existing :
        /\ mcall[c].pc = "idle"
        /\ mcall' = [mcall EXCEPT ![c] = [IdleCall EXCEPT
              !.pc = FirstStep(op),
              !.op = op, !.profile = p, !.grp = g, !.epoch = group[g].epoch, !.secret = group[g].secret]]
        /\ UNCHANGED <<group, leaf, drawn, sealed, watcher, told>>

\* Join: the next leaf is one past the largest ...
NextLeaf(c) ==
    /\ mcall[c].pc = "leaf"
    /\ mcall' = [mcall EXCEPT ![c].pc = "add", ![c].leafIndex = Max({leaf[mcall[c].grp][p] : p \in Members}) + 1]
    /\ UNCHANGED <<group, leaf, drawn, sealed, watcher, told>>

\* ... and the insert keeps the leaf of one who is a member already, or fails
\* when another member has taken the leaf since.
addMLSMember(c) ==
    LET g == mcall[c].grp  p == mcall[c].profile  l == mcall[c].leafIndex IN
    /\ mcall[c].pc = "add"
    /\ IF leaf[g][p] < 0 /\ \E q \in Members : leaf[g][q] = l
       THEN To(c, "error") /\ UNCHANGED <<leaf, drawn>>
       ELSE /\ leaf' = [leaf EXCEPT ![g][p] = IF @ < 0 THEN l ELSE @]
            /\ drawn' = drawn + 1
            /\ mcall' = [mcall EXCEPT ![c].pc = "advance", ![c].secret = drawn', ![c].mark = drawn']
    /\ UNCHANGED <<group, sealed, watcher, told>>

\* Leave, and removal of another member: deletes the row, then draws a secret.
RemoveLeaf(c) ==
    LET g == mcall[c].grp  p == mcall[c].profile IN
    /\ mcall[c].pc = "remove"
    /\ IF leaf[g][p] < 0
       THEN To(c, "error") /\ UNCHANGED <<leaf, drawn>>
       ELSE /\ leaf' = [leaf EXCEPT ![g][p] = -1]
            /\ drawn' = drawn + 1
            /\ mcall' = [mcall EXCEPT ![c].pc = "advance", ![c].secret = drawn', ![c].mark = drawn']
    /\ UNCHANGED <<group, sealed, watcher, told>>

\* Mutant of AdvanceEpochIfCurrent: UpdateEpoch, which does not compare.
AdvanceEpoch(c) ==
    LET g == mcall[c].grp IN
    /\ mcall[c].pc = "advance"
    /\ group' = [group EXCEPT ![g].epoch = mcall[c].epoch + 1, ![g].secret = mcall[c].secret]
    /\ To(c, "broadcast")
    /\ UNCHANGED <<leaf, drawn, sealed, watcher, told>>

\* The epoch moves by one from the value the request read, with the secret it
\* drew; when another request was faster it is an error, and the change of
\* membership stays.
AdvanceEpochIfCurrent(c) ==
    LET g == mcall[c].grp IN
    /\ mcall[c].pc = "advance"
    /\ IF group[g].epoch = mcall[c].epoch
       THEN group' = [group EXCEPT ![g].epoch = @ + 1, ![g].secret = mcall[c].secret] /\ To(c, "broadcast")
       ELSE To(c, "conflict") /\ UNCHANGED group
    /\ UNCHANGED <<leaf, drawn, sealed, watcher, told>>

\* The bridge tells the subscribers of a change that succeeded, then answers.
broadcast(c) ==
    /\ mcall[c].pc = "broadcast"
    /\ told' = IF watcher = "off" THEN told ELSE told \cup {c}
    /\ To(c, "done")
    /\ UNCHANGED <<group, leaf, drawn, sealed, watcher>>

-----------------------------------------------------------------------------
(* Messages *)

\* GetByProfile: only members seal and open; an opener names the ciphertext,
\* which has to be of the epoch it read.
CheckMember(c) ==
    LET m == mcall[c] IN
    /\ m.pc = "member"
    /\ \/ m.profile \notin MembersOf(m.grp) /\ To(c, "error")
       \/ /\ m.profile \in MembersOf(m.grp)
          /\ To(c, IF m.secret = 0 THEN "backfill" ELSE m.op)
    /\ UNCHANGED <<group, leaf, drawn, sealed, watcher, told>>

\* Mutant of SetGroupSecretIfAbsent: without IS NULL.
SetGroupSecret(c) ==
    /\ mcall[c].pc = "backfill"
    /\ drawn' = drawn + 1
    /\ group' = [group EXCEPT ![mcall[c].grp].secret = drawn']
    /\ To(c, "reread")
    /\ UNCHANGED <<leaf, sealed, watcher, told>>

\* A row without a secret gets one, once.
SetGroupSecretIfAbsent(c) ==
    LET g == mcall[c].grp IN
    /\ mcall[c].pc = "backfill"
    /\ drawn' = drawn + 1
    /\ group' = [group EXCEPT ![g].secret = IF @ = 0 THEN drawn' ELSE @]
    /\ To(c, "reread")
    /\ UNCHANGED <<leaf, sealed, watcher, told>>

\* What was stored is read again, by workspace.
groupKeyMaterial(c) ==
    \E g \in Existing :
        /\ mcall[c].pc = "reread"
        /\ mcall' = [mcall EXCEPT ![c].secret = group[g].secret,
                                  ![c].pc = IF group[g].secret = 0 THEN "error" ELSE mcall[c].op]
        /\ UNCHANGED <<group, leaf, drawn, sealed, watcher, told>>

\* The message is sealed under the secret, for the epoch read at the start.
Encrypt(c) ==
    LET m == mcall[c] IN
    /\ m.pc = "seal"
    /\ sealed' = sealed \cup {[grp |-> m.grp, epoch |-> m.epoch, secret |-> m.secret]}
    /\ To(c, "done")
    /\ UNCHANGED <<group, leaf, drawn, watcher, told>>

\* A ciphertext of the epoch read opens under its group and secret only.
Decrypt(c) ==
    LET m == mcall[c] IN
    /\ m.pc = "open"
    /\ To(c, IF m.cipher = [grp |-> m.grp, epoch |-> m.epoch, secret |-> m.secret] THEN "done" ELSE "failed")
    /\ UNCHANGED <<group, leaf, drawn, sealed, watcher, told>>

\* Decrypt's start: the ciphertext's epoch has to be the row's.
OpenBegin(c, p) ==
    \E g \in Existing, x \in sealed :
        /\ mcall[c].pc = "idle" /\ x.epoch = group[g].epoch
        /\ mcall' = [mcall EXCEPT ![c] = [IdleCall EXCEPT !.pc = "member", !.op = "open", !.profile = p,
              !.grp = g, !.epoch = group[g].epoch, !.secret = group[g].secret, !.cipher = x]]
        /\ UNCHANGED <<group, leaf, drawn, sealed, watcher, told>>

-----------------------------------------------------------------------------
(* The event stream *)

\* The stream subscribes to the hub ...
MLSEvents ==
    /\ watcher = "off" /\ watcher' = "subscribed"
    /\ UNCHANGED <<group, leaf, drawn, sealed, mcall, told>>

\* Mutant of sendWelcome: no state of the group is sent.
WelcomeEmpty ==
    /\ watcher = "subscribed" /\ watcher' = "live"
    /\ UNCHANGED <<group, leaf, drawn, sealed, mcall, told>>

\* ... and then the welcome carries the group's state, with every change of
\* membership written so far.
sendWelcome ==
    /\ watcher = "subscribed" /\ watcher' = "live"
    /\ told' = told \cup {c \in MlsCalls : mcall[c].op \in Membership \cup {"create"} /\ mcall[c].pc \in {"advance", "broadcast", "done"}}
    /\ UNCHANGED <<group, leaf, drawn, sealed, mcall>>

MlsNext ==
    \/ \E c \in MlsCalls :
         \/ \E p \in Members : CreateGroup(c, p) \/ OpenBegin(c, p) \/ \E op \in Membership \cup {"seal"} : GetByWorkspace(c, op, p)
         \/ NextLeaf(c) \/ addMLSMember(c) \/ RemoveLeaf(c) \/ AdvanceEpochIfCurrent(c) \/ broadcast(c)
         \/ CheckMember(c) \/ SetGroupSecretIfAbsent(c) \/ groupKeyMaterial(c) \/ Encrypt(c) \/ Decrypt(c)
    \/ MLSEvents \/ sendWelcome

MlsSpec == MlsInit /\ [][MlsNext]_mlsVars

-----------------------------------------------------------------------------
MlsTypeOK ==
    /\ group \in [Groups -> [exists : BOOLEAN, epoch : Nat, secret : 0 .. drawn]]
    /\ leaf \in [Groups -> [Members -> Int]]
    /\ told \subseteq MlsCalls

\* While the workspace has one group, a ciphertext of the epoch a member reads
\* opens: requests that give an old row its secret, and ones that renew it,
\* leave every epoch with one secret.
EpochOpens == Cardinality(Existing) = 1 => \A c \in MlsCalls : mcall[c].pc # "failed"

\* Once a change of membership is answered, the secret in use was drawn after
\* it: a request that read the group before cannot bring an older one back.
SecretRenewed ==
    \A c \in MlsCalls : mcall[c].op \in Membership /\ mcall[c].pc \in {"broadcast", "done"} =>
        group[mcall[c].grp].secret >= mcall[c].mark

\* A live stream has been told of every membership change that was answered,
\* by the welcome or by an event.
NoChangeMissed ==
    watcher = "live" => \A c \in MlsCalls : mcall[c].pc = "done" /\ mcall[c].op \in Membership \cup {"create"} => c \in told

\* What T1.7-mls-encryption.md says of removals: a member who was removed cannot read
\* new messages, because the removal renews the secret.
RemovalRenews ==
    \A c \in MlsCalls : mcall[c].op = "leave" /\ mcall[c].pc \in {"done", "conflict"} =>
        group[mcall[c].grp].secret >= mcall[c].mark
=============================================================================
