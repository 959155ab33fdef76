----------------------------- MODULE Workspaces -----------------------------
(***************************************************************************)
(* Workspaces, their members and one-time invitations.  A request checks   *)
(* the caller's rights with one statement and writes with another, without *)
(* a transaction, so that the steps of several requests interleave and any *)
(* of them may fail half way.                                              *)
(***************************************************************************)
EXTENDS Integers, FiniteSets

CONSTANTS
    Users,          \* the accounts; any of them may own a workspace
    WorkspaceIDs,   \* the workspaces that may ever exist
    InvitationIDs,  \* the invitations that may ever be generated
    WsRequests      \* the requests that may run at the same time

ASSUME WorkspacesAssumption == "nobody" \notin Users /\ "none" \notin WorkspaceIDs

RoleViewer == 1
RoleEditor == 2
RoleAdmin  == 3

VARIABLES
    workspaces,     \* workspace -> its row: state, owner, description
    members,        \* the rows of workspace_members
    invitations,    \* invitation -> its row, and who joined with it
    wsCall          \* request -> what it is about to write

wsVars == <<workspaces, members, invitations, wsCall>>

WsIdle == [pc |-> "idle", user |-> "nobody", ws |-> "none", target |-> "nobody",
           role |-> 0, inv |-> 0, descr |-> 0, sent |-> FALSE]

Exists(w) == workspaces[w].state = "live"

Owner(w) == workspaces[w].owner

IsMember(w, u) == \E m \in members : m.ws = w /\ m.user = u

IsAdmin(w, u) == [ws |-> w, user |-> u, role |-> RoleAdmin] \in members

Without(w, u) == {m \in members : ~(m.ws = w /\ m.user = u)}

WorkspacesInit ==
    /\ workspaces = [w \in WorkspaceIDs |->
                       [state |-> "absent", owner |-> "nobody", descr |-> 0]]
    /\ members = {}
    /\ invitations = [i \in InvitationIDs |-> [state |-> "none", ws |-> "none", by |-> {}]]
    /\ wsCall = [c \in WsRequests |-> WsIdle]

WsBegin(c, r) == wsCall[c].pc = "idle" /\ wsCall' = [wsCall EXCEPT ![c] = r]

WsEnd(c) == wsCall' = [wsCall EXCEPT ![c] = WsIdle]

-----------------------------------------------------------------------------
(* Creating a workspace: the row, then the owner's membership *)

CreateWorkspace(c, u, w) ==
    /\ workspaces[w].state = "absent"
    /\ workspaces' = [workspaces EXCEPT ![w] = [state |-> "live", owner |-> u, descr |-> 0]]
    /\ WsBegin(c, [WsIdle EXCEPT !.pc = "addowner", !.user = u, !.ws = w])
    /\ UNCHANGED <<members, invitations>>

AddOwner(c) ==
    LET q == wsCall[c] IN
    /\ q.pc = "addowner"
    /\ members' = members \cup {[ws |-> q.ws, user |-> q.user, role |-> RoleAdmin]}
    /\ WsEnd(c)
    /\ UNCHANGED <<workspaces, invitations>>

\* A statement fails, or the process stops: what was written stays.
WsFail(c) ==
    /\ wsCall[c].pc # "idle"
    /\ WsEnd(c)
    /\ UNCHANGED <<workspaces, members, invitations>>

-----------------------------------------------------------------------------
(* Invitations *)

GenerateInvitation(c, u, w) ==
    /\ IsAdmin(w, u)
    /\ WsBegin(c, [WsIdle EXCEPT !.pc = "invite", !.user = u, !.ws = w])
    /\ UNCHANGED <<workspaces, members, invitations>>

CreateInvitation(c, i) ==
    /\ wsCall[c].pc = "invite" /\ invitations[i].state = "none"
    /\ IF Exists(wsCall[c].ws)
       THEN invitations' = [invitations EXCEPT ![i] = [state |-> "open", ws |-> wsCall[c].ws, by |-> {}]]
       ELSE UNCHANGED invitations
    /\ WsEnd(c)
    /\ UNCHANGED <<workspaces, members>>

\* Seven days pass.
ExpireInvitation(i) ==
    /\ invitations[i].state = "open"
    /\ invitations' = [invitations EXCEPT ![i].state = "expired"]
    /\ UNCHANGED <<workspaces, members, wsCall>>

\* Mutant of JoinWorkspace: the token of another workspace is accepted.
JoinAnyWorkspace(c, u, w, i) ==
    /\ invitations[i].state = "open"
    /\ WsBegin(c, [WsIdle EXCEPT !.pc = "consume", !.user = u, !.ws = w, !.inv = i])
    /\ UNCHANGED <<workspaces, members, invitations>>

JoinWorkspace(c, u, w, i) ==
    /\ invitations[i].state = "open" /\ invitations[i].ws = w
    /\ WsBegin(c, [WsIdle EXCEPT !.pc = "consume", !.user = u, !.ws = w, !.inv = i])
    /\ UNCHANGED <<workspaces, members, invitations>>

\* Mutant of ConsumeInvitation: the UPDATE does not ask for used = false.
ConsumeAgain(c) ==
    LET i == wsCall[c].inv IN
    /\ wsCall[c].pc = "consume"
    /\ invitations' = [invitations EXCEPT ![i].state = "used"]
    /\ wsCall' = [wsCall EXCEPT ![c].pc = "join"]
    /\ UNCHANGED <<workspaces, members>>

\* UPDATE ... WHERE used = false; the expiry is not looked at again, and the
\* row may be gone with its workspace.
ConsumeInvitation(c) ==
    LET i == wsCall[c].inv IN
    /\ wsCall[c].pc = "consume"
    /\ IF invitations[i].state \in {"open", "expired"}
       THEN /\ invitations' = [invitations EXCEPT ![i].state = "used"]
            /\ wsCall' = [wsCall EXCEPT ![c].pc = "join"]
       ELSE UNCHANGED invitations /\ WsEnd(c)
    /\ UNCHANGED <<workspaces, members>>

\* Mutant of AddMember: no primary key on (workspace, user).
AddMemberTwice(c) ==
    LET q == wsCall[c] IN
    /\ q.pc = "join"
    /\ members' = members \cup {[ws |-> q.ws, user |-> q.user, role |-> RoleEditor]}
    /\ invitations' = [invitations EXCEPT ![q.inv].by = @ \cup {<<c, q.user>>}]
    /\ WsEnd(c)
    /\ UNCHANGED workspaces

\* The insert fails for a deleted workspace and for a member.
AddMember(c) ==
    LET q == wsCall[c] IN
    /\ q.pc = "join"
    /\ IF Exists(q.ws) /\ ~IsMember(q.ws, q.user)
       THEN /\ members' = members \cup {[ws |-> q.ws, user |-> q.user, role |-> RoleEditor]}
            /\ invitations' = [invitations EXCEPT ![q.inv].by = @ \cup {<<c, q.user>>}]
       ELSE UNCHANGED <<members, invitations>>
    /\ WsEnd(c)
    /\ UNCHANGED workspaces

-----------------------------------------------------------------------------
(* Members *)

LeaveWorkspace(c, u, w) ==
    /\ Exists(w) /\ Owner(w) # u
    /\ WsBegin(c, [WsIdle EXCEPT !.pc = "remove", !.user = u, !.ws = w, !.target = u])
    /\ UNCHANGED <<workspaces, members, invitations>>

\* Mutant of MayManage: the owner is a member like any other.
MayManageAll(w, u, target) == Exists(w) /\ IsAdmin(w, u)

\* The target is not the owner and the caller is an admin, when asked.
MayManage(w, u, target) == Exists(w) /\ Owner(w) # target /\ IsAdmin(w, u)

RemoveMember(c, u, w, target) ==
    /\ MayManage(w, u, target)
    /\ WsBegin(c, [WsIdle EXCEPT !.pc = "remove", !.user = u, !.ws = w, !.target = target])
    /\ UNCHANGED <<workspaces, members, invitations>>

DeleteMember(c) ==
    LET q == wsCall[c] IN
    /\ q.pc = "remove"
    /\ members' = Without(q.ws, q.target)
    /\ WsEnd(c)
    /\ UNCHANGED <<workspaces, invitations>>

UpdateMemberRole(c, u, w, target, role) ==
    /\ MayManage(w, u, target)
    /\ WsBegin(c, [WsIdle EXCEPT !.pc = "role", !.user = u, !.ws = w, !.target = target, !.role = role])
    /\ UNCHANGED <<workspaces, members, invitations>>

WriteRole(c) ==
    LET q == wsCall[c] IN
    /\ q.pc = "role"
    /\ members' = IF IsMember(q.ws, q.target)
                  THEN Without(q.ws, q.target) \cup {[ws |-> q.ws, user |-> q.target, role |-> q.role]}
                  ELSE members
    /\ WsEnd(c)
    /\ UNCHANGED <<workspaces, invitations>>

-----------------------------------------------------------------------------
(* The workspace row *)

\* PATCH: the handler reads the row, fills in what the body leaves out and
\* checks the caller's role; the description is not among what it read.  Name,
\* tree and time limit are left out: they are filled in from what was read.
UpdateWorkspace(c, u, w, sent) ==
    /\ Exists(w) /\ IsAdmin(w, u)
    /\ WsBegin(c, [WsIdle EXCEPT !.pc = "patch", !.user = u, !.ws = w, !.sent = sent,
                              !.descr = IF sent THEN 1 ELSE 0])
    /\ UNCHANGED <<workspaces, members, invitations>>

WriteWorkspace(c) ==
    LET q == wsCall[c] IN
    /\ q.pc = "patch"
    /\ workspaces' = IF Exists(q.ws)
                     THEN [workspaces EXCEPT ![q.ws].descr = q.descr]
                     ELSE workspaces
    /\ WsEnd(c)
    /\ UNCHANGED <<members, invitations>>

DeleteWorkspace(c, u, w) ==
    /\ IsAdmin(w, u)
    /\ WsBegin(c, [WsIdle EXCEPT !.pc = "delete", !.user = u, !.ws = w])
    /\ UNCHANGED <<workspaces, members, invitations>>

\* Members and invitations go with the row (ON DELETE CASCADE).
DropWorkspace(c) ==
    LET w == wsCall[c].ws IN
    /\ wsCall[c].pc = "delete"
    /\ workspaces' = [workspaces EXCEPT ![w].state = "deleted"]
    /\ members' = {m \in members : m.ws # w}
    /\ invitations' = [i \in InvitationIDs |->
          IF invitations[i].ws = w THEN [invitations[i] EXCEPT !.state = "gone"] ELSE invitations[i]]
    /\ WsEnd(c)

-----------------------------------------------------------------------------
WsRequestNext(c) ==
    \/ \E u \in Users, w \in WorkspaceIDs :
          \/ CreateWorkspace(c, u, w) \/ GenerateInvitation(c, u, w)
          \/ LeaveWorkspace(c, u, w) \/ DeleteWorkspace(c, u, w)
          \/ \E i \in InvitationIDs : JoinWorkspace(c, u, w, i)
          \/ \E t \in Users : \/ RemoveMember(c, u, w, t)
                              \/ \E r \in {RoleViewer, RoleAdmin} : UpdateMemberRole(c, u, w, t, r)
          \/ \E s \in BOOLEAN : UpdateWorkspace(c, u, w, s)
    \/ \E i \in InvitationIDs : CreateInvitation(c, i)
    \/ AddOwner(c) \/ ConsumeInvitation(c) \/ AddMember(c) \/ DeleteMember(c) \/ WriteRole(c)
    \/ WriteWorkspace(c) \/ DropWorkspace(c) \/ WsFail(c)

WorkspacesNext ==
    \/ \E c \in WsRequests : WsRequestNext(c)
    \/ \E i \in InvitationIDs : ExpireInvitation(i)

WorkspacesSpec == WorkspacesInit /\ [][WorkspacesNext]_wsVars

-----------------------------------------------------------------------------
WorkspacesTypeOK ==
    /\ \A w \in WorkspaceIDs : workspaces[w].state \in {"absent", "live", "deleted"}
    /\ \A m \in members : /\ workspaces[m.ws].state = "live"
                          /\ m.role \in {RoleViewer, RoleEditor, RoleAdmin}
    /\ \A m, n \in members : m.ws = n.ws /\ m.user = n.user => m = n

\* An invitation admits one person once, however many requests race with its
\* token, and only while its workspace exists.
OneJoinPerInvitation ==
    \A i \in InvitationIDs :
        /\ Cardinality(invitations[i].by) <= 1
        /\ invitations[i].by # {} => invitations[i].state \in {"used", "gone"}

\* Whoever is a member without owning the workspace joined it with an
\* invitation of that workspace.
OnlyInvitedJoin ==
    \A m \in members :
        \/ m.user = Owner(m.ws)
        \/ \E i \in InvitationIDs : invitations[i].ws = m.ws /\ \E j \in invitations[i].by : j[2] = m.user

\* No request of other admins, however stale the rights it checked, takes the
\* owner's admin role away while the workspace exists.
OwnerStaysAdmin ==
    [][\A w \in WorkspaceIDs : IsAdmin(w, Owner(w)) /\ Exists(w)' => IsAdmin(w, Owner(w))']_wsVars

\* A PATCH applies "partial updates": a field the body leaves out keeps the
\* value it has.
OmittedFieldKept ==
    [][\A c \in WsRequests :
          WriteWorkspace(c) /\ ~wsCall[c].sent =>
              \A w \in WorkspaceIDs : workspaces'[w].descr = workspaces[w].descr]_wsVars
=============================================================================
