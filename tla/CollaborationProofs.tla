------------------------- MODULE CollaborationProofs -------------------------
(***************************************************************************)
(* Proofs about what users share: workspaces, access to trees, topics, rows *)
(* of trees, cards, feedback and files.  Each part has an inductive         *)
(* invariant that says what a request under way has checked and may still   *)
(* rely on; the last section carries the results over to the specification  *)
(* that puts the parts side by side.                                        *)
(***************************************************************************)
EXTENDS MCCollaboration, FiniteSetTheorems, TLAPS

-----------------------------------------------------------------------------
(* Workspaces *)

WsRows == [state : {"absent", "live", "deleted"}, owner : Users \cup {"nobody"}, descr : {0, 1}]

WsMemberRows == [ws : WorkspaceIDs, user : Users, role : {RoleViewer, RoleEditor, RoleAdmin}]

WsInvitations == [state : {"none", "open", "expired", "used", "gone"},
                  ws : WorkspaceIDs \cup {"none"}, by : SUBSET (WsRequests \X Users)]

WsCallRows == [pc : {"idle", "addowner", "invite", "consume", "join", "remove", "role", "patch", "delete"},
               user : Users \cup {"nobody"}, ws : WorkspaceIDs \cup {"none"},
               target : Users \cup {"nobody"}, role : 0 .. 3, inv : InvitationIDs \cup {0},
               descr : {0, 1}, sent : BOOLEAN]

\* The states a row, an invitation and a request under way can be in.
WsTypes ==
  /\ workspaces \in [WorkspaceIDs -> WsRows] /\ members \subseteq WsMemberRows
  /\ invitations \in [InvitationIDs -> WsInvitations] /\ wsCall \in [WsRequests -> WsCallRows]

\* What a request under way has checked and may rely on.
WsCallOK(q) ==
  /\ q.pc # "idle" => /\ q.user \in Users /\ q.ws \in WorkspaceIDs
                      /\ workspaces[q.ws].state # "absent"
  /\ q.pc \in {"remove", "role"} => q.target \in Users /\ q.target # Owner(q.ws)
  /\ q.pc = "role" => q.role \in {RoleViewer, RoleAdmin}
  /\ q.pc \in {"consume", "join"} => q.inv \in InvitationIDs /\ invitations[q.inv].ws = q.ws
  /\ q.pc = "join" => invitations[q.inv].state \in {"used", "gone"} /\ invitations[q.inv].by = {}
  /\ q.pc = "addowner" => /\ Exists(q.ws) /\ Owner(q.ws) = q.user
                          /\ \A m \in members : m.ws # q.ws
                          /\ \A i \in InvitationIDs : invitations[i].ws # q.ws

WsCallsOK == \A c \in WsRequests : WsCallOK(wsCall[c])

\* Requests that are never under way together: two that consumed one
\* invitation, and one that made a workspace with one that found an admin there.
WsCallsApart ==
  \A c, d \in WsRequests : c # d =>
    /\ wsCall[c].pc = "join" /\ wsCall[d].pc = "join" => wsCall[c].inv # wsCall[d].inv
    /\ wsCall[c].pc = "addowner" /\ wsCall[d].pc \in {"addowner", "invite", "delete"}
          => wsCall[c].ws # wsCall[d].ws

\* What an invitation row may say.
WsInviteOK(v) ==
  /\ v.ws \in WorkspaceIDs => workspaces[v.ws].state # "absent"
  /\ v.state \notin {"used", "gone"} => v.by = {}
  /\ v.state = "none" <=> v.ws = "none"
  /\ v.by = {} \/ \E x \in WsRequests \X Users : v.by = {x}

WsInvitesOK == \A i \in InvitationIDs : WsInviteOK(invitations[i])

WsInv ==
  /\ WsTypes /\ WorkspacesTypeOK /\ OnlyInvitedJoin
  /\ WsCallsOK /\ WsCallsApart /\ WsInvitesOK

\* Who writes the workspaces' rows.
LEMMA WsRowWriters ==
  ASSUME [WorkspacesNext]_wsVars
  PROVE  \/ UNCHANGED workspaces
         \/ \E c \in WsRequests : \/ WriteWorkspace(c) \/ DropWorkspace(c)
                                  \/ \E u \in Users, w \in WorkspaceIDs : CreateWorkspace(c, u, w)
<1>1. ASSUME NEW c \in WsRequests, WsRequestNext(c)
      PROVE  \/ UNCHANGED workspaces \/ WriteWorkspace(c) \/ DropWorkspace(c)
             \/ \E u \in Users, w \in WorkspaceIDs : CreateWorkspace(c, u, w)
  BY <1>1, ZenonT(40) DEF WsRequestNext, AddOwner, WsFail, GenerateInvitation, CreateInvitation, JoinWorkspace,
     ConsumeInvitation, AddMember, LeaveWorkspace, RemoveMember, DeleteMember, UpdateMemberRole,
     WriteRole, UpdateWorkspace, DeleteWorkspace
<1>. QED
  BY <1>1 DEF WorkspacesNext, ExpireInvitation, wsVars

\* What may become of a workspace's row: it is created once, its owner stays,
\* and a deletion is final.
WsRowMoves(v, w) ==
  /\ w \in WsRows
  /\ v.state # "absent" => w.state # "absent" /\ w.owner = v.owner
  /\ v.state = "deleted" => w.state = "deleted"

LEMMA WsRowStep ==
  ASSUME WsInv, [WorkspacesNext]_wsVars, NEW x \in WorkspaceIDs
  PROVE  WsRowMoves(workspaces[x], workspaces'[x])
<1>. USE DEF WsRows, WsRowMoves
<1>a. workspaces \in [WorkspaceIDs -> WsRows] /\ workspaces[x] \in WsRows
  BY DEF WsInv, WsTypes
<1>1. ASSUME NEW c \in WsRequests, NEW u \in Users, NEW w \in WorkspaceIDs, CreateWorkspace(c, u, w)
      PROVE  WsRowMoves(workspaces[x], workspaces'[x])
  <2>1. \/ workspaces'[x] = workspaces[x]
        \/ /\ workspaces[x].state = "absent"
           /\ workspaces'[x] = [state |-> "live", owner |-> u, descr |-> 0]
    BY <1>1, <1>a DEF CreateWorkspace
  <2>. QED
    BY <2>1, <1>a
<1>2. ASSUME NEW c \in WsRequests, WriteWorkspace(c)
      PROVE  WsRowMoves(workspaces[x], workspaces'[x])
  <2>1. PICK n \in {0, 1} : \/ workspaces'[x] = workspaces[x]
                            \/ workspaces'[x] = [workspaces[x] EXCEPT !.descr = n]
    BY <1>2, <1>a DEF WriteWorkspace, WsCallRows, WsInv, WsTypes
  <2>. QED
    BY <2>1, <1>a
<1>3. ASSUME NEW c \in WsRequests, DropWorkspace(c)
      PROVE  WsRowMoves(workspaces[x], workspaces'[x])
  <2>1. \/ workspaces'[x] = workspaces[x]
        \/ /\ workspaces[x].state # "absent"
           /\ workspaces'[x] = [workspaces[x] EXCEPT !.state = "deleted"]
    BY <1>3, <1>a DEF DropWorkspace, WsInv, WsCallsOK, WsCallOK
  <2>. QED
    BY <2>1, <1>a
<1>4. CASE UNCHANGED workspaces
  BY <1>4, <1>a
<1>5. \/ UNCHANGED workspaces
      \/ \E c \in WsRequests : \/ WriteWorkspace(c) \/ DropWorkspace(c)
                               \/ \E u \in Users, w \in WorkspaceIDs : CreateWorkspace(c, u, w)
  BY WsRowWriters
<1>. QED
  BY <1>1, <1>2, <1>3, <1>4, <1>5

\* Who writes invitations.
LEMMA WsInviteWriters ==
  ASSUME [WorkspacesNext]_wsVars
  PROVE  \/ UNCHANGED invitations
         \/ \E i \in InvitationIDs : ExpireInvitation(i)
         \/ \E c \in WsRequests : \/ ConsumeInvitation(c) \/ AddMember(c) \/ DropWorkspace(c)
                                  \/ \E i \in InvitationIDs : CreateInvitation(c, i)
<1>1. ASSUME NEW c \in WsRequests, WsRequestNext(c)
      PROVE  \/ UNCHANGED invitations \/ ConsumeInvitation(c) \/ AddMember(c) \/ DropWorkspace(c)
             \/ \E i \in InvitationIDs : CreateInvitation(c, i)
  BY <1>1, ZenonT(40) DEF WsRequestNext, CreateWorkspace, AddOwner, WsFail, GenerateInvitation, JoinWorkspace,
     LeaveWorkspace, RemoveMember, DeleteMember, UpdateMemberRole, WriteRole, UpdateWorkspace,
     WriteWorkspace, DeleteWorkspace
<1>. QED
  BY <1>1 DEF WorkspacesNext, wsVars

\* What may become of an invitation: it stays in its workspace, a used one
\* stays used, and those it admitted are not forgotten.
WsInviteMoves(v, w) ==
  /\ w \in WsInvitations
  /\ v.state # "none" => w.state # "none" /\ w.ws = v.ws /\ v.by \subseteq w.by
  /\ v.state \in {"used", "gone"} => w.state \in {"used", "gone"}

LEMMA WsInviteStep ==
  ASSUME WsInv, [WorkspacesNext]_wsVars, NEW x \in InvitationIDs
  PROVE  WsInviteMoves(invitations[x], invitations'[x])
<1>. USE DEF WsInvitations, WsInviteMoves
<1>a. invitations \in [InvitationIDs -> WsInvitations] /\ invitations[x] \in WsInvitations
  BY DEF WsInv, WsTypes
<1>b. wsCall \in [WsRequests -> WsCallRows] /\ WsCallsOK
  BY DEF WsInv, WsTypes
<1>1. ASSUME NEW c \in WsRequests, NEW i \in InvitationIDs, CreateInvitation(c, i)
      PROVE  WsInviteMoves(invitations[x], invitations'[x])
  <2>1. \/ invitations'[x] = invitations[x]
        \/ /\ invitations[x].state = "none"
           /\ invitations'[x] = [state |-> "open", ws |-> wsCall[c].ws, by |-> {}]
           /\ wsCall[c].ws \in WorkspaceIDs
    BY <1>1, <1>a, <1>b DEF CreateInvitation, WsCallsOK, WsCallOK
  <2>. QED
    BY <2>1, <1>a
<1>2. ASSUME NEW i \in InvitationIDs, ExpireInvitation(i)
      PROVE  WsInviteMoves(invitations[x], invitations'[x])
  <2>1. \/ invitations'[x] = invitations[x]
        \/ /\ invitations[x].state = "open"
           /\ invitations'[x] = [invitations[x] EXCEPT !.state = "expired"]
    BY <1>2, <1>a, <1>b DEF ExpireInvitation
  <2>. QED
    BY <2>1, <1>a
<1>3. ASSUME NEW c \in WsRequests, ConsumeInvitation(c)
      PROVE  WsInviteMoves(invitations[x], invitations'[x])
  <2>1. \/ invitations'[x] = invitations[x]
        \/ /\ invitations[x].state \in {"open", "expired"}
           /\ invitations'[x] = [invitations[x] EXCEPT !.state = "used"]
    BY <1>3, <1>a, <1>b DEF ConsumeInvitation
  <2>. QED
    BY <2>1, <1>a
<1>4. ASSUME NEW c \in WsRequests, AddMember(c)
      PROVE  WsInviteMoves(invitations[x], invitations'[x])
  <2>. DEFINE p == <<c, wsCall[c].user>>
  <2>1. \/ invitations'[x] = invitations[x]
        \/ invitations'[x] = [invitations[x] EXCEPT !.by = @ \cup {p}]
    BY <1>4, <1>a, <1>b DEF AddMember
  <2>2. p \in WsRequests \X Users
    BY <1>4, <1>b DEF AddMember, WsCallsOK, WsCallOK
  <2>. HIDE DEF p
  <2>3. invitations[x].by \cup {p} \in SUBSET (WsRequests \X Users)
    BY <2>2, <1>a
  <2>. QED
    BY <2>1, <2>3, <1>a
<1>5. ASSUME NEW c \in WsRequests, DropWorkspace(c)
      PROVE  WsInviteMoves(invitations[x], invitations'[x])
  <2>1. \/ invitations'[x] = invitations[x]
        \/ /\ invitations[x].state # "none"
           /\ invitations'[x] = [invitations[x] EXCEPT !.state = "gone"]
    BY <1>5, <1>a, <1>b, WorkspacesAssumption
    DEF DropWorkspace, WsInv, WsCallsOK, WsCallOK, WsInvitesOK, WsInviteOK
  <2>. QED
    BY <2>1, <1>a
<1>6. CASE UNCHANGED invitations
  BY <1>6, <1>a
<1>7. \/ UNCHANGED invitations
      \/ \E i \in InvitationIDs : ExpireInvitation(i)
      \/ \E c \in WsRequests : \/ ConsumeInvitation(c) \/ AddMember(c) \/ DropWorkspace(c)
                               \/ \E i \in InvitationIDs : CreateInvitation(c, i)
  BY WsInviteWriters
<1>. QED
  BY <1>1, <1>2, <1>3, <1>4, <1>5, <1>6, <1>7

\* A request that begins or ends, or goes on to its second write, is typed.
LEMMA WsCallTypes ==
  ASSUME WsInv, [WorkspacesNext]_wsVars
  PROVE  wsCall' \in [WsRequests -> WsCallRows]
<1>a. WsIdle \in WsCallRows
  BY DEF WsIdle, WsCallRows
<1>b. wsCall \in [WsRequests -> WsCallRows]
  BY DEF WsInv, WsTypes
<1>1. ASSUME NEW c \in WsRequests, NEW u \in Users, NEW w \in WorkspaceIDs, CreateWorkspace(c, u, w)
      PROVE wsCall' \in [WsRequests -> WsCallRows]
  <2>1. wsCall' = [wsCall EXCEPT ![c] = [WsIdle EXCEPT !.pc = "addowner", !.user = u, !.ws = w]]
    BY <1>1, <1>b DEF CreateWorkspace, WsBegin
  <2>2. [WsIdle EXCEPT !.pc = "addowner", !.user = u, !.ws = w] \in WsCallRows
    BY <1>a DEF WsCallRows
  <2>. QED
    BY <2>1, <2>2, <1>b
<1>2. ASSUME NEW c \in WsRequests, AddOwner(c) PROVE wsCall' \in [WsRequests -> WsCallRows]
  BY <1>2, <1>a, <1>b DEF AddOwner, WsEnd
<1>3. ASSUME NEW c \in WsRequests, WsFail(c) PROVE wsCall' \in [WsRequests -> WsCallRows]
  BY <1>3, <1>a, <1>b DEF WsFail, WsEnd
<1>4. ASSUME NEW c \in WsRequests, NEW u \in Users, NEW w \in WorkspaceIDs, GenerateInvitation(c, u, w)
      PROVE wsCall' \in [WsRequests -> WsCallRows]
  <2>1. wsCall' = [wsCall EXCEPT ![c] = [WsIdle EXCEPT !.pc = "invite", !.user = u, !.ws = w]]
    BY <1>4, <1>b DEF GenerateInvitation, WsBegin
  <2>2. [WsIdle EXCEPT !.pc = "invite", !.user = u, !.ws = w] \in WsCallRows
    BY <1>a DEF WsCallRows
  <2>. QED
    BY <2>1, <2>2, <1>b
<1>5. ASSUME NEW c \in WsRequests, NEW i \in InvitationIDs, CreateInvitation(c, i)
      PROVE wsCall' \in [WsRequests -> WsCallRows]
  BY <1>5, <1>a, <1>b DEF CreateInvitation, WsEnd
<1>6. ASSUME NEW i \in InvitationIDs, ExpireInvitation(i) PROVE wsCall' \in [WsRequests -> WsCallRows]
  BY <1>6, <1>b DEF ExpireInvitation
<1>7. ASSUME NEW c \in WsRequests, NEW u \in Users, NEW w \in WorkspaceIDs, NEW i \in InvitationIDs, JoinWorkspace(c, u, w, i)
      PROVE wsCall' \in [WsRequests -> WsCallRows]
  <2>1. wsCall' = [wsCall EXCEPT ![c] = [WsIdle EXCEPT !.pc = "consume", !.user = u, !.ws = w, !.inv = i]]
    BY <1>7, <1>b DEF JoinWorkspace, WsBegin
  <2>2. [WsIdle EXCEPT !.pc = "consume", !.user = u, !.ws = w, !.inv = i] \in WsCallRows
    BY <1>a DEF WsCallRows
  <2>. QED
    BY <2>1, <2>2, <1>b
<1>8. ASSUME NEW c \in WsRequests, ConsumeInvitation(c) PROVE wsCall' \in [WsRequests -> WsCallRows]
  <2>1. \/ wsCall' = [wsCall EXCEPT ![c] = WsIdle]
        \/ wsCall' = [wsCall EXCEPT ![c] = [wsCall[c] EXCEPT !.pc = "join"]]
    BY <1>8, <1>b DEF ConsumeInvitation, WsEnd
  <2>2. [wsCall[c] EXCEPT !.pc = "join"] \in WsCallRows
    BY <1>b DEF WsCallRows
  <2>. QED
    BY <2>1, <2>2, <1>a, <1>b
<1>9. ASSUME NEW c \in WsRequests, AddMember(c) PROVE wsCall' \in [WsRequests -> WsCallRows]
  BY <1>9, <1>a, <1>b DEF AddMember, WsEnd
<1>10. ASSUME NEW c \in WsRequests, NEW u \in Users, NEW w \in WorkspaceIDs, LeaveWorkspace(c, u, w)
      PROVE wsCall' \in [WsRequests -> WsCallRows]
  <2>1. wsCall' = [wsCall EXCEPT ![c] = [WsIdle EXCEPT !.pc = "remove", !.user = u, !.ws = w, !.target = u]]
    BY <1>10, <1>b DEF LeaveWorkspace, WsBegin
  <2>2. [WsIdle EXCEPT !.pc = "remove", !.user = u, !.ws = w, !.target = u] \in WsCallRows
    BY <1>a DEF WsCallRows
  <2>. QED
    BY <2>1, <2>2, <1>b
<1>11. ASSUME NEW c \in WsRequests, NEW u \in Users, NEW w \in WorkspaceIDs, NEW t \in Users, RemoveMember(c, u, w, t)
      PROVE wsCall' \in [WsRequests -> WsCallRows]
  <2>1. wsCall' = [wsCall EXCEPT ![c] = [WsIdle EXCEPT !.pc = "remove", !.user = u, !.ws = w, !.target = t]]
    BY <1>11, <1>b DEF RemoveMember, WsBegin
  <2>2. [WsIdle EXCEPT !.pc = "remove", !.user = u, !.ws = w, !.target = t] \in WsCallRows
    BY <1>a DEF WsCallRows
  <2>. QED
    BY <2>1, <2>2, <1>b
<1>12. ASSUME NEW c \in WsRequests, DeleteMember(c) PROVE wsCall' \in [WsRequests -> WsCallRows]
  BY <1>12, <1>a, <1>b DEF DeleteMember, Without, WsEnd
<1>13. ASSUME NEW c \in WsRequests, NEW u \in Users, NEW w \in WorkspaceIDs, NEW t \in Users,
             NEW n \in {RoleViewer, RoleAdmin}, UpdateMemberRole(c, u, w, t, n)
      PROVE wsCall' \in [WsRequests -> WsCallRows]
  <2>1. wsCall' = [wsCall EXCEPT ![c] = [WsIdle EXCEPT !.pc = "role", !.user = u, !.ws = w, !.target = t, !.role = n]]
    BY <1>13, <1>b DEF UpdateMemberRole, WsBegin
  <2>2. n \in 0 .. 3
    BY DEF RoleViewer, RoleAdmin
  <2>3. [WsIdle EXCEPT !.pc = "role", !.user = u, !.ws = w, !.target = t, !.role = n] \in WsCallRows
    BY <2>2, <1>a DEF WsCallRows
  <2>. QED
    BY <2>1, <2>3, <1>b
<1>14. ASSUME NEW c \in WsRequests, WriteRole(c) PROVE wsCall' \in [WsRequests -> WsCallRows]
  BY <1>14, <1>a, <1>b DEF WriteRole, Without, WsEnd
<1>15. ASSUME NEW c \in WsRequests, NEW u \in Users, NEW w \in WorkspaceIDs, NEW s \in BOOLEAN, UpdateWorkspace(c, u, w, s)
      PROVE wsCall' \in [WsRequests -> WsCallRows]
  <2>1. wsCall' = [wsCall EXCEPT ![c] = [WsIdle EXCEPT !.pc = "patch", !.user = u, !.ws = w, !.sent = s, !.descr = IF s THEN 1 ELSE 0]]
    BY <1>15, <1>b DEF UpdateWorkspace, WsBegin
  <2>2. [WsIdle EXCEPT !.pc = "patch", !.user = u, !.ws = w, !.sent = s, !.descr = IF s THEN 1 ELSE 0] \in WsCallRows
    BY <1>a DEF WsCallRows
  <2>. QED
    BY <2>1, <2>2, <1>b
<1>16. ASSUME NEW c \in WsRequests, WriteWorkspace(c) PROVE wsCall' \in [WsRequests -> WsCallRows]
  BY <1>16, <1>a, <1>b DEF WriteWorkspace, WsEnd
<1>17. ASSUME NEW c \in WsRequests, NEW u \in Users, NEW w \in WorkspaceIDs, DeleteWorkspace(c, u, w)
      PROVE wsCall' \in [WsRequests -> WsCallRows]
  <2>1. wsCall' = [wsCall EXCEPT ![c] = [WsIdle EXCEPT !.pc = "delete", !.user = u, !.ws = w]]
    BY <1>17, <1>b DEF DeleteWorkspace, WsBegin
  <2>2. [WsIdle EXCEPT !.pc = "delete", !.user = u, !.ws = w] \in WsCallRows
    BY <1>a DEF WsCallRows
  <2>. QED
    BY <2>1, <2>2, <1>b
<1>18. ASSUME NEW c \in WsRequests, DropWorkspace(c) PROVE wsCall' \in [WsRequests -> WsCallRows]
  BY <1>18, <1>a, <1>b DEF DropWorkspace, WsEnd
<1>19. CASE UNCHANGED wsVars
  BY <1>19, <1>b DEF wsVars
<1>. QED
  BY <1>1, <1>2, <1>3, <1>4, <1>5, <1>6, <1>7, <1>8, <1>9, <1>10, <1>11,
     <1>12, <1>13, <1>14, <1>15, <1>16, <1>17, <1>18, <1>19
  DEF WorkspacesNext, WsRequestNext

\* A member belongs to a workspace that exists, once.
LEMMA WsMembersStep == ASSUME WsInv, [WorkspacesNext]_wsVars PROVE WorkspacesTypeOK'
<1>. USE DEF WorkspacesTypeOK, WsEnd, Exists, IsMember
<1>a. WsTypes /\ WorkspacesTypeOK /\ WsCallsOK
  BY DEF WsInv
<1>b. \A x \in WorkspaceIDs : WsRowMoves(workspaces[x], workspaces'[x])
  BY WsRowStep
<1>1. ASSUME NEW c \in WsRequests, NEW u \in Users, NEW w \in WorkspaceIDs, CreateWorkspace(c, u, w)
      PROVE WorkspacesTypeOK'
  BY <1>1, <1>a, <1>b DEF CreateWorkspace, WsTypes, WsRows, WsMemberRows
<1>2. ASSUME NEW c \in WsRequests, AddOwner(c) PROVE WorkspacesTypeOK'
  BY <1>2, <1>a, <1>b DEF AddOwner, WsCallsOK, WsCallOK
<1>3. ASSUME NEW c \in WsRequests, WsFail(c) PROVE WorkspacesTypeOK'
  BY <1>3, <1>a, <1>b DEF WsFail
<1>4. ASSUME NEW c \in WsRequests, NEW u \in Users, NEW w \in WorkspaceIDs, GenerateInvitation(c, u, w)
      PROVE WorkspacesTypeOK'
  BY <1>4, <1>a, <1>b DEF GenerateInvitation, IsAdmin
<1>5. ASSUME NEW c \in WsRequests, NEW i \in InvitationIDs, CreateInvitation(c, i)
      PROVE WorkspacesTypeOK'
  BY <1>5, <1>a, <1>b DEF CreateInvitation
<1>6. ASSUME NEW i \in InvitationIDs, ExpireInvitation(i) PROVE WorkspacesTypeOK'
  BY <1>6, <1>a, <1>b DEF ExpireInvitation
<1>7. ASSUME NEW c \in WsRequests, NEW u \in Users, NEW w \in WorkspaceIDs, NEW i \in InvitationIDs, JoinWorkspace(c, u, w, i)
      PROVE WorkspacesTypeOK'
  BY <1>7, <1>a, <1>b DEF JoinWorkspace
<1>8. ASSUME NEW c \in WsRequests, ConsumeInvitation(c) PROVE WorkspacesTypeOK'
  BY <1>8, <1>a, <1>b DEF ConsumeInvitation
<1>9. ASSUME NEW c \in WsRequests, AddMember(c) PROVE WorkspacesTypeOK'
  BY <1>9, <1>a, <1>b DEF AddMember
<1>10. ASSUME NEW c \in WsRequests, NEW u \in Users, NEW w \in WorkspaceIDs, LeaveWorkspace(c, u, w)
      PROVE WorkspacesTypeOK'
  BY <1>10, <1>a, <1>b DEF LeaveWorkspace
<1>11. ASSUME NEW c \in WsRequests, NEW u \in Users, NEW w \in WorkspaceIDs, NEW t \in Users, RemoveMember(c, u, w, t)
      PROVE WorkspacesTypeOK'
  BY <1>11, <1>a, <1>b DEF RemoveMember, MayManage, IsAdmin
<1>12. ASSUME NEW c \in WsRequests, DeleteMember(c) PROVE WorkspacesTypeOK'
  BY <1>12, <1>a, <1>b DEF DeleteMember, Without
<1>13. ASSUME NEW c \in WsRequests, NEW u \in Users, NEW w \in WorkspaceIDs, NEW t \in Users,
             NEW n \in {RoleViewer, RoleAdmin}, UpdateMemberRole(c, u, w, t, n)
      PROVE WorkspacesTypeOK'
  BY <1>13, <1>a, <1>b DEF UpdateMemberRole, MayManage, IsAdmin
<1>14. ASSUME NEW c \in WsRequests, WriteRole(c) PROVE WorkspacesTypeOK'
  <2>1. wsCall[c].role \in {RoleViewer, RoleAdmin}
    BY <1>14, <1>a DEF WriteRole, WsCallsOK, WsCallOK
  <2>. QED
    BY <1>14, <1>a, <2>1 DEF WriteRole, Without
<1>15. ASSUME NEW c \in WsRequests, NEW u \in Users, NEW w \in WorkspaceIDs, NEW s \in BOOLEAN, UpdateWorkspace(c, u, w, s)
      PROVE WorkspacesTypeOK'
  BY <1>15, <1>a, <1>b DEF UpdateWorkspace, IsAdmin
<1>16. ASSUME NEW c \in WsRequests, WriteWorkspace(c) PROVE WorkspacesTypeOK'
  BY <1>16, <1>a, <1>b DEF WriteWorkspace
<1>17. ASSUME NEW c \in WsRequests, NEW u \in Users, NEW w \in WorkspaceIDs, DeleteWorkspace(c, u, w)
      PROVE WorkspacesTypeOK'
  BY <1>17, <1>a, <1>b DEF DeleteWorkspace, IsAdmin
<1>18. ASSUME NEW c \in WsRequests, DropWorkspace(c) PROVE WorkspacesTypeOK'
  BY <1>18, <1>a, <1>b DEF DropWorkspace
<1>19. CASE UNCHANGED wsVars
  BY <1>19, <1>a, <1>b DEF wsVars
<1>. QED
  BY <1>1, <1>2, <1>3, <1>4, <1>5, <1>6, <1>7, <1>8, <1>9, <1>10, <1>11,
     <1>12, <1>13, <1>14, <1>15, <1>16, <1>17, <1>18, <1>19
  DEF WorkspacesNext, WsRequestNext

\* Whoever is a member without owning the workspace has joined it: an invitation
\* keeps its workspace and whom it admitted, a role is only written for a member.
LEMMA WsInvitedStep == ASSUME WsInv, [WorkspacesNext]_wsVars PROVE OnlyInvitedJoin'
<1>. USE DEF OnlyInvitedJoin, Owner, IsMember
<1>a. WsTypes /\ WorkspacesTypeOK /\ OnlyInvitedJoin /\ WsCallsOK
  BY DEF WsInv
<1>b. \A x \in WorkspaceIDs : WsRowMoves(workspaces[x], workspaces'[x])
  BY WsRowStep
<1>c. \A m \in members : /\ m.ws \in WorkspaceIDs /\ m.user \in Users
                         /\ workspaces'[m.ws].owner = workspaces[m.ws].owner
  BY <1>a, <1>b DEF WsTypes, WsMemberRows, WorkspacesTypeOK, WsRowMoves
<1>d. \A i \in InvitationIDs, w \in WorkspaceIDs : invitations[i].ws = w =>
          invitations'[i].ws = w /\ invitations[i].by \subseteq invitations'[i].by
  BY <1>a, WsInviteStep, WorkspacesAssumption DEF WsInv, WsInvitesOK, WsInviteOK, WsInviteMoves
<1>e. ASSUME members' \subseteq members PROVE OnlyInvitedJoin'
  BY <1>a, <1>c, <1>d, <1>e
<1>1. ASSUME NEW c \in WsRequests, NEW u \in Users, NEW w \in WorkspaceIDs, CreateWorkspace(c, u, w)
      PROVE OnlyInvitedJoin'
  BY <1>1, <1>e DEF CreateWorkspace
<1>2. ASSUME NEW c \in WsRequests, AddOwner(c) PROVE OnlyInvitedJoin'
  <2>. DEFINE new == [ws |-> wsCall[c].ws, user |-> wsCall[c].user, role |-> RoleAdmin]
  <2>1. members' = members \cup {new} /\ workspaces' = workspaces
    BY <1>2 DEF AddOwner
  <2>2. new.user = workspaces[new.ws].owner
    BY <1>2, <1>a DEF AddOwner, WsCallsOK, WsCallOK
  <2>. HIDE DEF new
  <2>. QED
    BY <2>1, <2>2, <1>a, <1>c, <1>d
<1>3. ASSUME NEW c \in WsRequests, WsFail(c) PROVE OnlyInvitedJoin'
  BY <1>3, <1>e DEF WsFail
<1>4. ASSUME NEW c \in WsRequests, NEW u \in Users, NEW w \in WorkspaceIDs, GenerateInvitation(c, u, w)
      PROVE OnlyInvitedJoin'
  BY <1>4, <1>e DEF GenerateInvitation, IsAdmin
<1>5. ASSUME NEW c \in WsRequests, NEW i \in InvitationIDs, CreateInvitation(c, i)
      PROVE OnlyInvitedJoin'
  BY <1>5, <1>e DEF CreateInvitation
<1>6. ASSUME NEW i \in InvitationIDs, ExpireInvitation(i) PROVE OnlyInvitedJoin'
  BY <1>6, <1>e DEF ExpireInvitation
<1>7. ASSUME NEW c \in WsRequests, NEW u \in Users, NEW w \in WorkspaceIDs, NEW i \in InvitationIDs, JoinWorkspace(c, u, w, i)
      PROVE OnlyInvitedJoin'
  BY <1>7, <1>e DEF JoinWorkspace
<1>8. ASSUME NEW c \in WsRequests, ConsumeInvitation(c) PROVE OnlyInvitedJoin'
  BY <1>8, <1>e DEF ConsumeInvitation
<1>9. ASSUME NEW c \in WsRequests, AddMember(c) PROVE OnlyInvitedJoin'
  <2>. DEFINE q == wsCall[c]
              new == [ws |-> q.ws, user |-> q.user, role |-> RoleEditor]
  <2>1. CASE members' = members
    BY <2>1, <1>e
  <2>2. CASE members' # members
    <3>1. /\ members' = members \cup {new} /\ workspaces' = workspaces
          /\ invitations' = [invitations EXCEPT ![q.inv].by = @ \cup {<<c, q.user>>}]
      BY <1>9, <2>2 DEF AddMember
    <3>2. q.inv \in InvitationIDs /\ invitations[q.inv].ws = q.ws /\ q.ws \in WorkspaceIDs
      BY <1>9, <1>a DEF AddMember, WsCallsOK, WsCallOK
    <3>3. <<c, q.user>> \in invitations'[q.inv].by /\ invitations'[q.inv].ws = new.ws
      BY <3>1, <3>2, <1>a DEF WsTypes, WsInvitations
    <3>4. <<c, q.user>>[2] = new.user
      OBVIOUS
    <3>. HIDE DEF new, q
    <3>. QED
      BY <3>1, <3>2, <3>3, <3>4, <1>a, <1>c, <1>d
  <2>. QED
    BY <2>1, <2>2
<1>10. ASSUME NEW c \in WsRequests, NEW u \in Users, NEW w \in WorkspaceIDs, LeaveWorkspace(c, u, w)
      PROVE OnlyInvitedJoin'
  BY <1>10, <1>e DEF LeaveWorkspace
<1>11. ASSUME NEW c \in WsRequests, NEW u \in Users, NEW w \in WorkspaceIDs, NEW t \in Users, RemoveMember(c, u, w, t)
      PROVE OnlyInvitedJoin'
  BY <1>11, <1>e DEF RemoveMember, MayManage, IsAdmin
<1>12. ASSUME NEW c \in WsRequests, DeleteMember(c) PROVE OnlyInvitedJoin'
  BY <1>12, <1>e DEF DeleteMember, Without
<1>13. ASSUME NEW c \in WsRequests, NEW u \in Users, NEW w \in WorkspaceIDs, NEW t \in Users,
             NEW n \in {RoleViewer, RoleAdmin}, UpdateMemberRole(c, u, w, t, n)
      PROVE OnlyInvitedJoin'
  BY <1>13, <1>e DEF UpdateMemberRole, MayManage, IsAdmin
<1>14. ASSUME NEW c \in WsRequests, WriteRole(c) PROVE OnlyInvitedJoin'
  <2>1. \A m \in members' : m \in members \/ \E n \in members : m.ws = n.ws /\ m.user = n.user
    BY <1>14 DEF WriteRole, Without
  <2>2. workspaces' = workspaces
    BY <1>14 DEF WriteRole
  <2>. QED
    BY <2>1, <2>2, <1>a, <1>c, <1>d
<1>15. ASSUME NEW c \in WsRequests, NEW u \in Users, NEW w \in WorkspaceIDs, NEW s \in BOOLEAN, UpdateWorkspace(c, u, w, s)
      PROVE OnlyInvitedJoin'
  BY <1>15, <1>e DEF UpdateWorkspace, IsAdmin
<1>16. ASSUME NEW c \in WsRequests, WriteWorkspace(c) PROVE OnlyInvitedJoin'
  BY <1>16, <1>e DEF WriteWorkspace
<1>17. ASSUME NEW c \in WsRequests, NEW u \in Users, NEW w \in WorkspaceIDs, DeleteWorkspace(c, u, w)
      PROVE OnlyInvitedJoin'
  BY <1>17, <1>e DEF DeleteWorkspace, IsAdmin
<1>18. ASSUME NEW c \in WsRequests, DropWorkspace(c) PROVE OnlyInvitedJoin'
  BY <1>18, <1>e DEF DropWorkspace
<1>19. CASE UNCHANGED wsVars
  BY <1>19, <1>e DEF wsVars
<1>. QED
  BY <1>1, <1>2, <1>3, <1>4, <1>5, <1>6, <1>7, <1>8, <1>9, <1>10, <1>11,
     <1>12, <1>13, <1>14, <1>15, <1>16, <1>17, <1>18, <1>19
  DEF WorkspacesNext, WsRequestNext

\* The requests that must not meet do not: an invitation is consumed once, and a
\* workspace has no admin before its owner is added.
LEMMA WsApartStep == ASSUME WsInv, [WorkspacesNext]_wsVars PROVE WsCallsApart'
<1>. USE DEF WsCallsApart, WsEnd, WsBegin, WsIdle
<1>a. WsCallsOK /\ WsCallsApart /\ WsTypes
  BY DEF WsInv
<1>1. ASSUME NEW c \in WsRequests, NEW u \in Users, NEW w \in WorkspaceIDs, CreateWorkspace(c, u, w)
      PROVE WsCallsApart'
  BY <1>1, <1>a DEF CreateWorkspace, WsCallsOK, WsCallOK, WsTypes
<1>2. ASSUME NEW c \in WsRequests, AddOwner(c) PROVE WsCallsApart'
  BY <1>2, <1>a DEF AddOwner, WsCallsOK, WsCallOK, WsTypes
<1>3. ASSUME NEW c \in WsRequests, WsFail(c) PROVE WsCallsApart'
  BY <1>3, <1>a DEF WsFail, WsCallsOK, WsCallOK, WsTypes
<1>4. ASSUME NEW c \in WsRequests, NEW u \in Users, NEW w \in WorkspaceIDs, GenerateInvitation(c, u, w)
      PROVE WsCallsApart'
  BY <1>4, <1>a DEF GenerateInvitation, IsAdmin, WsCallsOK, WsCallOK, WsTypes
<1>5. ASSUME NEW c \in WsRequests, NEW i \in InvitationIDs, CreateInvitation(c, i)
      PROVE WsCallsApart'
  BY <1>5, <1>a DEF CreateInvitation, WsCallsOK, WsCallOK, WsTypes
<1>6. ASSUME NEW i \in InvitationIDs, ExpireInvitation(i) PROVE WsCallsApart'
  BY <1>6, <1>a DEF ExpireInvitation, WsCallsOK, WsCallOK, WsTypes
<1>7. ASSUME NEW c \in WsRequests, NEW u \in Users, NEW w \in WorkspaceIDs, NEW i \in InvitationIDs, JoinWorkspace(c, u, w, i)
      PROVE WsCallsApart'
  BY <1>7, <1>a DEF JoinWorkspace, WsCallsOK, WsCallOK, WsTypes
<1>8. ASSUME NEW c \in WsRequests, ConsumeInvitation(c) PROVE WsCallsApart'
  <2>1. /\ wsCall[c].pc = "consume" /\ wsCall[c].inv \in InvitationIDs
        /\ \/ wsCall' = [wsCall EXCEPT ![c] = WsIdle]
           \/ /\ wsCall' = [wsCall EXCEPT ![c].pc = "join"]
              /\ invitations[wsCall[c].inv].state \in {"open", "expired"}
    BY <1>8, <1>a DEF ConsumeInvitation, WsCallsOK, WsCallOK
  <2>2. \A d \in WsRequests : wsCall[d].pc = "join" => invitations[wsCall[d].inv].state \in {"used", "gone"}
    BY <1>a DEF WsCallsOK, WsCallOK
  <2>3. \A d \in WsRequests \ {c} : wsCall'[d] = wsCall[d]
    BY <2>1, <1>a DEF WsTypes
  <2>4. wsCall'[c].pc \in {"idle", "join"} /\ (wsCall'[c].pc = "join" => wsCall'[c].inv = wsCall[c].inv)
    BY <2>1, <1>a DEF WsTypes, WsCallRows
  <2>5. wsCall'[c].pc = "join" => invitations[wsCall[c].inv].state \in {"open", "expired"}
    BY <2>1, <1>a DEF WsTypes, WsCallRows
  <2>. QED
    BY <2>2, <2>3, <2>4, <2>5, <1>a
<1>9. ASSUME NEW c \in WsRequests, AddMember(c) PROVE WsCallsApart'
  BY <1>9, <1>a DEF AddMember, WsCallsOK, WsCallOK, WsTypes
<1>10. ASSUME NEW c \in WsRequests, NEW u \in Users, NEW w \in WorkspaceIDs, LeaveWorkspace(c, u, w)
      PROVE WsCallsApart'
  BY <1>10, <1>a DEF LeaveWorkspace, WsCallsOK, WsCallOK, WsTypes
<1>11. ASSUME NEW c \in WsRequests, NEW u \in Users, NEW w \in WorkspaceIDs, NEW t \in Users, RemoveMember(c, u, w, t)
      PROVE WsCallsApart'
  BY <1>11, <1>a DEF RemoveMember, MayManage, IsAdmin, WsCallsOK, WsCallOK, WsTypes
<1>12. ASSUME NEW c \in WsRequests, DeleteMember(c) PROVE WsCallsApart'
  BY <1>12, <1>a DEF DeleteMember, Without, WsCallsOK, WsCallOK, WsTypes
<1>13. ASSUME NEW c \in WsRequests, NEW u \in Users, NEW w \in WorkspaceIDs, NEW t \in Users,
             NEW n \in {RoleViewer, RoleAdmin}, UpdateMemberRole(c, u, w, t, n)
      PROVE WsCallsApart'
  BY <1>13, <1>a DEF UpdateMemberRole, MayManage, IsAdmin, WsCallsOK, WsCallOK, WsTypes
<1>14. ASSUME NEW c \in WsRequests, WriteRole(c) PROVE WsCallsApart'
  BY <1>14, <1>a DEF WriteRole, Without, WsCallsOK, WsCallOK, WsTypes
<1>15. ASSUME NEW c \in WsRequests, NEW u \in Users, NEW w \in WorkspaceIDs, NEW s \in BOOLEAN, UpdateWorkspace(c, u, w, s)
      PROVE WsCallsApart'
  BY <1>15, <1>a DEF UpdateWorkspace, IsAdmin, WsCallsOK, WsCallOK, WsTypes
<1>16. ASSUME NEW c \in WsRequests, WriteWorkspace(c) PROVE WsCallsApart'
  BY <1>16, <1>a DEF WriteWorkspace, WsCallsOK, WsCallOK, WsTypes
<1>17. ASSUME NEW c \in WsRequests, NEW u \in Users, NEW w \in WorkspaceIDs, DeleteWorkspace(c, u, w)
      PROVE WsCallsApart'
  BY <1>17, <1>a DEF DeleteWorkspace, IsAdmin, WsCallsOK, WsCallOK, WsTypes
<1>18. ASSUME NEW c \in WsRequests, DropWorkspace(c) PROVE WsCallsApart'
  BY <1>18, <1>a DEF DropWorkspace, WsCallsOK, WsCallOK, WsTypes
<1>19. CASE UNCHANGED wsVars
  BY <1>19, <1>a DEF wsVars, WsCallsOK, WsCallOK, WsTypes
<1>. QED
  BY <1>1, <1>2, <1>3, <1>4, <1>5, <1>6, <1>7, <1>8, <1>9, <1>10, <1>11,
     <1>12, <1>13, <1>14, <1>15, <1>16, <1>17, <1>18, <1>19
  DEF WorkspacesNext, WsRequestNext

\* Invitations stay consistent: nobody is admitted by one that is not used.
LEMMA WsInvitesStep == ASSUME WsInv, [WorkspacesNext]_wsVars PROVE WsInvitesOK'
<1>. SUFFICES ASSUME NEW x \in InvitationIDs PROVE WsInviteOK(invitations[x])'
  BY DEF WsInvitesOK
<1>. USE DEF WsInviteOK
<1>a. WsInviteOK(invitations[x]) /\ invitations \in [InvitationIDs -> WsInvitations]
  BY DEF WsInv, WsTypes, WsInvitesOK
<1>b. \A w \in WorkspaceIDs : workspaces[w].state # "absent" => workspaces'[w].state # "absent"
  BY WsRowStep DEF WsRowMoves
<1>c. ASSUME invitations'[x] = invitations[x] PROVE WsInviteOK(invitations[x])'
  BY <1>a, <1>b, <1>c
<1>d. ASSUME NEW c \in WsRequests PROVE WsCallOK(wsCall[c])
  BY DEF WsInv, WsCallsOK
<1>1. ASSUME NEW c \in WsRequests, NEW i \in InvitationIDs, CreateInvitation(c, i)
      PROVE  WsInviteOK(invitations[x])'
  <2>1. \/ invitations'[x] = invitations[x]
        \/ /\ invitations'[x] = [state |-> "open", ws |-> wsCall[c].ws, by |-> {}]
           /\ wsCall[c].ws \in WorkspaceIDs /\ workspaces[wsCall[c].ws].state # "absent"
    BY <1>1, <1>a, <1>d DEF CreateInvitation, WsCallOK
  <2>. QED
    BY <2>1, <1>b, <1>c, WorkspacesAssumption
<1>2. ASSUME NEW i \in InvitationIDs, ExpireInvitation(i) PROVE WsInviteOK(invitations[x])'
  <2>1. \/ invitations'[x] = invitations[x]
        \/ /\ invitations[x].state = "open"
           /\ invitations'[x] = [invitations[x] EXCEPT !.state = "expired"]
    BY <1>2, <1>a DEF ExpireInvitation
  <2>. QED
    BY <2>1, <1>a, <1>b, <1>c DEF WsInvitations
<1>3. ASSUME NEW c \in WsRequests, ConsumeInvitation(c) PROVE WsInviteOK(invitations[x])'
  <2>1. \/ invitations'[x] = invitations[x]
        \/ /\ invitations[x].state \in {"open", "expired"}
           /\ invitations'[x] = [invitations[x] EXCEPT !.state = "used"]
    BY <1>3, <1>a DEF ConsumeInvitation
  <2>. QED
    BY <2>1, <1>a, <1>b, <1>c DEF WsInvitations
<1>4. ASSUME NEW c \in WsRequests, AddMember(c) PROVE WsInviteOK(invitations[x])'
  <2>. DEFINE p == <<c, wsCall[c].user>>
  <2>1. \/ invitations'[x] = invitations[x]
        \/ /\ invitations[x].state \in {"used", "gone"} /\ invitations[x].by = {}
           /\ invitations'[x] = [invitations[x] EXCEPT !.by = @ \cup {p}]
    <3>1. wsCall[c].pc = "join" /\ wsCall[c].inv \in InvitationIDs
          /\ invitations[wsCall[c].inv].state \in {"used", "gone"} /\ invitations[wsCall[c].inv].by = {}
      BY <1>4, <1>d DEF AddMember, WsCallOK
    <3>2. invitations' = invitations \/ invitations' = [invitations EXCEPT ![wsCall[c].inv].by = @ \cup {p}]
      BY <1>4 DEF AddMember
    <3>. QED
      BY <3>1, <3>2, <1>a
  <2>2. p \in WsRequests \X Users
    BY <1>4, <1>d DEF AddMember, WsCallOK
  <2>. HIDE DEF p
  <2>3. CASE invitations'[x] # invitations[x]
    <3>1. /\ invitations'[x].by = {p} /\ invitations'[x].ws = invitations[x].ws
          /\ invitations'[x].state = invitations[x].state
      BY <2>1, <2>3, <1>a DEF WsInvitations
    <3>. QED
      BY <3>1, <2>1, <2>2, <2>3, <1>a, <1>b
  <2>. QED
    BY <2>3, <1>c
<1>5. ASSUME NEW c \in WsRequests, DropWorkspace(c) PROVE WsInviteOK(invitations[x])'
  <2>1. \/ invitations'[x] = invitations[x]
        \/ /\ invitations[x].ws = wsCall[c].ws /\ wsCall[c].ws \in WorkspaceIDs
           /\ invitations'[x] = [invitations[x] EXCEPT !.state = "gone"]
    BY <1>5, <1>a, <1>d DEF DropWorkspace, WsCallOK
  <2>. QED
    BY <2>1, <1>a, <1>b, <1>c, WorkspacesAssumption DEF WsInvitations
<1>. QED
  BY <1>1, <1>2, <1>3, <1>4, <1>5, <1>c, WsInviteWriters

\* What a request has checked keeps holding until it writes, as far as the
\* writes rely on it.
LEMMA WsCallsStep == ASSUME WsInv, [WorkspacesNext]_wsVars PROVE WsCallsOK'
<1>. SUFFICES ASSUME NEW x \in WsRequests PROVE WsCallOK(wsCall[x])'
  BY DEF WsCallsOK
<1>. USE WorkspacesAssumption DEF WsCallOK, Owner, Exists
<1>a. WsTypes /\ WorkspacesTypeOK /\ (\A c \in WsRequests : WsCallOK(wsCall[c])) /\ WsCallsApart /\ WsInvitesOK
  BY DEF WsInv, WsCallsOK
<1>b. WsCallOK(wsCall[x])
  BY <1>a
<1>c. \A w \in WorkspaceIDs : WsRowMoves(workspaces[w], workspaces'[w])
  BY WsRowStep
<1>d. \A i \in InvitationIDs : WsInviteMoves(invitations[i], invitations'[i])
  BY WsInviteStep
<1>1. ASSUME NEW c \in WsRequests, NEW u \in Users, NEW w \in WorkspaceIDs, CreateWorkspace(c, u, w)
      PROVE WsCallOK(wsCall[x])'
  BY <1>1, <1>a DEF CreateWorkspace, WsTypes, WorkspacesTypeOK, IsMember, WsEnd, WsBegin, WsIdle,
     WsCallsApart, WsInvitesOK, WsInviteOK
<1>2. ASSUME NEW c \in WsRequests, AddOwner(c) PROVE WsCallOK(wsCall[x])'
  BY <1>2, <1>a DEF AddOwner, WsTypes, WorkspacesTypeOK, IsMember, WsEnd, WsBegin, WsIdle,
     WsCallsApart, WsInvitesOK, WsInviteOK
<1>3. ASSUME NEW c \in WsRequests, WsFail(c) PROVE WsCallOK(wsCall[x])'
  BY <1>3, <1>a DEF WsFail, WsTypes, WorkspacesTypeOK, IsMember, WsEnd, WsBegin, WsIdle,
     WsCallsApart, WsInvitesOK, WsInviteOK
<1>4. ASSUME NEW c \in WsRequests, NEW u \in Users, NEW w \in WorkspaceIDs, GenerateInvitation(c, u, w)
      PROVE WsCallOK(wsCall[x])'
  BY <1>4, <1>a DEF GenerateInvitation, IsAdmin, WsTypes, WorkspacesTypeOK, IsMember, WsEnd,
     WsBegin, WsIdle, WsCallsApart, WsInvitesOK, WsInviteOK
<1>5. ASSUME NEW c \in WsRequests, NEW i \in InvitationIDs, CreateInvitation(c, i)
      PROVE WsCallOK(wsCall[x])'
  BY <1>5, <1>a DEF CreateInvitation, WsTypes, WorkspacesTypeOK, IsMember, WsEnd, WsBegin, WsIdle,
     WsCallsApart, WsInvitesOK, WsInviteOK
<1>6. ASSUME NEW i \in InvitationIDs, ExpireInvitation(i) PROVE WsCallOK(wsCall[x])'
  BY <1>6, <1>a DEF ExpireInvitation, WsTypes, WorkspacesTypeOK, IsMember, WsEnd, WsBegin, WsIdle,
     WsCallsApart, WsInvitesOK, WsInviteOK
<1>7. ASSUME NEW c \in WsRequests, NEW u \in Users, NEW w \in WorkspaceIDs, NEW i \in InvitationIDs, JoinWorkspace(c, u, w, i)
      PROVE WsCallOK(wsCall[x])'
  BY <1>7, <1>a DEF JoinWorkspace, WsTypes, WorkspacesTypeOK, IsMember, WsEnd, WsBegin, WsIdle,
     WsCallsApart, WsInvitesOK, WsInviteOK
<1>8. ASSUME NEW c \in WsRequests, ConsumeInvitation(c) PROVE WsCallOK(wsCall[x])'
  <2>1. /\ wsCall[c].pc = "consume" /\ workspaces' = workspaces /\ members' = members
        /\ \/ wsCall' = [wsCall EXCEPT ![c] = WsIdle]
           \/ /\ wsCall' = [wsCall EXCEPT ![c].pc = "join"]
              /\ invitations' = [invitations EXCEPT ![wsCall[c].inv].state = "used"]
              /\ invitations[wsCall[c].inv].state \notin {"used", "gone"}
    BY <1>8 DEF ConsumeInvitation, WsEnd
  <2>2. \A i \in InvitationIDs : invitations'[i].by = invitations[i].by
    BY <1>8, <1>a DEF ConsumeInvitation, WsTypes, WsInvitations
  <2>3. \A i \in InvitationIDs : invitations'[i].ws = invitations[i].ws
    BY <1>8, <1>a DEF ConsumeInvitation, WsTypes, WsInvitations
  <2>4. CASE x # c \/ wsCall'[x] = wsCall[x]
    <3>1. wsCall'[x] = wsCall[x]
      BY <2>1, <2>4, <1>a DEF WsTypes
    <3>. QED
      BY <2>1, <2>2, <2>3, <3>1, <1>b, <1>d DEF WsInviteMoves
  <2>5. CASE wsCall'[x] = WsIdle
    BY <2>5 DEF WsIdle
  <2>6. CASE x = c /\ wsCall' = [wsCall EXCEPT ![c].pc = "join"]
    <3>1. wsCall'[x] = [wsCall[x] EXCEPT !.pc = "join"]
      BY <2>6, <1>a DEF WsTypes
    <3>2. /\ wsCall'[x].pc = "join" /\ wsCall'[x].user = wsCall[x].user
          /\ wsCall'[x].ws = wsCall[x].ws /\ wsCall'[x].inv = wsCall[x].inv
      BY <3>1, <1>a DEF WsTypes, WsCallRows
    <3>3. invitations'[wsCall[x].inv].state = "used" /\ invitations[wsCall[x].inv].by = {}
      BY <2>1, <2>6, <3>2, <1>a, <1>b DEF WsIdle, WsTypes, WsInvitations, WsInvitesOK, WsInviteOK
    <3>. QED
      BY <2>1, <2>2, <2>3, <2>6, <3>2, <3>3, <1>b
  <2>. QED
    BY <2>1, <2>4, <2>5, <2>6, <1>a DEF WsTypes
<1>9. ASSUME NEW c \in WsRequests, AddMember(c) PROVE WsCallOK(wsCall[x])'
  <2>. DEFINE q == wsCall[c]
              new == [ws |-> q.ws, user |-> q.user, role |-> RoleEditor]
  <2>1. /\ wsCall' = [wsCall EXCEPT ![c] = WsIdle] /\ workspaces' = workspaces
        /\ members' \subseteq members \cup {new} /\ new.ws = q.ws
        /\ \A i \in InvitationIDs \ {q.inv} : invitations'[i] = invitations[i]
    BY <1>9, <1>a DEF AddMember, WsEnd, WsTypes
  <2>2. q.pc = "join" /\ q.inv \in InvitationIDs /\ invitations[q.inv].ws = q.ws
    BY <1>9, <1>a DEF AddMember
  <2>3. \A i \in InvitationIDs : invitations'[i].ws = invitations[i].ws
    <3>1. \E S : invitations' = invitations \/ invitations' = [invitations EXCEPT ![q.inv].by = S]
      BY <1>9 DEF AddMember
    <3>. QED
      BY <3>1, <2>2, <1>a DEF WsTypes, WsInvitations
  <2>. HIDE DEF new, q
  <2>4. CASE x = c
    BY <2>1, <2>4, <1>a DEF WsTypes, WsIdle
  <2>5. CASE x # c
    <3>1. wsCall'[x] = wsCall[x]
      BY <2>1, <2>5
    <3>2. wsCall[x].pc = "join" => wsCall[x].inv # q.inv
      BY <2>2, <2>5, <1>a DEF WsCallsApart, q
    <3>. QED
      BY <2>1, <2>2, <2>3, <3>1, <3>2, <1>b
  <2>. QED
    BY <2>4, <2>5
<1>10. ASSUME NEW c \in WsRequests, NEW u \in Users, NEW w \in WorkspaceIDs, LeaveWorkspace(c, u, w)
      PROVE WsCallOK(wsCall[x])'
  BY <1>10, <1>a DEF LeaveWorkspace, WsTypes, WorkspacesTypeOK, IsMember, WsEnd, WsBegin, WsIdle,
     WsCallsApart, WsInvitesOK, WsInviteOK
<1>11. ASSUME NEW c \in WsRequests, NEW u \in Users, NEW w \in WorkspaceIDs, NEW t \in Users, RemoveMember(c, u, w, t)
      PROVE WsCallOK(wsCall[x])'
  BY <1>11, <1>a DEF RemoveMember, MayManage, IsAdmin, WsTypes, WorkspacesTypeOK, IsMember, WsEnd,
     WsBegin, WsIdle, WsCallsApart, WsInvitesOK, WsInviteOK
<1>12. ASSUME NEW c \in WsRequests, DeleteMember(c) PROVE WsCallOK(wsCall[x])'
  BY <1>12, <1>a DEF DeleteMember, Without, WsTypes, WorkspacesTypeOK, IsMember, WsEnd, WsBegin,
     WsIdle, WsCallsApart, WsInvitesOK, WsInviteOK
<1>13. ASSUME NEW c \in WsRequests, NEW u \in Users, NEW w \in WorkspaceIDs, NEW t \in Users,
             NEW n \in {RoleViewer, RoleAdmin}, UpdateMemberRole(c, u, w, t, n)
      PROVE WsCallOK(wsCall[x])'
  BY <1>13, <1>a DEF UpdateMemberRole, MayManage, IsAdmin, WsTypes, WorkspacesTypeOK, IsMember,
     WsEnd, WsBegin, WsIdle, WsCallsApart, WsInvitesOK, WsInviteOK
<1>14. ASSUME NEW c \in WsRequests, WriteRole(c) PROVE WsCallOK(wsCall[x])'
  BY <1>14, <1>a DEF WriteRole, Without, WsTypes, WorkspacesTypeOK, IsMember, WsEnd, WsBegin,
     WsIdle, WsCallsApart, WsInvitesOK, WsInviteOK
<1>15. ASSUME NEW c \in WsRequests, NEW u \in Users, NEW w \in WorkspaceIDs, NEW s \in BOOLEAN, UpdateWorkspace(c, u, w, s)
      PROVE WsCallOK(wsCall[x])'
  BY <1>15, <1>a DEF UpdateWorkspace, IsAdmin, WsTypes, WorkspacesTypeOK, IsMember, WsEnd, WsBegin,
     WsIdle, WsCallsApart, WsInvitesOK, WsInviteOK
<1>16. ASSUME NEW c \in WsRequests, WriteWorkspace(c) PROVE WsCallOK(wsCall[x])'
  BY <1>16, <1>a DEF WriteWorkspace, WsTypes, WorkspacesTypeOK, IsMember, WsEnd, WsBegin, WsIdle,
     WsCallsApart, WsInvitesOK, WsInviteOK
<1>17. ASSUME NEW c \in WsRequests, NEW u \in Users, NEW w \in WorkspaceIDs, DeleteWorkspace(c, u, w)
      PROVE WsCallOK(wsCall[x])'
  BY <1>17, <1>a DEF DeleteWorkspace, IsAdmin, WsTypes, WorkspacesTypeOK, IsMember, WsEnd, WsBegin,
     WsIdle, WsCallsApart, WsInvitesOK, WsInviteOK
<1>18. ASSUME NEW c \in WsRequests, DropWorkspace(c) PROVE WsCallOK(wsCall[x])'
  BY <1>18, <1>a DEF DropWorkspace, WsTypes, WorkspacesTypeOK, IsMember, WsEnd, WsBegin, WsIdle,
     WsCallsApart, WsInvitesOK, WsInviteOK
<1>19. CASE UNCHANGED wsVars
  BY <1>19, <1>a DEF wsVars, WsTypes, WorkspacesTypeOK, IsMember, WsEnd, WsBegin, WsIdle,
     WsCallsApart, WsInvitesOK, WsInviteOK
<1>. QED
  BY <1>1, <1>2, <1>3, <1>4, <1>5, <1>6, <1>7, <1>8, <1>9, <1>10, <1>11,
     <1>12, <1>13, <1>14, <1>15, <1>16, <1>17, <1>18, <1>19
  DEF WorkspacesNext, WsRequestNext

LEMMA WsRowTypes == ASSUME WsInv, [WorkspacesNext]_wsVars PROVE workspaces' \in [WorkspaceIDs -> WsRows]
<1>a. workspaces \in [WorkspaceIDs -> WsRows] /\ \A x \in WorkspaceIDs : workspaces'[x] \in WsRows
  BY WsRowStep DEF WsInv, WsTypes, WsRowMoves
<1>1. ASSUME NEW c \in WsRequests, WriteWorkspace(c) PROVE workspaces' \in [WorkspaceIDs -> WsRows]
  BY <1>1, <1>a DEF WriteWorkspace
<1>2. ASSUME NEW c \in WsRequests, DropWorkspace(c) PROVE workspaces' \in [WorkspaceIDs -> WsRows]
  BY <1>2, <1>a DEF DropWorkspace
<1>3. ASSUME NEW c \in WsRequests, NEW u \in Users, NEW w \in WorkspaceIDs, CreateWorkspace(c, u, w)
      PROVE  workspaces' \in [WorkspaceIDs -> WsRows]
  BY <1>3, <1>a DEF CreateWorkspace
<1>. QED
  BY <1>1, <1>2, <1>3, <1>a, WsRowWriters

LEMMA WsInviteTypes ==
  ASSUME WsInv, [WorkspacesNext]_wsVars PROVE invitations' \in [InvitationIDs -> WsInvitations]
<1>a. /\ invitations \in [InvitationIDs -> WsInvitations]
      /\ \A x \in InvitationIDs : invitations'[x] \in WsInvitations
  BY WsInviteStep DEF WsInv, WsTypes, WsInviteMoves
<1>1. ASSUME NEW i \in InvitationIDs, ExpireInvitation(i)
      PROVE  invitations' \in [InvitationIDs -> WsInvitations]
  BY <1>1, <1>a DEF ExpireInvitation
<1>2. ASSUME NEW c \in WsRequests, ConsumeInvitation(c) \/ AddMember(c) \/ DropWorkspace(c)
      PROVE  invitations' \in [InvitationIDs -> WsInvitations]
  BY <1>2, <1>a DEF ConsumeInvitation, AddMember, DropWorkspace
<1>3. ASSUME NEW c \in WsRequests, NEW i \in InvitationIDs, CreateInvitation(c, i)
      PROVE  invitations' \in [InvitationIDs -> WsInvitations]
  BY <1>3, <1>a DEF CreateInvitation
<1>. QED
  BY <1>1, <1>2, <1>3, <1>a, WsInviteWriters

\* Who writes the members' rows.
LEMMA WsMemberWriters ==
  ASSUME [WorkspacesNext]_wsVars
  PROVE  \/ UNCHANGED members
         \/ \E c \in WsRequests : \/ AddOwner(c) \/ AddMember(c) \/ WriteRole(c)
                                  \/ DeleteMember(c) \/ DropWorkspace(c)
<1>1. ASSUME NEW c \in WsRequests, WsRequestNext(c)
      PROVE  \/ UNCHANGED members \/ AddOwner(c) \/ AddMember(c) \/ WriteRole(c)
             \/ DeleteMember(c) \/ DropWorkspace(c)
  <2>1. ASSUME NEW u, NEW w, \/ CreateWorkspace(c, u, w) \/ GenerateInvitation(c, u, w)
                            \/ LeaveWorkspace(c, u, w) \/ DeleteWorkspace(c, u, w)
        PROVE  UNCHANGED members
    BY <2>1 DEF CreateWorkspace, GenerateInvitation, LeaveWorkspace, DeleteWorkspace
  <2>2. ASSUME NEW u, NEW w, NEW t, NEW r, \/ JoinWorkspace(c, u, w, t) \/ RemoveMember(c, u, w, t)
                                           \/ UpdateMemberRole(c, u, w, t, r) \/ UpdateWorkspace(c, u, w, r)
        PROVE  UNCHANGED members
    BY <2>2 DEF JoinWorkspace, RemoveMember, UpdateMemberRole, UpdateWorkspace
  <2>3. ASSUME NEW i, \/ CreateInvitation(c, i) \/ ConsumeInvitation(c) \/ WriteWorkspace(c) \/ WsFail(c)
        PROVE  UNCHANGED members
    BY <2>3 DEF CreateInvitation, ConsumeInvitation, WriteWorkspace, WsFail
  <2>. QED
    BY <1>1, <2>1, <2>2, <2>3 DEF WsRequestNext
<1>. QED
  BY <1>1 DEF WorkspacesNext, ExpireInvitation, wsVars

\* Members are typed: whoever is added is a user, of a workspace.
LEMMA WsMemberTypes == ASSUME WsInv, [WorkspacesNext]_wsVars PROVE members' \subseteq WsMemberRows
<1>a. members \subseteq WsMemberRows
  BY DEF WsInv, WsTypes
<1>b. ASSUME NEW c \in WsRequests PROVE WsCallOK(wsCall[c])
  BY DEF WsInv, WsCallsOK
<1>c. ASSUME NEW w \in WorkspaceIDs, NEW u \in Users, NEW n \in {RoleViewer, RoleEditor, RoleAdmin}
      PROVE  [ws |-> w, user |-> u, role |-> n] \in WsMemberRows
  BY DEF WsMemberRows
<1>1. ASSUME NEW c \in WsRequests, AddOwner(c) PROVE members' \subseteq WsMemberRows
  <2>1. [ws |-> wsCall[c].ws, user |-> wsCall[c].user, role |-> RoleAdmin] \in WsMemberRows
    BY <1>1, <1>b, <1>c DEF AddOwner, WsCallOK
  <2>. QED
    BY <1>1, <1>a, <2>1 DEF AddOwner
<1>2. ASSUME NEW c \in WsRequests, AddMember(c) PROVE members' \subseteq WsMemberRows
  <2>1. [ws |-> wsCall[c].ws, user |-> wsCall[c].user, role |-> RoleEditor] \in WsMemberRows
    BY <1>2, <1>b, <1>c DEF AddMember, WsCallOK
  <2>. QED
    BY <1>2, <1>a, <2>1 DEF AddMember
<1>3. ASSUME NEW c \in WsRequests, WriteRole(c) PROVE members' \subseteq WsMemberRows
  <2>1. [ws |-> wsCall[c].ws, user |-> wsCall[c].target, role |-> wsCall[c].role] \in WsMemberRows
    BY <1>3, <1>b, <1>c DEF WriteRole, WsCallOK
  <2>. QED
    BY <1>3, <1>a, <2>1 DEF WriteRole, Without
<1>4. ASSUME NEW c \in WsRequests, DeleteMember(c) \/ DropWorkspace(c)
      PROVE  members' \subseteq WsMemberRows
  BY <1>4, <1>a DEF DeleteMember, DropWorkspace, Without
<1>. QED
  BY <1>1, <1>2, <1>3, <1>4, <1>a, WsMemberWriters

LEMMA WsInvStep == WsInv /\ [WorkspacesNext]_wsVars => WsInv'
<1>. SUFFICES ASSUME WsInv, [WorkspacesNext]_wsVars PROVE WsInv'
  OBVIOUS
<1>1. WsTypes'
  BY WsCallTypes, WsMemberTypes, WsRowTypes, WsInviteTypes DEF WsTypes
<1>. QED
  BY <1>1, WsMembersStep, WsInvitedStep, WsCallsStep, WsApartStep, WsInvitesStep DEF WsInv

\* No step but the workspace's deletion takes the owner's admin role away.
LEMMA OwnerStaysAdminStep ==
  ASSUME WsInv, [WorkspacesNext]_wsVars, NEW x \in WorkspaceIDs,
         IsAdmin(x, Owner(x)), Exists(x)'
  PROVE  IsAdmin(x, Owner(x))'
<1>. DEFINE row == [ws |-> x, user |-> Owner(x), role |-> RoleAdmin]
<1>a. row \in members /\ workspaces[x].state # "absent" /\ row.ws = x /\ row.user = Owner(x)
  BY DEF IsAdmin, WsInv, WorkspacesTypeOK
<1>b. Owner(x)' = Owner(x)
  BY <1>a, WsRowStep DEF Owner, WsRowMoves
<1>. SUFFICES row \in members'
  BY <1>b DEF IsAdmin
<1>. HIDE DEF row
<1>c. ASSUME NEW c \in WsRequests PROVE WsCallOK(wsCall[c])
  BY DEF WsInv, WsCallsOK
<1>1. ASSUME NEW c \in WsRequests, DeleteMember(c) PROVE row \in members'
  BY <1>1, <1>a, <1>c DEF DeleteMember, Without, WsCallOK
<1>2. ASSUME NEW c \in WsRequests, WriteRole(c) PROVE row \in members'
  BY <1>2, <1>a, <1>c DEF WriteRole, Without, WsCallOK
<1>3. ASSUME NEW c \in WsRequests, DropWorkspace(c) PROVE row \in members'
  <2>1. wsCall[c].ws # x
    BY <1>3 DEF DropWorkspace, Exists, WsInv, WsTypes, WsRows
  <2>. QED
    BY <1>3, <2>1, <1>a DEF DropWorkspace
<1>4. ASSUME NEW c \in WsRequests, AddOwner(c) \/ AddMember(c) PROVE row \in members'
  BY <1>4, <1>a DEF AddOwner, AddMember
<1>5. ASSUME UNCHANGED members PROVE row \in members'
  BY <1>5, <1>a
<1>. QED
  BY <1>1, <1>2, <1>3, <1>4, <1>5, WsMemberWriters

\* The inductive invariant of workspaces, for any users, workspaces, invitations
\* and requests racing with each other, failures half way included.
THEOREM WorkspacesInvariant == WorkspacesSpec => []WsInv
<1>1. WorkspacesInit => WsInv
  <2>. SUFFICES ASSUME WorkspacesInit PROVE WsInv
    OBVIOUS
  <2>1. WsIdle \in WsCallRows
    BY DEF WsIdle, WsCallRows
  <2>2. WsTypes
    BY <2>1 DEF WorkspacesInit, WsTypes, WsRows, WsInvitations, WsMemberRows
  <2>3. WorkspacesTypeOK /\ OnlyInvitedJoin
    BY DEF WorkspacesInit, WorkspacesTypeOK, OnlyInvitedJoin
  <2>4. WsCallsOK /\ WsCallsApart
    BY DEF WorkspacesInit, WsCallsOK, WsCallOK, WsCallsApart, WsIdle
  <2>5. WsInvitesOK
    BY WorkspacesAssumption DEF WorkspacesInit, WsInvitesOK, WsInviteOK
  <2>. QED
    BY <2>2, <2>3, <2>4, <2>5 DEF WsInv
<1>. QED
  BY <1>1, WsInvStep, PTL DEF WorkspacesSpec

\* An invitation's state bounds whom it admitted.
LEMMA OneJoin == WsInv => OneJoinPerInvitation
<1>. SUFFICES ASSUME WsInv, NEW i \in InvitationIDs
              PROVE  /\ Cardinality(invitations[i].by) <= 1
                     /\ invitations[i].by # {} => invitations[i].state \in {"used", "gone"}
  BY DEF OneJoinPerInvitation
<1>1. WsInviteOK(invitations[i])
  BY DEF WsInv, WsInvitesOK
<1>2. Cardinality(invitations[i].by) \in {0, 1}
  <2>1. CASE invitations[i].by = {}
    BY <2>1, FS_EmptySet
  <2>2. ASSUME NEW x, invitations[i].by = {x} PROVE Cardinality(invitations[i].by) = 1
    BY <2>2, FS_Singleton
  <2>. QED
    BY <1>1, <2>1, <2>2 DEF WsInviteOK
<1>. QED
  BY <1>1, <1>2 DEF WsInviteOK

\* An invitation admits one person once, however many requests race with its
\* token (JoinWorkspace, ConsumeInvitation, AddMember), and nobody but the owner
\* is a member without one.
THEOREM MembersInvited == WorkspacesSpec => [](WorkspacesTypeOK /\ OneJoinPerInvitation /\ OnlyInvitedJoin)
<1>1. WsInv => WorkspacesTypeOK /\ OneJoinPerInvitation /\ OnlyInvitedJoin
  BY OneJoin DEF WsInv
<1>. QED
  BY <1>1, WorkspacesInvariant, PTL

\* Requests of other admins, however stale the rights they checked, leave the
\* owner an admin (RemoveMember, UpdateMemberRole).
THEOREM OwnerStaysAdminAlways == WorkspacesSpec => OwnerStaysAdmin
<1>1. WsInv /\ [WorkspacesNext]_wsVars =>
        [\A w \in WorkspaceIDs : IsAdmin(w, Owner(w)) /\ Exists(w)' => IsAdmin(w, Owner(w))']_wsVars
  BY OwnerStaysAdminStep
<1>. QED
  BY <1>1, WorkspacesInvariant, PTL DEF WorkspacesSpec, OwnerStaysAdmin

-----------------------------------------------------------------------------
(* Access to a tree *)

AfterAuth == {"resolve", "member", "deleted", "handler", "view", "owner", "add"}

\* What a request on its way has been checked for.  What one gate found holds
\* at the next, because roles are kept and a deletion is final.
AcCallOK(q) ==
  /\ q.user \in AccessUsers \cup {Nobody}
  /\ q.at # "idle" => q.user \in AccessUsers /\ q.asRole \in TreeRoles \ {"owner"}
  /\ q.at \in AfterAuth => q.user \in accounts
  /\ q.at \in {"deleted", "handler"} /\ IsWrite(q.op) => role[q.user] \in Editors
  /\ q.at \in {"owner", "add"} => q.user = tree.owner /\ tree.state # "none" /\ ~q.late
  /\ q.at = "handler" /\ q.op \in ScopedWrites => ~q.late
  /\ q.at = "add" => q.invitee \in accounts
  /\ q.late => tree.state = "deleted"

AcCallsOK == \A r \in Requests : AcCallOK(request[r])

AcCallRows ==
  [at : AfterAuth \cup {"idle", "auth"}, user : AccessUsers \cup {Nobody},
   op : {"none"} \cup UNION {Sends[r] : r \in Requests}, node : AccessNodes,
   invitee : AccessUsers \cup {Nobody}, asRole : TreeRoles \cup {NoRole},
   name : ProfileNames \cup {"none"}, late : BOOLEAN]

AcTypes ==
  /\ accounts \subseteq AccessUsers
  /\ tree \in [state : {"none", "live", "deleted"}, owner : AccessUsers \cup {Nobody}]
  /\ role \in [AccessUsers -> TreeRoles \cup {NoRole}]
  /\ nodeRow \in [AccessNodes -> {"none", "live", "deleted"}]
  /\ request \in [Requests -> AcCallRows]

AcMembers ==
  /\ OwnerAmongMembers
  /\ tree.state = "none" => \A u \in AccessUsers : role[u] = NoRole

AcInv == AcTypes /\ AcCallsOK /\ AcMembers

LEMMA AcIdle == Idle \in AcCallRows
  BY AccessAssumption DEF Idle, AcCallRows, TreeRoles

\* A request that goes on changes nothing but its stage.
LEMMA AcMove ==
  ASSUME AcTypes, NEW r \in Requests, NEW s \in AfterAuth, MoveTo(r, s)
  PROVE  /\ request' \in [Requests -> AcCallRows]
         /\ request'[r].at = s /\ request'[r].user = request[r].user
         /\ request'[r].op = request[r].op /\ request'[r].invitee = request[r].invitee
         /\ request'[r].asRole = request[r].asRole /\ request'[r].late = request[r].late
         /\ \A x \in Requests \ {r} : request'[x] = request[x]
<1>1. request' = [request EXCEPT ![r] = [request[r] EXCEPT !.at = s]]
  BY DEF MoveTo, AcTypes
<1>2. request[r] \in AcCallRows
  BY DEF AcTypes
<1>3. [request[r] EXCEPT !.at = s] \in AcCallRows
  BY <1>2 DEF AcCallRows
<1>4. request'[r] = [request[r] EXCEPT !.at = s]
  BY <1>1 DEF AcTypes
<1>. QED
  BY <1>1, <1>2, <1>3, <1>4 DEF AcTypes, AcCallRows

\* A request that is answered is idle again.
LEMMA AcAnswer ==
  ASSUME AcTypes, NEW r \in Requests, NEW n, Answer(r, n)
  PROVE  /\ request' \in [Requests -> AcCallRows] /\ request'[r] = Idle
         /\ \A x \in Requests \ {r} : request'[x] = request[x]
  BY AcIdle DEF Answer, AcTypes

LEMMA AcStageTypes == \A o : FirstStage(o) \in {"member", "resolve", "handler"}
  BY DEF FirstStage

\* A request as it arrives.
ArrivalOf(u, o, n, v, p, k) ==
  [Idle EXCEPT !.at = "auth", !.user = u, !.op = o, !.node = n, !.invitee = v,
               !.asRole = PermissionToRole(p), !.name = k, !.late = (tree.state = "deleted")]

Arrived(r, u, o, n, v, p, k) == request' = [request EXCEPT ![r] = ArrivalOf(u, o, n, v, p, k)]

LEMMA AcArrives ==
  ASSUME NEW r \in Requests, Arrive(r)
  PROVE  \E u \in SentBy[r], o \in Sends[r], n \in AccessNodes, v \in AccessUsers \cup {Nobody},
            p \in {"admin", "editor", "viewer"}, k \in ProfileNames \cup {"none"} : Arrived(r, u, o, n, v, p, k)
<1>1. PICK u \in SentBy[r], o \in Sends[r], n \in AccessNodes :
        \E v \in IF o = "shareTree" THEN AccessUsers ELSE {Nobody},
           p \in IF o = "shareTree" THEN {"admin", "editor", "viewer"} ELSE {"viewer"},
           name \in IF o = "createProfile" THEN ProfileNames ELSE {"none"} :
             /\ o \notin FlatWrites \cup {"updateNode", "deleteNode", "getNode"} => n = RootNode
             /\ request' = [request EXCEPT ![r] =
                  [Idle EXCEPT !.at = "auth", !.user = u, !.op = o, !.node = n,
                     !.invitee = v, !.asRole = PermissionToRole(p), !.name = name,
                     !.late = (tree.state = "deleted")]]
  BY DEF Arrive
<1>2. PICK v \in IF o = "shareTree" THEN AccessUsers ELSE {Nobody},
           p \in IF o = "shareTree" THEN {"admin", "editor", "viewer"} ELSE {"viewer"},
           name \in IF o = "createProfile" THEN ProfileNames ELSE {"none"} :
             /\ o \notin FlatWrites \cup {"updateNode", "deleteNode", "getNode"} => n = RootNode
             /\ request' = [request EXCEPT ![r] =
                  [Idle EXCEPT !.at = "auth", !.user = u, !.op = o, !.node = n,
                     !.invitee = v, !.asRole = PermissionToRole(p), !.name = name,
                     !.late = (tree.state = "deleted")]]
  BY <1>1
<1>3. Arrived(r, u, o, n, v, p, name)
  BY <1>2 DEF Arrived, ArrivalOf
<1>4. /\ v \in AccessUsers \cup {Nobody} /\ name \in ProfileNames \cup {"none"}
      /\ p \in {"admin", "editor", "viewer"}
  OBVIOUS
<1>. QED
  BY <1>3, <1>4

\* A request either arrives, goes on to a stage or is answered.
LEMMA AcRequestTypes ==
  ASSUME AcTypes, NEW r \in Requests, RequestStep(r) PROVE request' \in [Requests -> AcCallRows]
<1>1. CASE Arrive(r)
  <2>. PICK u \in SentBy[r], o \in Sends[r], n \in AccessNodes, v \in AccessUsers \cup {Nobody},
            p \in {"admin", "editor", "viewer"}, k \in ProfileNames \cup {"none"} : Arrived(r, u, o, n, v, p, k)
    BY <1>1, AcArrives
  <2>2. PermissionToRole(p) \in TreeRoles
    BY DEF PermissionToRole, TreeRoles, Viewer
  <2>3. o \in {"none"} \cup UNION {Sends[i] : i \in Requests} /\ u \in AccessUsers
    BY AccessAssumption
  <2>4. PICK b \in BOOLEAN : b = (tree.state = "deleted")
    OBVIOUS
  <2>5. ArrivalOf(u, o, n, v, p, k) =
          [Idle EXCEPT !.at = "auth", !.user = u, !.op = o, !.node = n, !.invitee = v,
                       !.asRole = PermissionToRole(p), !.name = k, !.late = b]
    BY <2>4 DEF ArrivalOf
  <2>6. ArrivalOf(u, o, n, v, p, k) \in AcCallRows
    <3>1. "auth" \in AfterAuth \cup {"idle", "auth"} /\ u \in AccessUsers \cup {Nobody}
          /\ PermissionToRole(p) \in TreeRoles \cup {NoRole}
      BY <2>2, <2>3
    <3>. QED
      BY <2>3, <2>5, <3>1, AcIdle, ZenonT(40) DEF AcCallRows
  <2>. QED
    BY <2>6 DEF AcTypes, Arrived
<1>2. CASE \E s \in AfterAuth : MoveTo(r, s)
  BY <1>2, AcMove
<1>3. CASE \E n : Answer(r, n)
  BY <1>3, AcAnswer
<1>4. ASSUME RequestStep(r), ~Arrive(r)
      PROVE  (\E s \in AfterAuth : MoveTo(r, s)) \/ (\E n : Answer(r, n))
  <2>. USE DEF AfterAuth
  <2>1. Authenticate(r) => (\E s \in AfterAuth : MoveTo(r, s)) \/ (\E n : Answer(r, n))
    BY AcStageTypes DEF Authenticate
  <2>2. CheckMembership(r) => (\E s \in AfterAuth : MoveTo(r, s)) \/ (\E n : Answer(r, n))
    BY DEF CheckMembership
  <2>3. GetTree(r) \/ OwnerCheck(r) => (\E s \in AfterAuth : MoveTo(r, s)) \/ (\E n : Answer(r, n))
    BY DEF GetTree, OwnerCheck, TreeMissing
  <2>4. ResolveNode(r) \/ CheckDeleted(r) \/ ResolveInvitee(r)
          => (\E s \in AfterAuth : MoveTo(r, s)) \/ (\E n : Answer(r, n))
    BY DEF ResolveNode, CheckDeleted, ResolveInvitee
  <2>5. CreateTree(r) \/ UpdateTree(r) \/ DeleteTree(r) \/ ShareTree(r) => \E n : Answer(r, n)
    BY DEF CreateTree, UpdateTree, DeleteTree, ShareTree, MembersAdd
  <2>6. ListMembers(r) \/ GetNode(r) \/ CreateProfile(r) => \E n : Answer(r, n)
    BY DEF ListMembers, GetNode, CreateProfile
  <2>7. AddNode(r) \/ ChangeNode(r) => \E n : Answer(r, n)
    BY DEF AddNode, ChangeNode
  <2>. QED
    BY <1>4, <2>1, <2>2, <2>3, <2>4, <2>5, <2>6, <2>7 DEF RequestStep
<1>. QED
  BY <1>1, <1>2, <1>3, <1>4

\* Types.
LEMMA AcTypesStep == ASSUME AcInv, [AccessNext]_accessVars PROVE AcTypes'
<1>. USE DEF AcTypes, Rows
<1>a. AcTypes /\ \A r \in Requests : AcCallOK(request[r])
  BY DEF AcInv, AcCallsOK
<1>b. ASSUME NEW r \in Requests, RequestStep(r) PROVE request' \in [Requests -> AcCallRows]
  BY <1>b, AcRequestTypes, <1>a
<1>1. ASSUME NEW r \in Requests, Arrive(r) PROVE AcTypes'
  BY <1>1, <1>a, <1>b DEF Arrive, Of, MembersAdd, AcCallOK, AfterAuth, TreeRoles, TreeMissing,
     RequestStep
<1>2. ASSUME NEW r \in Requests, Authenticate(r) PROVE AcTypes'
  BY <1>2, <1>a, <1>b DEF Authenticate, Of, MembersAdd, AcCallOK, AfterAuth, TreeRoles,
     TreeMissing, RequestStep
<1>3. ASSUME NEW r \in Requests, ResolveNode(r) PROVE AcTypes'
  BY <1>3, <1>a, <1>b DEF ResolveNode, Of, MembersAdd, AcCallOK, AfterAuth, TreeRoles, TreeMissing,
     RequestStep
<1>4. ASSUME NEW r \in Requests, CheckMembership(r) PROVE AcTypes'
  BY <1>4, <1>a, <1>b DEF CheckMembership, Of, MembersAdd, AcCallOK, AfterAuth, TreeRoles,
     TreeMissing, RequestStep
<1>5. ASSUME NEW r \in Requests, CheckDeleted(r) PROVE AcTypes'
  BY <1>5, <1>a, <1>b DEF CheckDeleted, Of, MembersAdd, AcCallOK, AfterAuth, TreeRoles,
     TreeMissing, RequestStep
<1>6. ASSUME NEW r \in Requests, CreateTree(r) PROVE AcTypes'
  BY <1>6, <1>a, <1>b DEF CreateTree, Of, MembersAdd, AcCallOK, AfterAuth, TreeRoles, TreeMissing,
     RequestStep
<1>7. ASSUME NEW r \in Requests, GetTree(r) PROVE AcTypes'
  BY <1>7, <1>a, <1>b DEF GetTree, Of, MembersAdd, AcCallOK, AfterAuth, TreeRoles, TreeMissing,
     RequestStep
<1>8. ASSUME NEW r \in Requests, OwnerCheck(r) PROVE AcTypes'
  BY <1>8, <1>a, <1>b DEF OwnerCheck, Of, MembersAdd, AcCallOK, AfterAuth, TreeRoles, TreeMissing,
     RequestStep
<1>9. ASSUME NEW r \in Requests, UpdateTree(r) PROVE AcTypes'
  BY <1>9, <1>a, <1>b DEF UpdateTree, Of, MembersAdd, AcCallOK, AfterAuth, TreeRoles, TreeMissing,
     RequestStep
<1>10. ASSUME NEW r \in Requests, DeleteTree(r) PROVE AcTypes'
  BY <1>10, <1>a, <1>b DEF DeleteTree, Of, MembersAdd, AcCallOK, AfterAuth, TreeRoles, TreeMissing,
     RequestStep
<1>11. ASSUME NEW r \in Requests, ResolveInvitee(r) PROVE AcTypes'
  BY <1>11, <1>a, <1>b DEF ResolveInvitee, Of, MembersAdd, AcCallOK, AfterAuth, TreeRoles,
     TreeMissing, RequestStep
<1>12. ASSUME NEW r \in Requests, ShareTree(r) PROVE AcTypes'
  BY <1>12, <1>a, <1>b DEF ShareTree, Of, MembersAdd, AcCallOK, AfterAuth, TreeRoles, TreeMissing,
     RequestStep
<1>13. ASSUME NEW r \in Requests, ListMembers(r) PROVE AcTypes'
  BY <1>13, <1>a, <1>b DEF ListMembers, Of, MembersAdd, AcCallOK, AfterAuth, TreeRoles,
     TreeMissing, RequestStep
<1>14. ASSUME NEW r \in Requests, GetNode(r) PROVE AcTypes'
  BY <1>14, <1>a, <1>b DEF GetNode, Of, MembersAdd, AcCallOK, AfterAuth, TreeRoles, TreeMissing,
     RequestStep
<1>15. ASSUME NEW r \in Requests, AddNode(r) PROVE AcTypes'
  BY <1>15, <1>a, <1>b DEF AddNode, Of, MembersAdd, AcCallOK, AfterAuth, TreeRoles, TreeMissing,
     RequestStep
<1>16. ASSUME NEW r \in Requests, ChangeNode(r) PROVE AcTypes'
  BY <1>16, <1>a, <1>b DEF ChangeNode, Of, MembersAdd, AcCallOK, AfterAuth, TreeRoles, TreeMissing,
     RequestStep
<1>17. ASSUME NEW r \in Requests, CreateProfile(r) PROVE AcTypes'
  BY <1>17, <1>a, <1>b DEF CreateProfile, Of, MembersAdd, AcCallOK, AfterAuth, TreeRoles,
     TreeMissing, RequestStep
<1>18. CASE UNCHANGED accessVars
  BY <1>18, <1>a, <1>b DEF accessVars
<1>. QED
  BY <1>1, <1>2, <1>3, <1>4, <1>5, <1>6, <1>7, <1>8, <1>9, <1>10, <1>11,
     <1>12, <1>13, <1>14, <1>15, <1>16, <1>17, <1>18
  DEF AccessNext, RequestStep

\* What the gates found keeps holding on the way to the handler.
LEMMA AcCallsStep == ASSUME AcInv, [AccessNext]_accessVars PROVE AcCallsOK'
<1>. SUFFICES ASSUME NEW x \in Requests PROVE AcCallOK(request[x])'
  BY DEF AcCallsOK
<1>. USE DEF AcCallOK, AfterAuth, NoRole, Nobody, Viewer, TreeRoles, Editors, Idle
<1>a. AcTypes /\ (\A r \in Requests : AcCallOK(request[r]))
  BY DEF AcInv, AcCallsOK
<1>b. tree.state = "none" => \A u \in AccessUsers : role[u] = NoRole
  BY DEF AcInv, AcMembers
<1>c. AcTypes'
  BY AcTypesStep
<1>1. ASSUME NEW r \in Requests, Arrive(r) PROVE AcCallOK(request[x])'
  <2>. PICK u, o, n, v, p, k : u \in SentBy[r] /\ Arrived(r, u, o, n, v, p, k)
    BY <1>1, AcArrives
  <2>2. PermissionToRole(p) \in TreeRoles \ {"owner"} /\ u \in AccessUsers
    BY AccessAssumption DEF PermissionToRole
  <2>3. UNCHANGED <<accounts, tree, role>>
    BY <1>1 DEF Arrive, Rows
  <2>4. CASE x = r
    <3>1. request'[x] = ArrivalOf(u, o, n, v, p, k)
      BY <2>4, <1>a DEF Arrived, AcTypes
    <3>2. /\ request'[x].at = "auth" /\ request'[x].user = u
          /\ request'[x].asRole = PermissionToRole(p) /\ request'[x].late = (tree.state = "deleted")
      BY <3>1 DEF ArrivalOf
    <3>. QED
      BY <3>2, <2>2, <2>3
  <2>5. CASE x # r
    BY <2>3, <2>5, <1>a DEF Arrived, AcTypes
  <2>. QED
    BY <2>4, <2>5
<1>2. ASSUME NEW r \in Requests, Authenticate(r) PROVE AcCallOK(request[x])'
  <2>1. FirstStage(request[r].op) = "handler" => ~IsWrite(request[r].op)
    BY DEF FirstStage, IsWrite
  <2>2. /\ accounts \subseteq accounts' /\ UNCHANGED <<tree, role>>
        /\ \/ request[r].user \in accounts' /\ MoveTo(r, FirstStage(request[r].op))
           \/ Answer(r, 403)
    BY <1>2 DEF Authenticate, Of
  <2>3. request[r].at = "auth"
    BY <1>2 DEF Authenticate, Of
  <2>. QED
    BY <2>1, <2>2, <2>3, <1>a, AcMove, AcAnswer, AcStageTypes DEF IsWrite
<1>3. ASSUME NEW r \in Requests, ResolveNode(r) PROVE AcCallOK(request[x])'
  BY <1>3, <1>a, <1>b, AcMove, AcAnswer, AcStageTypes DEF ResolveNode, Of, Rows, TreeMissing
<1>4. ASSUME NEW r \in Requests, CheckMembership(r) PROVE AcCallOK(request[x])'
  <2>1. /\ request[r].at = "member" /\ UNCHANGED <<accounts, tree, role>>
        /\ \/ /\ GatePasses(r) /\ request[r].op \in FlatWrites
              /\ MoveTo(r, "handler")
           \/ GatePasses(r) /\ MoveTo(r, "deleted")
           \/ Answer(r, 403)
    BY <1>4 DEF CheckMembership, Of, Rows
  <2>2. GatePasses(r) /\ IsWrite(request[r].op) => role[request[r].user] \in Editors
    BY <2>1, <1>a DEF GatePasses, HasMembership, Of, AcTypes
  <2>3. request[r].op \in FlatWrites => request[r].op \notin ScopedWrites
    BY DEF FlatWrites, ScopedWrites
  <2>. QED
    BY <2>1, <2>2, <2>3, <1>a, AcMove, AcAnswer
<1>5. ASSUME NEW r \in Requests, CheckDeleted(r) PROVE AcCallOK(request[x])'
  BY <1>5, <1>a, <1>b, AcMove, AcAnswer, AcStageTypes DEF CheckDeleted, Of, Rows, TreeMissing
<1>6. ASSUME NEW r \in Requests, CreateTree(r) PROVE AcCallOK(request[x])'
  BY <1>6, <1>a, <1>b, AcMove, AcAnswer, AcStageTypes DEF CreateTree, Of, Rows, TreeMissing
<1>7. ASSUME NEW r \in Requests, GetTree(r) PROVE AcCallOK(request[x])'
  BY <1>7, <1>a, <1>b, AcMove, AcAnswer, AcStageTypes DEF GetTree, Of, Rows, TreeMissing
<1>8. ASSUME NEW r \in Requests, OwnerCheck(r) PROVE AcCallOK(request[x])'
  BY <1>8, <1>a, <1>b, AcMove, AcAnswer, AcStageTypes DEF OwnerCheck, Of, Rows, TreeMissing
<1>9. ASSUME NEW r \in Requests, UpdateTree(r) PROVE AcCallOK(request[x])'
  BY <1>9, <1>a, <1>b, AcMove, AcAnswer, AcStageTypes DEF UpdateTree, Of, Rows, TreeMissing
<1>10. ASSUME NEW r \in Requests, DeleteTree(r) PROVE AcCallOK(request[x])'
  <2>1. /\ UNCHANGED <<accounts, role>> /\ \E n : Answer(r, n)
        /\ tree' = tree \/ tree' = [tree EXCEPT !.state = "deleted"]
    BY <1>10 DEF DeleteTree
  <2>2. tree'.owner = tree.owner /\ (tree'.state = tree.state \/ tree'.state = "deleted")
    BY <2>1, <1>a DEF AcTypes
  <2>. QED
    BY <2>1, <2>2, <1>a, AcAnswer
<1>11. ASSUME NEW r \in Requests, ResolveInvitee(r) PROVE AcCallOK(request[x])'
  BY <1>11, <1>a, <1>b, AcMove, AcAnswer, AcStageTypes DEF ResolveInvitee, Of, Rows, TreeMissing
<1>12. ASSUME NEW r \in Requests, ShareTree(r) PROVE AcCallOK(request[x])'
  <2>1. /\ UNCHANGED <<accounts, tree>> /\ \E n : Answer(r, n)
        /\ \A u \in AccessUsers : role[u] # NoRole => role'[u] = role[u]
    BY <1>12, <1>a DEF ShareTree, MembersAdd, HasMembership, Of, AcTypes
  <2>. QED
    BY <2>1, <1>a, AcAnswer
<1>13. ASSUME NEW r \in Requests, ListMembers(r) PROVE AcCallOK(request[x])'
  BY <1>13, <1>a, <1>b, AcMove, AcAnswer, AcStageTypes DEF ListMembers, Of, Rows, TreeMissing
<1>14. ASSUME NEW r \in Requests, GetNode(r) PROVE AcCallOK(request[x])'
  BY <1>14, <1>a, <1>b, AcMove, AcAnswer, AcStageTypes DEF GetNode, Of, Rows, TreeMissing
<1>15. ASSUME NEW r \in Requests, AddNode(r) PROVE AcCallOK(request[x])'
  BY <1>15, <1>a, <1>b, AcMove, AcAnswer, AcStageTypes DEF AddNode, Of, Rows, TreeMissing
<1>16. ASSUME NEW r \in Requests, ChangeNode(r) PROVE AcCallOK(request[x])'
  BY <1>16, <1>a, <1>b, AcMove, AcAnswer, AcStageTypes DEF ChangeNode, Of, Rows, TreeMissing
<1>17. ASSUME NEW r \in Requests, CreateProfile(r) PROVE AcCallOK(request[x])'
  BY <1>17, <1>a, <1>b, AcMove, AcAnswer, AcStageTypes DEF CreateProfile, Of, Rows, TreeMissing
<1>18. CASE UNCHANGED accessVars
  BY <1>18, <1>a, <1>b, AcMove, AcAnswer, AcStageTypes DEF accessVars
<1>. QED
  BY <1>1, <1>2, <1>3, <1>4, <1>5, <1>6, <1>7, <1>8, <1>9, <1>10, <1>11,
     <1>12, <1>13, <1>14, <1>15, <1>16, <1>17, <1>18
  DEF AccessNext, RequestStep

\* The owner is among the members, alone in the role, and members have accounts.
LEMMA AcMembersStep == ASSUME AcInv, [AccessNext]_accessVars PROVE AcMembers'
<1>. USE DEF AcMembers, OwnerAmongMembers
<1>a. AcTypes /\ AcMembers /\ (\A r \in Requests : AcCallOK(request[r]))
  BY DEF AcInv, AcCallsOK
<1>1. ASSUME NEW r \in Requests, Arrive(r) PROVE AcMembers'
  BY <1>1, <1>a DEF Arrive, Of, Rows, AcTypes
<1>2. ASSUME NEW r \in Requests, Authenticate(r) PROVE AcMembers'
  BY <1>2, <1>a DEF Authenticate, Of, Rows, AcTypes
<1>3. ASSUME NEW r \in Requests, ResolveNode(r) PROVE AcMembers'
  BY <1>3, <1>a DEF ResolveNode, Of, Rows, AcTypes
<1>4. ASSUME NEW r \in Requests, CheckMembership(r) PROVE AcMembers'
  BY <1>4, <1>a DEF CheckMembership, Of, Rows, AcTypes
<1>5. ASSUME NEW r \in Requests, CheckDeleted(r) PROVE AcMembers'
  BY <1>5, <1>a DEF CheckDeleted, Of, Rows, AcTypes
<1>6. ASSUME NEW r \in Requests, CreateTree(r) PROVE AcMembers'
  <2>1. /\ tree.state = "none" /\ request[r].user \in accounts /\ request[r].user \in AccessUsers
        /\ tree'.state = "live" /\ tree'.owner = request[r].user /\ UNCHANGED <<accounts, profileRows>>
        /\ role' = [role EXCEPT ![request[r].user] = "owner"]
    BY <1>6, <1>a DEF CreateTree, Of, AcCallOK, AfterAuth
  <2>2. \A u \in AccessUsers : role'[u] = IF u = request[r].user THEN "owner" ELSE NoRole
    BY <2>1, <1>a DEF AcTypes
  <2>. QED
    BY <2>1, <2>2, <1>a DEF NoRole
<1>7. ASSUME NEW r \in Requests, GetTree(r) PROVE AcMembers'
  BY <1>7, <1>a DEF GetTree, Of, Rows, AcTypes
<1>8. ASSUME NEW r \in Requests, OwnerCheck(r) PROVE AcMembers'
  BY <1>8, <1>a DEF OwnerCheck, Of, Rows, AcTypes
<1>9. ASSUME NEW r \in Requests, UpdateTree(r) PROVE AcMembers'
  BY <1>9, <1>a DEF UpdateTree, Of, Rows, AcTypes
<1>10. ASSUME NEW r \in Requests, DeleteTree(r) PROVE AcMembers'
  BY <1>10, <1>a DEF DeleteTree, Of, Rows, AcTypes
<1>11. ASSUME NEW r \in Requests, ResolveInvitee(r) PROVE AcMembers'
  BY <1>11, <1>a DEF ResolveInvitee, Of, Rows, AcTypes
<1>12. ASSUME NEW r \in Requests, ShareTree(r) PROVE AcMembers'
  <2>. DEFINE v == request[r].invitee
  <2>1. /\ v \in accounts /\ request[r].asRole # "owner" /\ tree.state # "none"
        /\ UNCHANGED <<accounts, profileRows, tree>>
        /\ \/ role' = role
           \/ role[v] = NoRole /\ role' = [role EXCEPT ![v] = request[r].asRole]
    BY <1>12, <1>a DEF ShareTree, MembersAdd, HasMembership, Of, AcCallOK, TreeRoles
  <2>. HIDE DEF v
  <2>2. \A u \in AccessUsers :
             \/ role'[u] = role[u]
             \/ u = v /\ role[u] = NoRole /\ role'[u] = request[r].asRole
    <3>1. CASE role' = role
      BY <3>1
    <3>2. CASE role[v] = NoRole /\ role' = [role EXCEPT ![v] = request[r].asRole]
      BY <3>2, <1>a DEF AcTypes
    <3>. QED
      BY <2>1, <3>1, <3>2
  <2>3. \A u \in AccessUsers : role'[u] = "owner" <=> role[u] = "owner"
    BY <2>1, <2>2 DEF NoRole
  <2>. QED
    BY <2>1, <2>2, <2>3, <1>a
<1>13. ASSUME NEW r \in Requests, ListMembers(r) PROVE AcMembers'
  BY <1>13, <1>a DEF ListMembers, Of, Rows, AcTypes
<1>14. ASSUME NEW r \in Requests, GetNode(r) PROVE AcMembers'
  BY <1>14, <1>a DEF GetNode, Of, Rows, AcTypes
<1>15. ASSUME NEW r \in Requests, AddNode(r) PROVE AcMembers'
  BY <1>15, <1>a DEF AddNode, Of, Rows, AcTypes
<1>16. ASSUME NEW r \in Requests, ChangeNode(r) PROVE AcMembers'
  BY <1>16, <1>a DEF ChangeNode, Of, Rows, AcTypes
<1>17. ASSUME NEW r \in Requests, CreateProfile(r) PROVE AcMembers'
  <2>. DEFINE p == <<request[r].user, request[r].name>>
  <2>1. /\ request[r].user \in accounts /\ UNCHANGED <<accounts, tree, role>>
        /\ profileRows' \subseteq profileRows \cup {p}
    BY <1>17, <1>a DEF CreateProfile, Of, AcCallOK, AfterAuth
  <2>2. p[1] = request[r].user
    OBVIOUS
  <2>. HIDE DEF p
  <2>. QED
    BY <2>1, <2>2, <1>a
<1>18. CASE UNCHANGED accessVars
  BY <1>18, <1>a DEF accessVars
<1>. QED
  BY <1>1, <1>2, <1>3, <1>4, <1>5, <1>6, <1>7, <1>8, <1>9, <1>10, <1>11,
     <1>12, <1>13, <1>14, <1>15, <1>16, <1>17, <1>18
  DEF AccessNext, RequestStep

LEMMA AcInvStep == AcInv /\ [AccessNext]_accessVars => AcInv'
  BY AcTypesStep, AcCallsStep, AcMembersStep DEF AcInv

\* The inductive invariant of the gates and handlers of trees and nodes.
THEOREM AccessInvariant == AccessSpec => []AcInv
<1>1. AccessInit => AcInv
  BY AcIdle DEF AccessInit, AcInv, AcTypes, AcCallsOK, AcCallOK, AfterAuth, AcMembers,
     OwnerAmongMembers, Idle, TreeRoles
<1>. QED
  BY <1>1, AcInvStep, PTL DEF AccessSpec

\* What the gates found gives the right to write.
LEMMA AcAuthorised == AcInv => AccessTypeOK /\ WritesAuthorised /\ OwnerAmongMembers
  BY DEF AcInv, AcTypes, AcMembers, AcCallsOK, AcCallOK, AccessTypeOK, WritesAuthorised, Of

\* A request that is about to write nodes is an editor's, one that is about to
\* write the tree is its owner's, whatever came between its checks
\* (TreeMembershipMiddleware, NodeAccessMiddleware, isTreeOwner); the owner is
\* the one member in that role.
THEOREM WritesAuthorisedAlways == AccessSpec => [](AccessTypeOK /\ WritesAuthorised /\ OwnerAmongMembers)
  BY AccessInvariant, AcAuthorised, PTL

\* No request takes a membership away or changes its role (members.Add).
LEMMA MembershipStep ==
  ASSUME AcInv, [AccessNext]_accessVars, NEW u \in AccessUsers, role[u] # NoRole
  PROVE  role'[u] = role[u]
<1>a. AcTypes /\ AcMembers
  BY DEF AcInv
<1>1. ASSUME NEW r \in Requests, CreateTree(r) PROVE role'[u] = role[u]
  BY <1>1, <1>a DEF CreateTree, AcMembers
<1>2. ASSUME NEW r \in Requests, ShareTree(r) PROVE role'[u] = role[u]
  BY <1>2, <1>a DEF ShareTree, MembersAdd, HasMembership, AcTypes
<1>3. ASSUME NEW r \in Requests, RequestStep(r) PROVE UNCHANGED role \/ CreateTree(r) \/ ShareTree(r)
  BY <1>3 DEF RequestStep, Arrive, Authenticate, ResolveNode, CheckMembership, CheckDeleted,
     GetTree,
     OwnerCheck, UpdateTree, DeleteTree, ResolveInvitee, ListMembers, GetNode, AddNode, ChangeNode,
     CreateProfile, Rows
<1>. QED
  BY <1>1, <1>2, <1>3 DEF AccessNext, accessVars

\* Whatever requests share a tree with one user, and in whatever order, the
\* first role given stays (members.Add, the owner's row of CreateTree).
THEOREM MembershipKeptAlways == AccessSpec => MembershipKept
<1>1. AcInv /\ [AccessNext]_accessVars =>
        [\A u \in AccessUsers : role[u] # NoRole => role'[u] = role[u]]_accessVars
  BY MembershipStep
<1>. QED
  BY <1>1, AccessInvariant, PTL DEF AccessSpec, MembershipKept

-----------------------------------------------------------------------------
(* Topics *)

TpProposals ==
  [status : {"none", "pending", "confirmed", "dismissed", "expired"},
   subject : Subjects \cup {"none"}, unsaved : BOOLEAN]

TpTopics == [root : 1 .. MaxMessages, title : TopicTitles, by : {"confirm", "hand"}]

TpCalls ==
  [pc : {"idle", "checked", "proposed", "autoconfirm", "create", "confirm", "dismiss", "expire", "bulk"},
   root : 0 .. MaxMessages, title : TopicTitles \cup {"none"}, last : 0 .. MaxMessages,
   subject : Subjects \cup {"none"}]

TpTypes ==
  /\ messages \in 0 .. MaxMessages /\ cooling \subseteq Subjects /\ confirming \subseteq TopicCalls
  /\ proposals \in [1 .. MaxMessages -> TpProposals] /\ topics \subseteq TpTopics
  /\ tracking \in [last : 0 .. MaxMessages, since : Int, auto : BOOLEAN]
  /\ topicCall \in [TopicCalls -> TpCalls]

\* The topics that confirmations of the proposal on r made.
Made(r) == {t \in topics : t.root = r /\ t.by = "confirm"}

\* The mutex is with the call between its check and the status it writes.
TpMutex ==
  /\ \A c \in TopicCalls : c \in confirming <=> topicCall[c].pc \in {"create", "confirm"}
  /\ \A c, d \in confirming : c = d

\* What a request has found about its proposal.
TpCallOK(q) ==
  /\ q.pc # "idle" => q.root \in 1 .. messages
  /\ q.pc = "checked" => proposals[q.root].status = "none" /\ q.subject \in Subjects
  /\ q.pc \notin {"idle", "checked"} => proposals[q.root].status # "none"
  /\ q.pc = "create" => /\ q.title \in TopicTitles
                        /\ ~proposals[q.root].unsaved => Made(q.root) = {}

TpCallsOK ==
  /\ \A c \in TopicCalls : TpCallOK(topicCall[c])
  /\ \A c, d \in TopicCalls : topicCall[c].pc = "checked" /\ topicCall[d].pc = "checked"
                                /\ topicCall[c].root = topicCall[d].root => c = d

\* A proposal that can still be confirmed has no topic yet, unless its
\* confirmation is about to write the status.
TpProposalOK(r) ==
  /\ r > messages => proposals[r].status = "none"
  /\ proposals[r].status = "none" => Made(r) = {} /\ ~proposals[r].unsaved
  /\ proposals[r].status = "pending" => proposals[r].subject \in Subjects
  /\ proposals[r].status = "pending" /\ ~proposals[r].unsaved /\ Made(r) # {} =>
        \E c \in TopicCalls : topicCall[c].pc = "confirm" /\ topicCall[c].root = r
  /\ ~proposals[r].unsaved => \A s, t \in Made(r) : s = t

TpProposalsOK == \A r \in 1 .. MaxMessages : TpProposalOK(r)

TpInv == TpTypes /\ TpMutex /\ TpCallsOK /\ TpProposalsOK

LEMMA TpIdle == TopicIdle \in TpCalls
  BY TopicsAssumption DEF TopicIdle, TpCalls

\* How a step changes its own call: it goes on, it ends, or it begins.
LEMMA TpGoto ==
  ASSUME TpTypes, NEW c \in TopicCalls, NEW p \in {"proposed", "autoconfirm", "confirm", "bulk"}, TopicGoto(c, p)
  PROVE  /\ topicCall' \in [TopicCalls -> TpCalls]
         /\ topicCall'[c].pc = p /\ topicCall'[c].root = topicCall[c].root
         /\ \A d \in TopicCalls \ {c} : topicCall'[d] = topicCall[d]
<1>1. topicCall' = [topicCall EXCEPT ![c] = [topicCall[c] EXCEPT !.pc = p]] /\ topicCall[c] \in TpCalls
  BY DEF TopicGoto, TpTypes
<1>2. [topicCall[c] EXCEPT !.pc = p] \in TpCalls
  BY <1>1 DEF TpCalls
<1>3. topicCall'[c] = [topicCall[c] EXCEPT !.pc = p]
  BY <1>1 DEF TpTypes
<1>. QED
  BY <1>1, <1>2, <1>3 DEF TpTypes, TpCalls

LEMMA TpDone ==
  ASSUME TpTypes, NEW c \in TopicCalls, TopicDone(c)
  PROVE  /\ topicCall' \in [TopicCalls -> TpCalls] /\ topicCall'[c].pc = "idle"
         /\ \A d \in TopicCalls \ {c} : topicCall'[d] = topicCall[d]
<1>1. topicCall'[c] = TopicIdle
  BY DEF TopicDone, TpTypes
<1>. QED
  BY <1>1, TpIdle DEF TopicDone, TpTypes, TopicIdle

\* Writing a status changes nothing else of the proposals.
LEMMA TpStatus ==
  ASSUME TpTypes, NEW r \in 1 .. MaxMessages, NEW s \in {"confirmed", "dismissed", "expired"},
         proposals' = [proposals EXCEPT ![r].status = s]
  PROVE  /\ proposals' \in [1 .. MaxMessages -> TpProposals]
         /\ proposals'[r].status = s /\ proposals'[r].unsaved = proposals[r].unsaved
         /\ \A x \in (1 .. MaxMessages) \ {r} : proposals'[x] = proposals[x]
<1>1. proposals'[r] = [proposals[r] EXCEPT !.status = s] /\ proposals[r] \in TpProposals
  BY DEF TpTypes
<1>2. [proposals[r] EXCEPT !.status = s] \in TpProposals
  BY <1>1 DEF TpProposals
<1>. QED
  BY <1>1, <1>2 DEF TpTypes, TpProposals

\* A request that begins: its row, and nothing of the others'.
LEMMA TpBegin ==
  ASSUME TpTypes, NEW c \in TopicCalls, NEW q \in TpCalls, topicCall' = [topicCall EXCEPT ![c] = q]
  PROVE  /\ topicCall' \in [TopicCalls -> TpCalls] /\ topicCall'[c] = q
         /\ \A d \in TopicCalls \ {c} : topicCall'[d] = topicCall[d]
  BY DEF TpTypes

\* Deciding to propose: the new node is one that nothing refers to yet.
LEMMA TpAutoDetect ==
  ASSUME TpInv, NEW c \in TopicCalls, NEW k \in {"explicit", "other"}, NEW s \in Subjects, AutoDetect(c, k, s)
  PROVE  TpInv'
<1>. DEFINE n == messages + 1
            q == [TopicIdle EXCEPT !.pc = "checked", !.root = n, !.last = tracking.last, !.subject = s]
<1>a. TpTypes /\ TpMutex /\ TpCallsOK /\ TpProposalsOK
  BY DEF TpInv
<1>1. /\ topicCall[c].pc = "idle" /\ messages' = n /\ n \in 1 .. MaxMessages /\ messages \in Nat
      /\ UNCHANGED <<proposals, topics, tracking, cooling, confirming>>
      /\ topicCall' = [topicCall EXCEPT ![c] = q] \/ topicCall' = topicCall
  BY <1>a, TopicsAssumption DEF AutoDetect, TpTypes
<1>2. q \in TpCalls /\ q.pc = "checked" /\ q.root = n /\ q.subject = s
  <2>1. tracking.last \in 0 .. MaxMessages
    BY <1>a DEF TpTypes
  <2>2. n \in 0 .. MaxMessages
    BY <1>1, TopicsAssumption
  <2>. QED
    BY <2>1, <2>2, TpIdle DEF TpCalls
<1>. HIDE DEF q, n
<1>3. /\ topicCall' \in [TopicCalls -> TpCalls]
      /\ topicCall'[c] = q \/ topicCall'[c] = topicCall[c]
      /\ \A d \in TopicCalls \ {c} : topicCall'[d] = topicCall[d]
  BY <1>1, <1>2, <1>a, TpBegin DEF TpTypes
<1>4. \A r \in 1 .. MaxMessages : Made(r)' = Made(r)
  BY <1>1 DEF Made
<1>5. TpTypes'
  BY <1>1, <1>3, <1>a, TopicsAssumption DEF TpTypes
<1>6. TpMutex'
  BY <1>1, <1>2, <1>3, <1>a DEF TpMutex
<1>7. proposals[n].status = "none"
  BY <1>1, <1>a DEF TpProposalsOK, TpProposalOK, n
<1>8. \A d \in TopicCalls : topicCall[d].pc # "idle" => topicCall[d].root # n
  BY <1>1, <1>a DEF TpCallsOK, TpCallOK, n
<1>9. TpCallsOK'
  <2>1. ASSUME NEW d \in TopicCalls, topicCall'[d] = topicCall[d] PROVE TpCallOK(topicCall[d])'
    <3>1. 1 .. messages \subseteq 1 .. messages' /\ 1 .. messages \subseteq 1 .. MaxMessages
      BY <1>1, <1>a, TopicsAssumption DEF TpTypes, n
    <3>2. TpCallOK(topicCall[d])
      BY <1>a DEF TpCallsOK
    <3>. QED
      BY <2>1, <3>1, <3>2, <1>1, <1>4 DEF TpCallOK
  <2>2. ASSUME topicCall'[c] = q PROVE TpCallOK(topicCall[c])'
    BY <2>2, <1>1, <1>2, <1>7 DEF TpCallOK
  <2>3. \A d \in TopicCalls : TpCallOK(topicCall[d])'
    BY <2>1, <2>2, <1>3
  <2>. QED
    BY <2>3, <1>1, <1>2, <1>3, <1>8, <1>a DEF TpCallsOK
<1>10. TpProposalsOK'
  <2>. SUFFICES ASSUME NEW x \in 1 .. MaxMessages PROVE TpProposalOK(x)'
    BY DEF TpProposalsOK
  <2>1. TpProposalOK(x)
    BY <1>a DEF TpProposalsOK
  <2>2. \A d \in TopicCalls : topicCall[d].pc = "confirm" => topicCall'[d] = topicCall[d]
    BY <1>1, <1>3
  <2>. QED
    BY <2>1, <2>2, <1>1, <1>4 DEF TpProposalOK, n
<1>. QED
  BY <1>5, <1>6, <1>9, <1>10 DEF TpInv

\* Making the proposal.
LEMMA TpGenerate == ASSUME TpInv, NEW c \in TopicCalls, generateProposal(c) PROVE TpInv'
<1>. DEFINE r == topicCall[c].root
            v == [status |-> "pending", subject |-> topicCall[c].subject, unsaved |-> FALSE]
<1>a. TpTypes /\ TpMutex /\ TpCallsOK /\ TpProposalsOK
  BY DEF TpInv
<1>1. /\ topicCall[c].pc = "checked" /\ UNCHANGED <<messages, topics, tracking, cooling, confirming>>
      /\ proposals' = [proposals EXCEPT ![r] = v]
      /\ \E p \in {"proposed", "autoconfirm"} : TopicGoto(c, p)
  BY DEF generateProposal
<1>2. /\ r \in 1 .. messages /\ r \in 1 .. MaxMessages /\ proposals[r].status = "none"
      /\ topicCall[c].subject \in Subjects
  BY <1>1, <1>a, TopicsAssumption DEF TpCallsOK, TpCallOK, TpTypes
<1>3. /\ topicCall' \in [TopicCalls -> TpCalls] /\ topicCall'[c].root = r
      /\ topicCall'[c].pc \in {"proposed", "autoconfirm"}
      /\ \A d \in TopicCalls \ {c} : topicCall'[d] = topicCall[d]
  BY <1>1, <1>a, TpGoto
<1>4. \A x \in 1 .. MaxMessages : Made(x)' = Made(x)
  BY <1>1 DEF Made
<1>5. Made(r) = {}
  BY <1>2, <1>a DEF TpProposalsOK, TpProposalOK
<1>6. /\ v \in TpProposals /\ v.status = "pending" /\ ~v.unsaved /\ v.subject \in Subjects
  BY <1>2 DEF TpProposals
<1>. HIDE DEF r, v
<1>7. /\ proposals' \in [1 .. MaxMessages -> TpProposals] /\ proposals'[r] = v
      /\ \A x \in (1 .. MaxMessages) \ {r} : proposals'[x] = proposals[x]
  BY <1>1, <1>2, <1>6, <1>a DEF TpTypes
<1>8. TpTypes' /\ TpMutex'
  BY <1>1, <1>3, <1>7, <1>a DEF TpTypes, TpMutex
<1>9. TpCallsOK'
  <2>1. ASSUME NEW d \in TopicCalls \ {c} PROVE TpCallOK(topicCall[d])'
    <3>1. TpCallOK(topicCall[d]) /\ topicCall'[d] = topicCall[d]
      BY <1>a, <1>3 DEF TpCallsOK
    <3>2. topicCall[d].pc = "checked" => topicCall[d].root # r
      BY <1>1, <1>a DEF TpCallsOK, r
    <3>3. topicCall[d].pc # "idle" => topicCall[d].root \in 1 .. MaxMessages
      BY <3>1, <1>a, TopicsAssumption DEF TpCallOK, TpTypes
    <3>. QED
      BY <3>1, <3>2, <3>3, <1>1, <1>2, <1>4, <1>6, <1>7 DEF TpCallOK
  <2>2. TpCallOK(topicCall[c])'
    BY <1>1, <1>2, <1>3, <1>6, <1>7 DEF TpCallOK
  <2>. QED
    BY <2>1, <2>2, <1>3, <1>a DEF TpCallsOK
<1>10. TpProposalsOK'
  <2>. SUFFICES ASSUME NEW x \in 1 .. MaxMessages PROVE TpProposalOK(x)'
    BY DEF TpProposalsOK
  <2>1. TpProposalOK(x)
    BY <1>a DEF TpProposalsOK
  <2>2. \A d \in TopicCalls : topicCall[d].pc = "confirm" => topicCall'[d] = topicCall[d]
    BY <1>1, <1>3
  <2>3. r > messages => FALSE
    BY <1>2, <1>a DEF TpTypes
  <2>. QED
    BY <2>1, <2>2, <2>3, <1>1, <1>2, <1>4, <1>5, <1>6, <1>7 DEF TpProposalOK
<1>. QED
  BY <1>8, <1>9, <1>10 DEF TpInv

\* A request that begins on a pending proposal, without the mutex.
LEMMA TpAsks ==
  ASSUME TpInv, NEW c \in TopicCalls, NEW r \in 1 .. MaxMessages, DismissProposal(c, r) \/ sweepExpired(c, r)
  PROVE  TpInv'
<1>a. TpTypes /\ TpMutex /\ TpCallsOK /\ TpProposalsOK
  BY DEF TpInv
<1>1. PICK p \in {"dismiss", "expire"} :
         /\ topicCall[c].pc = "idle" /\ proposals[r].status = "pending"
         /\ UNCHANGED <<messages, proposals, topics, tracking, confirming>>
         /\ topicCall' = [topicCall EXCEPT ![c] = [TopicIdle EXCEPT !.pc = p, !.root = r]]
         /\ cooling' \in {cooling, cooling \cup {proposals[r].subject}}
  BY DEF DismissProposal, sweepExpired
<1>. DEFINE q == [TopicIdle EXCEPT !.pc = p, !.root = r]
<1>2. q \in TpCalls /\ q.pc = p /\ q.root = r
  <2>1. r \in 0 .. MaxMessages
    BY TopicsAssumption
  <2>. QED
    BY <2>1, TpIdle DEF TpCalls
<1>3. topicCall' = [topicCall EXCEPT ![c] = q]
  BY <1>1
<1>. HIDE DEF q
<1>4. /\ topicCall' \in [TopicCalls -> TpCalls] /\ topicCall'[c] = q
      /\ \A d \in TopicCalls \ {c} : topicCall'[d] = topicCall[d]
  BY <1>2, <1>3, <1>a, TpBegin
<1>5. \A x \in 1 .. MaxMessages : Made(x)' = Made(x)
  BY <1>1 DEF Made
<1>6. proposals[r].subject \in Subjects /\ r \in 1 .. messages
  BY <1>1, <1>a, TopicsAssumption DEF TpProposalsOK, TpProposalOK, TpTypes
<1>7. TpTypes' /\ TpMutex'
  BY <1>1, <1>2, <1>4, <1>6, <1>a DEF TpTypes, TpMutex
<1>8. TpCallsOK'
  <2>1. ASSUME NEW d \in TopicCalls \ {c} PROVE TpCallOK(topicCall[d])'
    BY <1>1, <1>4, <1>a DEF TpCallsOK, TpCallOK, Made
  <2>2. TpCallOK(topicCall[c])'
    BY <1>1, <1>2, <1>4, <1>6 DEF TpCallOK
  <2>. QED
    BY <2>1, <2>2, <1>2, <1>4, <1>a DEF TpCallsOK
<1>9. TpProposalsOK'
  <2>1. \A d \in TopicCalls : topicCall[d].pc = "confirm" => topicCall'[d] = topicCall[d]
    BY <1>1, <1>4
  <2>. QED
    BY <2>1, <1>1, <1>5, <1>a DEF TpProposalsOK, TpProposalOK
<1>. QED
  BY <1>7, <1>8, <1>9 DEF TpInv

\* Taking the mutex for a pending proposal: no topic was made for it, because
\* nobody is between its topic and its status.
LEMMA TpTakes ==
  ASSUME TpInv, NEW c \in TopicCalls, NEW r \in 1 .. MaxMessages, NEW t \in TopicTitles, NEW q \in TpCalls,
         topicCall[c].pc \in {"idle", "autoconfirm"}, confirming = {}, confirming' = {c},
         proposals[r].status = "pending", q.pc = "create", q.root = r, q.title = t,
         topicCall' = [topicCall EXCEPT ![c] = q],
         UNCHANGED <<messages, proposals, topics, tracking, cooling>>
  PROVE  TpInv'
<1>a. TpTypes /\ TpMutex /\ TpCallsOK /\ TpProposalsOK
  BY DEF TpInv
<1>1. /\ topicCall' \in [TopicCalls -> TpCalls] /\ topicCall'[c] = q
      /\ \A d \in TopicCalls \ {c} : topicCall'[d] = topicCall[d]
  BY <1>a, TpBegin
<1>2. \A x \in 1 .. MaxMessages : Made(x)' = Made(x)
  BY DEF Made
<1>3. \A d \in TopicCalls : topicCall[d].pc \notin {"create", "confirm"}
  BY <1>a DEF TpMutex
<1>4. r \in 1 .. messages /\ (~proposals[r].unsaved => Made(r) = {})
  BY <1>3, <1>a, TopicsAssumption DEF TpProposalsOK, TpProposalOK, TpTypes
<1>5. TpTypes' /\ TpMutex'
  BY <1>1, <1>3, <1>a DEF TpTypes, TpMutex
<1>6. TpCallsOK'
  <2>1. ASSUME NEW d \in TopicCalls \ {c} PROVE TpCallOK(topicCall[d])'
    BY <1>1, <1>a DEF TpCallsOK, TpCallOK, Made
  <2>2. TpCallOK(topicCall[c])'
    BY <1>1, <1>2, <1>4 DEF TpCallOK
  <2>. QED
    BY <2>1, <2>2, <1>1, <1>a DEF TpCallsOK
<1>7. TpProposalsOK'
  <2>1. \A d \in TopicCalls : topicCall[d].pc # "confirm"
    BY <1>3
  <2>. QED
    BY <2>1, <1>2, <1>a DEF TpProposalsOK, TpProposalOK
<1>. QED
  BY <1>5, <1>6, <1>7 DEF TpInv

\* A call that ends without writing anything.
LEMMA TpEnds ==
  ASSUME TpInv, NEW c \in TopicCalls, TopicDone(c), topicCall[c].pc # "confirm",
         UNCHANGED <<messages, proposals, topics, cooling>>, confirming' = confirming \ {c},
         tracking' \in [last : 0 .. MaxMessages, since : Int, auto : BOOLEAN]
  PROVE  TpInv'
<1>a. TpTypes /\ TpMutex /\ TpCallsOK /\ TpProposalsOK
  BY DEF TpInv
<1>1. /\ topicCall' \in [TopicCalls -> TpCalls] /\ topicCall'[c].pc = "idle"
      /\ \A d \in TopicCalls \ {c} : topicCall'[d] = topicCall[d]
  BY <1>a, TpDone
<1>2. \A x \in 1 .. MaxMessages : Made(x)' = Made(x)
  BY DEF Made
<1>3. TpTypes' /\ TpMutex'
  BY <1>1, <1>a DEF TpTypes, TpMutex
<1>4. TpCallsOK'
  BY <1>1, <1>a DEF TpCallsOK, TpCallOK, Made
<1>5. TpProposalsOK'
  <2>1. \A d \in TopicCalls : topicCall[d].pc = "confirm" => topicCall'[d] = topicCall[d]
    BY <1>1
  <2>. QED
    BY <2>1, <1>2, <1>a DEF TpProposalsOK, TpProposalOK
<1>. QED
  BY <1>3, <1>4, <1>5 DEF TpInv

\* Only statuses are written, none to "none" or "pending" but those that were,
\* and a call that does not hold the mutex ends or goes on to the bulk update.
LEMMA TpWrites ==
  ASSUME TpInv, NEW c \in TopicCalls, UNCHANGED <<messages, topics, cooling, confirming, tracking>>,
         topicCall[c].pc \notin {"idle", "checked", "create", "confirm"},
         TopicDone(c) \/ TopicGoto(c, "bulk"),
         proposals' \in [1 .. MaxMessages -> TpProposals],
         \A x \in 1 .. MaxMessages :
            /\ proposals'[x].unsaved = proposals[x].unsaved
            /\ proposals'[x].status = "none" <=> proposals[x].status = "none"
            /\ proposals'[x].status = "pending" => proposals'[x] = proposals[x]
  PROVE  TpInv'
<1>a. TpTypes /\ TpMutex /\ TpCallsOK /\ TpProposalsOK
  BY DEF TpInv
<1>1. /\ topicCall' \in [TopicCalls -> TpCalls]
      /\ \/ topicCall'[c].pc = "idle"
         \/ topicCall'[c].pc = "bulk" /\ topicCall'[c].root = topicCall[c].root
      /\ \A d \in TopicCalls \ {c} : topicCall'[d] = topicCall[d]
  BY <1>a, TpDone, TpGoto
<1>2. \A x \in 1 .. MaxMessages : Made(x)' = Made(x)
  BY DEF Made
<1>3. TpTypes' /\ TpMutex'
  BY <1>1, <1>a DEF TpTypes, TpMutex
<1>4. TpCallsOK'
  <2>1. \A d \in TopicCalls : topicCall[d].pc # "idle" => topicCall[d].root \in 1 .. MaxMessages
    BY <1>a, TopicsAssumption DEF TpCallsOK, TpCallOK, TpTypes
  <2>2. ASSUME NEW d \in TopicCalls PROVE TpCallOK(topicCall[d])'
    BY <2>1, <1>1, <1>2, <1>a DEF TpCallsOK, TpCallOK
  <2>. QED
    BY <2>2, <1>1, <1>a DEF TpCallsOK
<1>5. TpProposalsOK'
  <2>1. \A d \in TopicCalls : topicCall[d].pc = "confirm" => topicCall'[d] = topicCall[d]
    BY <1>1
  <2>. QED
    BY <2>1, <1>2, <1>a DEF TpProposalsOK, TpProposalOK
<1>. QED
  BY <1>3, <1>4, <1>5 DEF TpInv

\* The unique index lets one of two topics with a title through; the call that
\* made its topic goes on with the mutex held.
LEMMA TpCreate == ASSUME TpInv, NEW c \in TopicCalls, CreateTopic(c) PROVE TpInv'
<1>a. TpTypes /\ TpMutex /\ TpCallsOK /\ TpProposalsOK
  BY DEF TpInv
<1>b. topicCall[c].pc = "create"
  BY DEF CreateTopic
<1>c. TpCallOK(topicCall[c])
  BY <1>a DEF TpCallsOK
<1>d. PICK r \in 1 .. MaxMessages : r = topicCall[c].root
  BY <1>b, <1>c, <1>a, TopicsAssumption DEF TpCallOK, TpTypes
<1>e. PICK new : new = NewTopic(r, topicCall[c].title, "confirm")
  OBVIOUS
<1>1. CASE TopicDone(c) /\ UNCHANGED topics
  <2>1. UNCHANGED <<messages, proposals, tracking, cooling>>
    BY DEF CreateTopic
  <2>2. confirming' = confirming \ {c}
    <3>1. topicCall'[c].pc = "idle"
      BY <1>1, <1>a, TpDone
    <3>2. ~TopicGoto(c, "confirm")
      BY <3>1, <1>a, TpGoto
    <3>. QED
      BY <3>2 DEF CreateTopic
  <2>. QED
    BY <1>1, <1>a, <1>b, <2>1, <2>2, TpEnds DEF TpTypes
<1>2. CASE topics' = topics \cup {new} /\ TopicGoto(c, "confirm") /\ UNCHANGED confirming
  <2>1. UNCHANGED <<messages, proposals, tracking, cooling>>
    BY DEF CreateTopic
  <2>2. /\ r \in 1 .. MaxMessages /\ r \in 1 .. messages
        /\ ~proposals[r].unsaved => Made(r) = {}
        /\ proposals[r].status # "none" /\ topicCall[c].title \in TopicTitles
    BY <1>b, <1>c, <1>d, <1>a, TopicsAssumption DEF TpCallOK, TpTypes
  <2>3. /\ topicCall' \in [TopicCalls -> TpCalls] /\ topicCall'[c].pc = "confirm" /\ topicCall'[c].root = r
        /\ \A d \in TopicCalls \ {c} : topicCall'[d] = topicCall[d]
    BY <1>2, <1>d, <1>a, TpGoto
  <2>4. new \in TpTopics /\ new.root = r /\ new.by = "confirm"
    BY <2>2, <1>e DEF NewTopic, TpTopics
  <2>5. Made(r)' = Made(r) \cup {new} /\ \A x \in (1 .. MaxMessages) \ {r} : Made(x)' = Made(x)
    <3>1. Made(r)' = Made(r) \cup {new}
      BY <1>2, <2>4 DEF Made
    <3>2. ASSUME NEW x \in (1 .. MaxMessages) \ {r} PROVE Made(x)' = Made(x)
      BY <1>2, <2>4 DEF Made
    <3>. QED
      BY <3>1, <3>2
  <2>6. \A d \in TopicCalls \ {c} : topicCall[d].pc \notin {"create", "confirm"}
    BY <1>a, <1>b DEF TpMutex
  <2>7. TpTypes'
    BY <1>2, <2>1, <2>3, <2>4, <1>a DEF TpTypes
  <2>8. TpMutex'
    BY <1>2, <1>b, <2>3, <1>a DEF TpMutex
  <2>9. TpCallsOK'
    <3>1. ASSUME NEW d \in TopicCalls \ {c} PROVE TpCallOK(topicCall[d])'
      BY <2>1, <2>3, <2>6, <1>a DEF TpCallsOK, TpCallOK
    <3>2. TpCallOK(topicCall[c])'
      BY <2>1, <2>2, <2>3 DEF TpCallOK
    <3>. QED
      BY <3>1, <3>2, <2>3, <1>a DEF TpCallsOK
  <2>10. ASSUME NEW x \in 1 .. MaxMessages PROVE TpProposalOK(x)'
    <3>1. TpProposalOK(x)
      BY <1>a DEF TpProposalsOK
    <3>2. CASE x = r
      <4>1. ~proposals[r].unsaved => \A t, u \in Made(r)' : t = u
        BY <2>2, <2>5
      <4>. QED
        BY <3>1, <3>2, <4>1, <2>1, <2>2, <2>3 DEF TpProposalOK
    <3>3. CASE x # r
      BY <3>1, <3>3, <2>1, <2>3, <2>5, <2>6, <1>b DEF TpProposalOK
    <3>. QED
      BY <3>2, <3>3
  <2>. QED
    BY <2>7, <2>8, <2>9, <2>10 DEF TpInv, TpProposalsOK
<1>. QED
  BY <1>1, <1>2, <1>d, <1>e DEF CreateTopic

\* The status is written, or the failure to write it is noted, before the mutex
\* is released.
LEMMA TpMarks == ASSUME TpInv, NEW c \in TopicCalls, MarkConfirmed(c) PROVE TpInv'
<1>. DEFINE r == topicCall[c].root
<1>a. TpTypes /\ TpMutex /\ TpCallsOK /\ TpProposalsOK
  BY DEF TpInv
<1>1. /\ topicCall[c].pc = "confirm" /\ TopicDone(c) /\ confirming' = confirming \ {c}
      /\ UNCHANGED <<messages, topics, tracking, cooling>>
      /\ \/ proposals' = [proposals EXCEPT ![r].status = "confirmed"]
         \/ proposals' = [proposals EXCEPT ![r].unsaved = TRUE]
  BY DEF MarkConfirmed
<1>2. r \in 1 .. messages /\ r \in 1 .. MaxMessages /\ proposals[r].status # "none"
  BY <1>1, <1>a, TopicsAssumption DEF TpCallsOK, TpCallOK, TpTypes
<1>3. /\ topicCall' \in [TopicCalls -> TpCalls] /\ topicCall'[c].pc = "idle"
      /\ \A d \in TopicCalls \ {c} : topicCall'[d] = topicCall[d]
  BY <1>1, <1>a, TpDone
<1>. HIDE DEF r
<1>4. /\ proposals' \in [1 .. MaxMessages -> TpProposals]
      /\ \A x \in (1 .. MaxMessages) \ {r} : proposals'[x] = proposals[x]
      /\ \/ proposals'[r].status = "confirmed" /\ proposals'[r].unsaved = proposals[r].unsaved
         \/ /\ proposals'[r].status = proposals[r].status /\ proposals'[r].unsaved
            /\ proposals'[r].subject = proposals[r].subject
  <2>1. CASE proposals' = [proposals EXCEPT ![r].status = "confirmed"]
    BY <2>1, <1>2, <1>a, TpStatus
  <2>2. CASE proposals' = [proposals EXCEPT ![r].unsaved = TRUE]
    <3>1. proposals'[r] = [proposals[r] EXCEPT !.unsaved = TRUE] /\ proposals[r] \in TpProposals
      BY <2>2, <1>2, <1>a DEF TpTypes
    <3>2. [proposals[r] EXCEPT !.unsaved = TRUE] \in TpProposals
      BY <3>1 DEF TpProposals
    <3>. QED
      BY <3>1, <3>2, <2>2, <1>a DEF TpTypes, TpProposals
  <2>. QED
    BY <2>1, <2>2, <1>1
<1>5. \A x \in 1 .. MaxMessages : Made(x)' = Made(x)
  BY <1>1 DEF Made
<1>6. \A d \in TopicCalls \ {c} : topicCall[d].pc \notin {"create", "confirm"}
  BY <1>a, <1>1 DEF TpMutex
<1>7. TpTypes' /\ TpMutex'
  BY <1>1, <1>3, <1>4, <1>a DEF TpTypes, TpMutex
<1>8. TpCallsOK'
  <2>1. \A d \in TopicCalls : topicCall[d].pc # "idle" => topicCall[d].root \in 1 .. MaxMessages
    BY <1>a, TopicsAssumption DEF TpCallsOK, TpCallOK, TpTypes
  <2>2. ASSUME NEW d \in TopicCalls PROVE TpCallOK(topicCall[d])'
    BY <2>1, <1>1, <1>2, <1>3, <1>4, <1>6, <1>a DEF TpCallsOK, TpCallOK
  <2>. QED
    BY <2>2, <1>3, <1>a DEF TpCallsOK
<1>9. ASSUME NEW x \in 1 .. MaxMessages PROVE TpProposalOK(x)'
  <2>1. TpProposalOK(x)
    BY <1>a DEF TpProposalsOK
  <2>2. CASE x = r
    BY <2>1, <2>2, <1>1, <1>2, <1>4, <1>5 DEF TpProposalOK
  <2>3. CASE x # r
    BY <2>1, <2>3, <1>1, <1>3, <1>4, <1>5, <1>6 DEF TpProposalOK, r
  <2>. QED
    BY <2>2, <2>3
<1>. QED
  BY <1>7, <1>8, <1>9 DEF TpInv, TpProposalsOK

\* Topics made by hand or renamed are none that a confirmation made, or as many.
LEMMA TpTitles ==
  ASSUME TpInv, UNCHANGED <<messages, proposals, tracking, cooling, confirming, topicCall>>,
         topics' \subseteq TpTopics,
         \A x \in 1 .. MaxMessages : /\ Made(x)' = {} <=> Made(x) = {}
                                     /\ (\A s, t \in Made(x) : s = t) => \A s, t \in Made(x)' : s = t
  PROVE  TpInv'
<1>a. TpTypes /\ TpMutex /\ TpCallsOK /\ TpProposalsOK
  BY DEF TpInv
<1>1. TpTypes' /\ TpMutex'
  BY <1>a DEF TpTypes, TpMutex
<1>2. TpCallsOK'
  <2>1. \A d \in TopicCalls : topicCall[d].pc # "idle" => topicCall[d].root \in 1 .. MaxMessages
    BY <1>a, TopicsAssumption DEF TpCallsOK, TpCallOK, TpTypes
  <2>2. ASSUME NEW d \in TopicCalls PROVE TpCallOK(topicCall[d])'
    BY <2>1, <1>a DEF TpCallsOK, TpCallOK
  <2>. QED
    BY <2>2, <1>a DEF TpCallsOK
<1>3. ASSUME NEW x \in 1 .. MaxMessages PROVE TpProposalOK(x)'
  BY <1>a DEF TpProposalsOK, TpProposalOK
<1>. QED
  BY <1>1, <1>2, <1>3 DEF TpInv, TpProposalsOK

LEMMA TpInvStep == TpInv /\ [TopicsNext]_topicVars => TpInv'
<1>. SUFFICES ASSUME TpInv, [TopicsNext]_topicVars PROVE TpInv'
  OBVIOUS
<1>a. TpTypes /\ TpCallsOK /\ TpProposalsOK
  BY DEF TpInv
<1>1. ASSUME NEW c \in TopicCalls, UpdateTracking(c) PROVE TpInv'
  <2>. DEFINE q == topicCall[c]
              since == IF q.last > 0 /\ q.root > q.last THEN q.root - q.last ELSE 0
  <2>1. q \in TpCalls /\ q.pc = "proposed" /\ TopicDone(c) /\ q.root \in 0 .. MaxMessages /\ since \in Int
    BY <1>1, <1>a DEF UpdateTracking, TpTypes, TpCalls
  <2>2. tracking' = [tracking EXCEPT !.last = q.root, !.since = since]
    BY <1>1 DEF UpdateTracking
  <2>. HIDE DEF q, since
  <2>3. tracking' \in [last : 0 .. MaxMessages, since : Int, auto : BOOLEAN]
    BY <2>1, <2>2, <1>a DEF TpTypes
  <2>4. c \notin confirming
    BY <2>1 DEF TpInv, TpMutex, q
  <2>5. confirming' = confirming \ {c} /\ UNCHANGED <<messages, proposals, topics, cooling>>
    BY <1>1, <2>4 DEF UpdateTracking
  <2>. QED
    BY <2>1, <2>3, <2>5, TpEnds DEF q
<1>2. ASSUME NEW c \in TopicCalls, NEW r \in 1 .. MaxMessages, NEW t \in TopicTitles, ConfirmProposal(c, r, t)
      PROVE  TpInv'
  <2>. DEFINE q == [TopicIdle EXCEPT !.pc = "create", !.root = r, !.title = t]
  <2>1. q \in TpCalls /\ q.pc = "create" /\ q.root = r /\ q.title = t
    <3>1. r \in 0 .. MaxMessages
      BY TopicsAssumption
    <3>. QED
      BY <3>1, TpIdle DEF TpCalls
  <2>2. /\ topicCall[c].pc = "idle" /\ confirming = {} /\ confirming' = {c}
        /\ proposals[r].status = "pending" /\ topicCall' = [topicCall EXCEPT ![c] = q]
        /\ UNCHANGED <<messages, proposals, topics, tracking, cooling>>
    BY <1>2 DEF ConfirmProposal
  <2>. HIDE DEF q
  <2>. QED
    BY <2>1, <2>2, TpTakes
<1>3. ASSUME NEW c \in TopicCalls, NEW t \in TopicTitles, AutoConfirm(c, t) PROVE TpInv'
  <2>. DEFINE q == [topicCall[c] EXCEPT !.pc = "create", !.title = t]
  <2>1. /\ topicCall[c].pc = "autoconfirm" /\ confirming = {}
        /\ UNCHANGED <<messages, proposals, topics, tracking, cooling>>
    BY <1>3 DEF AutoConfirm
  <2>2. topicCall[c].root \in 1 .. MaxMessages /\ topicCall[c] \in TpCalls
    BY <2>1, <1>a, TopicsAssumption DEF TpCallsOK, TpCallOK, TpTypes
  <2>3. q \in TpCalls /\ q.pc = "create" /\ q.root = topicCall[c].root /\ q.title = t
    BY <2>2 DEF TpCalls
  <2>4. CASE TopicDone(c) /\ UNCHANGED confirming
    BY <2>1, <2>4, <1>a, TpEnds DEF TpTypes
  <2>5. CASE /\ proposals[topicCall[c].root].status = "pending" /\ confirming' = {c}
             /\ topicCall' = [topicCall EXCEPT ![c].pc = "create", ![c].title = t]
    <3>1. topicCall' = [topicCall EXCEPT ![c] = q]
      BY <2>5, <1>a DEF TpTypes
    <3>2. PICK r \in 1 .. MaxMessages : r = topicCall[c].root
      BY <2>2
    <3>3. q.root = r /\ proposals[r].status = "pending" /\ confirming' = {c}
      BY <2>3, <2>5, <3>2
    <3>. HIDE DEF q
    <3>. QED
      BY <2>1, <2>3, <3>1, <3>3, TpTakes, ZenonT(40)
  <2>. QED
    BY <1>3, <2>4, <2>5 DEF AutoConfirm
<1>4. ASSUME NEW r \in 1 .. MaxMessages, NEW t \in TopicTitles, CreateTopicByHand(r, t) PROVE TpInv'
  <2>1. NewTopic(r, t, "hand") \in TpTopics /\ NewTopic(r, t, "hand").by # "confirm"
    BY DEF NewTopic, TpTopics
  <2>2. topics' = topics \cup {NewTopic(r, t, "hand")}
        /\ UNCHANGED <<messages, proposals, tracking, cooling, confirming, topicCall>>
    BY <1>4 DEF CreateTopicByHand
  <2>3. \A x \in 1 .. MaxMessages : Made(x)' = Made(x)
    BY <2>1, <2>2 DEF Made
  <2>. QED
    BY <2>1, <2>2, <2>3, <1>a, TpTitles DEF TpTypes
<1>5. ASSUME NEW t \in topics, NEW n \in TopicTitles, UpdateTopic(t, n) PROVE TpInv'
  <2>. DEFINE new == [t EXCEPT !.title = n]
  <2>1. t \in TpTopics /\ new \in TpTopics /\ new.root = t.root /\ new.by = t.by
    BY <1>a DEF TpTypes, TpTopics
  <2>2. topics' = (topics \ {t}) \cup {new}
        /\ UNCHANGED <<messages, proposals, tracking, cooling, confirming, topicCall>>
    BY <1>5 DEF UpdateTopic
  <2>. HIDE DEF new
  <2>3. ASSUME NEW x \in 1 .. MaxMessages
        PROVE  /\ Made(x)' = {} <=> Made(x) = {}
               /\ (\A s, u \in Made(x) : s = u) => \A s, u \in Made(x)' : s = u
    <3>1. CASE t \in Made(x)
      <4>1. Made(x)' = (Made(x) \ {t}) \cup {new}
        BY <2>1, <2>2, <3>1 DEF Made
      <4>. QED
        BY <3>1, <4>1
    <3>2. CASE t \notin Made(x)
      <4>1. Made(x)' = Made(x)
        BY <2>1, <2>2, <3>2 DEF Made
      <4>. QED
        BY <4>1
    <3>. QED
      BY <3>1, <3>2
  <2>. QED
    BY <2>1, <2>2, <2>3, <1>a, TpTitles DEF TpTypes
<1>6. ASSUME NEW c \in TopicCalls, MarkDismissed(c) \/ MarkExpired(c) PROVE TpInv'
  <2>. DEFINE r == topicCall[c].root
  <2>1. PICK s \in {"dismissed", "expired"} :
           /\ topicCall[c].pc \in {"dismiss", "expire"}
           /\ TopicDone(c) \/ TopicGoto(c, "bulk")
           /\ proposals' = [proposals EXCEPT ![r].status = s]
           /\ UNCHANGED <<messages, topics, tracking, cooling, confirming>>
    BY <1>6 DEF MarkDismissed, MarkExpired
  <2>2. r \in 1 .. MaxMessages /\ proposals[r].status # "none"
    BY <2>1, <1>a, TopicsAssumption DEF TpCallsOK, TpCallOK, TpTypes
  <2>. HIDE DEF r
  <2>3. /\ proposals' \in [1 .. MaxMessages -> TpProposals]
        /\ proposals'[r].status = s /\ proposals'[r].unsaved = proposals[r].unsaved
        /\ \A x \in (1 .. MaxMessages) \ {r} : proposals'[x] = proposals[x]
    BY <2>1, <2>2, <1>a, TpStatus
  <2>4. \A x \in 1 .. MaxMessages :
            /\ proposals'[x].unsaved = proposals[x].unsaved
            /\ proposals'[x].status = "none" <=> proposals[x].status = "none"
            /\ proposals'[x].status = "pending" => proposals'[x] = proposals[x]
    BY <2>2, <2>3
  <2>. QED
    BY <2>1, <2>3, <2>4, TpWrites
<1>7. ASSUME NEW c \in TopicCalls, ExpirePending(c) PROVE TpInv'
  <2>1. /\ topicCall[c].pc = "bulk" /\ TopicDone(c)
        /\ UNCHANGED <<messages, topics, tracking, cooling, confirming>>
    BY <1>7 DEF ExpirePending
  <2>2. DOMAIN proposals = 1 .. MaxMessages
    BY <1>a DEF TpTypes
  <2>3. proposals' = [r \in 1 .. MaxMessages |->
          IF proposals[r].status = "pending" /\ r < messages - ExpiryMessages
          THEN [proposals[r] EXCEPT !.status = "expired"] ELSE proposals[r]]
    BY <1>7, <2>2 DEF ExpirePending
  <2>4. ASSUME NEW x \in 1 .. MaxMessages
        PROVE  /\ proposals'[x] \in TpProposals
               /\ proposals'[x].unsaved = proposals[x].unsaved
               /\ proposals'[x].status = "none" <=> proposals[x].status = "none"
               /\ proposals'[x].status = "pending" => proposals'[x] = proposals[x]
    <3>1. proposals[x] \in TpProposals
      BY <1>a DEF TpTypes
    <3>2. \/ proposals'[x] = proposals[x]
          \/ proposals[x].status = "pending" /\ proposals'[x] = [proposals[x] EXCEPT !.status = "expired"]
      BY <2>3
    <3>. QED
      BY <3>1, <3>2 DEF TpProposals
  <2>5. proposals' \in [1 .. MaxMessages -> TpProposals]
    BY <2>3, <2>4
  <2>. QED
    BY <2>1, <2>4, <2>5, TpWrites
<1>8. ASSUME UNCHANGED <<messages, proposals, topics, confirming, topicCall>>, cooling' \subseteq cooling,
             \/ tracking' = tracking
             \/ \E b \in BOOLEAN : tracking' = [tracking EXCEPT !.auto = b]
      PROVE  TpInv'
  <2>1. tracking' \in [last : 0 .. MaxMessages, since : Int, auto : BOOLEAN]
    BY <1>8, <1>a DEF TpTypes
  <2>2. TpTypes'
    BY <1>8, <2>1, <1>a DEF TpTypes
  <2>. QED
    BY <1>8, <2>2 DEF TpInv, TpMutex, TpCallsOK, TpCallOK, TpProposalsOK, TpProposalOK, Made
<1>9. ASSUME NEW b \in BOOLEAN, UpdateDetectionConfig(b) PROVE TpInv'
  BY <1>8, <1>9 DEF UpdateDetectionConfig
<1>10. ASSUME NEW s \in Subjects, CooldownEnds(s) PROVE TpInv'
  BY <1>8, <1>10 DEF CooldownEnds
<1>11. CASE UNCHANGED topicVars
  BY <1>8, <1>11 DEF topicVars
<1>. QED
  BY <1>1, <1>2, <1>3, <1>4, <1>5, <1>6, <1>7, <1>9, <1>10, <1>11,
     TpAutoDetect, TpGenerate, TpAsks, TpCreate, TpMarks DEF TopicsNext

\* The inductive invariant of topic proposals.
THEOREM TopicsInvariant == TopicsSpec => []TpInv
<1>1. TopicsInit => TpInv
  <2>. SUFFICES ASSUME TopicsInit PROVE TpInv
    OBVIOUS
  <2>1. TpTypes
    BY TpIdle, TopicsAssumption DEF TopicsInit, TpTypes, TpProposals, NoProposal
  <2>2. TpMutex /\ TpCallsOK
    BY DEF TopicsInit, TpMutex, TpCallsOK, TpCallOK, TopicIdle
  <2>3. TpProposalsOK
    BY DEF TopicsInit, TpProposalsOK, TpProposalOK, NoProposal, Made
  <2>. QED
    BY <2>1, <2>2, <2>3 DEF TpInv
<1>. QED
  BY <1>1, TpInvStep, PTL DEF TopicsSpec

\* A set with no two elements has at most one.
LEMMA AtMostOne == ASSUME NEW S, \A s, t \in S : s = t PROVE Cardinality(S) \in {0, 1}
<1>1. CASE S = {}
  BY <1>1, FS_EmptySet
<1>2. CASE S # {}
  <2>1. PICK s : s \in S
    BY <1>2
  <2>2. S = {s}
    BY <2>1
  <2>. QED
    BY <2>2, FS_Singleton
<1>. QED
  BY <1>1, <1>2

LEMMA TopicsSound == TpInv => TopicsTypeOK /\ OneTopicPerProposal
<1>. SUFFICES ASSUME TpInv PROVE TopicsTypeOK /\ OneTopicPerProposal
  OBVIOUS
<1>1. Cardinality(confirming) \in {0, 1}
  BY AtMostOne DEF TpInv, TpMutex
<1>2. TopicsTypeOK
  <2>1. \A r \in 1 .. MaxMessages :
          proposals[r].status \in {"none", "pending", "confirmed", "dismissed", "expired"}
    BY DEF TpInv, TpTypes, TpProposals
  <2>. QED
    BY <1>1, <2>1 DEF TpInv, TpTypes, TopicsTypeOK
<1>3. ASSUME NEW r \in 1 .. MaxMessages, ~proposals[r].unsaved
      PROVE  Cardinality({t \in GetByRootNode(r) : t.by = "confirm"}) <= 1
  <2>1. {t \in GetByRootNode(r) : t.by = "confirm"} = Made(r)
    BY DEF GetByRootNode, Made
  <2>2. Cardinality(Made(r)) \in {0, 1}
    BY <1>3, AtMostOne DEF TpInv, TpProposalsOK, TpProposalOK
  <2>. QED
    BY <2>1, <2>2
<1>. QED
  BY <1>2, <1>3 DEF OneTopicPerProposal

\* However many confirmations of a proposal race, by users and by auto_create,
\* they create one topic unless its status was not saved (proposalMu).
THEOREM OneTopicAlways == TopicsSpec => [](TopicsTypeOK /\ OneTopicPerProposal)
  BY TopicsInvariant, TopicsSound, PTL

-----------------------------------------------------------------------------
(* Rows, cards and feedback: what a step takes back *)

\* No statement writes a deleted row: each names a live one in its WHERE clause,
\* or inserts.
LEMMA DeletedStaysStep ==
  ASSUME DOMAIN rows = RowIds, [TreeRowsNext]_treeRowVars
  PROVE  [\A i \in RowIds : rows[i].at = "deleted" => rows'[i] = rows[i]]_treeRowVars
<1>1. CASE UNCHANGED rows
  BY <1>1
<1>2. ASSUME NEW i \in RowIds, SoftDeleteRow(i) \/ UpdateTreeMetadata(i)
      PROVE  \A j \in RowIds : rows[j].at = "deleted" => rows'[j] = rows[j]
  <2>1. rows[i].at = "live" /\ \A j \in RowIds \ {i} : rows'[j] = rows[j]
    BY <1>2 DEF SoftDeleteRow, UpdateTreeMetadata, Live
  <2>. QED
    BY <2>1
<1>3. ASSUME NEW i \in RowIds, NEW k \in RowKeys, NEW title \in RowTitles, InsertRow(i, k, title)
      PROVE  \A j \in RowIds : rows[j].at = "deleted" => rows'[j] = rows[j]
  <2>1. rows[i].at = "none" /\ \A j \in RowIds \ {i} : rows'[j] = rows[j]
    BY <1>3 DEF InsertRow, Absent
  <2>. QED
    BY <2>1
<1>4. ASSUME NEW r \in Renames, NEW title \in RowTitles, WriteBack(r, title)
      PROVE  \A j \in RowIds : rows[j].at = "deleted" => rows'[j] = rows[j]
  <2>. DEFINE i == renames[r].id
  <2>1. \/ UNCHANGED rows
        \/ rows[i].at = "live" /\ \A j \in RowIds \ {i} : rows'[j] = rows[j]
    BY <1>4 DEF WriteBack, Live
  <2>. QED
    BY <2>1
<1>. QED
  <2>1. ASSUME BeginWalk \/ NextPage \/ \E r \in Renames, i \in RowIds : ReadForUpdate(r, i) PROVE UNCHANGED rows
    BY <2>1 DEF BeginWalk, NextPage, ReadForUpdate
  <2>. QED
    BY <1>1, <1>2, <1>3, <1>4, <2>1 DEF TreeRowsNext, treeRowVars

\* A rename that read a row writes nothing into it once it is deleted
\* (UpdateTree, tree_repo Update).
THEOREM DeletedStaysAlways == TreeRowsSpec => DeletedStays
<1>1. TreeRowsInit => DOMAIN rows = RowIds
  BY DEF TreeRowsInit
<1>2. DOMAIN rows = RowIds /\ [TreeRowsNext]_treeRowVars => (DOMAIN rows = RowIds)'
  BY DEF TreeRowsNext, treeRowVars, BeginWalk, NextPage, ReadForUpdate, SoftDeleteRow,
     UpdateTreeMetadata, InsertRow, WriteBack
<1>3. DOMAIN rows = RowIds /\ [TreeRowsNext]_treeRowVars =>
        [\A i \in RowIds : rows[i].at = "deleted" => rows'[i] = rows[i]]_treeRowVars
  BY DeletedStaysStep
<1>. QED
  BY <1>1, <1>2, <1>3, PTL DEF TreeRowsSpec, DeletedStays

CdRows == [status : {"none", "active", "dismissed", "archived"}, rev : 0 .. MaxCardRev, data : Int, moves : Int]

CdPcs == {"idle", "created", "patch", "move", "data", "request", "execute"}

CdCalls == [pc : CdPcs, kind : PatchKinds, rev : Nat]

CdTypes == cardRow \in CdRows /\ cardCall \in [CardRequests -> CdCalls]

\* What a request that decided to patch a card may rely on: its revision is not
\* ahead of the row's, and while the two agree its patch is allowed.
CdCallOK(q) ==
  /\ q.rev <= cardRow.rev
  /\ q.pc = "patch" /\ q.rev = cardRow.rev =>
        Allowed(cardRow.status, q.kind) /\ cardRow.rev < MaxCardRev /\ cardRow.status # "none"

CdInv ==
  /\ CdTypes
  /\ cardRow.status = "none" <=> cardRow.rev = 0
  /\ \A c \in CardRequests : CdCallOK(cardCall[c])

\* A patch of the row is a row again, one revision on.
LEMMA CdPatched ==
  ASSUME CdTypes, NEW k \in PatchKinds, cardRow.rev < MaxCardRev
  PROVE  /\ Patched(k) \in CdRows /\ Patched(k).rev = cardRow.rev + 1
         /\ cardRow.status # "none" => Patched(k).status # "none"
<1>1. k.to \in {"same", "active", "archived", "dismissed"}
  BY DEF PatchKinds
<1>2. cardRow \in CdRows /\ MaxCardRev \in Int /\ cardRow.rev \in Int
  BY CardsAssumption DEF CdTypes, CdRows
<1>3. cardRow.rev + 1 \in 0 .. MaxCardRev
  BY <1>2 DEF CdRows
<1>. DEFINE s == IF k.to = "same" THEN cardRow.status ELSE k.to
            d == IF k.data THEN cardRow.data + 1 ELSE cardRow.data
            m == IF k.to = "same" THEN cardRow.moves ELSE cardRow.moves + 1
<1>4. /\ s \in {"none", "active", "dismissed", "archived"} /\ d \in Int /\ m \in Int
      /\ cardRow.status # "none" => s # "none"
  BY <1>1, <1>2 DEF CdRows
<1>5. Patched(k) = [cardRow EXCEPT !.rev = cardRow.rev + 1, !.status = s, !.data = d, !.moves = m]
  BY DEF Patched
<1>. HIDE DEF s, d, m
<1>. QED
  BY <1>2, <1>3, <1>4, <1>5 DEF CdRows

LEMMA CdIdle == CardIdle \in CdCalls /\ CardIdle.rev = 0 /\ CardIdle.pc = "idle"
  BY DEF CardIdle, PatchKinds, CdCalls, CdPcs

\* How a step changes its own request: it ends, goes on, or begins.
LEMMA CdRequest ==
  ASSUME CdTypes, NEW c \in CardRequests, NEW p \in CdPcs \ {"patch"},
         \/ CardDone(c)
         \/ Goto(c, p)
         \/ cardCall' = [cardCall EXCEPT ![c] = [CardIdle EXCEPT !.pc = p]]
  PROVE  /\ cardCall' \in [CardRequests -> CdCalls]
         /\ \A d \in CardRequests \ {c} : cardCall'[d] = cardCall[d]
         /\ cardCall'[c].pc # "patch" /\ cardCall'[c].rev \in {0, cardCall[c].rev}
<1>1. cardCall[c] \in CdCalls
  BY DEF CdTypes
<1>2. CASE CardDone(c)
  BY <1>2, CdIdle DEF CardDone, CdTypes
<1>3. CASE Goto(c, p)
  <2>1. cardCall' = [cardCall EXCEPT ![c] = [cardCall[c] EXCEPT !.pc = p]]
    BY <1>3 DEF Goto
  <2>2. [cardCall[c] EXCEPT !.pc = p] \in CdCalls
    BY <1>1 DEF CdCalls
  <2>3. cardCall'[c] = [cardCall[c] EXCEPT !.pc = p]
    BY <2>1 DEF CdTypes
  <2>. QED
    BY <1>1, <2>1, <2>2, <2>3 DEF CdTypes, CdCalls
<1>4. CASE cardCall' = [cardCall EXCEPT ![c] = [CardIdle EXCEPT !.pc = p]]
  <2>1. [CardIdle EXCEPT !.pc = p] \in CdCalls /\ [CardIdle EXCEPT !.pc = p].pc = p /\ [CardIdle EXCEPT !.pc = p].rev = 0
    BY CdIdle DEF CdCalls
  <2>. QED
    BY <1>4, <2>1 DEF CdTypes
<1>. QED
  BY <1>2, <1>3, <1>4

\* A step that leaves the row alone keeps the invariant, unless it begins a patch.
LEMMA CdMoves ==
  ASSUME CdInv, NEW c \in CardRequests, NEW p \in CdPcs \ {"patch"}, UNCHANGED cardRow,
         \/ CardDone(c)
         \/ Goto(c, p)
         \/ cardCall' = [cardCall EXCEPT ![c] = [CardIdle EXCEPT !.pc = p]]
  PROVE  CdInv'
<1>1. CdTypes /\ cardRow.rev \in Nat
  BY DEF CdInv, CdTypes, CdRows
<1>2. /\ cardCall' \in [CardRequests -> CdCalls]
      /\ \A d \in CardRequests \ {c} : cardCall'[d] = cardCall[d]
      /\ cardCall'[c].pc # "patch" /\ cardCall'[c].rev \in {0, cardCall[c].rev}
  BY <1>1, CdRequest
<1>3. \A d \in CardRequests : CdCallOK(cardCall[d])
  BY DEF CdInv
<1>4. \A d \in CardRequests : CdCallOK(cardCall[d])'
  BY <1>1, <1>2, <1>3 DEF CdCallOK
<1>. QED
  BY <1>1, <1>2, <1>4 DEF CdInv, CdTypes

LEMMA CdInvStep == CdInv /\ [CardsNext]_cardVars => CdInv' /\
    \/ cardRow' = cardRow \/ cardRow.status = "none"
    \/ \E k \in PatchKinds : Allowed(cardRow.status, k) /\ cardRow' = Patched(k)
<1>. DEFINE Legal == \/ cardRow' = cardRow \/ cardRow.status = "none"
                     \/ \E k \in PatchKinds : Allowed(cardRow.status, k) /\ cardRow' = Patched(k)
<1>. SUFFICES ASSUME CdInv, [CardsNext]_cardVars PROVE CdInv' /\ Legal
  OBVIOUS
<1>a. CdTypes /\ cardRow.rev \in Nat /\ MaxCardRev \in Nat \ {0} /\ \A d \in CardRequests : CdCallOK(cardCall[d])
  BY CardsAssumption DEF CdInv, CdTypes, CdRows
<1>1. ASSUME NEW c \in CardRequests, CreateCard(c) PROVE CdInv' /\ Legal
  <2>1. /\ cardRow.status = "none" /\ cardRow' = [status |-> "active", rev |-> 1, data |-> 0, moves |-> 0]
        /\ cardCall' = [cardCall EXCEPT ![c] = [CardIdle EXCEPT !.pc = "created"]]
    BY <1>1 DEF CreateCard
  <2>2. cardRow' \in CdRows /\ cardRow'.rev = 1 /\ cardRow'.status = "active" /\ cardRow.rev = 0
    BY <2>1, <1>a DEF CdRows, CdInv
  <2>3. /\ cardCall' \in [CardRequests -> CdCalls]
        /\ \A d \in CardRequests \ {c} : cardCall'[d] = cardCall[d]
        /\ cardCall'[c].pc # "patch" /\ cardCall'[c].rev \in {0, cardCall[c].rev}
    BY <2>1, <1>a, CdRequest DEF CdPcs
  <2>4. \A d \in CardRequests : cardCall[d].rev = 0
    BY <2>2, <1>a DEF CdCallOK, CdTypes, CdCalls
  <2>5. \A d \in CardRequests : CdCallOK(cardCall[d])'
    BY <2>2, <2>3, <2>4 DEF CdCallOK
  <2>. QED
    BY <2>1, <2>2, <2>3, <2>5 DEF CdInv, CdTypes
<1>2. ASSUME NEW c \in CardRequests, NEW k \in PatchKinds, PatchCard(c, k) PROVE CdInv' /\ Legal
  <2>. DEFINE q == [pc |-> "patch", kind |-> k, rev |-> cardRow.rev]
  <2>1. /\ cardCall' = [cardCall EXCEPT ![c] = q] /\ UNCHANGED cardRow
        /\ cardRow.status # "none" /\ cardRow.rev < MaxCardRev /\ Allowed(cardRow.status, k)
    BY <1>2 DEF PatchCard
  <2>2. q \in CdCalls
    BY <1>a DEF CdCalls, CdPcs
  <2>3. CdCallOK(q)'
    BY <2>1, <1>a DEF CdCallOK
  <2>4. \A d \in CardRequests : cardCall'[d] = IF d = c THEN q ELSE cardCall[d]
    BY <2>1, <1>a DEF CdTypes
  <2>5. CdTypes'
    BY <2>1, <2>2, <1>a DEF CdTypes
  <2>6. \A d \in CardRequests : CdCallOK(cardCall[d])'
    BY <2>1, <2>3, <2>4, <1>a DEF CdCallOK
  <2>. QED
    BY <2>1, <2>5, <2>6 DEF CdInv
<1>3. ASSUME NEW c \in CardRequests, WritePatch(c) PROVE CdInv' /\ Legal
  <2>. DEFINE k == cardCall[c].kind
  <2>1. CASE cardRow.rev # cardCall[c].rev
    <3>1. CardDone(c) /\ UNCHANGED cardRow
      BY <1>3, <2>1 DEF WritePatch
    <3>2. CdInv'
      BY <3>1, CdMoves DEF CdPcs
    <3>. QED
      BY <3>1, <3>2
  <2>2. CASE cardRow.rev = cardCall[c].rev
    <3>1. cardCall[c].pc = "patch" /\ cardRow' = Patched(k) /\ Goto(c, FirstEvent(k))
      BY <1>3, <2>2 DEF WritePatch
    <3>2. k \in PatchKinds /\ Allowed(cardRow.status, k) /\ cardRow.rev < MaxCardRev /\ cardRow.status # "none"
      BY <2>2, <3>1, <1>a DEF CdCallOK, CdTypes, CdCalls
    <3>3. cardRow' \in CdRows /\ cardRow'.rev = cardRow.rev + 1 /\ cardRow'.status # "none"
      BY <3>1, <3>2, <1>a, CdPatched
    <3>4. FirstEvent(k) \in CdPcs \ {"patch"}
      BY DEF FirstEvent, CdPcs
    <3>5. /\ cardCall' \in [CardRequests -> CdCalls]
          /\ \A d \in CardRequests \ {c} : cardCall'[d] = cardCall[d]
          /\ cardCall'[c].pc # "patch" /\ cardCall'[c].rev \in {0, cardCall[c].rev}
      BY <3>1, <3>4, <1>a, CdRequest
    <3>6. \A d \in CardRequests : cardCall[d].rev <= cardRow.rev /\ cardCall[d].rev \in Nat
      BY <1>a DEF CdCallOK, CdTypes, CdCalls
    <3>7. \A d \in CardRequests : CdCallOK(cardCall[d])'
      BY <3>3, <3>5, <3>6, <1>a DEF CdCallOK
    <3>. QED
      BY <3>1, <3>2, <3>3, <3>5, <3>7, <1>a DEF CdInv, CdTypes
  <2>. QED
    BY <2>1, <2>2
<1>4. ASSUME NEW c \in CardRequests,
             \/ CreateCardEvent(c) \/ MoveEvent(c) \/ DataEvent(c) \/ SubmitCardAction(c)
             \/ RequestEvent(c) \/ ExecuteCardAction(c) \/ CardFail(c)
      PROVE  CdInv' /\ Legal
  <2>1. UNCHANGED cardRow
    BY <1>4 DEF CreateCardEvent, MoveEvent, DataEvent, SubmitCardAction, RequestEvent,
       ExecuteCardAction, CardFail
  <2>2. \E p \in {"data", "request", "execute"} :
           \/ CardDone(c) \/ Goto(c, p)
           \/ cardCall' = [cardCall EXCEPT ![c] = [CardIdle EXCEPT !.pc = p]]
    BY <1>4 DEF CreateCardEvent, MoveEvent, DataEvent, SubmitCardAction, RequestEvent,
       ExecuteCardAction, CardFail
  <2>3. CdInv'
    BY <2>1, <2>2, CdMoves DEF CdPcs
  <2>. QED
    BY <2>1, <2>3
<1>5. CASE UNCHANGED cardVars
  BY <1>5 DEF cardVars, CdInv, CdTypes, CdCallOK
<1>. QED
  BY <1>1, <1>2, <1>3, <1>4, <1>5 DEF CardsNext

\* Whatever row a request decided on, what it writes is legal for the row it
\* meets: a patch compares the revision it read again when it writes (PatchCard,
\* UPDATE ... WHERE revision).
THEOREM LegalTransitionsAlways == CardsSpec => []CardsTypeOK /\ LegalTransitions
<1>1. CardsInit => CdInv
  BY CardsAssumption, CdIdle DEF CardsInit, CdInv, CdTypes, CdRows, CdCallOK
<1>2. CdInv /\ [CardsNext]_cardVars =>
        [\/ cardRow'.rev = cardRow.rev \/ cardRow.status = "none"
         \/ \E k \in PatchKinds : Allowed(cardRow.status, k) /\ cardRow' = Patched(k)]_cardVars
  BY CdInvStep
<1>3. CdInv => CardsTypeOK
  BY DEF CdInv, CdTypes, CdRows, CdCalls, CdCallOK, CardsTypeOK
<1>. QED
  BY <1>1, <1>2, <1>3, CdInvStep, PTL DEF CardsSpec, LegalTransitions

\* The hub forgets an item only once its acknowledgement is stored, or with the
\* process (feedbackHub.remove after appendFeedbackAcknowledged).
FbInv ==
  /\ fbAck \in [Agents -> [pc : {"idle", "append", "remove"}, item : SUBSET FeedbackIDs]]
  /\ \A a \in Agents : fbAck[a].pc = "remove" => fbAck[a].item \subseteq fbAcked

LEMMA FbInvStep ==
  ASSUME FbInv, [FeedbackNext]_fbVars
  PROVE  FbInv' /\ [\A f \in fbPending \ fbPending' : f \in fbAcked \/ FeedbackRestart]_fbVars
<1>1. ASSUME NEW f \in FeedbackIDs, SubmitFeedbackEvent(f) \/ PublishFeedback(f)
      PROVE  UNCHANGED <<fbAck, fbAcked>> /\ fbPending \subseteq fbPending'
  BY <1>1 DEF SubmitFeedbackEvent, PublishFeedback
<1>2. ASSUME ListPending \/ SubscribeFeedback \/ TakeFeedback \/ CleanupSubscription
      PROVE  UNCHANGED <<fbAck, fbAcked>> /\ fbPending \subseteq fbPending'
  BY <1>2 DEF ListPending, SubscribeFeedback, TakeFeedback, CleanupSubscription
<1>3. CASE UNCHANGED <<fbAck, fbAcked>> /\ fbPending \subseteq fbPending'
  BY <1>3 DEF FbInv
<1>4. CASE FeedbackRestart
  BY <1>4 DEF FeedbackRestart, FbInv, NoAck
<1>5. ASSUME NEW a \in Agents, NEW f \in FeedbackIDs, Acknowledge(a, f)
      PROVE  FbInv' /\ UNCHANGED fbPending
  <2>1. fbAck' = [fbAck EXCEPT ![a] = [pc |-> "append", item |-> {f}]] /\ UNCHANGED <<fbAcked, fbPending>>
    BY <1>5 DEF Acknowledge
  <2>. QED
    BY <2>1 DEF FbInv
<1>6. ASSUME NEW a \in Agents, AppendAck(a) PROVE FbInv' /\ UNCHANGED fbPending
  <2>1. /\ fbAck' = [fbAck EXCEPT ![a] = [fbAck[a] EXCEPT !.pc = "remove"]]
        /\ fbAcked' = fbAcked \cup fbAck[a].item /\ UNCHANGED fbPending
    BY <1>6 DEF AppendAck
  <2>2. [fbAck[a] EXCEPT !.pc = "remove"] = [pc |-> "remove", item |-> fbAck[a].item] /\ fbAck[a].item \subseteq FeedbackIDs
    BY DEF FbInv
  <2>. QED
    BY <2>1, <2>2 DEF FbInv
<1>7. ASSUME NEW a \in Agents, RemovePending(a) PROVE FbInv' /\ fbPending \ fbPending' \subseteq fbAcked
  <2>1. /\ fbAck[a].pc = "remove" /\ fbPending' = fbPending \ fbAck[a].item /\ UNCHANGED fbAcked
        /\ fbAck' = [fbAck EXCEPT ![a] = [pc |-> "idle", item |-> {}]]
    BY <1>7 DEF RemovePending, NoAck
  <2>2. fbAck[a].item \subseteq fbAcked
    BY <2>1 DEF FbInv
  <2>. QED
    BY <2>1, <2>2 DEF FbInv
<1>8. CASE UNCHANGED fbVars
  BY <1>8 DEF fbVars, FbInv
<1>. QED
  BY <1>1, <1>2, <1>3, <1>4, <1>5, <1>6, <1>7, <1>8 DEF FeedbackNext

\* While a server runs, feedback that is not acknowledged stays in memory,
\* however acknowledgements and subscriptions interleave.
THEOREM FeedbackRetained == FeedbackSpec => RetainedUntilAcknowledged
<1>1. FeedbackInit => FbInv
  BY DEF FeedbackInit, FbInv, NoAck
<1>. QED
  BY <1>1, FbInvStep, PTL DEF FeedbackSpec, RetainedUntilAcknowledged

-----------------------------------------------------------------------------
(* Files *)

FlRows == [owner : FileOwners, hash : FileHashes, live : BOOLEAN, refs : Int, held : Int]

FlUploads == [at : {"idle", "spilled", "stored", "insert", "again", "bump"},
              owner : FileOwners \cup {""}, hash : FileHashes \cup {""}, row : Int]

Spilled == {u \in FileUploads : upload[u].at = "spilled"}

\* Only Store writes a path, and it renames a whole file to it.
FlTypes ==
  /\ content \in [FileHashes -> {"none", "whole"}]
  /\ upload \in [FileUploads -> FlUploads]
  /\ frows \in Seq(FlRows) /\ Len(frows) <= MaxFileRows
  /\ paging.shown \subseteq 1 .. Len(frows)

\* A temporary file exists for every upload that has not stored its bytes yet.
FlSpills ==
  /\ spill \in Int /\ uploads \in Int /\ uploads <= MaxUploads
  /\ Cardinality(Spilled) <= spill /\ spill <= uploads

\* An upload inserts or counts a row only after the bytes are at their path, and
\* the row it counts is one of its bytes.
FlUploadOK(q) ==
  /\ q.at # "idle" => q.owner \in FileOwners /\ q.hash \in FileHashes
  /\ q.at \in {"stored", "insert", "again", "bump"} => content[q.hash] = "whole"
  /\ q.at = "bump" => q.row \in 1 .. Len(frows)

FlRowsOK ==
  /\ \A i \in 1 .. Len(frows) : content[frows[i].hash] = "whole" /\ frows[i].refs = frows[i].held
  /\ \A i, j \in 1 .. Len(frows) : frows[i].live /\ frows[j].live /\ frows[i].owner = frows[j].owner
                                     /\ frows[i].hash = frows[j].hash => i = j

FlInv == FlTypes /\ FlSpills /\ (\A u \in FileUploads : FlUploadOK(upload[u])) /\ FlRowsOK

LEMMA FlIdle == IdleUpload \in FlUploads /\ IdleUpload.at = "idle"
  BY DEF IdleUpload, FlUploads

\* How a step changes its own upload.
LEMMA FlUpload ==
  ASSUME FlTypes, NEW u \in FileUploads, NEW q \in FlUploads, upload' = [upload EXCEPT ![u] = q]
  PROVE  /\ upload' \in [FileUploads -> FlUploads]
         /\ \A v \in FileUploads : upload'[v] = IF v = u THEN q ELSE upload[v]
  BY DEF FlTypes

\* The temporary files of the others are untouched by an upload's step.
LEMMA FlSpilledMore ==
  ASSUME NEW S \in SUBSET FileUploads, NEW u \in FileUploads
  PROVE  Cardinality(S \cup {u}) <= Cardinality(S) + 1
<1>1. IsFiniteSet(S) /\ Cardinality(S) \in Nat
  BY FilesAssumption, FS_Subset, FS_CardinalityType
<1>2. PICK n \in Nat : n = Cardinality(S)
  BY <1>1
<1>3. Cardinality(S \cup {u}) = n \/ Cardinality(S \cup {u}) = n + 1
  BY <1>1, <1>2, FS_AddElement
<1>. QED
  BY <1>2, <1>3

LEMMA FlSpilledLess ==
  ASSUME NEW S \in SUBSET FileUploads, NEW u \in S
  PROVE  Cardinality(S \ {u}) = Cardinality(S) - 1
<1>1. IsFiniteSet(S)
  BY FilesAssumption, FS_Subset
<1>. QED
  BY <1>1, FS_RemoveElement, FS_CardinalityType

LEMMA FlFinite == ASSUME NEW S \in SUBSET FileUploads PROVE Cardinality(S) \in Nat
<1>1. IsFiniteSet(S)
  BY FilesAssumption, FS_Subset
<1>. QED
  BY <1>1, FS_CardinalityType

\* A step of an upload that writes neither a path nor a row.
LEMMA FlQuiet ==
  ASSUME FlInv, UNCHANGED <<content, frows, spill, uploads, paging>>,
         NEW u \in FileUploads, NEW q \in FlUploads, upload' = [upload EXCEPT ![u] = q],
         FlUploadOK(q), upload[u].at # "spilled", q.at # "spilled"
  PROVE  FlInv'
<1>1. /\ upload' \in [FileUploads -> FlUploads]
      /\ \A v \in FileUploads : upload'[v] = IF v = u THEN q ELSE upload[v]
  BY FlUpload DEF FlInv
<1>2. Spilled' = Spilled
  BY <1>1 DEF Spilled
<1>3. \A v \in FileUploads : FlUploadOK(upload[v])'
  <2>1. ASSUME NEW v \in FileUploads PROVE FlUploadOK(upload[v])'
    BY <1>1 DEF FlInv, FlUploadOK
  <2>. QED
    BY <2>1
<1>. QED
  BY <1>1, <1>2, <1>3 DEF FlInv, FlTypes, FlSpills, FlRowsOK

LEMMA FlInvStep == FlInv /\ [FileNext]_fileVars => FlInv'
<1>. SUFFICES ASSUME FlInv, [FileNext]_fileVars PROVE FlInv'
  OBVIOUS
<1>a. FlTypes /\ FlSpills /\ FlRowsOK /\ \A u \in FileUploads : FlUploadOK(upload[u])
  BY DEF FlInv
<1>1. ASSUME NEW u \in FileUploads, NEW owner \in FileOwners, NEW x \in FileHashes, ResolveByUpload(u, owner, x)
      PROVE  FlInv'
  <2>. DEFINE q == [at |-> "spilled", owner |-> owner, hash |-> x, row |-> 0]
  <2>1. /\ upload[u].at = "idle" /\ uploads < MaxUploads /\ uploads' = uploads + 1 /\ spill' = spill + 1
        /\ upload' = [upload EXCEPT ![u] = q] /\ UNCHANGED <<content, frows, paging>>
    BY <1>1 DEF ResolveByUpload
  <2>2. q \in FlUploads /\ q.at = "spilled" /\ q.owner \in FileOwners /\ q.hash \in FileHashes
    <3>1. owner \in FileOwners \cup {""} /\ owner \in FileOwners
      OBVIOUS
    <3>2. x \in FileHashes \cup {""} /\ x \in FileHashes
      OBVIOUS
    <3>3. 0 \in Int
      OBVIOUS
    <3>. QED
      BY <3>1, <3>2, <3>3 DEF FlUploads
  <2>. HIDE DEF q
  <2>3. /\ upload' \in [FileUploads -> FlUploads]
        /\ \A v \in FileUploads : upload'[v] = IF v = u THEN q ELSE upload[v]
    BY <2>1, <2>2, <1>a, FlUpload
  <2>4. FlSpills'
    <3>1. Spilled' = Spilled \cup {u}
      BY <2>2, <2>3 DEF Spilled
    <3>2. PICK n \in Nat : n = Cardinality(Spilled)
      BY FlFinite DEF Spilled
    <3>3. PICK m \in Nat : m = Cardinality(Spilled')
      BY FlFinite DEF Spilled
    <3>4. m <= n + 1
      BY <3>1, <3>2, <3>3, FlSpilledMore DEF Spilled
    <3>. QED
      BY <2>1, <3>2, <3>3, <3>4, <1>a, FilesAssumption DEF FlSpills
  <2>5. ASSUME NEW v \in FileUploads PROVE FlUploadOK(upload[v])'
    <3>1. CASE v = u
      BY <2>2, <2>3, <3>1 DEF FlUploadOK
    <3>2. CASE v # u
      BY <2>1, <2>3, <3>2, <1>a DEF FlUploadOK
    <3>. QED
      BY <3>1, <3>2
  <2>. QED
    BY <2>1, <2>3, <2>4, <2>5, <1>a DEF FlInv, FlTypes, FlRowsOK
<1>2. ASSUME NEW u \in FileUploads, SpillRefused(u) \/ Store(u) PROVE FlInv'
  <2>. DEFINE x == upload[u].hash
  <2>1. upload[u].at = "spilled" /\ spill' = spill - 1 /\ UNCHANGED <<frows, uploads, paging>>
    BY <1>2 DEF SpillRefused, Store
  <2>2. x \in FileHashes /\ upload[u].owner \in FileOwners
    BY <2>1, <1>a DEF FlUploadOK
  <2>3. content' \in [FileHashes -> {"none", "whole"}] /\ \A y \in FileHashes : content'[y] = content[y] \/ content'[y] = "whole"
    BY <1>2, <2>2, <1>a DEF SpillRefused, Store, FlTypes
  <2>4. PICK q \in FlUploads : upload' = [upload EXCEPT ![u] = q] /\ q.at # "spilled" /\ FlUploadOK(q)'
    <3>1. CASE SpillRefused(u)
      BY <3>1, FlIdle DEF SpillRefused, FlUploadOK
    <3>2. CASE Store(u)
      <4>. DEFINE q == [upload[u] EXCEPT !.at = "stored"]
      <4>1. upload' = [upload EXCEPT ![u] = q]
        BY <3>2, <1>a DEF Store, GotoUpload, FlTypes
      <4>2. q \in FlUploads /\ q.at = "stored" /\ q.hash = x /\ q.owner = upload[u].owner
        BY <1>a DEF FlTypes, FlUploads
      <4>3. content'[x] = "whole"
        BY <3>2, <2>2, <1>a DEF Store, FlTypes
      <4>. QED
        BY <2>2, <4>1, <4>2, <4>3 DEF FlUploadOK
    <3>. QED
      BY <1>2, <3>1, <3>2
  <2>. HIDE DEF x
  <2>5. /\ upload' \in [FileUploads -> FlUploads]
        /\ \A v \in FileUploads : upload'[v] = IF v = u THEN q ELSE upload[v]
    BY <2>4, <1>a, FlUpload
  <2>6. FlSpills'
    <3>1. Spilled' = Spilled \ {u} /\ u \in Spilled
      BY <2>1, <2>4, <2>5 DEF Spilled
    <3>2. PICK n \in Nat : n = Cardinality(Spilled)
      BY FlFinite DEF Spilled
    <3>3. PICK m \in Nat : m = Cardinality(Spilled')
      BY FlFinite DEF Spilled
    <3>4. m = n - 1
      BY <3>1, <3>2, <3>3, FlSpilledLess DEF Spilled
    <3>. QED
      BY <2>1, <3>2, <3>3, <3>4, <1>a DEF FlSpills
  <2>7. ASSUME NEW v \in FileUploads PROVE FlUploadOK(upload[v])'
    BY <2>1, <2>3, <2>4, <2>5, <1>a DEF FlUploadOK
  <2>8. FlRowsOK'
    <3>1. \A i \in 1 .. Len(frows) : frows[i].hash \in FileHashes
      <4>1. \A i \in 1 .. Len(frows) : frows[i] \in FlRows
        BY <1>a DEF FlTypes
      <4>. QED
        BY <4>1 DEF FlRows
    <3>. QED
      BY <3>1, <2>1, <2>3, <1>a DEF FlRowsOK
  <2>. QED
    BY <2>1, <2>3, <2>5, <2>6, <2>7, <2>8, <1>a DEF FlInv, FlTypes
<1>3. ASSUME NEW u \in FileUploads, GetByProfileAndHash(u) PROVE FlInv'
  <2>. DEFINE rows_ == LiveRows(upload[u].owner, upload[u].hash)
  <2>1. upload[u].at \in {"stored", "again"} /\ UNCHANGED <<content, spill, frows, uploads, paging>>
    BY <1>3 DEF GetByProfileAndHash
  <2>2. upload[u] \in FlUploads /\ FlUploadOK(upload[u])
    BY <1>a DEF FlTypes
  <2>3. PICK q \in FlUploads : /\ upload' = [upload EXCEPT ![u] = q] /\ q.at # "spilled" /\ FlUploadOK(q)
    <3>1. CASE rows_ # {}
      <4>. DEFINE r == CHOOSE i \in rows_ : TRUE
                  q == [upload[u] EXCEPT !.at = "bump", !.row = r]
      <4>1. r \in 1 .. Len(frows) /\ r \in Int
        <5>1. rows_ \subseteq 1 .. Len(frows) /\ Len(frows) \in Nat
          BY <1>a DEF LiveRows, FlTypes
        <5>2. r \in rows_
          BY <3>1
        <5>. QED
          BY <5>1, <5>2
      <4>2. upload' = [upload EXCEPT ![u] = q]
        BY <1>3, <3>1, <1>a DEF GetByProfileAndHash, FlTypes
      <4>. HIDE DEF r
      <4>3. q \in FlUploads /\ q.at = "bump" /\ q.row = r /\ q.hash = upload[u].hash /\ q.owner = upload[u].owner
        BY <2>2, <4>1 DEF FlUploads
      <4>. QED
        BY <2>1, <2>2, <4>1, <4>2, <4>3 DEF FlUploadOK
    <3>2. CASE upload' = [upload EXCEPT ![u] = IdleUpload]
      BY <3>2, FlIdle DEF FlUploadOK
    <3>3. CASE upload' = [upload EXCEPT ![u].at = "insert"]
      <4>. DEFINE q == [upload[u] EXCEPT !.at = "insert"]
      <4>1. upload' = [upload EXCEPT ![u] = q]
        BY <3>3, <1>a DEF FlTypes
      <4>2. q \in FlUploads /\ q.at = "insert" /\ q.hash = upload[u].hash /\ q.owner = upload[u].owner
        BY <2>2 DEF FlUploads
      <4>. QED
        BY <2>1, <2>2, <4>1, <4>2 DEF FlUploadOK
    <3>. QED
      BY <1>3, <3>1, <3>2, <3>3 DEF GetByProfileAndHash
  <2>. QED
    BY <2>1, <2>3, FlQuiet
<1>4. ASSUME NEW u \in FileUploads, InsertFile(u) PROVE FlInv'
  <2>1. upload[u].at = "insert" /\ UNCHANGED <<content, spill, uploads, paging>>
    BY <1>4 DEF InsertFile
  <2>2. upload[u] \in FlUploads /\ FlUploadOK(upload[u])
    BY <1>a DEF FlTypes
  <2>3. CASE GotoUpload(u, "again") /\ UNCHANGED frows
    <3>. DEFINE q == [upload[u] EXCEPT !.at = "again"]
    <3>1. upload' = [upload EXCEPT ![u] = q]
      BY <2>3, <1>a DEF GotoUpload, FlTypes
    <3>2. q \in FlUploads /\ q.at = "again" /\ q.hash = upload[u].hash /\ q.owner = upload[u].owner
      BY <2>2 DEF FlUploads
    <3>3. FlUploadOK(q)
      BY <2>1, <2>2, <3>2 DEF FlUploadOK
    <3>. QED
      BY <2>1, <2>3, <3>1, <3>2, <3>3, FlQuiet
  <2>4. CASE LiveRows(upload[u].owner, upload[u].hash) = {}
    <3>. DEFINE n == [owner |-> upload[u].owner, hash |-> upload[u].hash, live |-> TRUE, refs |-> 1, held |-> 1]
    <3>1. /\ frows' = Append(frows, n) /\ Len(frows) < MaxFileRows
          /\ upload' = [upload EXCEPT ![u] = IdleUpload]
      BY <1>4, <2>4 DEF InsertFile
    <3>2. /\ n \in FlRows /\ n.refs = n.held /\ n.hash = upload[u].hash /\ n.owner = upload[u].owner
          /\ content[n.hash] = "whole"
      BY <2>1, <2>2 DEF FlUploadOK, FlRows
    <3>3. \A i \in 1 .. Len(frows) : ~(frows[i].live /\ frows[i].owner = n.owner /\ frows[i].hash = n.hash)
      BY <2>4, <1>a DEF LiveRows, FlTypes
    <3>. HIDE DEF n
    <3>4. /\ frows' \in Seq(FlRows) /\ Len(frows) \in Nat /\ Len(frows') = Len(frows) + 1
          /\ \A i \in 1 .. Len(frows) : frows'[i] = frows[i]
          /\ frows'[Len(frows) + 1] = n
      BY <3>1, <3>2, <1>a DEF FlTypes
    <3>5. /\ upload' \in [FileUploads -> FlUploads]
          /\ \A v \in FileUploads : upload'[v] = IF v = u THEN IdleUpload ELSE upload[v]
      BY <3>1, <1>a, FlIdle, FlUpload
    <3>6. Spilled' = Spilled
      BY <2>1, <3>5, FlIdle DEF Spilled
    <3>7. FlTypes'
      BY <2>1, <3>1, <3>4, <3>5, <1>a, FilesAssumption DEF FlTypes
    <3>8. \A v \in FileUploads : FlUploadOK(upload[v])'
      BY <2>1, <3>4, <3>5, <1>a, FlIdle DEF FlUploadOK
    <3>9. FlRowsOK'
      BY <2>1, <3>2, <3>3, <3>4, <1>a DEF FlRowsOK
    <3>. QED
      BY <2>1, <3>6, <3>7, <3>8, <3>9, <1>a DEF FlInv, FlSpills
  <2>. QED
    BY <1>4, <2>3, <2>4 DEF InsertFile
<1>5. ASSUME NEW i \in 1 .. Len(frows), NEW row \in FlRows, frows' = [frows EXCEPT ![i] = row],
             row.owner = frows[i].owner, row.hash = frows[i].hash, row.live => frows[i].live, row.refs = row.held
      PROVE  FlRowsOK /\ frows' \in Seq(FlRows) /\ Len(frows') = Len(frows)
             /\ (UNCHANGED content => FlRowsOK')
  <2>1. frows' \in Seq(FlRows) /\ Len(frows') = Len(frows)
        /\ \A j \in 1 .. Len(frows) : frows'[j] = IF j = i THEN row ELSE frows[j]
    BY <1>5, <1>a DEF FlTypes
  <2>. QED
    BY <2>1, <1>5, <1>a DEF FlRowsOK
<1>6. ASSUME NEW u \in FileUploads, bumpRefCount(u) PROVE FlInv'
  <2>. DEFINE i == upload[u].row
  <2>1. /\ upload[u].at = "bump" /\ upload' = [upload EXCEPT ![u] = IdleUpload]
        /\ UNCHANGED <<content, spill, uploads, paging>>
    BY <1>6 DEF bumpRefCount
  <2>2. i \in 1 .. Len(frows)
    BY <2>1, <1>a DEF FlUploadOK
  <2>3. frows' \in Seq(FlRows) /\ Len(frows') = Len(frows) /\ FlRowsOK'
    <3>1. CASE UNCHANGED frows
      BY <3>1, <2>1, <1>a DEF FlTypes, FlRowsOK
    <3>2. CASE frows' = [frows EXCEPT ![i].refs = @ + 1, ![i].held = @ + 1]
      <4>. DEFINE row == [frows[i] EXCEPT !.refs = frows[i].refs + 1, !.held = frows[i].held + 1]
      <4>1. frows[i] \in FlRows /\ frows[i].refs = frows[i].held
        BY <2>2, <1>a DEF FlTypes, FlRowsOK
      <4>2. /\ row \in FlRows /\ row.owner = frows[i].owner /\ row.hash = frows[i].hash
            /\ row.live = frows[i].live /\ row.refs = row.held
        <5>1. frows[i].refs \in Int /\ frows[i].held \in Int /\ frows[i].refs + 1 = frows[i].held + 1
          BY <4>1 DEF FlRows
        <5>2. PICK a \in Int : a = frows[i].refs + 1 /\ a = frows[i].held + 1
          BY <5>1
        <5>3. PICK f \in FlRows : f = frows[i]
          BY <4>1
        <5>4. row = [f EXCEPT !.refs = a, !.held = a]
          BY <5>2, <5>3
        <5>. HIDE DEF row, i
        <5>5. row \in FlRows /\ row.owner = f.owner /\ row.hash = f.hash /\ row.refs = a /\ row.held = a
          BY <5>4 DEF FlRows
        <5>6. row.live = f.live
          BY <5>4 DEF FlRows
        <5>. QED
          BY <5>3, <5>5, <5>6
      <4>3. frows' = [frows EXCEPT ![i] = row]
        BY <3>2, <2>2, <4>1, <1>a DEF FlTypes, FlRows
      <4>. HIDE DEF row, i
      <4>. QED
        BY <1>5, <2>1, <2>2, <4>2, <4>3
    <3>. QED
      BY <1>6, <3>1, <3>2 DEF bumpRefCount
  <2>4. /\ upload' \in [FileUploads -> FlUploads]
        /\ \A v \in FileUploads : upload'[v] = IF v = u THEN IdleUpload ELSE upload[v]
    BY <2>1, <1>a, FlIdle, FlUpload
  <2>5. Spilled' = Spilled
    BY <2>1, <2>4, FlIdle DEF Spilled
  <2>6. \A v \in FileUploads : FlUploadOK(upload[v])'
    BY <2>1, <2>3, <2>4, <1>a, FlIdle DEF FlUploadOK
  <2>. QED
    BY <2>1, <2>3, <2>4, <2>5, <2>6, <1>a DEF FlInv, FlTypes, FlSpills
<1>7. ASSUME NEW i \in DOMAIN frows, SoftDelete(i) PROVE FlInv'
  <2>. DEFINE row == [frows[i] EXCEPT !.live = FALSE]
  <2>1. frows' = [frows EXCEPT ![i] = row] /\ UNCHANGED <<content, spill, upload, uploads, paging>>
    BY <1>7, <1>a DEF SoftDelete, FlTypes
  <2>2. i \in 1 .. Len(frows) /\ frows[i] \in FlRows /\ frows[i].refs = frows[i].held
    BY <1>a DEF FlTypes, FlRowsOK
  <2>3. /\ row \in FlRows /\ row.owner = frows[i].owner /\ row.hash = frows[i].hash
        /\ ~row.live /\ row.refs = row.held
    BY <2>2 DEF FlRows
  <2>. HIDE DEF row
  <2>4. frows' \in Seq(FlRows) /\ Len(frows') = Len(frows) /\ FlRowsOK'
    BY <1>5, <2>1, <2>2, <2>3
  <2>. QED
    BY <2>1, <2>4, <1>a DEF FlInv, FlTypes, FlSpills, Spilled, FlUploadOK
<1>8. CASE FileCrash
  <2>1. /\ \A u \in FileUploads : upload'[u] = IdleUpload
        /\ upload' \in [FileUploads -> FlUploads]
        /\ UNCHANGED <<content, spill, frows, uploads, paging>>
    BY <1>8, FlIdle DEF FileCrash
  <2>2. Spilled' = {}
    BY <2>1, FlIdle DEF Spilled
  <2>3. PICK n \in Nat : n = Cardinality(Spilled)
    BY FlFinite DEF Spilled
  <2>4. FlSpills'
    BY <2>1, <2>2, <2>3, <1>a, FS_EmptySet DEF FlSpills
  <2>. QED
    BY <2>1, <2>4, <1>a, FlIdle DEF FlInv, FlTypes, FlRowsOK, FlUploadOK
<1>9. ASSUME NEW sort \in FileSorts, ListFiles(sort) PROVE FlInv'
  <2>1. UNCHANGED <<content, spill, frows, upload, uploads>>
    BY <1>9 DEF ListFiles
  <2>2. paging'.shown = paging.shown \cup listFiles(sort, paging.cursor)
    BY <1>9 DEF ListFiles
  <2>3. listFiles(sort, paging.cursor) \subseteq 1 .. Len(frows)
    BY <1>a DEF listFiles, FlTypes
  <2>. QED
    BY <2>1, <2>2, <2>3, <1>a DEF FlInv, FlTypes, FlSpills, Spilled, FlRowsOK, FlUploadOK
<1>10. CASE UNCHANGED uploadVars
  BY <1>10 DEF uploadVars, FlInv, FlTypes, FlSpills, Spilled, FlRowsOK, FlUploadOK
<1>. QED
  <2>1. ASSUME RangeStep PROVE UNCHANGED uploadVars
    BY <2>1 DEF RangeStep, StreamFile
  <2>. QED
    BY <1>1, <1>2, <1>3, <1>4, <1>6, <1>7, <1>8, <1>9, <1>10, <2>1 DEF FileNext, UploadStep,
       fileVars, uploadVars

\* Whatever uploads of the same bytes, deletions and crashes come between: rows
\* have their bytes, one live row per hash and owner, and a count that is right.
THEOREM FilesInvariant == FileSpec => []FlInv
<1>1. FileInit => FlInv
  <2>. SUFFICES ASSUME FileInit PROVE FlInv
    OBVIOUS
  <2>1. frows = <<>> /\ Len(frows) = 0 /\ frows \in Seq(FlRows) /\ paging.shown = {}
    BY DEF FileInit, Quiet
  <2>2. FlTypes
    BY <2>1, FilesAssumption, FlIdle DEF FileInit, FlTypes
  <2>3. Spilled = {} /\ Cardinality(Spilled) = 0
    BY FlIdle, FS_EmptySet DEF FileInit, Spilled
  <2>4. FlSpills
    BY <2>3, FilesAssumption DEF FileInit, FlSpills
  <2>. QED
    BY <2>1, <2>2, <2>4, FlIdle DEF FileInit, FlInv, FlRowsOK, FlUploadOK
<1>. QED
  BY <1>1, FlInvStep, PTL DEF FileSpec

LEMMA FlSound == FlInv => FileTypeOK /\ RowsHaveContent /\ ReferencesCounted
<1>. SUFFICES ASSUME FlInv PROVE FileTypeOK /\ RowsHaveContent /\ ReferencesCounted
  OBVIOUS
<1>1. DOMAIN frows = 1 .. Len(frows) /\ Len(frows) \in Nat
  BY DEF FlInv, FlTypes
<1>2. PICK n \in Nat : n = Cardinality(Spilled)
  BY FlFinite DEF Spilled
<1>3. FileTypeOK
  BY <1>1, <1>2, FilesAssumption DEF FlInv, FlTypes, FlSpills, FileTypeOK
<1>4. RowsHaveContent
  BY <1>1 DEF FlInv, FlTypes, FlRowsOK, RowsHaveContent
<1>5. ReferencesCounted
  BY <1>1 DEF FlInv, FlRowsOK, ReferencesCounted
<1>. QED
  BY <1>3, <1>4, <1>5

\* The bytes of an answer are the ones its header names, for every header and
\* size (parseRangeHeader, StreamFile).
LEMMA RangeStepExact == ASSUME RangeStep PROVE RangeExact'
<1>1. PICK header \in Headers, size \in 1 .. MaxFileSize : StreamFile(header, size)
  BY DEF RangeStep
<1>. DEFINE br == parseRangeHeader(header, size)
            h == header.first
            l == header.last
<1>2. h \in Int /\ h >= -1 /\ l \in Int /\ l >= -1 /\ size \in Nat
  BY FilesAssumption DEF Headers, NoBound
<1>3. streamed'.header = header /\ streamed'.size = size /\ streamed'.answer = br
      /\ streamed'.bytes = IF br.code = "range" THEN br.start .. br.start + (br.end - br.start) ELSE {}
  BY <1>1 DEF StreamFile
<1>4. br.code = "range" =>
         \/ h = -1 /\ l > 0 /\ l <= size /\ br.start = size - l /\ br.end = size - 1
         \/ h # -1 /\ l = -1 /\ h < size /\ br.start = h /\ br.end = size - 1
         \/ h # -1 /\ l # -1 /\ h <= l /\ l < size /\ br.start = h /\ br.end = l
  <2>1. CASE h = -1
    BY <1>2, <2>1 DEF parseRangeHeader, RangeRefused, NoBound
  <2>2. CASE h # -1
    BY <1>2, <2>2 DEF parseRangeHeader, RangeRefused, NoBound
  <2>. QED
    BY <2>1, <2>2
<1>. HIDE DEF br, h, l
<1>5. br.code = "range" => streamed'.bytes = {b \in 0 .. size - 1 :
         IF h = -1 THEN b >= size - l ELSE b >= h /\ (l # -1 => b <= l)}
  <2>. SUFFICES ASSUME br.code = "range"
                PROVE  streamed'.bytes = {b \in 0 .. size - 1 :
                          IF h = -1 THEN b >= size - l ELSE b >= h /\ (l # -1 => b <= l)}
    OBVIOUS
  <2>1. br.start \in Int /\ br.end \in Int /\ br.start + (br.end - br.start) = br.end
    BY <1>2, <1>4
  <2>2. streamed'.bytes = br.start .. br.end
    BY <1>3, <2>1
  <2>. QED
    BY <1>2, <1>4, <2>2
<1>. QED
  BY <1>3, <1>5 DEF RangeExact, NoBound, h, l

\* The files that a profile's rows name are there, complete and counted, and an
\* answered range is the one asked for.
THEOREM FilesSoundAlways == FileSpec => [](FileTypeOK /\ RowsHaveContent /\ ReferencesCounted /\ RangeExact)
<1>1. FileInit => RangeExact
  BY DEF FileInit, NothingStreamed, RangeRefused, RangeExact
<1>2. RangeExact /\ [FileNext]_fileVars => RangeExact'
  <2>. SUFFICES ASSUME RangeExact, [FileNext]_fileVars PROVE RangeExact'
    OBVIOUS
  <2>1. CASE RangeStep
    BY <2>1, RangeStepExact
  <2>2. CASE UNCHANGED streamed
    BY <2>2 DEF RangeExact
  <2>3. ASSUME UploadStep PROVE UNCHANGED streamed
    BY <2>3 DEF UploadStep, ResolveByUpload, SpillRefused, Store, GetByProfileAndHash, InsertFile,
       bumpRefCount, SoftDelete, FileCrash, ListFiles
  <2>. QED
    BY <2>1, <2>2, <2>3 DEF FileNext, fileVars
<1>. QED
  BY <1>1, <1>2, FilesInvariant, FlSound, PTL DEF FileSpec

-----------------------------------------------------------------------------
(* The parts side by side, as the run checks them *)

\* The specification the run checks is, part by part, the one proved above: a
\* step of it is a step of one part and leaves the others alone.
LEMMA CollabSteps ==
  ASSUME [CollabNext]_collabVars
  PROVE  /\ [WorkspacesNext]_wsVars /\ [TopicsNext]_topicVars /\ [TreeRowsNext]_treeRowVars
         /\ [CardsNext]_cardVars /\ [FeedbackNext]_fbVars /\ [FileNext]_fileVars
         /\ [AccessNext]_accessVars
<1>. USE DEF collabVars
<1>1. [WorkspacesNext]_wsVars
  BY DEF CollabNext
<1>2. [TopicsNext]_topicVars
  BY DEF CollabNext
<1>3. [TreeRowsNext]_treeRowVars
  BY DEF CollabNext
<1>4. [CardsNext]_cardVars
  BY DEF CollabNext
<1>5. [FeedbackNext]_fbVars
  BY DEF CollabNext
<1>6. [FileNext]_fileVars
  BY DEF CollabNext, FileNext, fileVars, uploadVars
<1>7. [AccessNext]_accessVars
  BY DEF CollabNext
<1>. QED
  BY <1>1, <1>2, <1>3, <1>4, <1>5, <1>6, <1>7

LEMMA CollabImplements ==
  CollabSpec => /\ WorkspacesSpec /\ TopicsSpec /\ TreeRowsSpec /\ CardsSpec /\ FeedbackSpec
                /\ FileSpec /\ AccessSpec
<1>1. CollabInit => /\ WorkspacesInit /\ TopicsInit /\ TreeRowsInit /\ CardsInit /\ FeedbackInit
                    /\ FileInit /\ AccessInit
  BY DEF CollabInit
<1>. QED
  BY <1>1, CollabSteps, PTL DEF CollabSpec, WorkspacesSpec, TopicsSpec, TreeRowsSpec, CardsSpec,
     FeedbackSpec, FileSpec, AccessSpec

\* Whoever is in a workspace was let in, and a tree is written by who may.
THEOREM MembershipEarnedAlways == CollabSpec => []MembershipEarned
<1>1. WorkspacesTypeOK /\ OneJoinPerInvitation /\ OnlyInvitedJoin /\ AccessTypeOK /\ WritesAuthorised
        /\ OwnerAmongMembers => MembershipEarned
  BY DEF MembershipEarned
<1>. QED
  BY <1>1, CollabImplements, MembersInvited, WritesAuthorisedAlways, PTL

\* One topic for a proposal, however many confirmations race.
THEOREM TopicsSingleAlways == CollabSpec => []TopicsSingle
<1>1. TopicsTypeOK /\ OneTopicPerProposal => TopicsSingle
  BY DEF TopicsSingle
<1>. QED
  BY <1>1, CollabImplements, OneTopicAlways, PTL

\* Files are kept while rows name them, and served as asked.
THEOREM FilesKeptAlways == CollabSpec => []FilesKept
<1>1. FileTypeOK /\ RowsHaveContent /\ ReferencesCounted /\ RangeExact => FilesKept
  BY DEF FilesKept
<1>. QED
  BY <1>1, CollabImplements, FilesSoundAlways, PTL

\* However stale what a step was decided on, it takes nothing back.
THEOREM NothingTakenBackAlways == CollabSpec => NothingTakenBack
  BY CollabImplements, OwnerStaysAdminAlways, LegalTransitionsAlways, FeedbackRetained,
     DeletedStaysAlways, MembershipKeptAlways DEF NothingTakenBack
=============================================================================
