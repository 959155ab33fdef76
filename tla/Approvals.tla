----------------------------- MODULE Approvals ------------------------------
(***************************************************************************)
(* The approval workflow: internal/service/approval_service.go over        *)
(* internal/db/approval_repo.go and audit_repo.go.  A request creates the  *)
(* one approval row of a node; its owner approves or denies it; a sweep    *)
(* expires what is overdue.                                                *)
(*                                                                         *)
(* A service call is a sequence of database statements and a broadcast,    *)
(* each one step, and calls run concurrently.  A decision is read, checked *)
(* and then written by a transaction that checks again; the transaction    *)
(* updates the row and writes its audit entry together; the service writes *)
(* an audit entry of its own afterwards, and broadcasts last.  The         *)
(* process may crash between any two steps.                                *)
(*                                                                         *)
(* The application's clock and the database's are read independently:      *)
(* lateApp and lateDb tell which of them has passed expires_at.            *)
(***************************************************************************)
EXTENDS Integers, Sequences, FiniteSets

CONSTANTS
  Nodes,     \* nodes that may ask for approval (the unique key of a row)
  Users, OwnerOf,
  Calls,     \* concurrent service calls
  MaxAudit   \* bound: audit entries per node

ASSUME OwnerAssumption == OwnerOf \in [Nodes -> Users]

VARIABLES
  row,      \* approvals.status per node, "none" before the request
  lateApp, lateDb,
  audit,    \* approval_audit_log per node: status recorded and who wrote it
  events,   \* approval_changed events broadcast per node, in order
  call,     \* per call: its place, node and decision
  reply     \* per call: what its last decision returned

vars == <<row, lateApp, lateDb, audit, events, call, reply>>

Decisions == {"approved", "denied"}

Terminal == Decisions \cup {"expired"}

Idle == [at |-> "idle", node |-> "none", want |-> "none"]

Init ==
  /\ row = [n \in Nodes |-> "none"]
  /\ lateApp = [n \in Nodes |-> FALSE]
  /\ lateDb = [n \in Nodes |-> FALSE]
  /\ audit = [n \in Nodes |-> <<>>]
  /\ events = [n \in Nodes |-> <<>>]
  /\ call = [g \in Calls |-> Idle]
  /\ reply = [g \in Calls |-> "none"]

At(g, l) ==
  call' = [call EXCEPT ![g] = [at |-> l, node |-> call[g].node, want |-> call[g].want]]

Entry(s, w) == [status |-> s, by |-> w]

Write(n, s, w) == audit' = [audit EXCEPT ![n] = Append(@, Entry(s, w))]

-----------------------------------------------------------------------------
(* RequestApproval: insert the row, write an audit entry, broadcast.       *)

\* Mutant: no default for an empty status.
RequestCreateBlank(g, n) ==
  /\ call[g].at = "idle" /\ row[n] = "none"
  /\ row' = [row EXCEPT ![n] = "blank"]
  /\ call' = [call EXCEPT ![g] = [at |-> "requested", node |-> n, want |-> "pending"]]
  /\ UNCHANGED <<lateApp, lateDb, audit, events, reply>>

\* Create.  The unique key on node_id makes a second request fail.
RequestCreate(g, n) ==
  /\ call[g].at = "idle" /\ row[n] = "none"
  /\ row' = [row EXCEPT ![n] = "pending"]
  /\ call' = [call EXCEPT ![g] = [at |-> "requested", node |-> n, want |-> "pending"]]
  /\ UNCHANGED <<lateApp, lateDb, audit, events, reply>>

\* Mutant: a failed audit entry ends the call.
ServiceAuditOrReturn(g) ==
  /\ call[g].at \in {"requested", "decided"}
  /\ \/ /\ Len(audit[call[g].node]) < MaxAudit
        /\ Write(call[g].node, call[g].want, "service")
        /\ At(g, "announcing")
     \/ /\ call' = [call EXCEPT ![g] = Idle]
        /\ UNCHANGED audit
  /\ UNCHANGED <<row, lateApp, lateDb, events, reply>>

\* audit.Create, for a request or after a decision; a failure is only logged.
ServiceAudit(g) ==
  /\ call[g].at \in {"requested", "decided"}
  /\ \/ /\ Len(audit[call[g].node]) < MaxAudit
        /\ Write(call[g].node, call[g].want, "service")
     \/ UNCHANGED audit
  /\ At(g, "announcing")
  /\ UNCHANGED <<row, lateApp, lateDb, events, reply>>

\* Mutant: Deny announces what Approve does.
AnnounceApproved(g) ==
  /\ call[g].at = "announcing"
  /\ events' = [events EXCEPT ![call[g].node] =
                  Append(@, IF call[g].want = "pending" THEN "pending" ELSE "approved")]
  /\ call' = [call EXCEPT ![g] = Idle]
  /\ UNCHANGED <<row, lateApp, lateDb, audit, reply>>

\* broadcastApprovalEvent with the status this call set.
Announce(g) ==
  /\ call[g].at = "announcing"
  /\ events' = [events EXCEPT ![call[g].node] = Append(@, call[g].want)]
  /\ call' = [call EXCEPT ![g] = Idle]
  /\ UNCHANGED <<row, lateApp, lateDb, audit, reply>>

-----------------------------------------------------------------------------
(* Approve and Deny.                                                       *)

\* What the service answers from the row it read; the tests come in this
\* order: owner, status, expiry by the application's clock.
Verdict(n, u) ==
  IF row[n] = "none" THEN "not_found"
  ELSE IF u # OwnerOf[n] THEN "not_owner"
  ELSE IF row[n] # "pending" THEN "already_decided"
  ELSE IF lateApp[n] THEN "expired"
  ELSE "go_on"

\* GetByID and the checks.  Deny also wants a non-empty reason, which is
\* checked before anything is read and is taken as given here.
DecideRead(g, n, u, d) ==
  /\ call[g].at = "idle"
  /\ \/ /\ Verdict(n, u) = "go_on"
        /\ call' = [call EXCEPT ![g] = [at |-> "checked", node |-> n, want |-> d]]
        /\ UNCHANGED reply
     \/ /\ Verdict(n, u) # "go_on"
        /\ reply' = [reply EXCEPT ![g] = Verdict(n, u)]
        /\ UNCHANGED call
  /\ UNCHANGED <<row, lateApp, lateDb, audit, events>>

\* Mutants: the UPDATE trusts the service's check of the status; the UPDATE
\* has no expiry test.
MatchesAnyStatus(n) == ~lateDb[n]
MatchesOverdue(n) == row[n] = "pending"

\* The WHERE clause of the UPDATE, by the database's clock.
Matches(n) == row[n] = "pending" /\ ~lateDb[n]

SetStatus(n, s) ==
  /\ row' = [row EXCEPT ![n] = s]
  /\ UNCHANGED <<lateApp, lateDb, events>>

\* Mutant: the audit entry is left to the service.
DecideCommitUnaudited(g) ==
  LET n == call[g].node IN
  /\ call[g].at = "checked" /\ Matches(n)
  /\ SetStatus(n, call[g].want)
  /\ At(g, "decided")
  /\ UNCHANGED <<audit, reply>>

\* The transaction: the row and its audit entry change together.
DecideCommit(g) ==
  LET n == call[g].node IN
  /\ call[g].at = "checked" /\ Matches(n)
  /\ Len(audit[n]) < MaxAudit
  /\ SetStatus(n, call[g].want)
  /\ Write(n, call[g].want, "tx")
  /\ At(g, "decided")
  /\ UNCHANGED reply

Fail(g) ==
  /\ reply' = [reply EXCEPT ![g] = "internal_error"]
  /\ call' = [call EXCEPT ![g] = Idle]

\* Mutant: an UPDATE that matched no row is taken for a success.
DecideLoseGoesOn(g) ==
  /\ call[g].at = "checked" /\ ~Matches(call[g].node)
  /\ At(g, "decided")
  /\ UNCHANGED <<row, lateApp, lateDb, audit, events, reply>>

\* No row matched: ErrNotFound, which the handler reports as an internal
\* error.
DecideLose(g) ==
  /\ call[g].at = "checked" /\ ~Matches(call[g].node)
  /\ Fail(g)
  /\ UNCHANGED <<row, lateApp, lateDb, audit, events>>

\* The transaction fails and is rolled back as a whole.
DecideRollback(g) ==
  /\ call[g].at = "checked" /\ Matches(call[g].node)
  /\ Fail(g)
  /\ UNCHANGED <<row, lateApp, lateDb, audit, events>>

\* The commit takes effect but its answer is lost: Approve returns an error
\* although the row is decided.
DecideUnknown(g) ==
  LET n == call[g].node IN
  /\ call[g].at = "checked" /\ Matches(n)
  /\ Len(audit[n]) < MaxAudit
  /\ SetStatus(n, call[g].want)
  /\ Write(n, call[g].want, "tx")
  /\ Fail(g)

-----------------------------------------------------------------------------
(* Expiry, clocks, crashes.                                                *)

Overdue == {n \in Nodes : row[n] = "pending" /\ lateDb[n]}

\* ExpirePending: one statement for the rows and their audit entries; no
\* broadcast follows it in ExpireStale.
ExpireStale ==
  /\ Overdue # {}
  /\ \A n \in Overdue : Len(audit[n]) < MaxAudit
  /\ row' = [n \in Nodes |-> IF n \in Overdue THEN "expired" ELSE row[n]]
  /\ audit' = [n \in Nodes |-> IF n \in Overdue THEN Append(audit[n], Entry("expired", "tx"))
                               ELSE audit[n]]
  /\ UNCHANGED <<lateApp, lateDb, events, call, reply>>

\* Either clock passes expires_at.
DeadlineApp(n) ==
  /\ row[n] # "none" /\ ~lateApp[n]
  /\ lateApp' = [lateApp EXCEPT ![n] = TRUE]
  /\ UNCHANGED <<row, lateDb, audit, events, call, reply>>

DeadlineDb(n) ==
  /\ row[n] # "none" /\ ~lateDb[n]
  /\ lateDb' = [lateDb EXCEPT ![n] = TRUE]
  /\ UNCHANGED <<row, lateApp, audit, events, call, reply>>

\* The process dies and is restarted: calls under way are gone, what the
\* database committed stays.
Crash ==
  /\ call # [g \in Calls |-> Idle]
  /\ call' = [g \in Calls |-> Idle]
  /\ UNCHANGED <<row, lateApp, lateDb, audit, events, reply>>

-----------------------------------------------------------------------------

Progress(g) ==
  ServiceAudit(g) \/ Announce(g) \/ DecideCommit(g) \/ DecideLose(g) \/ DecideRollback(g)

StartCall(g) ==
  \E n \in Nodes : \/ RequestCreate(g, n)
                   \/ \E u \in Users, d \in Decisions : DecideRead(g, n, u, d)

Steps ==
  \/ \E g \in Calls : StartCall(g) \/ Progress(g)
  \/ ExpireStale
  \/ \E n \in Nodes : DeadlineApp(n) \/ DeadlineDb(n)

Faults == Crash \/ \E g \in Calls : DecideUnknown(g)

Next == Steps \/ Faults

Spec == Init /\ [][Next]_vars

\* A call under way goes on to its end: no crash, no lost answer.  Nothing is
\* assumed of ExpireStale, which no code of the daemon calls.
FairSpec ==
  /\ Init /\ [][Steps]_vars
  /\ \A g \in Calls : WF_vars(Progress(g))

-----------------------------------------------------------------------------
(* Properties.                                                             *)

Statuses == {"none", "pending"} \cup Terminal

TypeOK ==
  /\ row \in [Nodes -> Statuses]
  /\ lateApp \in [Nodes -> BOOLEAN]
  /\ lateDb \in [Nodes -> BOOLEAN]
  /\ audit \in [Nodes -> Seq([status : Statuses, by : {"tx", "service"}])]
  /\ events \in [Nodes -> Seq(Statuses)]
  /\ call \in [Calls -> [at : {"idle", "requested", "checked", "decided", "announcing"},
                         node : Nodes \cup {"none"}, want : Statuses]]
  /\ reply \in [Calls -> {"none", "not_found", "not_owner", "already_decided",
                          "expired", "internal_error"}]

InLog(n, e) == \E i \in 1..Len(audit[n]) : audit[n][i] = e

\* The audit trail never disagrees with the row: a row is decided exactly if
\* a transaction wrote that decision into the trail, and no entry of anyone
\* records a decision the row does not have, in spite of racing decisions,
\* the sweep, clocks that differ, and crashes.
AuditAgreesWithRow ==
  \A n \in Nodes :
    /\ row[n] \in Terminal => InLog(n, Entry(row[n], "tx"))
    /\ \A i \in 1..Len(audit[n]) :
         audit[n][i].status \in Terminal => audit[n][i].status = row[n]

\* A decision is final: of two racing decisions, or a decision and the sweep,
\* one wins, and nothing changes its outcome later.
DecisionIsFinal ==
  [][\A n \in Nodes : row[n] \in Terminal => row'[n] = row[n]]_vars

\* What subscribers hear agrees with the row: a decision is announced only if
\* it is the one that stands.
EventsAgreeWithRow ==
  \A n \in Nodes : \A i \in 1..Len(events[n]) :
    events[n][i] \in Terminal => events[n][i] = row[n]

\* The strengthening that makes the two agreements inductive: a call past its
\* transaction carries the status its row has now, one before it carries a
\* decision still to be made.
CallsAgreeWithRow ==
  \A g \in Calls :
    /\ call[g].at # "idle" => call[g].node \in Nodes
    /\ call[g].at = "requested" => call[g].want = "pending"
    /\ call[g].at = "checked" => call[g].want \in Decisions
    /\ call[g].at = "decided" => call[g].want \in Decisions
    /\ call[g].at \in {"decided", "announcing"} /\ call[g].want \in Terminal =>
         row[call[g].node] = call[g].want

\* An overdue approval is not decided any more, whichever clock the service
\* looked at: what the database's clock has passed is expired or stays
\* pending until the sweep.
NoDecisionAfterDeadline ==
  [][\A n \in Nodes : lateDb[n] /\ row[n] = "pending" => row'[n] \notin Decisions]_vars

\* Every decision by a user is announced, once the call that made it has
\* run to its end.
DecisionUnannounced ==
  \E n \in Nodes : row[n] \in Decisions /\ \A i \in 1..Len(events[n]) : events[n][i] # row[n]

DecisionAnnounced == []<>~DecisionUnannounced
=============================================================================
