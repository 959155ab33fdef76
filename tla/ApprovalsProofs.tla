-------------------------- MODULE ApprovalsProofs ---------------------------
(* The approval workflow, for every set of nodes, users and concurrent     *)
(* calls: types, the finality of decisions, and the agreement of the audit *)
(* trail and of the broadcast events with the row.                         *)
EXTENDS Approvals, SequenceTheorems, TLAPS

Entries == [status : Statuses, by : {"tx", "service"}]

\* Writing to the audit log keeps it a log.
LEMMA WriteType ==
  ASSUME TypeOK, NEW n \in Nodes, NEW s \in Statuses, NEW w \in {"tx", "service"},
         Write(n, s, w)
  PROVE  audit' \in [Nodes -> Seq(Entries)]
<1>1. Entry(s, w) \in Entries
  BY DEF Entry, Entries
<1>2. audit[n] \in Seq(Entries)
  BY DEF TypeOK, Entries
<1>3. Append(audit[n], Entry(s, w)) \in Seq(Entries)
  BY <1>1, <1>2, AppendProperties
<1>. QED
  BY <1>3 DEF Write, TypeOK, Entries

Typed == TypeOK /\ CallsAgreeWithRow

\* What an idle call looks like.
LEMMA IdleType ==
  Idle \in [at : {"idle", "requested", "checked", "decided", "announcing"},
            node : Nodes \cup {"none"}, want : Statuses]
BY DEF Idle, Statuses

\* A step keeps the types; a call under way names a node.
LEMMA TypeStep == ASSUME Typed, [Next]_vars PROVE TypeOK'
<1>. USE DEF Typed, TypeOK, Statuses, Terminal, Decisions
<1>1. ASSUME NEW g \in Calls, NEW n \in Nodes, RequestCreate(g, n) PROVE TypeOK'
  BY <1>1 DEF RequestCreate
<1>2. ASSUME NEW g \in Calls, NEW n \in Nodes, NEW u \in Users, NEW d \in Decisions,
             DecideRead(g, n, u, d)
      PROVE  TypeOK'
  <2>1. Verdict(n, u) \in {"not_found", "not_owner", "already_decided", "expired", "go_on"}
    BY DEF Verdict
  <2>2. CASE Verdict(n, u) = "go_on"
    <3>1. /\ call' = [call EXCEPT ![g] = [at |-> "checked", node |-> n, want |-> d]]
          /\ UNCHANGED <<row, lateApp, lateDb, audit, events, reply>>
      BY <1>2, <2>2 DEF DecideRead
    <3>. QED
      BY <3>1
  <2>3. CASE Verdict(n, u) # "go_on"
    <3>1. /\ reply' = [reply EXCEPT ![g] = Verdict(n, u)]
          /\ UNCHANGED <<row, lateApp, lateDb, audit, events, call>>
      BY <1>2, <2>3 DEF DecideRead
    <3>2. Verdict(n, u) \in {"not_found", "not_owner", "already_decided", "expired"}
      BY <2>1, <2>3
    <3>3. reply' \in [Calls -> {"none", "not_found", "not_owner", "already_decided",
                               "expired", "internal_error"}]
      BY <3>1, <3>2
    <3>. QED
      BY <3>1, <3>3
  <2>. QED
    BY <2>2, <2>3
<1>3. ASSUME NEW g \in Calls, ServiceAudit(g) PROVE TypeOK'
  <2>1. call[g].node \in Nodes /\ call[g].want \in Statuses
    BY <1>3 DEF ServiceAudit, CallsAgreeWithRow
  <2>2. audit' \in [Nodes -> Seq(Entries)]
    BY <1>3, <2>1, WriteType DEF ServiceAudit, Entries
  <2>3. call' \in [Calls -> [at : {"idle", "requested", "checked", "decided", "announcing"},
                             node : Nodes \cup {"none"}, want : Statuses]]
    BY <1>3, <2>1 DEF ServiceAudit, At
  <2>. QED
    BY <1>3, <2>2, <2>3 DEF ServiceAudit, Entries
<1>4. ASSUME NEW g \in Calls, Announce(g) PROVE TypeOK'
  <2>1. call[g].node \in Nodes /\ call[g].want \in Statuses
    BY <1>4 DEF Announce, CallsAgreeWithRow
  <2>2. Append(events[call[g].node], call[g].want) \in Seq(Statuses)
    BY <2>1, AppendProperties
  <2>3. events' \in [Nodes -> Seq(Statuses)]
    BY <1>4, <2>1, <2>2 DEF Announce
  <2>. QED
    BY <1>4, <2>3, IdleType DEF Announce
<1>5. ASSUME NEW g \in Calls, DecideCommit(g) PROVE TypeOK'
  <2>1. call[g].node \in Nodes /\ call[g].want \in Statuses
    BY <1>5 DEF DecideCommit, CallsAgreeWithRow
  <2>2. audit' \in [Nodes -> Seq(Entries)]
    BY <1>5, <2>1, WriteType DEF DecideCommit, Entries
  <2>3. call' \in [Calls -> [at : {"idle", "requested", "checked", "decided", "announcing"},
                             node : Nodes \cup {"none"}, want : Statuses]]
    BY <1>5, <2>1 DEF DecideCommit, At
  <2>. QED
    BY <1>5, <2>1, <2>2, <2>3 DEF DecideCommit, SetStatus, Entries
<1>6. ASSUME NEW g \in Calls, DecideLose(g) PROVE TypeOK'
  BY <1>6, IdleType DEF DecideLose, Fail
<1>7. ASSUME NEW g \in Calls, DecideRollback(g) PROVE TypeOK'
  BY <1>7, IdleType DEF DecideRollback, Fail
<1>8. ASSUME NEW g \in Calls, DecideUnknown(g) PROVE TypeOK'
  <2>1. call[g].node \in Nodes /\ call[g].want \in Statuses
    BY <1>8 DEF DecideUnknown, CallsAgreeWithRow
  <2>2. audit' \in [Nodes -> Seq(Entries)]
    BY <1>8, <2>1, WriteType DEF DecideUnknown, Entries
  <2>. QED
    BY <1>8, <2>1, <2>2, IdleType DEF DecideUnknown, SetStatus, Fail, Entries
<1>9. CASE ExpireStale
  <2>1. Entry("expired", "tx") \in Entries
    BY DEF Entry, Entries
  <2>2. \A n \in Nodes : Append(audit[n], Entry("expired", "tx")) \in Seq(Entries)
    BY <2>1, AppendProperties DEF Entries
  <2>3. audit' \in [Nodes -> Seq(Entries)]
    BY <1>9, <2>2 DEF ExpireStale, Entries
  <2>4. row' \in [Nodes -> Statuses]
    BY <1>9 DEF ExpireStale
  <2>. QED
    BY <1>9, <2>3, <2>4 DEF ExpireStale, Entries
<1>10. ASSUME NEW n \in Nodes, DeadlineApp(n) \/ DeadlineDb(n) PROVE TypeOK'
  BY <1>10 DEF DeadlineApp, DeadlineDb
<1>11. CASE Crash
  BY <1>11, IdleType DEF Crash
<1>12. CASE UNCHANGED vars
  BY <1>12 DEF vars
<1>. QED
  BY <1>1, <1>2, <1>3, <1>4, <1>5, <1>6, <1>7, <1>8, <1>9, <1>10, <1>11, <1>12
  DEF Next, Steps, Faults, StartCall, Progress

\* A row that is decided or expired is never written again: the UPDATE of a
\* decision and the sweep both ask for a pending row.
LEMMA TerminalStep ==
  ASSUME Typed, [Next]_vars, NEW m \in Nodes, row[m] \in Terminal
  PROVE  row'[m] = row[m]
<1>. USE DEF Typed, TypeOK, Statuses, Terminal, Decisions
<1>1. ASSUME NEW g \in Calls, NEW n \in Nodes, RequestCreate(g, n) PROVE row'[m] = row[m]
  BY <1>1 DEF RequestCreate
<1>2. ASSUME NEW g \in Calls, NEW n \in Nodes, NEW u \in Users, NEW d \in Decisions,
             DecideRead(g, n, u, d)
      PROVE  row'[m] = row[m]
  BY <1>2 DEF DecideRead
<1>3. ASSUME NEW g \in Calls, ServiceAudit(g) PROVE row'[m] = row[m]
  BY <1>3 DEF ServiceAudit
<1>4. ASSUME NEW g \in Calls, Announce(g) PROVE row'[m] = row[m]
  BY <1>4 DEF Announce
<1>5. ASSUME NEW g \in Calls, DecideCommit(g) PROVE row'[m] = row[m]
  BY <1>5 DEF DecideCommit, SetStatus, Matches
<1>6. ASSUME NEW g \in Calls, DecideLose(g) PROVE row'[m] = row[m]
  BY <1>6 DEF DecideLose
<1>7. ASSUME NEW g \in Calls, DecideRollback(g) PROVE row'[m] = row[m]
  BY <1>7 DEF DecideRollback
<1>8. ASSUME NEW g \in Calls, DecideUnknown(g) PROVE row'[m] = row[m]
  BY <1>8 DEF DecideUnknown, SetStatus, Matches
<1>9. CASE ExpireStale
  BY <1>9 DEF ExpireStale, Overdue
<1>10. ASSUME NEW n \in Nodes, DeadlineApp(n) \/ DeadlineDb(n) PROVE row'[m] = row[m]
  BY <1>10 DEF DeadlineApp, DeadlineDb
<1>11. CASE Crash
  BY <1>11 DEF Crash
<1>12. CASE UNCHANGED vars
  BY <1>12 DEF vars
<1>. QED
  BY <1>1, <1>2, <1>3, <1>4, <1>5, <1>6, <1>7, <1>8, <1>9, <1>10, <1>11, <1>12
  DEF Next, Steps, Faults, StartCall, Progress

\* What CallsAgreeWithRow asks of one call, in a state with rows r.
CallOK(k, r) ==
  /\ k.at # "idle" => k.node \in Nodes
  /\ k.at = "requested" => k.want = "pending"
  /\ k.at = "checked" => k.want \in Decisions
  /\ k.at = "decided" => k.want \in Decisions
  /\ k.at \in {"decided", "announcing"} /\ k.want \in Terminal => r[k.node] = k.want

\* A call in flight keeps agreeing with its row, because the row it decided
\* is not written by anyone else.
LEMMA CallsStep == ASSUME Typed, [Next]_vars PROVE CallsAgreeWithRow'
<1>. SUFFICES ASSUME NEW h \in Calls PROVE CallOK(call'[h], row')
  BY DEF CallsAgreeWithRow, CallOK
<1>. USE DEF Typed, TypeOK, Statuses, Terminal, Decisions
<1>a. CallOK(call[h], row)
  BY DEF CallsAgreeWithRow, CallOK
<1>b. \A m \in Nodes : row[m] \in Terminal => row'[m] = row[m]
  BY TerminalStep
<1>c. CallOK(call[h], row')
  BY <1>a, <1>b DEF CallOK
<1>d. CallOK(Idle, row')
  BY DEF CallOK, Idle
<1>1. ASSUME NEW g \in Calls, NEW n \in Nodes, RequestCreate(g, n) PROVE CallOK(call'[h], row')
  BY <1>1, <1>c DEF RequestCreate, CallOK
<1>2. ASSUME NEW g \in Calls, NEW n \in Nodes, NEW u \in Users, NEW d \in Decisions,
             DecideRead(g, n, u, d)
      PROVE  CallOK(call'[h], row')
  <2>1. \/ call'[h] = call[h]
        \/ call'[h] = [at |-> "checked", node |-> n, want |-> d]
    BY <1>2 DEF DecideRead
  <2>. QED
    BY <2>1, <1>c DEF CallOK
<1>3. ASSUME NEW g \in Calls, ServiceAudit(g) PROVE CallOK(call'[h], row')
  <2>1. CASE h = g
    <3>1. call'[h] = [at |-> "announcing", node |-> call[h].node, want |-> call[h].want]
      BY <1>3, <2>1 DEF ServiceAudit, At
    <3>2. call[h].at \in {"requested", "decided"} /\ row' = row
      BY <1>3, <2>1 DEF ServiceAudit
    <3>. QED
      BY <3>1, <3>2, <1>a DEF CallOK
  <2>2. CASE h # g
    BY <1>3, <2>2, <1>c DEF ServiceAudit, At
  <2>. QED
    BY <2>1, <2>2
<1>4. ASSUME NEW g \in Calls, Announce(g) PROVE CallOK(call'[h], row')
  BY <1>4, <1>c, <1>d DEF Announce
<1>5. ASSUME NEW g \in Calls, DecideCommit(g) PROVE CallOK(call'[h], row')
  <2>1. CASE h = g
    <3>1. call'[h] = [at |-> "decided", node |-> call[h].node, want |-> call[h].want]
      BY <1>5, <2>1 DEF DecideCommit, At
    <3>2. call[h].at = "checked" /\ call[h].node \in Nodes /\ call[h].want \in Decisions
      BY <1>5, <2>1, <1>a DEF DecideCommit, CallOK
    <3>3. row'[call[h].node] = call[h].want
      BY <1>5, <2>1, <3>2 DEF DecideCommit, SetStatus
    <3>. QED
      BY <3>1, <3>2, <3>3 DEF CallOK
  <2>2. CASE h # g
    BY <1>5, <2>2, <1>c DEF DecideCommit, At
  <2>. QED
    BY <2>1, <2>2
<1>6. ASSUME NEW g \in Calls, DecideLose(g) PROVE CallOK(call'[h], row')
  BY <1>6, <1>c, <1>d DEF DecideLose, Fail
<1>7. ASSUME NEW g \in Calls, DecideRollback(g) PROVE CallOK(call'[h], row')
  BY <1>7, <1>c, <1>d DEF DecideRollback, Fail
<1>8. ASSUME NEW g \in Calls, DecideUnknown(g) PROVE CallOK(call'[h], row')
  BY <1>8, <1>c, <1>d DEF DecideUnknown, Fail
<1>9. CASE ExpireStale
  BY <1>9, <1>c DEF ExpireStale
<1>10. ASSUME NEW n \in Nodes, DeadlineApp(n) \/ DeadlineDb(n) PROVE CallOK(call'[h], row')
  BY <1>10, <1>c DEF DeadlineApp, DeadlineDb
<1>11. CASE Crash
  BY <1>11, <1>d DEF Crash
<1>12. CASE UNCHANGED vars
  BY <1>12, <1>c DEF vars
<1>. QED
  BY <1>1, <1>2, <1>3, <1>4, <1>5, <1>6, <1>7, <1>8, <1>9, <1>10, <1>11, <1>12
  DEF Next, Steps, Faults, StartCall, Progress

\* The types and the agreement of calls in flight, together inductive.
THEOREM TypedAlways == Spec => []Typed
<1>1. Init => Typed
  BY DEF Init, Typed, TypeOK, CallsAgreeWithRow, Idle, Statuses, Terminal, Decisions
<1>2. Typed /\ [Next]_vars => Typed'
  BY TypeStep, CallsStep DEF Typed
<1>. QED
  BY <1>1, <1>2, PTL DEF Spec

\* Type correctness of the workflow's state (approval_service.go and the
\* approvals, audit and event records it writes).
THEOREM TypeCorrect == Spec => []TypeOK
<1>1. Typed => TypeOK
  BY DEF Typed
<1>. QED
  BY <1>1, TypedAlways, PTL

\* Decisions are final, for any number of racing decisions and sweeps and any
\* pattern of crashes: the WHERE clause of the UPDATE is what makes it so.
THEOREM DecisionIsFinalAlways == Spec => DecisionIsFinal
<1>1. Typed /\ [Next]_vars => [\A n \in Nodes : row[n] \in Terminal => row'[n] = row[n]]_vars
  BY TerminalStep
<1>. QED
  BY <1>1, TypedAlways, PTL DEF Spec, DecisionIsFinal

\* A trail agrees with a status: the decision is recorded by a transaction,
\* and no other decision is recorded.
TrailOK(a, r) ==
  /\ r \in Terminal => \E i \in 1..Len(a) : a[i] = Entry(r, "tx")
  /\ \A i \in 1..Len(a) : a[i].status \in Terminal => a[i].status = r

\* Appending an entry that records no decision, or the decision the row has,
\* keeps the agreement.
LEMMA TrailAppend ==
  ASSUME NEW a \in Seq(Entries), NEW r \in Statuses, TrailOK(a, r),
         NEW s \in Statuses, NEW w \in {"tx", "service"}, s \in Terminal => s = r
  PROVE  TrailOK(Append(a, Entry(s, w)), r)
<1>. DEFINE e == Entry(s, w)
<1>1. e \in Entries /\ e.status = s
  BY DEF Entry, Entries
<1>2. /\ Append(a, e) \in Seq(Entries)
      /\ Len(Append(a, e)) = Len(a) + 1
      /\ \A i \in 1..Len(a) : Append(a, e)[i] = a[i]
      /\ Append(a, e)[Len(a) + 1] = e
      /\ Len(a) \in Nat
  BY <1>1, AppendProperties, LenProperties
<1>3. \A i \in 1..Len(a) + 1 : i \in 1..Len(a) \/ i = Len(a) + 1
  BY <1>2
<1>4. \A i \in 1..Len(a) : i \in 1..Len(a) + 1
  BY <1>2
<1>. HIDE DEF e
<1>5. ASSUME r \in Terminal
      PROVE  \E i \in 1..Len(Append(a, e)) : Append(a, e)[i] = Entry(r, "tx")
  <2>1. PICK i \in 1..Len(a) : a[i] = Entry(r, "tx")
    BY <1>5 DEF TrailOK
  <2>. QED
    BY <2>1, <1>2, <1>4
<1>6. ASSUME NEW i \in 1..Len(Append(a, e)), Append(a, e)[i].status \in Terminal
      PROVE  Append(a, e)[i].status = r
  <2>1. CASE i \in 1..Len(a)
    BY <2>1, <1>2, <1>6 DEF TrailOK
  <2>2. CASE i = Len(a) + 1
    BY <2>2, <1>1, <1>2, <1>6
  <2>. QED
    BY <2>1, <2>2, <1>2, <1>3
<1>. QED
  BY <1>5, <1>6 DEF TrailOK, e

\* A transaction that decides a row with no decision in its trail records it.
LEMMA TrailDecide ==
  ASSUME NEW a \in Seq(Entries), NEW r \in {"none", "pending"}, TrailOK(a, r),
         NEW s \in Terminal
  PROVE  TrailOK(Append(a, Entry(s, "tx")), s)
<1>. DEFINE e == Entry(s, "tx")
<1>1. e \in Entries /\ e.status = s
  BY DEF Entry, Entries, Statuses
<1>2. /\ Append(a, e) \in Seq(Entries)
      /\ Len(Append(a, e)) = Len(a) + 1
      /\ \A i \in 1..Len(a) : Append(a, e)[i] = a[i]
      /\ Append(a, e)[Len(a) + 1] = e
      /\ Len(a) \in Nat
  BY <1>1, AppendProperties, LenProperties
<1>3. Len(a) + 1 \in 1..Len(a) + 1
  BY <1>2
<1>4. \A i \in 1..Len(a) + 1 : i \in 1..Len(a) \/ i = Len(a) + 1
  BY <1>2
<1>5. \A i \in 1..Len(a) : a[i].status \notin Terminal
  BY DEF TrailOK, Terminal, Decisions
<1>. HIDE DEF e
<1>6. \E i \in 1..Len(Append(a, e)) : Append(a, e)[i] = e
  BY <1>2, <1>3
<1>7. \A i \in 1..Len(Append(a, e)) :
        Append(a, e)[i].status \in Terminal => Append(a, e)[i].status = s
  BY <1>1, <1>2, <1>4, <1>5
<1>. QED
  BY <1>6, <1>7 DEF TrailOK, e

\* A step keeps every trail in agreement with its row.
LEMMA AuditStep ==
  ASSUME Typed, AuditAgreesWithRow, [Next]_vars
  PROVE  AuditAgreesWithRow'
<1>. SUFFICES ASSUME NEW m \in Nodes PROVE TrailOK(audit'[m], row'[m])
  BY DEF AuditAgreesWithRow, TrailOK, InLog
<1>a. TrailOK(audit[m], row[m]) /\ audit[m] \in Seq(Entries) /\ row[m] \in Statuses
  BY DEF AuditAgreesWithRow, TrailOK, InLog, Typed, TypeOK, Entries
<1>b. row' \in [Nodes -> Statuses]
  BY TypeStep DEF TypeOK
<1>1. ASSUME NEW g \in Calls, NEW n \in Nodes, RequestCreate(g, n)
      PROVE  TrailOK(audit'[m], row'[m])
  <2>1. audit'[m] = audit[m] /\ (row'[m] = row[m] \/ (row[m] = "none" /\ row'[m] = "pending"))
    BY <1>1 DEF RequestCreate, Typed, TypeOK
  <2>. QED
    BY <1>a, <2>1 DEF TrailOK, Terminal, Decisions
<1>2. ASSUME NEW g \in Calls, NEW n \in Nodes, NEW u \in Users, NEW d \in Decisions,
             DecideRead(g, n, u, d)
      PROVE  TrailOK(audit'[m], row'[m])
  BY <1>2, <1>a DEF DecideRead
<1>3. ASSUME NEW g \in Calls, ServiceAudit(g) PROVE TrailOK(audit'[m], row'[m])
  <2>1. call[g].node \in Nodes /\ call[g].want \in Statuses
    BY <1>3 DEF ServiceAudit, Typed, TypeOK, CallsAgreeWithRow
  <2>2. call[g].want \in Terminal => call[g].want = row[call[g].node]
    BY <1>3 DEF ServiceAudit, Typed, CallsAgreeWithRow, Terminal, Decisions
  <2>3. \/ audit'[m] = audit[m]
        \/ /\ m = call[g].node
           /\ audit'[m] = Append(audit[m], Entry(call[g].want, "service"))
    BY <1>3, <2>1 DEF ServiceAudit, Write, Typed, TypeOK
  <2>4. row' = row
    BY <1>3 DEF ServiceAudit
  <2>. QED
    BY <2>1, <2>2, <2>3, <2>4, <1>a, TrailAppend
<1>4. ASSUME NEW g \in Calls, Announce(g) PROVE TrailOK(audit'[m], row'[m])
  BY <1>4, <1>a DEF Announce
<1>5. ASSUME NEW g \in Calls, DecideCommit(g) \/ DecideUnknown(g)
      PROVE  TrailOK(audit'[m], row'[m])
  <2>. DEFINE n == call[g].node
  <2>1. n \in Nodes /\ call[g].want \in Terminal /\ row[n] = "pending"
    BY <1>5 DEF DecideCommit, DecideUnknown, Matches, Typed, CallsAgreeWithRow, Terminal
  <2>2. /\ audit' = [audit EXCEPT ![n] = Append(@, Entry(call[g].want, "tx"))]
        /\ row' = [row EXCEPT ![n] = call[g].want]
    BY <1>5 DEF DecideCommit, DecideUnknown, Write, SetStatus
  <2>. HIDE DEF n
  <2>3. CASE m = n
    BY <2>1, <2>2, <2>3, <1>a, TrailDecide DEF Typed, TypeOK
  <2>4. CASE m # n
    BY <2>2, <2>4, <1>a DEF Typed, TypeOK
  <2>. QED
    BY <2>3, <2>4
<1>6. ASSUME NEW g \in Calls, DecideLose(g) PROVE TrailOK(audit'[m], row'[m])
  BY <1>6, <1>a DEF DecideLose
<1>7. ASSUME NEW g \in Calls, DecideRollback(g) PROVE TrailOK(audit'[m], row'[m])
  BY <1>7, <1>a DEF DecideRollback
<1>9. CASE ExpireStale
  <2>1. CASE m \in Overdue
    <3>1. row[m] = "pending" /\ row'[m] = "expired"
      BY <1>9, <2>1 DEF ExpireStale, Overdue
    <3>2. audit'[m] = Append(audit[m], Entry("expired", "tx"))
      BY <1>9, <2>1 DEF ExpireStale
    <3>. QED
      BY <3>1, <3>2, <1>a, TrailDecide DEF Terminal
  <2>2. CASE m \notin Overdue
    BY <1>9, <2>2, <1>a DEF ExpireStale
  <2>. QED
    BY <2>1, <2>2
<1>10. ASSUME NEW n \in Nodes, DeadlineApp(n) \/ DeadlineDb(n)
       PROVE  TrailOK(audit'[m], row'[m])
  BY <1>10, <1>a DEF DeadlineApp, DeadlineDb
<1>11. CASE Crash
  BY <1>11, <1>a DEF Crash
<1>12. CASE UNCHANGED vars
  BY <1>12, <1>a DEF vars
<1>. QED
  BY <1>1, <1>2, <1>3, <1>4, <1>5, <1>6, <1>7, <1>9, <1>10, <1>11, <1>12
  DEF Next, Steps, Faults, StartCall, Progress

\* The audit trail agrees with the row, for any number of calls and crashes.
THEOREM AuditAgreesAlways == Spec => []AuditAgreesWithRow
<1>1. Init => AuditAgreesWithRow
  BY DEF Init, AuditAgreesWithRow, Terminal, Decisions
<1>2. Typed /\ AuditAgreesWithRow /\ [Next]_vars => AuditAgreesWithRow'
  BY AuditStep
<1>. QED
  BY <1>1, <1>2, TypedAlways, PTL DEF Spec

\* What is broadcast agrees with the row: the heard decision stands.
THEOREM EventsAgreeAlways == Spec => []EventsAgreeWithRow
<1>1. Init => EventsAgreeWithRow
  BY DEF Init, EventsAgreeWithRow
<1>2. ASSUME Typed, EventsAgreeWithRow, [Next]_vars
      PROVE  EventsAgreeWithRow'
  <2>. SUFFICES ASSUME NEW m \in Nodes, NEW i \in 1..Len(events'[m]),
                       events'[m][i] \in Terminal
                PROVE  events'[m][i] = row'[m]
    BY DEF EventsAgreeWithRow
  <2>1. row[m] \in Terminal => row'[m] = row[m]
    BY <1>2, TerminalStep
  <2>2. CASE events' = events
    BY <2>1, <2>2, <1>2 DEF EventsAgreeWithRow
  <2>3. ASSUME NEW g \in Calls, Announce(g) PROVE events'[m][i] = row'[m]
    <3>1. call[g].node \in Nodes /\ call[g].want \in Statuses
      BY <1>2, <2>3 DEF Announce, Typed, TypeOK, CallsAgreeWithRow
    <3>2. call[g].want \in Terminal => call[g].want = row[call[g].node]
      BY <1>2, <2>3 DEF Announce, Typed, CallsAgreeWithRow
    <3>3. row' = row /\ events' = [events EXCEPT ![call[g].node] = Append(@, call[g].want)]
      BY <2>3 DEF Announce
    <3>4. CASE m = call[g].node
      <4>1. events[m] \in Seq(Statuses) /\ events'[m] = Append(events[m], call[g].want)
        BY <1>2, <3>1, <3>3, <3>4 DEF Typed, TypeOK
      <4>2. /\ Len(events'[m]) = Len(events[m]) + 1
            /\ \A j \in 1..Len(events[m]) : events'[m][j] = events[m][j]
            /\ events'[m][Len(events[m]) + 1] = call[g].want
            /\ Len(events[m]) \in Nat
        BY <4>1, <3>1, AppendProperties, LenProperties
      <4>3. i \in 1..Len(events[m]) \/ i = Len(events[m]) + 1
        BY <4>2
      <4>4. CASE i \in 1..Len(events[m])
        BY <1>2, <4>2, <4>4, <3>3 DEF EventsAgreeWithRow
      <4>5. CASE i = Len(events[m]) + 1
        BY <4>2, <4>5, <3>2, <3>3, <3>4
      <4>. QED
        BY <4>3, <4>4, <4>5
    <3>5. CASE m # call[g].node
      BY <1>2, <3>3, <3>5 DEF EventsAgreeWithRow, Typed, TypeOK
    <3>. QED
      BY <3>4, <3>5
  <2>4. events' = events \/ \E g \in Calls : Announce(g)
    BY <1>2 DEF Next, Steps, Faults, StartCall, Progress, RequestCreate, DecideRead,
       ServiceAudit, DecideCommit, DecideLose, DecideRollback, DecideUnknown, SetStatus,
       ExpireStale, DeadlineApp, DeadlineDb, Crash, vars
  <2>. QED
    BY <2>2, <2>3, <2>4
<1>. QED
  BY <1>1, <1>2, TypedAlways, PTL DEF Spec

\* An overdue approval is never decided, for any number of calls: the UPDATE
\* asks the database's clock again.
THEOREM NoDecisionAfterDeadlineAlways == Spec => NoDecisionAfterDeadline
<1>1. ASSUME Typed, [Next]_vars, NEW m \in Nodes, lateDb[m], row[m] = "pending"
      PROVE  row'[m] \notin Decisions
  <2>1. row'[m] = row[m] \/ row'[m] = "expired"
    BY <1>1 DEF Next, Steps, Faults, StartCall, Progress, RequestCreate, DecideRead,
       ServiceAudit, Announce, DecideCommit, DecideLose, DecideRollback, DecideUnknown,
       SetStatus, Matches, ExpireStale, DeadlineApp, DeadlineDb, Crash, vars, Typed, TypeOK
  <2>. QED
    BY <1>1, <2>1 DEF Decisions
<1>2. Typed /\ [Next]_vars =>
        [\A n \in Nodes : lateDb[n] /\ row[n] = "pending" => row'[n] \notin Decisions]_vars
  BY <1>1
<1>. QED
  BY <1>2, TypedAlways, PTL DEF Spec, NoDecisionAfterDeadline
=============================================================================
