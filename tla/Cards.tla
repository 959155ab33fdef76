-------------------------------- MODULE Cards --------------------------------
(***************************************************************************)
(* The row and the event log of one card under concurrent requests.  A     *)
(* patch compares the revision when it reads and again when it writes; its *)
(* event is appended by a second statement.  A submitted action appends a  *)
(* request event, runs its executor and appends one terminal event.        *)
(***************************************************************************)
EXTENDS Integers, Sequences, FiniteSets

CONSTANTS
    CardRequests,   \* the requests that may run at the same time
    MaxCardRev,     \* bound: the highest revision of the row
    MaxCardLog      \* bound: a request starts only below this log length

ASSUME CardsAssumption == MaxCardRev \in Nat \ {0}

VARIABLES
    cardRow,        \* the row: status, revision, changes of data and of status
    cardLog,        \* the types of the appended events, in order
    cardCall,       \* request -> where it is and what it read
    unlogged        \* events never appended: their request failed before

cardVars == <<cardRow, cardLog, cardCall, unlogged>>

\* What a patch may ask for: a new status, new data, or both at once.
PatchKinds == {[to |-> "same", data |-> TRUE], [to |-> "active", data |-> FALSE],
               [to |-> "archived", data |-> FALSE]}
              \cup {[to |-> "dismissed", data |-> d] : d \in BOOLEAN}

EventOf == [dismissed |-> "card_dismissed", active |-> "card_restored", archived |-> "card_archived"]

Lifecycle == {"card_dismissed", "card_restored", "card_archived"}

CardIdle == [pc |-> "idle", kind |-> [to |-> "same", data |-> TRUE], rev |-> 0]

CardsInit ==
    /\ cardRow = [status |-> "none", rev |-> 0, data |-> 0, moves |-> 0]
    /\ cardLog = <<>>
    /\ cardCall = [c \in CardRequests |-> CardIdle]
    /\ unlogged = [data |-> 0, moves |-> 0, actions |-> 0]

Goto(c, pc) == cardCall' = [cardCall EXCEPT ![c].pc = pc]

CardDone(c) == cardCall' = [cardCall EXCEPT ![c] = CardIdle]

LogEvent(type) == cardLog' = Append(cardLog, type)

Count(types) == Len(SelectSeq(cardLog, LAMBDA e : e \in types))

-----------------------------------------------------------------------------
CreateCard(c) ==
    /\ cardCall[c].pc = "idle" /\ cardRow.status = "none"
    /\ cardRow' = [status |-> "active", rev |-> 1, data |-> 0, moves |-> 0]
    /\ cardCall' = [cardCall EXCEPT ![c] = [CardIdle EXCEPT !.pc = "created"]]
    /\ UNCHANGED <<cardLog, unlogged>>

CreateCardEvent(c) ==
    /\ cardCall[c].pc = "created"
    /\ LogEvent("card_created") /\ CardDone(c)
    /\ UNCHANGED <<cardRow, unlogged>>

\* What a patch may do to a card of the status it read.
Allowed(status, k) ==
    /\ k.data => status = "active"
    /\ CASE k.to = "same"      -> TRUE
         [] k.to = "dismissed" -> status = "active"
         [] k.to = "active"    -> status = "dismissed"
         [] k.to = "archived"  -> status \in {"active", "dismissed"}

\* The request's revision has to be the one of the row it reads.
PatchCard(c, k) ==
    /\ cardCall[c].pc = "idle" /\ cardRow.status # "none"
    /\ cardRow.rev < MaxCardRev /\ Len(cardLog) < MaxCardLog
    /\ Allowed(cardRow.status, k)
    /\ cardCall' = [cardCall EXCEPT ![c] = [pc |-> "patch", kind |-> k, rev |-> cardRow.rev]]
    /\ UNCHANGED <<cardRow, cardLog, unlogged>>

Patched(k) ==
    [cardRow EXCEPT !.rev = @ + 1, !.status = IF k.to = "same" THEN @ ELSE k.to,
                    !.data = IF k.data THEN @ + 1 ELSE @,
                    !.moves = IF k.to = "same" THEN @ ELSE @ + 1]

\* The event of a new status is appended before the one of new data.
FirstEvent(k) == IF k.to = "same" THEN "data" ELSE "move"

\* Mutant of WritePatch: the UPDATE does not compare the revision.
WritePatchAnyway(c) ==
    /\ cardCall[c].pc = "patch"
    /\ cardRow' = Patched(cardCall[c].kind) /\ Goto(c, FirstEvent(cardCall[c].kind))
    /\ UNCHANGED <<cardLog, unlogged>>

\* Mutant of WritePatch: a conflict is not reported.
WritePatchUnnoticed(c) ==
    /\ cardCall[c].pc = "patch"
    /\ IF cardRow.rev = cardCall[c].rev
       THEN cardRow' = Patched(cardCall[c].kind)
       ELSE UNCHANGED cardRow
    /\ Goto(c, FirstEvent(cardCall[c].kind))
    /\ UNCHANGED <<cardLog, unlogged>>

\* UPDATE ... WHERE revision = the request's
WritePatch(c) ==
    /\ cardCall[c].pc = "patch"
    /\ IF cardRow.rev = cardCall[c].rev
       THEN cardRow' = Patched(cardCall[c].kind) /\ Goto(c, FirstEvent(cardCall[c].kind))
       ELSE UNCHANGED cardRow /\ CardDone(c)
    /\ UNCHANGED <<cardLog, unlogged>>

MoveEvent(c) ==
    /\ cardCall[c].pc = "move"
    /\ LogEvent(EventOf[cardCall[c].kind.to])
    /\ IF cardCall[c].kind.data THEN Goto(c, "data") ELSE CardDone(c)
    /\ UNCHANGED <<cardRow, unlogged>>

DataEvent(c) ==
    /\ cardCall[c].pc = "data"
    /\ LogEvent("card_updated") /\ CardDone(c)
    /\ UNCHANGED <<cardRow, unlogged>>

-----------------------------------------------------------------------------
SubmitCardAction(c) ==
    /\ cardCall[c].pc = "idle" /\ cardRow.status = "active" /\ Len(cardLog) < MaxCardLog
    /\ cardCall' = [cardCall EXCEPT ![c] = [CardIdle EXCEPT !.pc = "request"]]
    /\ UNCHANGED <<cardRow, cardLog, unlogged>>

RequestEvent(c) ==
    /\ cardCall[c].pc = "request"
    /\ LogEvent("action_requested") /\ Goto(c, "execute")
    /\ UNCHANGED <<cardRow, unlogged>>

\* Mutant of ExecuteCardAction: a failure is recorded before the result too.
ExecuteTwice(c) ==
    /\ cardCall[c].pc = "execute"
    /\ \/ LogEvent("action_completed")
       \/ cardLog' = cardLog \o <<"agent_error", "action_completed">>
    /\ CardDone(c)
    /\ UNCHANGED <<cardRow, unlogged>>

\* The executor answers, whatever became of the card meanwhile.
ExecuteCardAction(c) ==
    /\ cardCall[c].pc = "execute"
    /\ \/ LogEvent("action_completed")
       \/ LogEvent("agent_error")
    /\ CardDone(c)
    /\ UNCHANGED <<cardRow, unlogged>>

\* The events the request still has to append.
Owes(c, what) ==
    LET q == cardCall[c] IN
    \/ what = "moves" /\ q.pc = "move"
    \/ what = "data" /\ (q.pc = "data" \/ (q.pc = "move" /\ q.kind.data))
    \/ what = "actions" /\ q.pc = "execute"

\* An append fails or the process stops.
CardFail(c) ==
    /\ cardCall[c].pc # "idle"
    /\ unlogged' = [moves   |-> unlogged.moves + IF Owes(c, "moves") THEN 1 ELSE 0,
                    data    |-> unlogged.data + IF Owes(c, "data") THEN 1 ELSE 0,
                    actions |-> unlogged.actions + IF Owes(c, "actions") THEN 1 ELSE 0]
    /\ CardDone(c)
    /\ UNCHANGED <<cardRow, cardLog>>

CardsNext ==
    \E c \in CardRequests :
        \/ CreateCard(c) \/ CreateCardEvent(c)
        \/ \E k \in PatchKinds : PatchCard(c, k)
        \/ WritePatch(c) \/ MoveEvent(c) \/ DataEvent(c)
        \/ SubmitCardAction(c) \/ RequestEvent(c) \/ ExecuteCardAction(c) \/ CardFail(c)

CardsSpec == CardsInit /\ [][CardsNext]_cardVars

-----------------------------------------------------------------------------
CardsTypeOK ==
    /\ cardRow.status \in {"none", "active", "dismissed", "archived"}
    /\ cardRow.rev \in 0 .. MaxCardRev
    /\ \A c \in CardRequests : cardCall[c].kind \in PatchKinds /\ cardCall[c].rev <= cardRow.rev

\* However stale the row a request decided on, what it writes is legal for the
\* row it meets: archived is final, a dismissed card can be restored or
\* archived and its data stays, and only active cards are dismissed.
LegalTransitions ==
    [][\/ cardRow'.rev = cardRow.rev \/ cardRow.status = "none"
       \/ \E k \in PatchKinds : Allowed(cardRow.status, k) /\ cardRow' = Patched(k)]_cardVars

Owing(what) == Cardinality({c \in CardRequests : Owes(c, what)})

\* The log holds one event for every change of the row and for nothing else:
\* changes, events, events still to be appended and appends that failed agree.
ChangesAreLogged ==
    /\ cardRow.data  = Count({"card_updated"}) + unlogged.data + Owing("data")
    /\ cardRow.moves = Count(Lifecycle) + unlogged.moves + Owing("moves")

\* An accepted action gets one terminal event, after its request: at every
\* prefix of the log the answers do not outnumber the requests, and all but the
\* running and the broken ones are answered.
ActionsAnsweredOnce ==
    /\ \A i \in 0 .. Len(cardLog) :
          LET n(types) == Len(SelectSeq(SubSeq(cardLog, 1, i), LAMBDA e : e \in types))
          IN  n({"action_completed", "agent_error"}) <= n({"action_requested"})
    /\ Count({"action_requested"}) = Count({"action_completed", "agent_error"}) + unlogged.actions
                                     + Owing("actions")
=============================================================================
