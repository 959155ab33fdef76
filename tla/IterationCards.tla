--------------------------- MODULE IterationCards ---------------------------
(***************************************************************************)
(* The life of one iteration card.  Its state is materialised in the card  *)
(* row together with each event, in one transaction that compares the      *)
(* revision the call read.  The agent's process is registered in memory; a *)
(* monitor polls it and turns a crash into the state "interrupted", which  *)
(* a replacement leaves again after it acknowledged the user's feedback.   *)
(***************************************************************************)
EXTENDS Integers

CONSTANTS
    IterCalls,      \* the requests that may run at the same time
    Monitor,        \* the monitor's poll, one at a time
    MaxIterRev,     \* bound: calls other than the monitor's start below it
    MaxFeedback     \* bound: feedback items open at the same time

ASSUME MonitorAssumption == Monitor \notin IterCalls
ASSUME FeedbackAssumption == MaxFeedback \in Nat

VARIABLES
    iter,           \* the card row: state, status, revision
    proc,           \* the registered process: "none", "up" or "down"
    recovering,     \* a replacement has been given the feedback replay
    open,           \* stored feedback items without an acknowledgement
    iterCall        \* call -> what it does and what it read

iterVars == <<iter, proc, recovering, open, iterCall>>

Callers == IterCalls \cup {Monitor}

IterTerminal == {"completed", "failed", "cancelled"}

Live == {"running", "waiting_for_user"}

AgentEvents == {"progress", "gated", "completed", "failed"}

IterIdle == [pc |-> "idle", ev |-> "progress", rev |-> 0]

IterationInit ==
    /\ iter = [state |-> "running", status |-> "active", rev |-> 1]
    /\ proc \in {"none", "up"}      \* an adapter may create a card without process
    /\ recovering = FALSE /\ open = 0
    /\ iterCall = [c \in Callers |-> IterIdle]

IterGoto(c, pc) == iterCall' = [iterCall EXCEPT ![c].pc = pc]

IterDone(c) == iterCall' = [iterCall EXCEPT ![c] = IterIdle]

\* The call has read the row and is about to commit the event.
ToCommit(c, pc, e) == iterCall' = [iterCall EXCEPT ![c] = [pc |-> pc, ev |-> e, rev |-> iter.rev]]

\* The state an event leaves the card in.
reduceEvent(e) ==
    CASE e \in {"progress", "resumed"} -> "running"
      [] e = "gated"       -> "waiting_for_user"
      [] e = "agent_error" -> "interrupted"
      [] OTHER             -> e

-----------------------------------------------------------------------------
(* Events and patches *)

\* Mutant of MayAppend: an interrupted card takes events.
MayAppendInterrupted == iter.status = "active" /\ iter.state \notin IterTerminal

MayAppend == iter.status = "active" /\ iter.state \in Live

AppendEvent(c, e) ==
    /\ iterCall[c].pc = "idle" /\ iter.rev < MaxIterRev /\ MayAppend
    /\ ToCommit(c, "commit", e)
    /\ UNCHANGED <<iter, proc, recovering, open>>

\* A user patches the presentation, the registered agent its own data, the
\* state included.
PatchIteration(c, e) ==
    /\ iterCall[c].pc = "idle" /\ iter.rev < MaxIterRev /\ iter.state \in Live
    /\ e # "same" => proc # "none"
    /\ ToCommit(c, "commit", e)
    /\ UNCHANGED <<iter, proc, recovering, open>>

\* Mutant of Materialize: the UPDATE does not compare the revision.
MaterializeAnyway(c) ==
    iter' = [iter EXCEPT !.rev = @ + 1,
                         !.state = IF iterCall[c].ev = "same" THEN @ ELSE reduceEvent(iterCall[c].ev)]

\* Event and row in one transaction; a conflict rolls both back.
Materialize(c) ==
    iter' = IF iter.rev = iterCall[c].rev
            THEN [iter EXCEPT !.rev = @ + 1,
                              !.state = IF iterCall[c].ev = "same" THEN @ ELSE reduceEvent(iterCall[c].ev)]
            ELSE iter

CommitEvent(c) ==
    /\ iterCall[c].pc = "commit"
    /\ Materialize(c) /\ IterDone(c)
    /\ UNCHANGED <<proc, recovering, open>>

\* The base card service dismisses or restores the card.
SetIterStatus(st) ==
    /\ iter.status # st /\ iter.rev < MaxIterRev
    /\ iter' = [iter EXCEPT !.status = st, !.rev = @ + 1]
    /\ UNCHANGED <<proc, recovering, open, iterCall>>

-----------------------------------------------------------------------------
(* Feedback and cancellation *)

SubmitFeedback ==
    /\ iter.status = "active" /\ open < MaxFeedback
    /\ open' = open + 1
    /\ UNCHANGED <<iter, proc, recovering, iterCall>>

AcknowledgeFeedback ==
    /\ open > 0 /\ open' = open - 1
    /\ UNCHANGED <<iter, proc, recovering, iterCall>>

\* The request is recorded as feedback of kind cancel, if the card is active.
CancelCard(c) ==
    /\ iterCall[c].pc = "idle" /\ iter.rev < MaxIterRev /\ open < MaxFeedback
    /\ iter.state \notin IterTerminal /\ iter.status = "active"
    /\ open' = open + 1
    /\ IterGoto(c, "cancel")
    /\ UNCHANGED <<iter, proc, recovering>>

\* The live process accepts, and the event goes the way of every event; or
\* there is none, or it refuses.
CancelAccepted(c) ==
    /\ iterCall[c].pc = "cancel"
    /\ \/ proc # "none" /\ MayAppend /\ ToCommit(c, "commit", "cancelled")
       \/ IterDone(c)
    /\ UNCHANGED <<iter, proc, recovering, open>>

-----------------------------------------------------------------------------
(* Crash and recovery *)

ProcessCrashes ==
    /\ proc = "up" /\ proc' = "down"
    /\ UNCHANGED <<iter, recovering, open, iterCall>>

\* The monitor polls a process that is down; a manager reports one missing.
ReportProcessStatus(c) ==
    /\ iterCall[c].pc = "idle"
    /\ \/ iter.state \notin Live /\ IterGoto(c, "remove")
       \/ /\ iter.state \in Live /\ iter.status = "active"
          /\ ToCommit(c, "crash", "agent_error")
    /\ UNCHANGED <<iter, proc, recovering, open>>

PollSeesCrash == proc = "down" /\ ReportProcessStatus(Monitor)

ReportMissing(c) == proc = "none" /\ iter.rev < MaxIterRev /\ iter.state \in Live /\ ReportProcessStatus(c)

CommitCrash(c) ==
    /\ iterCall[c].pc = "crash"
    /\ Materialize(c)
    /\ IF iter.rev = iterCall[c].rev THEN IterGoto(c, "remove") ELSE IterDone(c)
    /\ UNCHANGED <<proc, recovering, open>>

\* Mutant of removeLiveProcess: the process stays registered.
removeNothing(c) ==
    /\ iterCall[c].pc = "remove"
    /\ UNCHANGED <<proc, recovering>>
    /\ IterDone(c)
    /\ UNCHANGED <<iter, open>>

\* Whatever is registered now is removed.
removeLiveProcess(c) ==
    /\ iterCall[c].pc = "remove"
    /\ proc' = "none" /\ recovering' = FALSE
    /\ IterDone(c)
    /\ UNCHANGED <<iter, open>>

BeginRecovery(c) ==
    /\ iterCall[c].pc = "idle" /\ iter.state = "interrupted" /\ iter.rev < MaxIterRev
    /\ proc' = "up"
    /\ IterGoto(c, "replay")
    /\ UNCHANGED <<iter, recovering, open>>

FeedbackReplayed(c) ==
    /\ iterCall[c].pc = "replay"
    /\ recovering' = TRUE /\ IterDone(c)
    /\ UNCHANGED <<iter, proc, open>>

ResumeProcess(c) ==
    /\ iterCall[c].pc = "idle" /\ iter.state = "interrupted"
    /\ proc # "none" /\ recovering
    /\ open = 0
    /\ ToCommit(c, "resume", "resumed")
    /\ UNCHANGED <<iter, proc, recovering, open>>

CommitResume(c) ==
    /\ iterCall[c].pc = "resume"
    /\ Materialize(c)
    /\ recovering' = IF iter.rev = iterCall[c].rev THEN FALSE ELSE recovering
    /\ IterDone(c)
    /\ UNCHANGED <<proc, open>>

\* The server restarts: what it kept in memory is gone.
IterRestart ==
    /\ iter.rev < MaxIterRev
    /\ proc' = "none" /\ recovering' = FALSE
    /\ iterCall' = [c \in Callers |-> IterIdle]
    /\ UNCHANGED <<iter, open>>

-----------------------------------------------------------------------------
IterationStep(c) ==
    \/ CommitEvent(c) \/ CancelAccepted(c) \/ CommitCrash(c) \/ removeLiveProcess(c)
    \/ FeedbackReplayed(c) \/ CommitResume(c)

IterationNext ==
    \/ \E c \in IterCalls :
          \/ \E e \in AgentEvents : AppendEvent(c, e)
          \/ \E e \in {"same", "interrupted"} \cup Live \cup IterTerminal : PatchIteration(c, e)
          \/ CancelCard(c) \/ ReportMissing(c) \/ BeginRecovery(c) \/ ResumeProcess(c)
    \/ \E c \in Callers : IterationStep(c)
    \/ PollSeesCrash
    \/ \E st \in {"active", "dismissed"} : SetIterStatus(st)
    \/ SubmitFeedback \/ AcknowledgeFeedback \/ ProcessCrashes \/ IterRestart

IterationSpec == IterationInit /\ [][IterationNext]_iterVars

\* The monitor's ticker fires for ever and calls that began run on.
IterationFairness ==
    /\ \A c \in Callers : WF_iterVars(IterationStep(c))
    /\ WF_iterVars(PollSeesCrash)

IterationFairSpec == IterationSpec /\ IterationFairness

-----------------------------------------------------------------------------
IterationTypeOK ==
    /\ iter.state \in Live \cup IterTerminal \cup {"interrupted"}
    /\ iter.status \in {"active", "dismissed"}
    /\ proc \in {"none", "up", "down"} /\ recovering \in BOOLEAN /\ open \in 0 .. MaxFeedback
    /\ \A c \in Callers : iterCall[c].rev <= iter.rev

\* A completed, failed or cancelled card keeps its state, whatever events,
\* cancellations, crash reports and resumptions decided on an earlier row.
TerminalIsFinal == [][iter.state \in IterTerminal => iter'.state = iter.state]_iterVars

\* An interrupted card runs again only through a replacement's resumption, and
\* the row that resumption commits on is the one on which it found a registered
\* process that had been given the replay: no event, patch or cancellation of
\* the crashed agent that was on its way brings the card back.
InterruptedUntilResumed ==
    [][iter.state = "interrupted" /\ iter'.state # "interrupted"
          => \E c \in IterCalls : iterCall[c].pc = "resume" /\ iterCall[c].rev = iter.rev]_iterVars

\* A crash does not go unnoticed: a registered process that is down does not
\* stay registered for ever while the card is active.
CrashUnnoticed == proc = "down" /\ iter.status = "active"

CrashIsNoticed == []<>~CrashUnnoticed
=============================================================================
