------------------------------ MODULE CaseServer ------------------------------
(***************************************************************************)
(* One audit case inside the FastAPI service: the record the store keeps,  *)
(* the background task _process_case that drives a runner and feeds the    *)
(* event queue, and the mailbox through which an approval reaches the      *)
(* paused runner.  FakeRunner and UiPathRunner extend this module with the *)
(* steps of their run() generator.                                         *)
(*                                                                         *)
(* Everything here but the synchronous GET routes runs on one asyncio      *)
(* loop.  The queue is unbounded, so `await queue.put` never suspends; the *)
(* task gives up the loop only where the runner waits for a human or for a *)
(* UiPath call.  pc says where the task stands; Suspensions are the places *)
(* where another coroutine (an approval) can run.  One action is one yield *)
(* of the generator together with what _process_case does with the event.  *)
(***************************************************************************)
EXTENDS CaseEvents, Sequences

CONSTANTS Ids,          \* invoice ids, proposed or not, that a decision may name
          Decisions,    \* the decisions clients post
          MaxStrays,    \* bound: posts made while no gate is pending
          None          \* no mail, no report

Decision == [gate : Gates, approved : BOOLEAN,
             approvedIds : SUBSET Ids, rejectedIds : SUBSET Ids]

\* Where the task may be when it does not hold the loop.
Suspensions == {"created", "plan_wait", "action_wait",
                "loading", "querying", "writing", "finished"}

WaitPoint(g) == IF g = "plan" THEN "plan_wait" ELSE "action_wait"

\* A decision under its case id in _decisions.  postedAt is a history field:
\* where the task was suspended when the approval arrived.
Mail == [decision : Decision, postedAt : Suspensions]

ASSUME ConstantsAssumption ==
    /\ Decisions \subseteq Decision
    /\ MaxStrays \in Nat
    /\ None \notin Mail
    /\ \A items \in SUBSET Ids : None # items

VARIABLES pc,              \* position of _process_case and its generator
          signal,          \* _approval_events[case_id]: none, unset or set
          mailbox,         \* _decisions[case_id]
          consumed,        \* per gate, the decision popped there
          stage,           \* AuditCaseRecord.stage
          pendingGate,     \* AuditCaseRecord.pending_gate
          exceptionCount,  \* AuditCaseRecord.exception_count
          report,          \* AuditCaseRecord.report, as the ids it lists
          queue,           \* AuditCaseRecord.queue: every event ever put
          ended,           \* the None sentinel follows the last event
          strays           \* posts made while no gate was pending

recordVars == <<stage, pendingGate, exceptionCount, report>>
mailVars == <<signal, mailbox, consumed>>
serverVars == <<pc, recordVars, mailVars, queue, ended, strays>>

ServerTypeOK ==
    /\ signal \in {"none", "unset", "set"}
    /\ mailbox \in Mail \cup {None}
    /\ consumed \in [Gates -> Mail \cup {None}]
    /\ stage \in Stages
    /\ pendingGate \in Gates \cup {NoGate}
    /\ exceptionCount \in Nat
    /\ report = None \/ report \in SUBSET Ids
    /\ queue \in Seq(AgentEvent(Ids))
    /\ ended \in BOOLEAN
    /\ strays \in 0 .. MaxStrays

\* No case yet: an approval or a poll answers 404.
ServerInit ==
    /\ pc = "absent"
    /\ signal = "none" /\ mailbox = None
    /\ consumed = [g \in Gates |-> None]
    /\ stage = "case_intake" /\ pendingGate = NoGate
    /\ exceptionCount = 0 /\ report = None
    /\ queue = <<>> /\ ended = FALSE
    /\ strays = 0

\* POST /api/audit-case: create the record, schedule the task.
StartAuditCase ==
    /\ pc = "absent"
    /\ pc' = "created"
    /\ UNCHANGED <<recordVars, mailVars, queue, ended, strays>>

-------------------------------------------------------------------------------
(* _process_case: what it does with one event of the generator. *)

\* Mutant: the stage of the event is stored where its gate belongs.
ApplyEventWrongField(e) ==
    /\ stage' = IF e.type = "done" THEN "closed" ELSE e.stage
    /\ pendingGate' = IF e.type = "awaiting_approval" THEN e.stage ELSE NoGate
    /\ exceptionCount' = IF e.type = "proposal" THEN e.total ELSE exceptionCount
    /\ UNCHANGED report

ApplyEvent(e) ==
    /\ stage' = IF e.type = "done" THEN "closed" ELSE e.stage
    /\ pendingGate' = CASE e.type = "awaiting_approval" -> e.gate
                        [] e.type \in {"report_ready", "done"} -> NoGate
                        [] OTHER -> pendingGate
    /\ exceptionCount' = IF e.type = "proposal" THEN e.total ELSE exceptionCount
    /\ UNCHANGED report

Relay(e) == ApplyEvent(e) /\ queue' = Append(queue, e)

\* The generator yields e and goes on from `to`.
Yield(from, e, to) ==
    /\ pc = from
    /\ pc' = to
    /\ Relay(e)
    /\ UNCHANGED <<mailVars, ended, strays>>

\* Mutant: REPORT_READY is relayed and nothing is cached.
YieldReportUncached(from, items) == Yield(from, Evt("report_ready", items, 0), "done")

\* The generator yields REPORT_READY; _process_case still has to cache it.
YieldReport(from, items) == Yield(from, Evt("report_ready", items, 0), "cache")

LastEvent == queue[Len(queue)]

\* Mutant: set_report closes the case.
CacheReportCloses ==
    /\ pc = "cache" /\ pc' = "done"
    /\ report' = LastEvent.items
    /\ stage' = "closed"
    /\ UNCHANGED <<pendingGate, exceptionCount, mailVars, queue, ended, strays>>

\* The second half of the loop body for REPORT_READY; a thread serving
\* GET /api/report or the Maestro poll may run before it.
CacheReport ==
    /\ pc = "cache"
    /\ pc' = "done"
    /\ report' = LastEvent.items
    /\ stage' = "audit_report_ready"
    /\ UNCHANGED <<pendingGate, exceptionCount, mailVars, queue, ended, strays>>

\* Mutant: the sentinel is put after the loop, only when a report was made.
PutSentinelOnSuccess ==
    /\ pc = "sentinel" /\ pc' = "finished"
    /\ report # None
    /\ ended' = TRUE
    /\ UNCHANGED <<recordVars, mailVars, queue, strays>>

\* The finally clause: the sentinel that closes the stream.
PutSentinel ==
    /\ pc = "sentinel"
    /\ pc' = "finished"
    /\ ended' = TRUE
    /\ UNCHANGED <<recordVars, mailVars, queue, strays>>

-------------------------------------------------------------------------------
(* The mailbox between POST /api/approve and the paused generator. *)

\* Yield AWAITING_APPROVAL and enter _wait_for_decision: a fresh asyncio.Event.
OpenGate(from, g) ==
    /\ pc = from
    /\ pc' = WaitPoint(g)
    /\ Relay(Awaiting(g))
    /\ signal' = "unset"
    /\ UNCHANGED <<mailbox, consumed, ended, strays>>

\* Mutants: the event is never set; the decision's flag is lost on the way.
DeliverDecisionUnset(d) ==
    /\ mailbox' = [decision |-> d, postedAt |-> pc]
    /\ UNCHANGED <<signal, consumed>>

DeliverDecisionApproved(d) ==
    /\ mailbox' = [decision |-> [d EXCEPT !.approved = TRUE], postedAt |-> pc]
    /\ signal' = IF signal = "none" THEN "none" ELSE "set"
    /\ UNCHANGED consumed

DeliverDecision(d) ==
    /\ mailbox' = [decision |-> d, postedAt |-> pc]
    /\ signal' = IF signal = "none" THEN "none" ELSE "set"
    /\ UNCHANGED consumed

\* Mutant: the poll goes on showing the gate.
PushApprovalKeepsGate(d) ==
    /\ pc \in Suspensions
    /\ pendingGate = NoGate => strays < MaxStrays
    /\ strays' = IF pendingGate = NoGate THEN strays + 1 ELSE strays
    /\ DeliverDecision(d)
    /\ UNCHANGED <<pc, stage, pendingGate, exceptionCount, report, queue, ended>>

\* POST /api/approve/{case_id} or its Maestro alias.  It is accepted at any
\* time; while no gate is pending at most MaxStrays are modelled.
PushApproval(d) ==
    /\ pc \in Suspensions
    /\ pendingGate = NoGate => strays < MaxStrays
    /\ strays' = IF pendingGate = NoGate THEN strays + 1 ELSE strays
    /\ pendingGate' = NoGate
    /\ DeliverDecision(d)
    /\ UNCHANGED <<pc, stage, exceptionCount, report, queue, ended>>

\* Mutant: the waiter does not wait when a decision is there already.
TakeDecisionEarly(g) ==
    /\ pc = WaitPoint(g)
    /\ signal = "set" \/ mailbox # None
    /\ signal' = "none"
    /\ mailbox' = None
    /\ consumed' = [consumed EXCEPT ![g] = mailbox]
    /\ UNCHANGED <<recordVars, queue, ended, strays>>

\* The waiter wakes, drops its event and pops the decision of its case.
TakeDecision(g) ==
    /\ pc = WaitPoint(g)
    /\ signal = "set"
    /\ signal' = "none"
    /\ mailbox' = None
    /\ consumed' = [consumed EXCEPT ![g] = mailbox]
    /\ UNCHANGED <<recordVars, queue, ended, strays>>

-------------------------------------------------------------------------------
(* What every runner must make true of its case. *)

EventsOf(type) == {i \in 1 .. Len(queue) : queue[i].type = type}

\* The poll and the mailbox agree.  The store shows a pending gate exactly while
\* the task is blocked at that gate on an event nobody has set
\* (store.py push_approval/apply_event against runner.py _wait_for_decision).
PendingGateIsBlockedGate ==
    /\ pendingGate # NoGate <=> signal = "unset"
    /\ pendingGate # NoGate => pc = WaitPoint(pendingGate)
    /\ signal = "set" => \E g \in Gates : pc = WaitPoint(g)

\* A waiter that has been woken finds a decision: `_decisions.pop(case_id)`
\* never raises KeyError, however posts and resumptions interleave.
WokenWithDecision ==
    signal = "set" => mailbox # None

\* The decision a gate consumes was posted while the case was stopped at that
\* very gate.  One posted before the gate opened, or during a UiPath call, is
\* never honoured later (runner.py deliver_decision/_wait_for_decision).
DecisionIsFresh ==
    \A g \in Gates : consumed[g] # None => consumed[g].postedAt = WaitPoint(g)

\* Nothing is announced as written, and no report exists, unless both gates
\* consumed a decision and the plan was approved.
WriteNeedsBothGates ==
    (EventsOf("written") # {} \/ report # None) =>
        /\ consumed["plan"] # None /\ consumed["plan"].decision.approved
        /\ consumed["action"] # None

\* A finding the reviewer listed in rejected_ids, and did not also approve, is not
\* reported as written: "Only approved findings are written to the audit log"
\* (uipath/maestro-case-blueprint.md:120).
RejectedNotWritten ==
    report # None =>
        LET d == consumed["action"].decision
        IN  report \cap (d.rejectedIds \ d.approvedIds) = {}

\* "Never write to audit log without a Gate 2 decision"
\* (uipath/maestro-case-blueprint.md:145): what resumes Gate 2 was posted for it.
WriteNeedsGate2Decision ==
    EventsOf("written") # {} => consumed["action"].decision.gate = "action"

\* The stage the Maestro poll shows is the stage of the last streamed event.
StageTracksStream ==
    queue # <<>> => stage = LastEvent.stage

\* A closed case has a report, unless its reviewer rejected the plan.
ClosedCaseIsReported ==
    stage = "closed" =>
        \/ report # None
        \/ consumed["plan"] # None /\ ~consumed["plan"].decision.approved

\* Once closed, nothing about the case changes any more: no late approval
\* reopens a gate, replaces the report or moves the stage.
ClosedIsFinal ==
    [][stage = "closed" => UNCHANGED <<recordVars, queue>>]_serverVars

\* An accepted answer resumes the case: a task at a gate that the poll no longer
\* shows as pending leaves the gate, with no further help from the reviewer.
AnsweredGateResumes ==
    \A g \in Gates :
        (pc = WaitPoint(g) /\ pendingGate = NoGate) ~> pc # WaitPoint(g)

\* If every pending gate is eventually answered, the stream of every started
\* case ends with the sentinel.
StreamEnds == (pc = "created") ~> ended

\* The case keeps what it promises its readers, step by step (CaseProtocol).
Protocol == INSTANCE CaseProtocol WITH stream <- queue, pending <- pendingGate

ImplementsProtocol == Protocol!Spec
===============================================================================
