------------------------------ MODULE FakeRunner ------------------------------
(***************************************************************************)
(* The scripted runner used with USE_MOCKS (fraudcase_ai/server/runner.py):*)
(* two gates, two tool calls, an optional recoverable exception and a      *)
(* report, over a fixed list of findings.                                  *)
(***************************************************************************)
EXTENDS CaseServer, FiniteSets

CONSTANT FakeItems      \* the invoice ids of _FAKE_ITEMS

ASSUME FakeItemsAssumption == FakeItems \subseteq Ids /\ IsFiniteSet(Ids)

VARIABLE approvedItems  \* run()'s local approved_items, as ids

vars == <<serverVars, approvedItems>>

Points == {"absent", "created", "plan", "plan_wait", "reject",
           "search_call", "search_result", "aggregate_call", "aggregate_result",
           "triage", "propose", "action", "action_wait",
           "write", "report", "cache", "done", "sentinel", "finished"}

TypeOK ==
    /\ ServerTypeOK
    /\ pc \in Points
    /\ approvedItems \in SUBSET Ids

Init == ServerInit /\ approvedItems = {}

Keep == UNCHANGED approvedItems

EmitPlan == Yield("created", Plain("plan"), "plan") /\ Keep

AwaitPlan == OpenGate("plan", "plan") /\ Keep

\* Mutant: a rejected plan is run.
ResumePlanAnyway == TakeDecision("plan") /\ pc' = "search_call" /\ Keep

ResumePlan ==
    /\ TakeDecision("plan")
    /\ pc' = IF mailbox.decision.approved THEN "search_call" ELSE "reject"
    /\ Keep

RejectPlan == Yield("reject", Plain("error"), "done") /\ Keep

CallSearch == Yield("search_call", Plain("tool_call"), "search_result") /\ Keep
SearchResult == Yield("search_result", Plain("tool_result"), "aggregate_call") /\ Keep
CallAggregate == Yield("aggregate_call", Plain("tool_call"), "aggregate_result") /\ Keep
AggregateResult == Yield("aggregate_result", Plain("tool_result"), "triage") /\ Keep

\* The objective contains one of the exception keywords, or it does not; it is
\* read once, so either may happen at this point.
RaiseException == Yield("triage", Plain("exception"), "propose") /\ Keep
NoException ==
    /\ pc = "triage"
    /\ pc' = "propose"
    /\ UNCHANGED <<recordVars, mailVars, queue, ended, strays, approvedItems>>

Propose ==
    Yield("propose", Evt("proposal", FakeItems, Cardinality(FakeItems)), "action") /\ Keep

AwaitAction == OpenGate("action", "action") /\ Keep

\* Mutant: the approved ids are not matched with the proposal.
SelectedUnchecked(d) == IF d.approvedIds # {} THEN d.approvedIds ELSE FakeItems

\* set(approved_ids), or every proposed id when that is empty; neither the
\* decision's gate, its approved flag nor its rejected_ids are looked at.
Selected(d) ==
    FakeItems \cap (IF d.approvedIds # {} THEN d.approvedIds ELSE FakeItems)

ResumeAction ==
    /\ TakeDecision("action")
    /\ pc' = "write"
    /\ approvedItems' = Selected(mailbox.decision)

Write == Yield("write", Evt("written", {}, Cardinality(approvedItems)), "report") /\ Keep

ReportReady == YieldReport("report", approvedItems) /\ Keep

Done == Yield("done", Plain("done"), "sentinel") /\ Keep

\* A step the event loop takes by itself; the others wait for a client.
TaskStep ==
    \/ EmitPlan \/ AwaitPlan \/ ResumePlan \/ RejectPlan
    \/ CallSearch \/ SearchResult \/ CallAggregate \/ AggregateResult
    \/ RaiseException \/ NoException
    \/ Propose \/ AwaitAction \/ ResumeAction
    \/ Write \/ ReportReady \/ Done
    \/ (CacheReport /\ Keep) \/ (PutSentinel /\ Keep)

Approve == \E d \in Decisions : PushApproval(d) /\ Keep

Next == (StartAuditCase /\ Keep) \/ TaskStep \/ Approve

Spec == Init /\ [][Next]_vars

\* The loop runs every ready task, so the task's own steps are weakly fair.
FairSpec == Spec /\ WF_vars(TaskStep)

AnswerPending == pendingGate # NoGate /\ Approve

-------------------------------------------------------------------------------

\* The report lists exactly the ids approved at Gate 2 among those the reviewer
\* was shown, or all of them if the decision named none (runner.py:169-172),
\* whatever ids the decision names and whatever else was posted meanwhile.
ReportFollowsDecision ==
    report # None =>
        LET yes == consumed["action"].decision.approvedIds
        IN  \E i \in EventsOf("proposal") :
                report = {x \in queue[i].items : yes = {} \/ x \in yes}

\* If a reviewer keeps answering pending gates, the stream of every started case
\* ends with the sentinel, whatever is rejected on the way: nobody who
\* follows the stream waits for ever (_process_case, finally clause).
ReviewedStreamEnds == WF_vars(AnswerPending) => StreamEnds
===============================================================================
