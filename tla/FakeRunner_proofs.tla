-------------------------- MODULE FakeRunner_proofs --------------------------
(***************************************************************************)
(* FakeRunner keeps its types, its mailbox and its write discipline for    *)
(* every set of invoices, of decisions and every number of stray posts.    *)
(***************************************************************************)
EXTENDS FakeRunner, CaseServer_proofs, FiniteSetTheorems

PastPlan == {"search_call", "search_result", "aggregate_call", "aggregate_result",
             "triage", "propose", "action", "action_wait", "write", "report", "cache"}
PastProposal == {"action", "action_wait", "write", "report", "cache"}
PastAction == {"write", "report", "cache"}
Closing == {"done", "sentinel", "finished"}

\* What has happened, told from where the task stands.
ProgressInv ==
    /\ pc \in PastPlan => PlanApproved
    /\ pc \in PastProposal => InProposal(FakeItems)
    /\ pc \in PastAction =>
          ActionConsumed /\ approvedItems = Selected(consumed["action"].decision)
    /\ pc = "reject" => PlanRejected
    /\ pc \notin {"report", "cache"} \cup Closing => EventsOf("written") = {}
    /\ pc \notin Closing => report = None
    /\ pc \in Closing =>
          \/ report = None /\ PlanRejected /\ EventsOf("written") = {}
          \/ /\ PlanApproved /\ InProposal(FakeItems) /\ ActionConsumed
             /\ report = Selected(consumed["action"].decision)
    /\ pc = "cache" => LastEvent.items = approvedItems /\ LastEvent.stage = "audit_report_ready"
    /\ pc = "cache" => queue # <<>>
    /\ stage = "closed" => pc \in {"sentinel", "finished"}
    /\ StageTracksStream

IInv == TypeOK /\ MailInv /\ ProgressInv

-------------------------------------------------------------------------------

\* The initial state satisfies the invariant.
LEMMA InitInv == Init => IInv
  <1> SUFFICES ASSUME Init PROVE IInv
    OBVIOUS
  <1> USE DEF Init, ServerInit
  <1>1. TypeOK
    <2>1. queue \in Seq(AgentEvent(Ids))
      BY EmptySeq
    <2>2. consumed \in [Gates -> Mail \cup {None}]
      OBVIOUS
    <2>3. strays \in 0 .. MaxStrays
      BY ConstantsAssumption
    <2> QED
      BY <2>1, <2>2, <2>3 DEF TypeOK, ServerTypeOK, Stages, Points
  <1>2. MailInv
    BY DEF MailInv, PendingGateIsBlockedGate, WokenWithDecision, DecisionIsFresh, Gates, NoGate
  <1>3. EventsOf("written") = {}
    BY DEF EventsOf
  <1>4. ProgressInv
    BY <1>3 DEF ProgressInv, PastPlan, PastProposal, PastAction, Closing, StageTracksStream
  <1> QED
    BY <1>1, <1>2, <1>4 DEF IInv

\* The payloads that count findings are natural numbers.
LEMMA Counts ==
    ASSUME TypeOK
    PROVE  /\ Cardinality(FakeItems) \in Nat
           /\ Cardinality(approvedItems) \in Nat
  BY FakeItemsAssumption, FS_Subset, FS_CardinalityType DEF TypeOK

\* Every step of the task keeps the types.
LEMMA TaskType == IInv /\ TaskStep => TypeOK'
  <1> SUFFICES ASSUME IInv, TaskStep PROVE TypeOK'
    OBVIOUS
  <1>0. TypeOK
    BY DEF IInv
  <1> USE DEF TypeOK, Points, Keep
  <1>1. \A type \in EventTypes : Plain(type) \in AgentEvent(Ids)
    BY EventTypes_Evt DEF Plain
  <1>2. CASE EmitPlan
    BY <1>1, <1>2, <1>0, YieldType DEF EmitPlan, Yield, EventTypes
  <1>3. CASE AwaitPlan
    BY <1>3, <1>0, OpenGateType DEF AwaitPlan, OpenGate, Gates, WaitPoint
  <1>4. CASE ResumePlan
    BY <1>4, <1>0, TakeDecisionType DEF ResumePlan, Gates
  <1>5. CASE RejectPlan
    BY <1>1, <1>5, <1>0, YieldType DEF RejectPlan, Yield, EventTypes
  <1>6. CASE CallSearch
    BY <1>1, <1>6, <1>0, YieldType DEF CallSearch, Yield, EventTypes
  <1>7. CASE SearchResult
    BY <1>1, <1>7, <1>0, YieldType DEF SearchResult, Yield, EventTypes
  <1>8. CASE CallAggregate
    BY <1>1, <1>8, <1>0, YieldType DEF CallAggregate, Yield, EventTypes
  <1>9. CASE AggregateResult
    BY <1>1, <1>9, <1>0, YieldType DEF AggregateResult, Yield, EventTypes
  <1>10. CASE RaiseException
    BY <1>1, <1>10, <1>0, YieldType DEF RaiseException, Yield, EventTypes
  <1>11. CASE NoException
    BY <1>0, <1>11 DEF NoException, ServerTypeOK, recordVars, mailVars
  <1>12. CASE Propose
    <2>1. Evt("proposal", FakeItems, Cardinality(FakeItems)) \in AgentEvent(Ids)
      BY <1>0, Counts, FakeItemsAssumption, EventTypes_Evt DEF EventTypes
    <2> QED
      BY <1>12, <2>1, <1>0, YieldType DEF Propose, Yield
  <1>13. CASE AwaitAction
    BY <1>13, <1>0, OpenGateType DEF AwaitAction, OpenGate, Gates, WaitPoint
  <1>14. CASE ResumeAction
    <2>1. approvedItems' \in SUBSET Ids
      BY <1>14, FakeItemsAssumption DEF ResumeAction, Selected
    <2> QED
      BY <1>14, <2>1, <1>0, TakeDecisionType DEF ResumeAction, Gates
  <1>15. CASE Write
    <2>1. Evt("written", {}, Cardinality(approvedItems)) \in AgentEvent(Ids)
      BY <1>0, Counts, EventTypes_Evt DEF EventTypes
    <2> QED
      BY <1>15, <2>1, <1>0, YieldType DEF Write, Yield
  <1>16. CASE ReportReady
    <2>1. Evt("report_ready", approvedItems, 0) \in AgentEvent(Ids)
      BY <1>0, EventTypes_Evt DEF EventTypes
    <2> QED
      BY <1>16, <2>1, <1>0, YieldType DEF ReportReady, YieldReport, Yield
  <1>17. CASE Done
    BY <1>1, <1>17, <1>0, YieldType DEF Done, Yield, EventTypes
  <1>18. ASSUME CacheReport, Keep PROVE TypeOK'
    <2>1. report' \in SUBSET Ids
      BY <1>0, <1>18 DEF CacheReport, IInv, ProgressInv
    <2> QED
      BY <1>0, <1>18, <2>1 DEF CacheReport, ServerTypeOK, mailVars, Stages
  <1>19. ASSUME PutSentinel, Keep PROVE TypeOK'
    BY <1>0, <1>19 DEF PutSentinel, ServerTypeOK, recordVars, mailVars
  <1> QED
    BY <1>2, <1>3, <1>4, <1>5, <1>6, <1>7, <1>8, <1>9, <1>10, <1>11, <1>12, <1>13,
       <1>14, <1>15, <1>16, <1>17, <1>18, <1>19 DEF TaskStep

-------------------------------------------------------------------------------

\* Every step of the task keeps the mailbox and the poll in agreement.
LEMMA TaskMail == IInv /\ TaskStep => MailInv'
  <1> SUFFICES ASSUME IInv, TaskStep PROVE MailInv'
    OBVIOUS
  <1>0. MailInv /\ ServerTypeOK
    BY DEF IInv, TypeOK
  <1>1. ASSUME NEW type \in EventTypes, NEW items \in SUBSET Ids, NEW total \in Nat,
               NEW from, NEW to, type # "awaiting_approval",
               from \notin Waits, to \notin Waits, Yield(from, Evt(type, items, total), to)
        PROVE  MailInv'
    BY <1>0, <1>1, EventTypes_Evt, YieldMail
  <1>2. ASSUME NEW type \in EventTypes, NEW from, NEW to, type # "awaiting_approval",
               from \notin Waits, to \notin Waits, Yield(from, Plain(type), to)
        PROVE  MailInv'
    BY <1>1, <1>2 DEF Plain
  <1>3. CASE EmitPlan
    BY <1>2, <1>3 DEF EmitPlan, EventTypes, Waits
  <1>4. CASE AwaitPlan
    BY <1>0, <1>4, OpenGateMail DEF AwaitPlan, Gates
  <1>5. CASE ResumePlan
    BY <1>0, <1>5, TakeDecisionMail DEF ResumePlan, Gates
  <1>6. CASE RejectPlan
    BY <1>2, <1>6 DEF RejectPlan, EventTypes, Waits
  <1>7. CASE CallSearch
    BY <1>2, <1>7 DEF CallSearch, EventTypes, Waits
  <1>8. CASE SearchResult
    BY <1>2, <1>8 DEF SearchResult, EventTypes, Waits
  <1>9. CASE CallAggregate
    BY <1>2, <1>9 DEF CallAggregate, EventTypes, Waits
  <1>10. CASE AggregateResult
    BY <1>2, <1>10 DEF AggregateResult, EventTypes, Waits
  <1>11. CASE RaiseException
    BY <1>2, <1>11 DEF RaiseException, EventTypes, Waits
  <1>12. CASE NoException
    BY <1>0, <1>12, QuietMail DEF NoException, recordVars, Waits
  <1>13. CASE Propose
    BY <1>1, <1>13, Counts, FakeItemsAssumption DEF Propose, EventTypes, Waits, IInv
  <1>14. CASE AwaitAction
    BY <1>0, <1>14, OpenGateMail DEF AwaitAction, Gates
  <1>15. CASE ResumeAction
    BY <1>0, <1>15, TakeDecisionMail DEF ResumeAction, Gates
  <1>16. CASE Write
    BY <1>1, <1>16, Counts DEF Write, EventTypes, Waits, IInv
  <1>17. CASE ReportReady
    BY <1>1, <1>17 DEF ReportReady, YieldReport, EventTypes, Waits, IInv, TypeOK
  <1>18. CASE Done
    BY <1>2, <1>18 DEF Done, EventTypes, Waits
  <1>19. ASSUME CacheReport PROVE MailInv'
    BY <1>0, <1>19, QuietMail DEF CacheReport, Waits
  <1>20. ASSUME PutSentinel PROVE MailInv'
    BY <1>0, <1>20, QuietMail DEF PutSentinel, recordVars, Waits
  <1> QED
    BY <1>3, <1>4, <1>5, <1>6, <1>7, <1>8, <1>9, <1>10, <1>11, <1>12, <1>13,
       <1>14, <1>15, <1>16, <1>17, <1>18, <1>19, <1>20 DEF TaskStep

\* Every step of the task keeps the record of what has happened.
LEMMA TaskProgress == IInv /\ TaskStep => ProgressInv'
  <1> SUFFICES ASSUME IInv, TaskStep PROVE ProgressInv'
    OBVIOUS
  <1>0. ProgressInv /\ MailInv /\ ServerTypeOK /\ approvedItems \in SUBSET Ids
    BY DEF IInv, TypeOK
  <1> USE DEF ProgressInv, PastPlan, PastProposal, PastAction, Closing, PlanApproved,
              PlanRejected, ActionConsumed, StageTracksStream, Keep
  <1>1. CASE EmitPlan
    BY <1>0, <1>1, PlainFacts DEF EmitPlan, EventTypes, StageOf
  <1>2. CASE RejectPlan
    BY <1>0, <1>2, PlainFacts DEF RejectPlan, EventTypes, StageOf
  <1>3. CASE CallSearch
    BY <1>0, <1>3, PlainFacts DEF CallSearch, EventTypes, StageOf
  <1>4. CASE SearchResult
    BY <1>0, <1>4, PlainFacts DEF SearchResult, EventTypes, StageOf
  <1>5. CASE CallAggregate
    BY <1>0, <1>5, PlainFacts DEF CallAggregate, EventTypes, StageOf
  <1>6. CASE AggregateResult
    BY <1>0, <1>6, PlainFacts DEF AggregateResult, EventTypes, StageOf
  <1>7. CASE RaiseException
    BY <1>0, <1>7, PlainFacts DEF RaiseException, EventTypes, StageOf
  <1>8. CASE Done
    BY <1>0, <1>8, PlainFacts DEF Done, EventTypes, StageOf
  <1>9. CASE AwaitPlan
    BY <1>0, <1>9, GateFacts DEF AwaitPlan, Gates, WaitPoint
  <1>10. CASE AwaitAction
    BY <1>0, <1>10, GateFacts DEF AwaitAction, Gates, WaitPoint
  <1>11. CASE ResumePlan
    BY <1>0, <1>11, TakeFacts, QueueFacts DEF ResumePlan, Gates, WaitPoint
  <1>12. CASE ResumeAction
    BY <1>0, <1>12, TakeFacts, QueueFacts DEF ResumeAction, Gates, WaitPoint
  <1>13. CASE NoException
    BY <1>0, <1>13, QueueFacts DEF NoException, recordVars, mailVars
  <1>14. CASE Propose
    <2>1. Cardinality(FakeItems) \in Nat
      BY Counts DEF IInv
    <2>2. InProposal(FakeItems)'
      BY <1>0, <1>14, <2>1, ProposalFacts, FakeItemsAssumption DEF Propose
    <2>3. /\ pc = "propose" /\ pc' = "action"
          /\ UNCHANGED <<consumed, report, approvedItems>>
          /\ queue' # <<>> /\ LastEvent'.stage = "exception_review" /\ stage' = "exception_review"
          /\ EventsOf("written")' = EventsOf("written")
      BY <1>0, <1>14, <2>1, YieldFacts, FakeItemsAssumption DEF Propose, EventTypes, StageOf
    <2> QED
      BY <1>0, <2>2, <2>3
  <1>15. CASE Write
    <2>1. Cardinality(approvedItems) \in Nat
      BY Counts DEF IInv
    <2>2. /\ pc = "write" /\ pc' = "report"
          /\ UNCHANGED <<consumed, report, approvedItems>>
          /\ queue' # <<>> /\ LastEvent'.stage = "audit_log_write" /\ stage' = "audit_log_write"
          /\ InProposal(FakeItems) => InProposal(FakeItems)'
      BY <1>0, <1>15, <2>1, YieldFacts DEF Write, EventTypes, StageOf
    <2> QED
      BY <1>0, <2>2
  <1>16. CASE ReportReady
    <2>1. /\ pc = "report" /\ pc' = "cache"
          /\ UNCHANGED <<consumed, report, approvedItems>>
          /\ queue' # <<>> /\ LastEvent'.stage = "audit_report_ready" /\ stage' = "audit_report_ready"
          /\ LastEvent'.items = approvedItems
          /\ InProposal(FakeItems) => InProposal(FakeItems)'
      BY <1>0, <1>16, YieldFacts DEF ReportReady, YieldReport, EventTypes, StageOf
    <2> QED
      BY <1>0, <2>1
  <1>17. ASSUME CacheReport, Keep PROVE ProgressInv'
    BY <1>0, <1>17, QueueFacts DEF CacheReport, mailVars
  <1>18. ASSUME PutSentinel, Keep PROVE ProgressInv'
    BY <1>0, <1>18, QueueFacts DEF PutSentinel, recordVars, mailVars
  <1> QED
    BY <1>1, <1>2, <1>3, <1>4, <1>5, <1>6, <1>7, <1>8, <1>9, <1>10, <1>11, <1>12,
       <1>13, <1>14, <1>15, <1>16, <1>17, <1>18 DEF TaskStep

\* An approval, at any moment, keeps the invariant.
LEMMA ApproveInv == IInv /\ Approve => IInv'
  <1> SUFFICES ASSUME IInv, NEW d \in Decisions, PushApproval(d), Keep PROVE IInv'
    BY DEF Approve
  <1>1. UNCHANGED <<pc, stage, exceptionCount, report, queue, ended, consumed, approvedItems>>
    BY DEF PushApproval, DeliverDecision, Keep
  <1>2. TypeOK'
    BY <1>1, PushApprovalType DEF IInv, TypeOK
  <1>3. MailInv'
    BY PushApprovalMail DEF IInv, TypeOK
  <1>4. ProgressInv'
    BY <1>1 DEF IInv, ProgressInv, PlanApproved, PlanRejected, ActionConsumed, InProposal,
                EventsOf, LastEvent, StageTracksStream
  <1> QED
    BY <1>2, <1>3, <1>4 DEF IInv

\* Starting the case keeps the invariant.
LEMMA StartInv == IInv /\ StartAuditCase /\ Keep => IInv'
  <1> SUFFICES ASSUME IInv, StartAuditCase, Keep PROVE IInv'
    OBVIOUS
  <1> USE DEF StartAuditCase, recordVars, mailVars, Keep
  <1>1. TypeOK'
    BY DEF IInv, TypeOK, ServerTypeOK, Points
  <1>2. MailInv'
    BY QuietMail DEF IInv, TypeOK, Waits
  <1>3. ProgressInv'
    BY DEF IInv, ProgressInv, PlanApproved, PlanRejected, ActionConsumed, InProposal,
           EventsOf, LastEvent, StageTracksStream, PastPlan, PastProposal, PastAction, Closing
  <1> QED
    BY <1>1, <1>2, <1>3 DEF IInv

\* A step that changes nothing keeps the invariant.
LEMMA StutterInv == IInv /\ UNCHANGED vars => IInv'
  BY DEF IInv, vars, serverVars, recordVars, mailVars, TypeOK, ServerTypeOK, MailInv,
         PendingGateIsBlockedGate, WokenWithDecision, DecisionIsFresh, ProgressInv,
         PlanApproved, PlanRejected, ActionConsumed, InProposal, EventsOf, LastEvent,
         StageTracksStream

\* The invariant is inductive, hence it always holds.
THEOREM Invariance == Spec => []IInv
  <1>1. IInv /\ [Next]_vars => IInv'
    BY TaskType, TaskMail, TaskProgress, ApproveInv, StartInv, StutterInv DEF Next, IInv
  <1> QED
    BY <1>1, InitInv, PTL DEF Spec

\* The state of a case keeps its types.
THEOREM TypeCorrect == Spec => []TypeOK
  <1>1. IInv => TypeOK
    BY DEF IInv
  <1> QED
    BY <1>1, Invariance, PTL

\* The poll shows a gate exactly while the task is blocked there on an event that
\* nobody has set.
THEOREM PollMatchesMailbox == Spec => []PendingGateIsBlockedGate
  <1>1. IInv => PendingGateIsBlockedGate
    BY DEF IInv, MailInv
  <1> QED
    BY <1>1, Invariance, PTL

\* Popping the decision never fails, and what is popped was posted at that gate,
\* whatever is posted before, between or after the gates.
THEOREM FreshDecisions == Spec => [](WokenWithDecision /\ DecisionIsFresh)
  <1>1. IInv => WokenWithDecision /\ DecisionIsFresh
    BY DEF IInv, MailInv
  <1> QED
    BY <1>1, Invariance, PTL

\* Nothing is written before both gates consumed a decision and the plan was
\* approved.
THEOREM WriteDiscipline == Spec => []WriteNeedsBothGates
  <1>1. IInv => WriteNeedsBothGates
    BY DEF IInv, ProgressInv, WriteNeedsBothGates, Closing, PastPlan, PastAction,
           PlanApproved, PlanRejected, ActionConsumed
  <1> QED
    BY <1>1, Invariance, PTL

\* The report lists what the decision of Gate 2 selects from the proposal, and
\* nothing the reviewer was not shown.
THEOREM ReportDiscipline == Spec => []ReportFollowsDecision
  <1>1. IInv => ReportFollowsDecision
    BY DEF IInv, ProgressInv, ReportFollowsDecision, Closing,
           InProposal, Selected
  <1> QED
    BY <1>1, Invariance, PTL

\* What the blueprint says of rejected findings holds whenever at least one finding
\* is approved by name: only an empty approved_ids lets rejected ones through
\* (runner.py:169).
THEOREM RejectionHonoured ==
    Spec => [](report # None /\ consumed["action"].decision.approvedIds # {}
                  => RejectedNotWritten)
  <1>1. IInv /\ report # None /\ consumed["action"].decision.approvedIds # {}
            => RejectedNotWritten
    BY DEF IInv, ProgressInv, Closing, Selected, RejectedNotWritten
  <1> QED
    BY <1>1, Invariance, PTL

\* The stage in the poll is the stage of the last streamed event, and a closed
\* case has a report unless its plan was rejected.
THEOREM StageDiscipline == Spec => [](StageTracksStream /\ ClosedCaseIsReported)
  <1>1. IInv => StageTracksStream /\ ClosedCaseIsReported
    BY ConstantsAssumption, FakeItemsAssumption
       DEF IInv, ProgressInv, ClosedCaseIsReported, Closing, PlanRejected, Selected
  <1> QED
    BY <1>1, Invariance, PTL

\* A closed case never changes again.
THEOREM Finality == Spec => ClosedIsFinal
  <1>1. IInv /\ [Next]_vars => [stage = "closed" => UNCHANGED <<recordVars, queue>>]_serverVars
    <2> SUFFICES ASSUME IInv, [Next]_vars, stage = "closed"
                 PROVE  UNCHANGED <<recordVars, queue>>
      OBVIOUS
    <2>1. pc \in {"sentinel", "finished"}
      BY DEF IInv, ProgressInv
    <2>2. pendingGate = NoGate
      BY <2>1 DEF IInv, MailInv, PendingGateIsBlockedGate, WaitPoint
    <2>3. CASE Approve
      BY <2>2, <2>3 DEF Approve, PushApproval, recordVars
    <2>4. CASE UNCHANGED vars
      BY <2>4 DEF vars, serverVars
    <2>5. CASE StartAuditCase
      BY <2>1, <2>5 DEF StartAuditCase
    <2>6. CASE TaskStep
      <3>1. PutSentinel
        BY <2>1, <2>6 DEF TaskStep, EmitPlan, AwaitPlan, ResumePlan, RejectPlan, CallSearch,
           SearchResult, CallAggregate, AggregateResult, RaiseException, NoException,
           Propose, AwaitAction, ResumeAction, Write, ReportReady, YieldReport, Done,
           Yield, OpenGate, TakeDecision, WaitPoint, CacheReport
      <3> QED
        BY <3>1 DEF PutSentinel
    <2> QED
      BY <2>3, <2>4, <2>5, <2>6 DEF Next
  <1> QED
    BY <1>1, Invariance, PTL DEF Spec, ClosedIsFinal

-------------------------------------------------------------------------------
(* The run implements CaseProtocol. *)

\* Which event ends the stream, told from where the task stands.
StreamInv ==
    /\ pc \in {"absent", "created"} <=> queue = <<>>
    /\ ended <=> pc = "finished"
    /\ pc = "plan" => LastEvent.type = "plan"
    /\ pc \in {"plan_wait", "reject", "search_call"} =>
          LastEvent.type = "awaiting_approval" /\ LastEvent.gate = "plan"
    /\ pc \in {"search_result", "aggregate_result"} => LastEvent.type = "tool_call"
    /\ pc \in {"aggregate_call", "triage"} => LastEvent.type = "tool_result"
    /\ pc = "propose" => LastEvent.type \in {"tool_result", "exception"}
    /\ pc = "action" => LastEvent.type = "proposal"
    /\ pc \in {"action_wait", "write"} =>
          LastEvent.type = "awaiting_approval" /\ LastEvent.gate = "action"
    /\ pc = "report" => LastEvent.type = "written"
    /\ pc = "cache" => LastEvent.type = "report_ready"
    /\ pc = "done" =>
          LastEvent.type = "error" \/ (LastEvent.type = "report_ready" /\ report # None)
    /\ pc \in {"sentinel", "finished"} => LastEvent.type = "done"

\* A step of the task keeps the order of the stream and is a step of the protocol.
LEMMA TaskImplements == IInv /\ StreamInv /\ TaskStep => StreamInv' /\ [Protocol!Next]_Protocol!vars
  <1> SUFFICES ASSUME IInv, StreamInv, TaskStep
               PROVE  StreamInv' /\ [Protocol!Next]_Protocol!vars
    OBVIOUS
  <1>0. ServerTypeOK /\ MailInv /\ ProgressInv /\ approvedItems \in SUBSET Ids
    BY DEF IInv, TypeOK
  <1>1. ASSUME NEW type \in EventTypes, NEW items \in SUBSET Ids, NEW total \in Nat,
               NEW from, NEW to, from \notin Waits \cup {"finished"},
               type # "awaiting_approval",
               Yield(from, Evt(type, items, total), to), MayEmit(type, items)
        PROVE  [Protocol!Next]_Protocol!vars
    <2>1. ~ended
      BY <1>1 DEF Yield, StreamInv
    <2> QED
      BY <1>0, <1>1, <2>1, YieldImplements DEF Protocol!Next
  <1>2. ASSUME NEW type \in EventTypes \ {"awaiting_approval", "report_ready"},
               NEW from, NEW to, from \notin Waits \cup {"finished"},
               Yield(from, Plain(type), to), MayEmit(type, {})
        PROVE  [Protocol!Next]_Protocol!vars
    BY <1>1, <1>2 DEF Plain
  <1>3. CASE EmitPlan
    <2>1. MayEmit("plan", {})
      BY <1>3 DEF MayEmit, EmitPlan, Yield, StreamInv
    <2>2. StreamInv'
      BY <1>0, <1>3, PlainFacts DEF EmitPlan, EventTypes, StreamInv
    <2> QED
      BY <1>2, <1>3, <2>1, <2>2 DEF EmitPlan, EventTypes, Waits
  <1>4. CASE RejectPlan
    <2>1. MayEmit("error", {})
      BY <1>4 DEF MayEmit, RejectPlan, Yield, StreamInv, Protocol!Successors
    <2>2. StreamInv'
      BY <1>0, <1>4, PlainFacts DEF RejectPlan, EventTypes, StreamInv
    <2> QED
      BY <1>2, <1>4, <2>1, <2>2 DEF RejectPlan, EventTypes, Waits
  <1>5. CASE CallSearch
    <2>1. MayEmit("tool_call", {})
      BY <1>5 DEF MayEmit, CallSearch, Yield, StreamInv, Protocol!Successors
    <2>2. StreamInv'
      BY <1>0, <1>5, PlainFacts DEF CallSearch, EventTypes, StreamInv
    <2> QED
      BY <1>2, <1>5, <2>1, <2>2 DEF CallSearch, EventTypes, Waits
  <1>6. CASE SearchResult
    <2>1. MayEmit("tool_result", {})
      BY <1>6 DEF MayEmit, SearchResult, Yield, StreamInv, Protocol!Successors
    <2>2. StreamInv'
      BY <1>0, <1>6, PlainFacts DEF SearchResult, EventTypes, StreamInv
    <2> QED
      BY <1>2, <1>6, <2>1, <2>2 DEF SearchResult, EventTypes, Waits
  <1>7. CASE CallAggregate
    <2>1. MayEmit("tool_call", {})
      BY <1>7 DEF MayEmit, CallAggregate, Yield, StreamInv, Protocol!Successors
    <2>2. StreamInv'
      BY <1>0, <1>7, PlainFacts DEF CallAggregate, EventTypes, StreamInv
    <2> QED
      BY <1>2, <1>7, <2>1, <2>2 DEF CallAggregate, EventTypes, Waits
  <1>8. CASE AggregateResult
    <2>1. MayEmit("tool_result", {})
      BY <1>8 DEF MayEmit, AggregateResult, Yield, StreamInv, Protocol!Successors
    <2>2. StreamInv'
      BY <1>0, <1>8, PlainFacts DEF AggregateResult, EventTypes, StreamInv
    <2> QED
      BY <1>2, <1>8, <2>1, <2>2 DEF AggregateResult, EventTypes, Waits
  <1>9. CASE RaiseException
    <2>1. MayEmit("exception", {})
      BY <1>9 DEF MayEmit, RaiseException, Yield, StreamInv, Protocol!Successors
    <2>2. StreamInv'
      BY <1>0, <1>9, PlainFacts DEF RaiseException, EventTypes, StreamInv
    <2> QED
      BY <1>2, <1>9, <2>1, <2>2 DEF RaiseException, EventTypes, Waits
  <1>10. CASE Done
    <2>1. MayEmit("done", {})
      BY <1>10 DEF MayEmit, Done, Yield, StreamInv, Protocol!Successors
    <2>2. StreamInv'
      BY <1>0, <1>10, PlainFacts DEF Done, EventTypes, StreamInv
    <2> QED
      BY <1>2, <1>10, <2>1, <2>2 DEF Done, EventTypes, Waits
  <1>11. CASE AwaitPlan
    <2>1. ~ended /\ queue # <<>> /\ LastEvent.type = "plan"
      BY <1>11 DEF AwaitPlan, OpenGate, StreamInv
    <2>2. StreamInv'
      BY <1>0, <1>11, GateFacts DEF AwaitPlan, Gates, WaitPoint, StreamInv
    <2> QED
      BY <1>0, <1>11, <2>1, <2>2, OpenGateImplements
         DEF AwaitPlan, Gates, Waits, Protocol!Next
  <1>12. CASE AwaitAction
    <2>1. ~ended /\ queue # <<>> /\ LastEvent.type = "proposal"
      BY <1>12 DEF AwaitAction, OpenGate, StreamInv
    <2>2. StreamInv'
      BY <1>0, <1>12, GateFacts DEF AwaitAction, Gates, WaitPoint, StreamInv
    <2> QED
      BY <1>0, <1>12, <2>1, <2>2, OpenGateImplements
         DEF AwaitAction, Gates, Waits, Protocol!Next
  <1>13. CASE Propose
    <2>1. MayEmit("proposal", FakeItems)
      BY <1>13 DEF MayEmit, Propose, Yield, StreamInv, Protocol!Successors
    <2>2. /\ pc = "propose" /\ pc' = "action" /\ queue' # <<>> /\ UNCHANGED <<report, ended>>
          /\ LastEvent'.type = "proposal"
      BY <1>0, <1>13, Counts, FakeItemsAssumption, YieldFacts DEF Propose, EventTypes, IInv
    <2>3. StreamInv'
      BY <2>2 DEF StreamInv
    <2> QED
      BY <1>1, <1>13, <2>1, <2>3, Counts, FakeItemsAssumption
         DEF Propose, EventTypes, Waits, IInv
  <1>14. CASE Write
    <2>1. MayEmit("written", {})
      BY <1>14 DEF MayEmit, Write, Yield, StreamInv, Protocol!Successors
    <2>2. /\ pc = "write" /\ pc' = "report" /\ queue' # <<>> /\ UNCHANGED <<report, ended>>
          /\ LastEvent'.type = "written"
      BY <1>0, <1>14, Counts, YieldFacts DEF Write, EventTypes, IInv
    <2>3. StreamInv'
      BY <2>2 DEF StreamInv
    <2> QED
      BY <1>1, <1>14, <2>1, <2>3, Counts DEF Write, EventTypes, Waits, IInv
  <1>15. CASE ReportReady
    <2>1. approvedItems \subseteq FakeItems /\ InProposal(FakeItems)
      BY <1>0, <1>15 DEF ReportReady, YieldReport, Yield, ProgressInv, PastAction,
                     PastProposal, Selected
    <2>2. Protocol!Reviewed(approvedItems)
      BY <2>1 DEF InProposal, EventsOf, Protocol!Reviewed
    <2>3. MayEmit("report_ready", approvedItems)
      BY <1>15, <2>2 DEF MayEmit, ReportReady, YieldReport, Yield, StreamInv, Protocol!Successors
    <2>4. /\ pc = "report" /\ pc' = "cache" /\ queue' # <<>> /\ UNCHANGED <<report, ended>>
          /\ LastEvent'.type = "report_ready"
      BY <1>0, <1>15, YieldFacts DEF ReportReady, YieldReport, EventTypes
    <2>5. StreamInv'
      BY <2>4 DEF StreamInv
    <2> QED
      BY <1>0, <1>1, <1>15, <2>3, <2>5 DEF ReportReady, YieldReport, EventTypes, Waits
  <1>16. CASE ResumePlan
    <2>1. pc = WaitPoint("plan") /\ UNCHANGED <<queue, pendingGate, report, ended>>
      BY <1>16 DEF ResumePlan, TakeDecision, recordVars
    <2>2. StreamInv'
      BY <1>16, <2>1, QueueFacts DEF ResumePlan, StreamInv, WaitPoint
    <2> QED
      BY <2>1, <2>2 DEF Protocol!vars
  <1>17. CASE ResumeAction
    <2>1. pc = WaitPoint("action") /\ UNCHANGED <<queue, pendingGate, report, ended>>
      BY <1>17 DEF ResumeAction, TakeDecision, recordVars
    <2>2. StreamInv'
      BY <1>17, <2>1, QueueFacts DEF ResumeAction, StreamInv, WaitPoint
    <2> QED
      BY <2>1, <2>2 DEF Protocol!vars
  <1>18. CASE NoException
    <2>1. UNCHANGED <<queue, pendingGate, report, ended>>
      BY <1>18 DEF NoException, recordVars
    <2>2. StreamInv'
      BY <1>18, <2>1, QueueFacts DEF NoException, StreamInv
    <2> QED
      BY <2>1, <2>2 DEF Protocol!vars
  <1>19. CASE CacheReport
    <2>1. /\ queue # <<>> /\ LastEvent.type = "report_ready" /\ LastEvent.items = approvedItems
          /\ report = None /\ report' = approvedItems /\ UNCHANGED <<queue, pendingGate, ended>>
      BY <1>0, <1>19 DEF CacheReport, StreamInv, ProgressInv, Closing
    <2>2. Protocol!Publish
      BY <2>1 DEF Protocol!Publish, Protocol!Last, LastEvent
    <2>3. StreamInv'
      BY <1>0, <1>19, <2>1, ConstantsAssumption, QueueFacts DEF CacheReport, StreamInv
    <2> QED
      BY <2>2, <2>3 DEF Protocol!Next
  <1>20. CASE PutSentinel
    <2>1. /\ queue # <<>> /\ LastEvent.type = "done" /\ ~ended
          /\ ended' = TRUE /\ UNCHANGED <<queue, pendingGate, report>>
      BY <1>20 DEF PutSentinel, StreamInv, recordVars
    <2>2. Protocol!End
      BY <2>1 DEF Protocol!End, Protocol!Last, LastEvent
    <2>3. StreamInv'
      BY <1>20, <2>1, QueueFacts DEF PutSentinel, StreamInv
    <2> QED
      BY <2>2, <2>3 DEF Protocol!Next
  <1> QED
    BY <1>3, <1>4, <1>5, <1>6, <1>7, <1>8, <1>9,
       <1>10, <1>11, <1>12, <1>13, <1>14, <1>15, <1>16, <1>17, <1>18, <1>19, <1>20
       DEF TaskStep

\* So do the steps of the clients.
LEMMA ClientImplements ==
    IInv /\ StreamInv /\ ((StartAuditCase /\ Keep) \/ Approve \/ UNCHANGED vars)
        => StreamInv' /\ [Protocol!Next]_Protocol!vars
  <1>1. ASSUME StreamInv, StartAuditCase
        PROVE  StreamInv' /\ UNCHANGED Protocol!vars
    BY <1>1, QueueFacts DEF StartAuditCase, recordVars, StreamInv, Protocol!vars
  <1>2. ASSUME StreamInv, NEW d \in Decisions, PushApproval(d)
        PROVE  StreamInv' /\ [Protocol!Next]_Protocol!vars
    <2>1. UNCHANGED <<pc, queue, report, ended>>
      BY <1>2 DEF PushApproval
    <2>2. StreamInv'
      BY <1>2, <2>1, QueueFacts DEF StreamInv
    <2> QED
      BY <1>2, <2>2, PushApprovalImplements DEF Protocol!Next
  <1>3. ASSUME StreamInv, UNCHANGED vars
        PROVE  StreamInv' /\ UNCHANGED Protocol!vars
    BY <1>3, QueueFacts DEF vars, serverVars, recordVars, StreamInv, Protocol!vars
  <1> QED
    BY <1>1, <1>2, <1>3 DEF Approve

\* Every case of the scripted runner is a behaviour of CaseProtocol: its stream
\* has the documented order, is silent while a gate is pending, and ends once.
THEOREM ProtocolImplemented == Spec => ImplementsProtocol
  <1>1. Init => StreamInv /\ Protocol!Init
    BY ProtocolVocabulary DEF Init, ServerInit, StreamInv, Protocol!Init
  <1>2. IInv /\ StreamInv /\ [Next]_vars => StreamInv' /\ [Protocol!Next]_Protocol!vars
    BY TaskImplements, ClientImplements DEF Next
  <1> QED
    BY <1>1, <1>2, Invariance, PTL DEF Spec, ImplementsProtocol, Protocol!Spec
==============================================================================
