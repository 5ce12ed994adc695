------------------------- MODULE UiPathRunner_proofs -------------------------
(***************************************************************************)
(* UiPathRunner keeps its types, its mailbox and the discipline of its     *)
(* audit log for every set of invoices, of decisions, every cap on the     *)
(* proposal and every number of stray posts, whichever UiPath call fails.  *)
(***************************************************************************)
EXTENDS UiPathRunner, CaseServer_proofs, FiniteSetTheorems

PastPlan == {"read_call", "loading", "query_call", "querying", "query_result",
             "aggregate_call", "aggregate_result", "propose", "action", "action_wait",
             "writing", "no_url", "report", "cache", "failed", "fail_done"}
PastProposal == {"action", "action_wait", "writing", "no_url", "report", "cache"}
PastAction == {"writing", "no_url", "report", "cache"}
Written == {"report", "cache"}
Failing == {"failed", "fail_done"}
Ending == {"sentinel", "finished"}

\* The approved items are what Gate 2 selected from the proposal.
Chosen ==
    /\ ActionConsumed
    /\ approvedItems = Selected(consumed["action"].decision, shown)

\* What is logged is what both gates let through.
Logged == PlanApproved /\ Chosen /\ InProposal(shown)

\* What the log holds once the row is written: nothing without a URL.
Rows == IF settings.logUrl THEN <<approvedItems>> ELSE <<>>

NothingLogged == auditLog = <<>> /\ EventsOf("written") = {}

\* What has happened, told from where the task stands.
ProgressInv ==
    /\ pc \in PastPlan => PlanApproved
    /\ pc \in PastProposal => InProposal(shown)
    /\ pc \in PastAction => Chosen
    /\ pc = "reject" => PlanRejected
    /\ pc \notin Written \cup Failing \cup Ending \cup {"done"} => NothingLogged
    /\ pc = "writing" => settings.logUrl
    /\ pc = "no_url" => ~settings.logUrl
    /\ pc \in Written => auditLog = Rows
    /\ pc \notin Ending \cup {"done"} => report = None
    /\ pc \in Failing => EventsOf("written") = {}
    /\ \/ NothingLogged
       \/ auditLog = Rows /\ Logged
    /\ report # None => report = approvedItems /\ auditLog = Rows /\ Logged
    /\ pc = "done" => PlanRejected \/ report # None

\* Where the stage stands, and when it may differ from the streamed one.
StageInv ==
    /\ pc = "cache" => queue # <<>>
    /\ pc = "cache" => LastEvent.items = approvedItems /\ LastEvent.stage = "audit_report_ready"
    /\ pc \in {"loading", "querying", "aggregate_result", "propose"} => stage = "agent_investigation"
    /\ pc = "query_result" => stage \in {"agent_investigation", "exception_review"}
    /\ pc \in {"action_wait", "writing", "no_url"} => stage = "exception_review"
    /\ pc \in Failing => stage \in {"agent_investigation", "exception_review"}
    /\ pc \in {"absent", "created"} => stage = "case_intake" /\ queue = <<>>
    /\ pc \notin {"fail_done"} \cup Ending /\ queue # <<>> => stage = LastEvent.stage
    /\ pc \in Ending =>
          \/ stage = LastEvent.stage
          \/ stage \in {"agent_investigation", "exception_review"} /\ report = None
    /\ stage = "closed" => pc \in Ending /\ (PlanRejected \/ report # None)

IInv == TypeOK /\ MailInv /\ ProgressInv /\ StageInv

-------------------------------------------------------------------------------

\* The initial state satisfies the invariant.
LEMMA InitInv == Init => IInv
  <1> SUFFICES ASSUME Init PROVE IInv
    OBVIOUS
  <1> USE DEF Init, ServerInit
  <1>1. TypeOK
    <2>1. queue \in Seq(AgentEvent(Ids)) /\ auditLog \in Seq(SUBSET Ids)
      BY EmptySeq
    <2>2. consumed \in [Gates -> Mail \cup {None}]
      OBVIOUS
    <2>3. strays \in 0 .. MaxStrays
      BY ConstantsAssumption
    <2>4. settings \in Settings /\ token \in {"none", "valid", "expired"}
      BY UiPathAssumption
    <2> QED
      BY <2>1, <2>2, <2>3, <2>4 DEF TypeOK, ServerTypeOK, Stages, Points
  <1>2. MailInv
    BY DEF MailInv, PendingGateIsBlockedGate, WokenWithDecision, DecisionIsFresh, Gates, NoGate
  <1>3. EventsOf("written") = {}
    BY DEF EventsOf
  <1>4. ProgressInv
    BY <1>3 DEF ProgressInv, PastPlan, PastProposal, PastAction, Written, Failing, Ending,
                NothingLogged
  <1>5. StageInv
    BY DEF StageInv, Failing, Ending
  <1> QED
    BY <1>1, <1>2, <1>4, <1>5 DEF IInv

\* The counts an event carries are natural numbers.
LEMMA Counts ==
    /\ Cardinality(Ids) \in Nat
    /\ TypeOK => Cardinality(approvedItems) \in Nat
  BY UiPathAssumption, FS_Subset, FS_CardinalityType DEF TypeOK

\* The events of the two yields with a payload.
LEMMA ProposeYields ==
    ASSUME Propose
    PROVE  \E total \in Nat, items \in SUBSET Ids :
               /\ Yield("propose", Evt("proposal", items, total), "action")
               /\ shown' = items
               /\ UNCHANGED <<client, approvedItems, auditLog>>
  BY Counts DEF Propose

\* Every step of the task keeps the types.
LEMMA TaskType == IInv /\ TaskStep => TypeOK'
  <1> SUFFICES ASSUME IInv, TaskStep PROVE TypeOK'
    OBVIOUS
  <1>0. TypeOK
    BY DEF IInv
  <1> USE DEF TypeOK, Points, Keep, locals, client, GetToken
  <1>1. \A type \in EventTypes : Plain(type) \in AgentEvent(Ids)
    BY EventTypes_Evt DEF Plain
  <1>2. CASE EmitPlan
    BY <1>0, <1>1, <1>2, YieldType DEF EmitPlan, Yield, EventTypes
  <1>3. CASE RejectPlan
    BY <1>0, <1>1, <1>3, YieldType DEF RejectPlan, Yield, EventTypes
  <1>4. CASE CallRead
    BY <1>0, <1>1, <1>4, YieldType DEF CallRead, Yield, EventTypes
  <1>5. CASE LoadDataset
    BY <1>0, <1>1, <1>5, YieldType DEF LoadDataset, Yield, EventTypes
  <1>6. CASE CallQuery
    BY <1>0, <1>1, <1>6, YieldType DEF CallQuery, Yield, EventTypes
  <1>7. CASE QueryFails
    BY <1>0, <1>1, <1>7, YieldType DEF QueryFails, Yield, EventTypes
  <1>8. CASE QueryResult
    BY <1>0, <1>1, <1>8, YieldType DEF QueryResult, Yield, EventTypes
  <1>9. CASE CallAggregate
    BY <1>0, <1>1, <1>9, YieldType DEF CallAggregate, Yield, EventTypes
  <1>10. CASE AggregateResult
    BY <1>0, <1>1, <1>10, YieldType DEF AggregateResult, Yield, EventTypes
  <1>11. CASE Done
    BY <1>0, <1>1, <1>11, YieldType DEF Done, Yield, EventTypes
  <1>12. CASE AwaitPlan
    BY <1>0, <1>12, OpenGateType DEF AwaitPlan, OpenGate, Gates, WaitPoint
  <1>13. CASE AwaitAction
    BY <1>0, <1>13, OpenGateType DEF AwaitAction, OpenGate, Gates, WaitPoint
  <1>14. CASE ResumePlan
    BY <1>0, <1>14, TakeDecisionType DEF ResumePlan, Gates
  <1>15. CASE ResumeAction
    <2>1. approvedItems' \in SUBSET Ids
      BY <1>0, <1>15 DEF ResumeAction, Selected
    <2> QED
      BY <1>0, <1>15, <2>1, TakeDecisionType DEF ResumeAction, Gates
  <1>16. CASE QueryAnswers
    BY <1>0, <1>16 DEF QueryAnswers, ServerTypeOK, recordVars, mailVars
  <1>17. CASE Propose
    <2>1. PICK total \in Nat, items \in SUBSET Ids :
             /\ Yield("propose", Evt("proposal", items, total), "action")
             /\ shown' = items
             /\ UNCHANGED <<client, approvedItems, auditLog>>
      BY <1>17, ProposeYields
    <2>2. Evt("proposal", items, total) \in AgentEvent(Ids)
      BY EventTypes_Evt DEF EventTypes
    <2> QED
      BY <1>0, <2>1, <2>2, YieldType DEF Yield
  <1>18. CASE WriteSucceeds
    <2>1. Evt("written", {}, Cardinality(approvedItems)) \in AgentEvent(Ids)
      BY <1>0, Counts, EventTypes_Evt DEF EventTypes
    <2>2. auditLog' \in Seq(SUBSET Ids)
      BY <1>0, <1>18, AppendProperties DEF WriteSucceeds
    <2> QED
      BY <1>0, <1>18, <2>1, <2>2, YieldType DEF WriteSucceeds, YieldWritten, Yield
  <1>29. CASE WriteSkipped
    <2>1. Evt("written", {}, Cardinality(approvedItems)) \in AgentEvent(Ids)
      BY <1>0, Counts, EventTypes_Evt DEF EventTypes
    <2> QED
      BY <1>0, <1>29, <2>1, YieldType DEF WriteSkipped, YieldWritten, Yield
  <1>19. CASE ReportReady
    <2>1. Evt("report_ready", approvedItems, 0) \in AgentEvent(Ids)
      BY <1>0, EventTypes_Evt DEF EventTypes
    <2> QED
      BY <1>0, <1>19, <2>1, YieldType DEF ReportReady, YieldReport, Yield
  <1>20. CASE LoadFails
    BY <1>0, <1>20 DEF LoadFails, Raise, ServerTypeOK, recordVars, mailVars
  <1>21. CASE RecordsFail
    BY <1>0, <1>21 DEF RecordsFail, Raise, ServerTypeOK, recordVars, mailVars
  <1>22. CASE WriteRefused
    BY <1>0, <1>22 DEF WriteRefused, Raise, ServerTypeOK, recordVars, mailVars
  <1>23. CASE WriteReplyLost
    <2>1. auditLog' \in Seq(SUBSET Ids)
      BY <1>0, <1>23, AppendProperties DEF WriteReplyLost
    <2> QED
      BY <1>0, <1>23, <2>1 DEF WriteReplyLost, Raise, ServerTypeOK, recordVars, mailVars
  <1>24. ASSUME NEW from, NEW type \in EventTypes, NEW to, Announce(from, type, to)
         PROVE  ServerTypeOK'
    <2>1. Unstamped(type) \in AgentEvent(Ids)
      BY <1>1 DEF Unstamped, Plain, Evt, AgentEvent, Stages
    <2>2. queue' \in Seq(AgentEvent(Ids))
      BY <1>0, <1>24, <2>1, AppendProperties DEF Announce, ServerTypeOK
    <2> QED
      BY <1>0, <1>24, <2>2 DEF Announce, ServerTypeOK, recordVars, mailVars
  <1>25. CASE AnnounceError
    BY <1>0, <1>24, <1>25 DEF AnnounceError, Announce, EventTypes
  <1>26. CASE AnnounceDone
    BY <1>0, <1>24, <1>26 DEF AnnounceDone, Announce, EventTypes
  <1>27. ASSUME CacheReport, Keep PROVE TypeOK'
    <2>1. report' \in SUBSET Ids
      BY <1>0, <1>27 DEF CacheReport, IInv, StageInv
    <2> QED
      BY <1>0, <1>27, <2>1 DEF CacheReport, ServerTypeOK, mailVars, Stages
  <1>28. ASSUME PutSentinel, Keep PROVE TypeOK'
    BY <1>0, <1>28 DEF PutSentinel, ServerTypeOK, recordVars, mailVars
  <1> QED
    BY <1>2, <1>3, <1>4, <1>5, <1>6, <1>7, <1>8, <1>9, <1>10, <1>11, <1>12, <1>13,
       <1>14, <1>15, <1>16, <1>17, <1>18, <1>19, <1>20, <1>21, <1>22, <1>23, <1>25,
       <1>26, <1>27, <1>28, <1>29 DEF TaskStep

\* Every step of the task keeps the mailbox and the poll in agreement.
LEMMA TaskMail == IInv /\ TaskStep => MailInv'
  <1> SUFFICES ASSUME IInv, TaskStep PROVE MailInv'
    OBVIOUS
  <1>0. MailInv /\ ServerTypeOK /\ TypeOK
    BY DEF IInv, TypeOK
  <1>1. ASSUME NEW type \in EventTypes, NEW items \in SUBSET Ids, NEW total \in Nat,
               NEW from, NEW to, type # "awaiting_approval",
               from \notin Waits, to \notin Waits, Yield(from, Evt(type, items, total), to)
        PROVE  MailInv'
    BY <1>0, <1>1, EventTypes_Evt, YieldMail
  <1>2. ASSUME NEW type \in EventTypes, NEW from, NEW to, type # "awaiting_approval",
               from \notin Waits, to \notin Waits, Yield(from, Plain(type), to)
        PROVE  MailInv'
    BY <1>1, <1>2 DEF Plain
  <1>3. CASE EmitPlan
    BY <1>2, <1>3 DEF EmitPlan, EventTypes, Waits
  <1>4. CASE RejectPlan
    BY <1>2, <1>4 DEF RejectPlan, EventTypes, Waits
  <1>5. CASE CallRead
    BY <1>2, <1>5 DEF CallRead, EventTypes, Waits
  <1>6. CASE LoadDataset
    BY <1>2, <1>6 DEF LoadDataset, EventTypes, Waits
  <1>7. CASE CallQuery
    BY <1>2, <1>7 DEF CallQuery, EventTypes, Waits
  <1>8. CASE QueryFails
    BY <1>2, <1>8 DEF QueryFails, EventTypes, Waits
  <1>9. CASE QueryResult
    BY <1>2, <1>9 DEF QueryResult, EventTypes, Waits
  <1>10. CASE CallAggregate
    BY <1>2, <1>10 DEF CallAggregate, EventTypes, Waits
  <1>11. CASE AggregateResult
    BY <1>2, <1>11 DEF AggregateResult, EventTypes, Waits
  <1>12. CASE Done
    BY <1>2, <1>12 DEF Done, EventTypes, Waits
  <1>13. CASE AwaitPlan
    BY <1>0, <1>13, OpenGateMail DEF AwaitPlan, Gates
  <1>14. CASE AwaitAction
    BY <1>0, <1>14, OpenGateMail DEF AwaitAction, Gates
  <1>15. CASE ResumePlan
    BY <1>0, <1>15, TakeDecisionMail DEF ResumePlan, Gates
  <1>16. CASE ResumeAction
    BY <1>0, <1>16, TakeDecisionMail DEF ResumeAction, Gates
  <1>17. CASE Propose
    BY <1>1, <1>17, ProposeYields DEF EventTypes, Waits
  <1>18. CASE WriteSucceeds
    BY <1>0, <1>1, <1>18, Counts DEF WriteSucceeds, YieldWritten, EventTypes, Waits
  <1>29. CASE WriteSkipped
    BY <1>0, <1>1, <1>29, Counts DEF WriteSkipped, YieldWritten, EventTypes, Waits
  <1>19. CASE ReportReady
    BY <1>0, <1>1, <1>19 DEF ReportReady, YieldReport, EventTypes, Waits, TypeOK
  <1>20. CASE QueryAnswers
    BY <1>0, <1>20, QuietMail DEF QueryAnswers, recordVars, Waits
  <1>21. CASE LoadFails
    BY <1>0, <1>21, QuietMail DEF LoadFails, Raise, recordVars, Waits
  <1>22. CASE RecordsFail
    BY <1>0, <1>22, QuietMail DEF RecordsFail, Raise, recordVars, Waits
  <1>23. CASE WriteRefused
    BY <1>0, <1>23, QuietMail DEF WriteRefused, Raise, recordVars, Waits
  <1>24. CASE WriteReplyLost
    BY <1>0, <1>24, QuietMail DEF WriteReplyLost, Raise, recordVars, Waits
  <1>25. CASE AnnounceError
    BY <1>0, <1>25, QuietMail DEF AnnounceError, Announce, recordVars, Waits
  <1>26. CASE AnnounceDone
    BY <1>0, <1>26, QuietMail DEF AnnounceDone, Announce, recordVars, Waits
  <1>27. ASSUME CacheReport PROVE MailInv'
    BY <1>0, <1>27, QuietMail DEF CacheReport, Waits
  <1>28. ASSUME PutSentinel PROVE MailInv'
    BY <1>0, <1>28, QuietMail DEF PutSentinel, recordVars, Waits
  <1> QED
    BY <1>3, <1>4, <1>5, <1>6, <1>7, <1>8, <1>9, <1>10, <1>11, <1>12, <1>13, <1>14,
       <1>15, <1>16, <1>17, <1>18, <1>19, <1>20, <1>21, <1>22, <1>23, <1>24, <1>25,
       <1>26, <1>27, <1>28, <1>29 DEF TaskStep

\* What the except clause does to the past: one more event, and nothing else.
LEMMA AnnounceFacts ==
    ASSUME ServerTypeOK, NEW type \in EventTypes, NEW from, NEW to,
           Announce(from, type, to)
    PROVE  /\ pc = from /\ pc' = to
           /\ UNCHANGED <<consumed, report, stage, ended>>
           /\ queue' # <<>>
           /\ LastEvent'.type = type /\ LastEvent'.stage = "case_intake"
           /\ \A t : t # type => EventsOf(t)' = EventsOf(t)
           /\ \A items : InProposal(items) => InProposal(items)'
  <1> DEFINE e == Unstamped(type)
  <1>1. e \in AgentEvent(Ids) /\ e.type = type /\ e.stage = "case_intake"
    BY DEF Unstamped, Plain, Evt, AgentEvent, Stages, StageOf
  <1>2. queue' = Append(queue, e)
    BY DEF Announce
  <1> HIDE DEF e
  <1>3. /\ queue' # <<>> /\ LastEvent' = e
        /\ \A t : t # type => EventsOf(t)' = EventsOf(t)
    BY <1>1, <1>2, AppendQueue
  <1>4. /\ \A i \in 1 .. Len(queue) : queue'[i] = queue[i]
        /\ EventsOf("proposal") \subseteq EventsOf("proposal")'
    BY <1>1, <1>2, AppendQueue
  <1>5. \A items : InProposal(items) => InProposal(items)'
    BY <1>4 DEF InProposal, EventsOf
  <1> QED
    BY <1>1, <1>3, <1>5 DEF Announce, recordVars, mailVars

\* Every step of the task keeps the record of what has happened.
LEMMA TaskProgress == IInv /\ TaskStep => ProgressInv'
  <1> SUFFICES ASSUME IInv, TaskStep PROVE ProgressInv'
    OBVIOUS
  <1>0. ProgressInv /\ MailInv /\ ServerTypeOK /\ TypeOK
    BY DEF IInv, TypeOK
  <1> USE DEF ProgressInv, PastPlan, PastProposal, PastAction, Written, Failing, Ending,
              PlanApproved, PlanRejected, ActionConsumed, Chosen, Logged, NothingLogged, Rows,
              Keep, locals, client
  <1>1. CASE EmitPlan
    BY <1>0, <1>1, PlainFacts DEF EmitPlan, EventTypes
  <1>2. CASE RejectPlan
    BY <1>0, <1>2, PlainFacts DEF RejectPlan, EventTypes
  <1>3. CASE CallRead
    BY <1>0, <1>3, PlainFacts DEF CallRead, EventTypes
  <1>4. CASE LoadDataset
    BY <1>0, <1>4, PlainFacts DEF LoadDataset, EventTypes
  <1>5. CASE CallQuery
    BY <1>0, <1>5, PlainFacts DEF CallQuery, EventTypes
  <1>6. CASE QueryFails
    BY <1>0, <1>6, PlainFacts DEF QueryFails, EventTypes
  <1>7. CASE QueryResult
    BY <1>0, <1>7, PlainFacts DEF QueryResult, EventTypes
  <1>8. CASE CallAggregate
    BY <1>0, <1>8, PlainFacts DEF CallAggregate, EventTypes
  <1>9. CASE AggregateResult
    BY <1>0, <1>9, PlainFacts DEF AggregateResult, EventTypes
  <1>10. CASE Done
    BY <1>0, <1>10, PlainFacts DEF Done, EventTypes
  <1>11. CASE AwaitPlan
    BY <1>0, <1>11, GateFacts DEF AwaitPlan, Gates, WaitPoint
  <1>12. CASE AwaitAction
    BY <1>0, <1>12, GateFacts DEF AwaitAction, Gates, WaitPoint
  <1>13. CASE ResumePlan
    BY <1>0, <1>13, TakeFacts, QueueFacts DEF ResumePlan, Gates, WaitPoint
  <1>14. CASE ResumeAction
    BY <1>0, <1>14, TakeFacts, QueueFacts DEF ResumeAction, Gates, WaitPoint
  <1>15. CASE Propose
    <2>1. PICK total \in Nat, items \in SUBSET Ids :
             /\ Yield("propose", Evt("proposal", items, total), "action")
             /\ shown' = items
             /\ UNCHANGED <<client, approvedItems, auditLog>>
      BY <1>15, ProposeYields
    <2>2. InProposal(items)'
      BY <1>0, <2>1, ProposalFacts
    <2>3. /\ pc = "propose" /\ pc' = "action" /\ UNCHANGED <<consumed, report>>
          /\ EventsOf("written")' = EventsOf("written")
      BY <1>0, <2>1, YieldFacts DEF EventTypes
    <2>4. InProposal(shown)'
      BY <2>1, <2>2 DEF InProposal
    <2> QED
      BY <1>0, <2>1, <2>3, <2>4
  <1>16. CASE WriteSucceeds
    <2>1. /\ pc = "writing" /\ pc' = "report"
          /\ UNCHANGED <<settings, consumed, report, shown, approvedItems>>
          /\ InProposal(shown) => InProposal(shown)'
      <3>1. /\ pc = "writing" /\ pc' = "report" /\ UNCHANGED <<consumed, report>>
            /\ \A items : InProposal(items) => InProposal(items)'
        BY <1>0, <1>16, Counts, YieldFacts DEF WriteSucceeds, YieldWritten, EventTypes
      <3> QED
        BY <1>16, <3>1 DEF WriteSucceeds, InProposal
    <2>2. auditLog' = <<approvedItems>> /\ settings.logUrl
      BY <1>0, <1>16, <2>1 DEF WriteSucceeds
    <2> QED
      BY <1>0, <2>1, <2>2
  <1>27. CASE WriteSkipped
    <2>1. /\ pc = "no_url" /\ pc' = "report"
          /\ UNCHANGED <<settings, consumed, report, shown, approvedItems, auditLog>>
          /\ InProposal(shown) => InProposal(shown)'
      <3>1. /\ pc = "no_url" /\ pc' = "report" /\ UNCHANGED <<consumed, report>>
            /\ \A items : InProposal(items) => InProposal(items)'
        BY <1>0, <1>27, Counts, YieldFacts DEF WriteSkipped, YieldWritten, EventTypes
      <3> QED
        BY <1>27, <3>1 DEF WriteSkipped, InProposal
    <2>2. auditLog = <<>> /\ ~settings.logUrl
      BY <1>0, <2>1
    <2> QED
      BY <1>0, <2>1, <2>2
  <1>17. CASE ReportReady
    <2>1. /\ pc = "report" /\ pc' = "cache"
          /\ UNCHANGED <<settings, consumed, report, shown, approvedItems, auditLog>>
          /\ InProposal(shown) => InProposal(shown)'
      <3>1. /\ pc = "report" /\ pc' = "cache" /\ UNCHANGED <<consumed, report>>
            /\ \A items : InProposal(items) => InProposal(items)'
        BY <1>0, <1>17, YieldFacts DEF ReportReady, YieldReport, EventTypes, TypeOK
      <3> QED
        BY <1>17, <3>1 DEF ReportReady, InProposal
    <2> QED
      BY <1>0, <2>1
  <1>18. CASE QueryAnswers
    BY <1>0, <1>18, QueueFacts DEF QueryAnswers, recordVars, mailVars
  <1>19. CASE LoadFails
    BY <1>0, <1>19, QueueFacts DEF LoadFails, Raise, recordVars, mailVars
  <1>20. CASE RecordsFail
    BY <1>0, <1>20, QueueFacts DEF RecordsFail, Raise, recordVars, mailVars
  <1>21. CASE WriteRefused
    BY <1>0, <1>21, QueueFacts DEF WriteRefused, Raise, recordVars, mailVars
  <1>22. CASE WriteReplyLost
    BY <1>0, <1>22, QueueFacts DEF WriteReplyLost, Raise, recordVars, mailVars
  <1>23. CASE AnnounceError
    BY <1>0, <1>23, AnnounceFacts DEF AnnounceError, EventTypes
  <1>24. CASE AnnounceDone
    BY <1>0, <1>24, AnnounceFacts DEF AnnounceDone, EventTypes
  <1>25. ASSUME CacheReport, Keep PROVE ProgressInv'
    <2>1. pc = "cache" /\ pc' = "done" /\ report' = approvedItems
      BY <1>0, <1>25 DEF CacheReport, IInv, StageInv
    <2>2. UNCHANGED <<queue, consumed, locals>>
      BY <1>25 DEF CacheReport, mailVars
    <2>3. /\ InProposal(shown)' <=> InProposal(shown)
          /\ EventsOf("written")' = EventsOf("written")
      BY <2>2 DEF InProposal, EventsOf
    <2>4. approvedItems # None
      BY <1>0, ConstantsAssumption DEF TypeOK
    <2> QED
      BY <1>0, <2>1, <2>2, <2>3, <2>4
  <1>26. ASSUME PutSentinel, Keep PROVE ProgressInv'
    BY <1>0, <1>26, QueueFacts DEF PutSentinel, recordVars, mailVars
  <1> QED
    BY <1>1, <1>2, <1>3, <1>4, <1>5, <1>6, <1>7, <1>8, <1>9, <1>10, <1>11, <1>12,
       <1>13, <1>14, <1>15, <1>16, <1>17, <1>18, <1>19, <1>20, <1>21, <1>22, <1>23,
       <1>24, <1>25, <1>26, <1>27 DEF TaskStep

\* Every step of the task keeps the stage where the invariant says it is.
LEMMA TaskStage == IInv /\ TaskStep => StageInv'
  <1> SUFFICES ASSUME IInv, TaskStep PROVE StageInv'
    OBVIOUS
  <1>0. StageInv /\ ProgressInv /\ MailInv /\ ServerTypeOK /\ TypeOK
    BY DEF IInv, TypeOK
  <1> USE DEF StageInv, Failing, Ending, PlanRejected, Keep, locals, client
  <1>1. CASE EmitPlan
    BY <1>0, <1>1, PlainFacts DEF EmitPlan, EventTypes, StageOf
  <1>2. CASE RejectPlan
    BY <1>0, <1>2, PlainFacts DEF RejectPlan, EventTypes, StageOf
  <1>3. CASE CallRead
    BY <1>0, <1>3, PlainFacts DEF CallRead, EventTypes, StageOf
  <1>4. CASE LoadDataset
    BY <1>0, <1>4, PlainFacts DEF LoadDataset, EventTypes, StageOf
  <1>5. CASE CallQuery
    BY <1>0, <1>5, PlainFacts DEF CallQuery, EventTypes, StageOf
  <1>6. CASE QueryFails
    BY <1>0, <1>6, PlainFacts DEF QueryFails, EventTypes, StageOf
  <1>7. CASE QueryResult
    BY <1>0, <1>7, PlainFacts DEF QueryResult, EventTypes, StageOf
  <1>8. CASE CallAggregate
    BY <1>0, <1>8, PlainFacts DEF CallAggregate, EventTypes, StageOf
  <1>9. CASE AggregateResult
    BY <1>0, <1>9, PlainFacts DEF AggregateResult, EventTypes, StageOf
  <1>10. CASE Done
    BY <1>0, <1>10, PlainFacts DEF Done, EventTypes, StageOf, ProgressInv
  <1>11. CASE AwaitPlan
    BY <1>0, <1>11, GateFacts DEF AwaitPlan, Gates, WaitPoint
  <1>12. CASE AwaitAction
    BY <1>0, <1>12, GateFacts DEF AwaitAction, Gates, WaitPoint
  <1>13. CASE ResumePlan
    BY <1>0, <1>13, TakeFacts, QueueFacts DEF ResumePlan, Gates, WaitPoint
  <1>14. CASE ResumeAction
    BY <1>0, <1>14, TakeFacts, QueueFacts DEF ResumeAction, Gates, WaitPoint
  <1>15. CASE Propose
    <2>1. PICK total \in Nat, items \in SUBSET Ids :
             /\ Yield("propose", Evt("proposal", items, total), "action")
             /\ shown' = items
             /\ UNCHANGED <<client, approvedItems, auditLog>>
      BY <1>15, ProposeYields
    <2>2. /\ pc = "propose" /\ pc' = "action"
          /\ queue' # <<>> /\ LastEvent'.stage = "exception_review" /\ stage' = "exception_review"
      BY <1>0, <2>1, YieldFacts, Counts DEF EventTypes, StageOf, TypeOK
    <2> QED
      BY <1>0, <1>15, <2>2
  <1>16. CASE WriteSucceeds
    <2>1. /\ pc = "writing" /\ pc' = "report"
          /\ queue' # <<>> /\ LastEvent'.stage = "audit_log_write" /\ stage' = "audit_log_write"
      BY <1>0, <1>16, YieldFacts, Counts
         DEF WriteSucceeds, YieldWritten, EventTypes, StageOf, TypeOK
    <2> QED
      BY <1>0, <1>16, <2>1 DEF WriteSucceeds
  <1>27. CASE WriteSkipped
    <2>1. /\ pc = "no_url" /\ pc' = "report"
          /\ queue' # <<>> /\ LastEvent'.stage = "audit_log_write" /\ stage' = "audit_log_write"
      BY <1>0, <1>27, YieldFacts, Counts
         DEF WriteSkipped, YieldWritten, EventTypes, StageOf, TypeOK
    <2> QED
      BY <1>0, <1>27, <2>1 DEF WriteSkipped
  <1>17. CASE ReportReady
    <2>1. /\ pc = "report" /\ pc' = "cache"
          /\ queue' # <<>> /\ LastEvent'.stage = "audit_report_ready" /\ stage' = "audit_report_ready"
          /\ LastEvent'.items = approvedItems
      BY <1>0, <1>17, YieldFacts, Counts DEF ReportReady, YieldReport, EventTypes, StageOf, TypeOK
    <2> QED
      BY <1>0, <1>17, <2>1 DEF ReportReady, YieldReport
  <1>18. CASE QueryAnswers
    BY <1>0, <1>18, QueueFacts DEF QueryAnswers, recordVars, mailVars
  <1>19. CASE LoadFails
    BY <1>0, <1>19, QueueFacts DEF LoadFails, Raise, recordVars, mailVars
  <1>20. CASE RecordsFail
    BY <1>0, <1>20, QueueFacts DEF RecordsFail, Raise, recordVars, mailVars
  <1>21. CASE WriteRefused
    BY <1>0, <1>21, QueueFacts DEF WriteRefused, Raise, recordVars, mailVars
  <1>22. CASE WriteReplyLost
    BY <1>0, <1>22, QueueFacts DEF WriteReplyLost, Raise, recordVars, mailVars
  <1>23. CASE AnnounceError
    BY <1>0, <1>23, AnnounceFacts DEF AnnounceError, EventTypes, ProgressInv
  <1>24. CASE AnnounceDone
    BY <1>0, <1>24, AnnounceFacts DEF AnnounceDone, EventTypes, ProgressInv
  <1>25. ASSUME CacheReport, Keep PROVE StageInv'
    BY <1>0, <1>25, QueueFacts DEF CacheReport, mailVars
  <1>26. ASSUME PutSentinel, Keep PROVE StageInv'
    BY <1>0, <1>26, QueueFacts DEF PutSentinel, recordVars, mailVars
  <1> QED
    BY <1>1, <1>2, <1>3, <1>4, <1>5, <1>6, <1>7, <1>8, <1>9, <1>10, <1>11, <1>12,
       <1>13, <1>14, <1>15, <1>16, <1>17, <1>18, <1>19, <1>20, <1>21, <1>22, <1>23,
       <1>24, <1>25, <1>26, <1>27 DEF TaskStep

\* An approval, at any moment, keeps the invariant.
LEMMA ApproveInv == IInv /\ Approve => IInv'
  <1> SUFFICES ASSUME IInv, NEW d \in Decisions, PushApproval(d), Keep PROVE IInv'
    BY DEF Approve
  <1>1. UNCHANGED <<pc, stage, exceptionCount, report, queue, ended, consumed, locals>>
    BY DEF PushApproval, DeliverDecision, Keep
  <1>2. TypeOK'
    BY <1>1, PushApprovalType DEF IInv, TypeOK, locals, client
  <1>3. MailInv'
    BY PushApprovalMail DEF IInv, TypeOK
  <1>4. ProgressInv'
    <2>1. /\ InProposal(shown)' <=> InProposal(shown)
          /\ EventsOf("written")' = EventsOf("written")
      BY <1>1 DEF InProposal, EventsOf, locals, client
    <2> QED
      BY <1>1, <2>1 DEF IInv, ProgressInv, PlanApproved, PlanRejected, ActionConsumed,
         Chosen, Logged, NothingLogged, Rows, locals, client
  <1>5. StageInv'
    BY <1>1 DEF IInv, StageInv, LastEvent, PlanRejected, locals, client
  <1> QED
    BY <1>2, <1>3, <1>4, <1>5 DEF IInv

\* Starting the case keeps the invariant.
LEMMA StartInv == IInv /\ StartAuditCase /\ Keep => IInv'
  <1> SUFFICES ASSUME IInv, StartAuditCase, Keep PROVE IInv'
    OBVIOUS
  <1> USE DEF StartAuditCase, recordVars, mailVars, Keep, locals, client
  <1>1. TypeOK'
    BY DEF IInv, TypeOK, ServerTypeOK, Points
  <1>2. MailInv'
    BY QuietMail DEF IInv, TypeOK, Waits
  <1>3. ProgressInv'
    BY DEF IInv, ProgressInv, PlanApproved, PlanRejected, ActionConsumed, Chosen, Logged,
           NothingLogged, Rows, InProposal, EventsOf, PastPlan, PastProposal, PastAction,
           Written, Failing, Ending
  <1>4. StageInv'
    BY DEF IInv, StageInv, LastEvent, PlanRejected, Failing, Ending
  <1> QED
    BY <1>1, <1>2, <1>3, <1>4 DEF IInv

\* A step that changes nothing keeps the invariant.
LEMMA StutterInv == IInv /\ UNCHANGED vars => IInv'
  BY DEF IInv, vars, locals, client, serverVars, recordVars, mailVars, TypeOK, ServerTypeOK,
         MailInv,
         PendingGateIsBlockedGate, WokenWithDecision, DecisionIsFresh, ProgressInv,
         PlanApproved, PlanRejected, ActionConsumed, Chosen, Logged, NothingLogged, Rows,
         InProposal, EventsOf, StageInv, LastEvent

\* A token that arrives or expires keeps the invariant.
LEMMA TokenInv == IInv /\ TokenChanges => IInv'
  <1> SUFFICES ASSUME IInv, TokenChanges PROVE IInv'
    OBVIOUS
  <1> USE DEF TokenChanges
  <1>1. TypeOK'
    BY DEF IInv, TypeOK, ServerTypeOK, serverVars, recordVars, mailVars
  <1>2. MailInv'
    BY DEF IInv, MailInv, PendingGateIsBlockedGate, WokenWithDecision, DecisionIsFresh,
           serverVars, recordVars, mailVars
  <1>3. ProgressInv'
    BY DEF IInv, ProgressInv, PlanApproved, PlanRejected, ActionConsumed, Chosen, Logged,
           NothingLogged, Rows, InProposal, EventsOf, serverVars, recordVars, mailVars
  <1>4. StageInv'
    BY DEF IInv, StageInv, LastEvent, PlanRejected, serverVars, recordVars, mailVars
  <1> QED
    BY <1>1, <1>2, <1>3, <1>4 DEF IInv

\* Every step keeps the invariant.
LEMMA StepInv == IInv /\ [Next]_vars => IInv'
  BY TaskType, TaskMail, TaskProgress, TaskStage, ApproveInv, StartInv, TokenInv, StutterInv
     DEF Next, IInv

\* The invariant is inductive, hence it always holds.
THEOREM Invariance == Spec => []IInv
  BY StepInv, InitInv, PTL DEF Spec

\* The state of a live case keeps its types.
THEOREM TypeCorrect == Spec => []TypeOK
  <1>1. IInv => TypeOK
    BY DEF IInv
  <1> QED
    BY <1>1, Invariance, PTL

\* The poll, the event and the mailbox agree, a woken task finds a decision, and
\* a gate consumes only what was posted at it, also when decisions arrive during
\* UiPath calls.
THEOREM MailboxDiscipline ==
    Spec => [](PendingGateIsBlockedGate /\ WokenWithDecision /\ DecisionIsFresh)
  <1>1. IInv => PendingGateIsBlockedGate /\ WokenWithDecision /\ DecisionIsFresh
    BY DEF IInv, MailInv
  <1> QED
    BY <1>1, Invariance, PTL

\* If a URL for the log is set, a reported case has exactly one row in it, with the
\* reported ids, and WRITTEN is streamed only after the append; if none is, WRITTEN and
\* the report come without a row.
THEOREM LogAgreement == Spec => []LogMatchesReport
  <1>1. IInv => LogMatchesReport
    <2> SUFFICES ASSUME IInv PROVE LogMatchesReport
      OBVIOUS
    <2>1. /\ EventsOf("written") # {} \/ report # None => auditLog = Rows
          /\ report # None => report = approvedItems
      BY DEF IInv, ProgressInv, NothingLogged
    <2>2. CASE settings.logUrl
      BY <2>1, <2>2 DEF LogMatchesReport, Rows
    <2>3. CASE ~settings.logUrl
      BY <2>1, <2>3 DEF LogMatchesReport, Rows
    <2> QED
      BY <2>2, <2>3
  <1> QED
    BY <1>1, Invariance, PTL

\* Once the token has expired before the row is written, no later step gives the case
\* a report: the review at Gate 2 is lost (clients.py:59-60, uipath_runner.py:154).
THEOREM ExpiredTokenLosesReview == Spec => NoReportAfterExpiry
  <1> DEFINE Lost == token = "expired" /\ settings.logUrl /\ auditLog = <<>>
  <1>1. Lost /\ [Next]_vars => Lost'
    <2> SUFFICES ASSUME Lost, [Next]_vars PROVE Lost'
      OBVIOUS
    <2>1. GetToken => token' = token
      BY DEF GetToken
    <2>2. CASE UNCHANGED vars \/ (StartAuditCase /\ Keep) \/ Approve \/ TokenChanges
      BY <2>2 DEF Approve, TokenChanges, Keep, vars, locals, client
    <2>3. CASE TaskStep
      BY <2>1, <2>3
         DEF TaskStep, EmitPlan, AwaitPlan, ResumePlan, RejectPlan, CallRead, LoadDataset,
             LoadFails, CallQuery, QueryAnswers, QueryFails, QueryResult, CallAggregate,
             AggregateResult, Propose, RecordsFail, AwaitAction, ResumeAction, WriteSucceeds,
             WriteSkipped, WriteRefused, WriteReplyLost, ReportReady, Done, AnnounceError,
             AnnounceDone, Keep, locals, client
    <2> QED
      BY <2>2, <2>3 DEF Next
  <1>2. IInv /\ Lost => report = None
    <2> SUFFICES ASSUME IInv, Lost, report # None PROVE FALSE
      OBVIOUS
    <2>1. auditLog = <<approvedItems>>
      BY DEF IInv, ProgressInv, Rows
    <2> QED
      BY <2>1
  <1> QED
    BY <1>1, <1>2, Invariance, PTL DEF Spec, NoReportAfterExpiry

\* The log holds only what both gates let through: findings of the proposal, none
\* of them rejected, after an approved plan.
THEOREM LogDiscipline == Spec => [](LogHoldsReviewedFindings /\ RejectedNotWritten)
  <1>1. ASSUME NEW d, NEW items
        PROVE  /\ Selected(d, items) \subseteq items
               /\ Selected(d, items) \cap (d.rejectedIds \ d.approvedIds) = {}
    BY DEF Selected
  <1>2. IInv => LogHoldsReviewedFindings
    <2> SUFFICES ASSUME IInv, NEW r \in 1 .. Len(auditLog)
                 PROVE  /\ PlanApproved /\ ActionConsumed
                        /\ \E i \in EventsOf("proposal") : auditLog[r] \subseteq queue[i].items
                        /\ LET d == consumed["action"].decision
                           IN  auditLog[r] \cap (d.rejectedIds \ d.approvedIds) = {}
      BY DEF LogHoldsReviewedFindings, PlanApproved, ActionConsumed
    <2>1. auditLog = <<approvedItems>> /\ Logged
      BY DEF IInv, ProgressInv, NothingLogged, Rows
    <2>2. auditLog[r] = approvedItems
      BY <2>1
    <2>3. auditLog[r] = Selected(consumed["action"].decision, shown)
      BY <2>1, <2>2 DEF Logged, Chosen
    <2> QED
      BY <1>1, <2>1, <2>3 DEF Logged, Chosen, InProposal
  <1>3. IInv => RejectedNotWritten
    BY <1>1 DEF IInv, ProgressInv, Logged, Chosen, RejectedNotWritten
  <1> QED
    BY <1>2, <1>3, Invariance, PTL

\* Poll and stream show the same stage, but for a failed run, whose stage stays in
\* the investigation or the review for ever.
THEOREM StageDiscipline == Spec => []StageTracksStreamUntilFailure
  <1>1. IInv => StageTracksStreamUntilFailure
    BY DEF IInv, StageInv, ProgressInv, Ending, Failing, StageTracksStreamUntilFailure
  <1> QED
    BY <1>1, Invariance, PTL

\* A case that is closed has a report, or its plan was rejected; no failed run is.
THEOREM ClosingDiscipline == Spec => []ClosedCaseIsReported
  <1>1. IInv => ClosedCaseIsReported
    BY DEF IInv, StageInv, ClosedCaseIsReported, PlanRejected
  <1> QED
    BY <1>1, Invariance, PTL

\* A closed case never changes again, and a late approval cannot reopen it.
THEOREM Finality == Spec => ClosedIsFinal
  <1>1. IInv /\ [Next]_vars => [stage = "closed" => UNCHANGED <<recordVars, queue>>]_serverVars
    <2> SUFFICES ASSUME IInv, [Next]_vars, stage = "closed"
                 PROVE  UNCHANGED <<recordVars, queue>>
      OBVIOUS
    <2>1. pc \in {"sentinel", "finished"}
      BY DEF IInv, StageInv, Ending
    <2>2. pendingGate = NoGate
      BY <2>1 DEF IInv, MailInv, PendingGateIsBlockedGate, WaitPoint
    <2>3. CASE Approve
      BY <2>2, <2>3 DEF Approve, PushApproval, recordVars
    <2>4. CASE UNCHANGED vars
      BY <2>4 DEF vars, serverVars
    <2>5. CASE StartAuditCase \/ TokenChanges
      BY <2>1, <2>5 DEF StartAuditCase, TokenChanges, serverVars
    <2>6. CASE TaskStep
      <3>1. PutSentinel
        BY <2>1, <2>6 DEF TaskStep, EmitPlan, AwaitPlan, ResumePlan, RejectPlan, CallRead,
           LoadDataset, LoadFails, CallQuery, QueryAnswers, QueryFails, QueryResult,
           CallAggregate, AggregateResult, Propose, RecordsFail, AwaitAction,
           ResumeAction, WriteSucceeds, WriteSkipped, YieldWritten, WriteRefused,
           WriteReplyLost, ReportReady,
           YieldReport, Done, AnnounceError, AnnounceDone, Announce, Yield, OpenGate,
           TakeDecision, WaitPoint, CacheReport
      <3> QED
        BY <3>1 DEF PutSentinel
    <2> QED
      BY <2>3, <2>4, <2>5, <2>6 DEF Next
  <1> QED
    BY <1>1, Invariance, PTL DEF Spec, ClosedIsFinal

-------------------------------------------------------------------------------
(* The run implements CaseProtocol. *)

\* Which event ends the stream, told from where the task stands.
StreamInv ==
    /\ pc \in {"absent", "created"} <=> queue = <<>>
    /\ ended <=> pc = "finished"
    /\ pc = "plan" => LastEvent.type = "plan"
    /\ pc \in {"plan_wait", "reject", "read_call"} =>
          LastEvent.type = "awaiting_approval" /\ LastEvent.gate = "plan"
    /\ pc \in {"loading", "querying", "aggregate_result"} => LastEvent.type = "tool_call"
    /\ pc = "query_result" => LastEvent.type \in {"tool_call", "exception"}
    /\ pc \in {"query_call", "aggregate_call", "propose"} => LastEvent.type = "tool_result"
    /\ pc = "action" => LastEvent.type = "proposal"
    /\ pc \in {"action_wait", "writing", "no_url"} =>
          LastEvent.type = "awaiting_approval" /\ LastEvent.gate = "action"
    /\ pc = "report" => LastEvent.type = "written"
    /\ pc = "cache" => LastEvent.type = "report_ready"
    /\ pc = "failed" => LastEvent.type \in {"tool_call", "tool_result", "awaiting_approval"}
    /\ pc = "fail_done" => LastEvent.type = "error"
    /\ pc = "done" =>
          LastEvent.type = "error" \/ (LastEvent.type = "report_ready" /\ report # None)
    /\ pc \in {"sentinel", "finished"} => LastEvent.type = "done"

\* An event put on the queue by the except clause is an Emit of the protocol.
LEMMA AnnounceImplements ==
    ASSUME ServerTypeOK, MailInv, ~ended, NEW type \in {"error", "done"},
           NEW from, NEW to, from \notin Waits, Announce(from, type, to), MayEmit(type, {})
    PROVE  Protocol!Emit
  <1> DEFINE e == Unstamped(type)
  <1>1. /\ e \in AgentEvent(Ids) /\ e.type = type /\ e.items = {} /\ e.gate = NoGate
    BY DEF Unstamped, Plain, Evt, AgentEvent, EventTypes, Stages, StageOf
  <1>2. queue' = Append(queue, e) /\ pc = from /\ UNCHANGED <<pendingGate, report, ended>>
    BY DEF Announce, recordVars
  <1> HIDE DEF e
  <1>3. pendingGate = NoGate
    BY <1>2 DEF MailInv, PendingGateIsBlockedGate, WaitPoint, Waits
  <1> QED
    BY <1>1, <1>2, <1>3, AppendImplements

\* A step of the task keeps the order of the stream and is a step of the protocol.
LEMMA TaskImplements == IInv /\ StreamInv /\ TaskStep => StreamInv' /\ [Protocol!Next]_Protocol!vars
  <1> SUFFICES ASSUME IInv, StreamInv, TaskStep
               PROVE  StreamInv' /\ [Protocol!Next]_Protocol!vars
    OBVIOUS
  <1>0. ServerTypeOK /\ MailInv /\ ProgressInv /\ StageInv /\ approvedItems \in SUBSET Ids
    BY DEF IInv, TypeOK
  <1>1. ASSUME NEW type \in EventTypes, NEW items \in SUBSET Ids, NEW total \in Nat,
               NEW from, NEW to, from \notin Waits \cup {"finished"},
               type # "awaiting_approval",
               Yield(from, Evt(type, items, total), to), MayEmit(type, items)
        PROVE  [Protocol!Next]_Protocol!vars
    <2>1. ~ended
      BY <1>1 DEF Yield, StreamInv
    <2> QED
      BY <1>0, <1>1, <2>1, YieldImplements DEF Protocol!Next
  <1>2. ASSUME NEW type \in EventTypes \ {"awaiting_approval", "report_ready"},
               NEW from, NEW to, from \notin Waits \cup {"finished"},
               Yield(from, Plain(type), to), MayEmit(type, {})
        PROVE  [Protocol!Next]_Protocol!vars
    BY <1>1, <1>2 DEF Plain
  <1>3. CASE EmitPlan
    <2>1. MayEmit("plan", {})
      BY <1>3 DEF MayEmit, EmitPlan, Yield, StreamInv, Protocol!Successors
    <2>2. StreamInv'
      BY <1>0, <1>3, PlainFacts DEF EmitPlan, EventTypes, StreamInv
    <2> QED
      BY <1>2, <1>3, <2>1, <2>2 DEF EmitPlan, EventTypes, Waits
  <1>4. CASE RejectPlan
    <2>1. MayEmit("error", {})
      BY <1>4 DEF MayEmit, RejectPlan, Yield, StreamInv, Protocol!Successors
    <2>2. StreamInv'
      BY <1>0, <1>4, PlainFacts DEF RejectPlan, EventTypes, StreamInv
    <2> QED
      BY <1>2, <1>4, <2>1, <2>2 DEF RejectPlan, EventTypes, Waits
  <1>5. CASE CallRead
    <2>1. MayEmit("tool_call", {})
      BY <1>5 DEF MayEmit, CallRead, Yield, StreamInv, Protocol!Successors
    <2>2. StreamInv'
      BY <1>0, <1>5, PlainFacts DEF CallRead, EventTypes, StreamInv
    <2> QED
      BY <1>2, <1>5, <2>1, <2>2 DEF CallRead, EventTypes, Waits
  <1>6. CASE LoadDataset
    <2>1. MayEmit("tool_result", {})
      BY <1>6 DEF MayEmit, LoadDataset, Yield, StreamInv, Protocol!Successors
    <2>2. StreamInv'
      BY <1>0, <1>6, PlainFacts DEF LoadDataset, EventTypes, StreamInv
    <2> QED
      BY <1>2, <1>6, <2>1, <2>2 DEF LoadDataset, EventTypes, Waits
  <1>7. CASE CallQuery
    <2>1. MayEmit("tool_call", {})
      BY <1>7 DEF MayEmit, CallQuery, Yield, StreamInv, Protocol!Successors
    <2>2. StreamInv'
      BY <1>0, <1>7, PlainFacts DEF CallQuery, EventTypes, StreamInv
    <2> QED
      BY <1>2, <1>7, <2>1, <2>2 DEF CallQuery, EventTypes, Waits
  <1>8. CASE QueryFails
    <2>1. MayEmit("exception", {})
      BY <1>8 DEF MayEmit, QueryFails, Yield, StreamInv, Protocol!Successors
    <2>2. StreamInv'
      BY <1>0, <1>8, PlainFacts DEF QueryFails, EventTypes, StreamInv
    <2> QED
      BY <1>2, <1>8, <2>1, <2>2 DEF QueryFails, EventTypes, Waits
  <1>9. CASE QueryResult
    <2>1. MayEmit("tool_result", {})
      BY <1>9 DEF MayEmit, QueryResult, Yield, StreamInv, Protocol!Successors
    <2>2. StreamInv'
      BY <1>0, <1>9, PlainFacts DEF QueryResult, EventTypes, StreamInv
    <2> QED
      BY <1>2, <1>9, <2>1, <2>2 DEF QueryResult, EventTypes, Waits
  <1>10. CASE CallAggregate
    <2>1. MayEmit("tool_call", {})
      BY <1>10 DEF MayEmit, CallAggregate, Yield, StreamInv, Protocol!Successors
    <2>2. StreamInv'
      BY <1>0, <1>10, PlainFacts DEF CallAggregate, EventTypes, StreamInv
    <2> QED
      BY <1>2, <1>10, <2>1, <2>2 DEF CallAggregate, EventTypes, Waits
  <1>11. CASE AggregateResult
    <2>1. MayEmit("tool_result", {})
      BY <1>11 DEF MayEmit, AggregateResult, Yield, StreamInv, Protocol!Successors
    <2>2. StreamInv'
      BY <1>0, <1>11, PlainFacts DEF AggregateResult, EventTypes, StreamInv
    <2> QED
      BY <1>2, <1>11, <2>1, <2>2 DEF AggregateResult, EventTypes, Waits
  <1>12. CASE Done
    <2>1. MayEmit("done", {})
      BY <1>12 DEF MayEmit, Done, Yield, StreamInv, Protocol!Successors
    <2>2. StreamInv'
      BY <1>0, <1>12, PlainFacts DEF Done, EventTypes, StreamInv
    <2> QED
      BY <1>2, <1>12, <2>1, <2>2 DEF Done, EventTypes, Waits
  <1>13. CASE AwaitPlan
    <2>1. ~ended /\ queue # <<>> /\ LastEvent.type = "plan"
      BY <1>13 DEF AwaitPlan, OpenGate, StreamInv
    <2>2. StreamInv'
      BY <1>0, <1>13, GateFacts DEF AwaitPlan, Gates, WaitPoint, StreamInv
    <2> QED
      BY <1>0, <1>13, <2>1, <2>2, OpenGateImplements
         DEF AwaitPlan, Gates, Waits, Protocol!Next
  <1>14. CASE AwaitAction
    <2>1. ~ended /\ queue # <<>> /\ LastEvent.type = "proposal"
      BY <1>14 DEF AwaitAction, OpenGate, StreamInv
    <2>2. StreamInv'
      BY <1>0, <1>14, GateFacts DEF AwaitAction, Gates, WaitPoint, StreamInv
    <2> QED
      BY <1>0, <1>14, <2>1, <2>2, OpenGateImplements
         DEF AwaitAction, Gates, Waits, Protocol!Next
  <1>15. CASE Propose
    <2>1. PICK total \in Nat, items \in SUBSET Ids :
             Yield("propose", Evt("proposal", items, total), "action")
      BY <1>15, ProposeYields
    <2>2. MayEmit("proposal", items)
      BY <2>1 DEF MayEmit, Yield, StreamInv, Protocol!Successors
    <2>3. /\ pc = "propose" /\ pc' = "action" /\ queue' # <<>> /\ UNCHANGED <<report, ended>>
          /\ LastEvent'.type = "proposal"
      BY <1>0, <2>1, YieldFacts DEF EventTypes
    <2>4. StreamInv'
      BY <2>3 DEF StreamInv
    <2> QED
      BY <1>1, <2>1, <2>2, <2>4 DEF EventTypes, Waits
  <1>16. CASE WriteSucceeds
    <2>1. MayEmit("written", {})
      BY <1>16 DEF MayEmit, WriteSucceeds, YieldWritten, Yield, StreamInv, Protocol!Successors
    <2>2. /\ pc = "writing" /\ pc' = "report" /\ queue' # <<>> /\ UNCHANGED <<report, ended>>
          /\ LastEvent'.type = "written"
      BY <1>0, <1>16, Counts, YieldFacts DEF WriteSucceeds, YieldWritten, EventTypes, IInv
    <2>3. StreamInv'
      BY <2>2 DEF StreamInv
    <2> QED
      BY <1>1, <1>16, <2>1, <2>3, Counts DEF WriteSucceeds, YieldWritten, EventTypes, Waits, IInv
  <1>29. CASE WriteSkipped
    <2>1. MayEmit("written", {})
      BY <1>29 DEF MayEmit, WriteSkipped, YieldWritten, Yield, StreamInv, Protocol!Successors
    <2>2. /\ pc = "no_url" /\ pc' = "report" /\ queue' # <<>> /\ UNCHANGED <<report, ended>>
          /\ LastEvent'.type = "written"
      BY <1>0, <1>29, Counts, YieldFacts DEF WriteSkipped, YieldWritten, EventTypes, IInv
    <2>3. StreamInv'
      BY <2>2 DEF StreamInv
    <2> QED
      BY <1>1, <1>29, <2>1, <2>3, Counts DEF WriteSkipped, YieldWritten, EventTypes, Waits, IInv
  <1>17. CASE ReportReady
    <2>1. approvedItems \subseteq shown /\ InProposal(shown)
      BY <1>0, <1>17 DEF ReportReady, YieldReport, Yield, ProgressInv, PastAction,
                     PastProposal, Chosen, Selected
    <2>2. Protocol!Reviewed(approvedItems)
      BY <2>1 DEF InProposal, EventsOf, Protocol!Reviewed
    <2>3. MayEmit("report_ready", approvedItems)
      BY <1>17, <2>2 DEF MayEmit, ReportReady, YieldReport, Yield, StreamInv, Protocol!Successors
    <2>4. /\ pc = "report" /\ pc' = "cache" /\ queue' # <<>> /\ UNCHANGED <<report, ended>>
          /\ LastEvent'.type = "report_ready"
      BY <1>0, <1>17, YieldFacts DEF ReportReady, YieldReport, EventTypes
    <2>5. StreamInv'
      BY <2>4 DEF StreamInv
    <2> QED
      BY <1>0, <1>1, <1>17, <2>3, <2>5 DEF ReportReady, YieldReport, EventTypes, Waits
  <1>18. CASE ResumePlan
    <2>1. pc = WaitPoint("plan") /\ UNCHANGED <<queue, pendingGate, report, ended>>
      BY <1>18 DEF ResumePlan, TakeDecision, recordVars
    <2>2. StreamInv'
      BY <1>18, <2>1, QueueFacts DEF ResumePlan, StreamInv, WaitPoint
    <2> QED
      BY <2>1, <2>2 DEF Protocol!vars
  <1>19. CASE ResumeAction
    <2>1. pc = WaitPoint("action") /\ UNCHANGED <<queue, pendingGate, report, ended>>
      BY <1>19 DEF ResumeAction, TakeDecision, recordVars
    <2>2. StreamInv'
      BY <1>19, <2>1, QueueFacts DEF ResumeAction, StreamInv, WaitPoint
    <2> QED
      BY <2>1, <2>2 DEF Protocol!vars
  <1>20. CASE QueryAnswers
    <2>1. UNCHANGED <<queue, pendingGate, report, ended>>
      BY <1>20 DEF QueryAnswers, recordVars
    <2>2. StreamInv'
      BY <1>20, <2>1, QueueFacts DEF QueryAnswers, StreamInv
    <2> QED
      BY <2>1, <2>2 DEF Protocol!vars
  <1>21. CASE LoadFails
    <2>1. pc' = "failed" /\ UNCHANGED <<queue, pendingGate, report, ended>>
      BY <1>21 DEF LoadFails, Raise, recordVars
    <2>2. StreamInv'
      BY <1>21, <2>1, QueueFacts DEF LoadFails, StreamInv
    <2> QED
      BY <2>1, <2>2 DEF Protocol!vars
  <1>22. CASE RecordsFail
    <2>1. pc' = "failed" /\ UNCHANGED <<queue, pendingGate, report, ended>>
      BY <1>22 DEF RecordsFail, Raise, recordVars
    <2>2. StreamInv'
      BY <1>22, <2>1, QueueFacts DEF RecordsFail, StreamInv
    <2> QED
      BY <2>1, <2>2 DEF Protocol!vars
  <1>23. CASE WriteRefused
    <2>1. pc' = "failed" /\ UNCHANGED <<queue, pendingGate, report, ended>>
      BY <1>23 DEF WriteRefused, Raise, recordVars
    <2>2. StreamInv'
      BY <1>23, <2>1, QueueFacts DEF WriteRefused, StreamInv
    <2> QED
      BY <2>1, <2>2 DEF Protocol!vars
  <1>24. CASE WriteReplyLost
    <2>1. pc' = "failed" /\ UNCHANGED <<queue, pendingGate, report, ended>>
      BY <1>24 DEF WriteReplyLost, Raise, recordVars
    <2>2. StreamInv'
      BY <1>24, <2>1, QueueFacts DEF WriteReplyLost, StreamInv
    <2> QED
      BY <2>1, <2>2 DEF Protocol!vars
  <1>25. CASE AnnounceError
    <2>1. ~ended /\ MayEmit("error", {})
      BY <1>25 DEF MayEmit, AnnounceError, Announce, StreamInv, Protocol!Successors
    <2>2. StreamInv'
      BY <1>0, <1>25, AnnounceFacts DEF AnnounceError, EventTypes, StreamInv
    <2> QED
      BY <1>0, <1>25, <2>1, <2>2, AnnounceImplements DEF AnnounceError, Waits, Protocol!Next
  <1>26. CASE AnnounceDone
    <2>1. ~ended /\ MayEmit("done", {})
      BY <1>26 DEF MayEmit, AnnounceDone, Announce, StreamInv, Protocol!Successors
    <2>2. StreamInv'
      BY <1>0, <1>26, AnnounceFacts DEF AnnounceDone, EventTypes, StreamInv
    <2> QED
      BY <1>0, <1>26, <2>1, <2>2, AnnounceImplements DEF AnnounceDone, Waits, Protocol!Next
  <1>27. CASE CacheReport
    <2>1. /\ queue # <<>> /\ LastEvent.type = "report_ready" /\ LastEvent.items = approvedItems
          /\ report = None /\ report' = approvedItems /\ UNCHANGED <<queue, pendingGate, ended>>
      BY <1>0, <1>27 DEF CacheReport, StreamInv, StageInv, ProgressInv, Ending
    <2>2. Protocol!Publish
      BY <2>1 DEF Protocol!Publish, Protocol!Last, LastEvent
    <2>3. StreamInv'
      BY <1>0, <1>27, <2>1, ConstantsAssumption, QueueFacts DEF CacheReport, StreamInv
    <2> QED
      BY <2>2, <2>3 DEF Protocol!Next
  <1>28. CASE PutSentinel
    <2>1. /\ queue # <<>> /\ LastEvent.type = "done" /\ ~ended
          /\ ended' = TRUE /\ UNCHANGED <<queue, pendingGate, report>>
      BY <1>28 DEF PutSentinel, StreamInv, recordVars
    <2>2. Protocol!End
      BY <2>1 DEF Protocol!End, Protocol!Last, LastEvent
    <2>3. StreamInv'
      BY <1>28, <2>1, QueueFacts DEF PutSentinel, StreamInv
    <2> QED
      BY <2>2, <2>3 DEF Protocol!Next
  <1> QED
    BY <1>3, <1>4, <1>5, <1>6, <1>7, <1>8, <1>9, <1>10, <1>11, <1>12,
       <1>13, <1>14, <1>15, <1>16, <1>17, <1>18, <1>19, <1>20, <1>21, <1>22,
       <1>23, <1>24, <1>25, <1>26, <1>27, <1>28, <1>29
       DEF TaskStep

\* So do the steps of the clients.
LEMMA ClientImplements ==
    IInv /\ StreamInv /\ ((StartAuditCase /\ Keep) \/ Approve \/ TokenChanges \/ UNCHANGED vars)
        => StreamInv' /\ [Protocol!Next]_Protocol!vars
  <1>1. ASSUME StreamInv, StartAuditCase
        PROVE  StreamInv' /\ UNCHANGED Protocol!vars
    BY <1>1, QueueFacts DEF StartAuditCase, recordVars, StreamInv, Protocol!vars
  <1>2. ASSUME StreamInv, NEW d \in Decisions, PushApproval(d)
        PROVE  StreamInv' /\ [Protocol!Next]_Protocol!vars
    <2>1. UNCHANGED <<pc, queue, report, ended>>
      BY <1>2 DEF PushApproval
    <2>2. StreamInv'
      BY <1>2, <2>1, QueueFacts DEF StreamInv
    <2> QED
      BY <1>2, <2>2, PushApprovalImplements DEF Protocol!Next
  <1>3. ASSUME StreamInv, UNCHANGED vars \/ TokenChanges
        PROVE  StreamInv' /\ UNCHANGED Protocol!vars
    BY <1>3, QueueFacts DEF vars, TokenChanges, serverVars, recordVars, StreamInv, Protocol!vars
  <1> QED
    BY <1>1, <1>2, <1>3 DEF Approve

\* Every case of the live runner, failing or not, is a behaviour of CaseProtocol: its stream
\* has the documented order, is silent while a gate is pending, and ends once.
THEOREM ProtocolImplemented == Spec => ImplementsProtocol
  <1>1. Init => StreamInv /\ Protocol!Init
    BY ProtocolVocabulary DEF Init, ServerInit, StreamInv, Protocol!Init
  <1>2. IInv /\ StreamInv /\ [Next]_vars => StreamInv' /\ [Protocol!Next]_Protocol!vars
    BY TaskImplements, ClientImplements DEF Next
  <1> QED
    BY <1>1, <1>2, Invariance, PTL DEF Spec, ImplementsProtocol, Protocol!Spec

-------------------------------------------------------------------------------
(* The order of the gates *)

\* Where the task stands before each of the things it does once.
BeforeWork == {"absent", "created", "plan", "plan_wait"}
BeforeProposal == BeforeWork \cup {"read_call", "loading", "query_call", "querying", "query_result",
                                  "aggregate_call", "aggregate_result", "propose"}
BeforeReview == BeforeProposal \cup {"action"}

\* Where in the stream a gate is announced.
AwaitedAt(g) == {i \in EventsOf("awaiting_approval") : queue[i].gate = g}

\* A case proposes once and opens each gate once, in this order.
GateInv ==
    /\ \A g \in Gates : \A i, j \in AwaitedAt(g) : i = j
    /\ \A i, j \in EventsOf("proposal") : i = j
    /\ pc \in {"absent", "created", "plan"} => EventsOf("awaiting_approval") = {}
    /\ pc \in BeforeReview => AwaitedAt("action") = {}
    /\ pc \in BeforeProposal => EventsOf("proposal") = {}
    /\ \A i \in EventsOf("proposal") : queue[i].items = shown
    /\ \A j \in AwaitedAt("action") : PlanApproved /\ \E i \in EventsOf("proposal") : i < j
    /\ pc \in BeforeWork => consumed["plan"] = None
    /\ pc \in BeforeReview \cup {"action_wait"} => consumed["action"] = None

\* Where the events of a stream are after one more has been put on it.
LEMMA AppendedEvents ==
    ASSUME ServerTypeOK, NEW e \in AgentEvent(Ids), queue' = Append(queue, e)
    PROVE  /\ \A type : EventsOf(type)' =
                  IF type = e.type THEN EventsOf(type) \cup {Len(queue) + 1} ELSE EventsOf(type)
           /\ \A g : AwaitedAt(g)' =
                  IF e.type = "awaiting_approval" /\ e.gate = g
                  THEN AwaitedAt(g) \cup {Len(queue) + 1} ELSE AwaitedAt(g)
           /\ \A i \in 1 .. Len(queue) : queue'[i] = queue[i]
           /\ queue'[Len(queue) + 1] = e
           /\ Len(queue) \in Nat /\ Len(queue') = Len(queue) + 1
  <1>1. /\ Len(queue) \in Nat /\ Len(queue') = Len(queue) + 1
        /\ queue'[Len(queue) + 1] = e
        /\ \A i \in 1 .. Len(queue) : queue'[i] = queue[i]
    BY AppendProperties, LenProperties DEF ServerTypeOK
  <1>2. 1 .. Len(queue') = (1 .. Len(queue)) \cup {Len(queue) + 1}
    BY <1>1
  <1>3. \A type : EventsOf(type)' =
            IF type = e.type THEN EventsOf(type) \cup {Len(queue) + 1} ELSE EventsOf(type)
    BY <1>1, <1>2 DEF EventsOf
  <1>4. \A i \in EventsOf("awaiting_approval") : i \in 1 .. Len(queue)
    BY DEF EventsOf
  <1>5. \A g : AwaitedAt(g)' = IF e.type = "awaiting_approval" /\ e.gate = g
                               THEN AwaitedAt(g) \cup {Len(queue) + 1} ELSE AwaitedAt(g)
    <2> SUFFICES ASSUME NEW g
                 PROVE  AwaitedAt(g)' = IF e.type = "awaiting_approval" /\ e.gate = g
                                        THEN AwaitedAt(g) \cup {Len(queue) + 1} ELSE AwaitedAt(g)
      OBVIOUS
    <2>1. CASE e.type = "awaiting_approval"
      BY <1>1, <1>3, <1>4, <2>1 DEF AwaitedAt
    <2>2. CASE e.type # "awaiting_approval"
      BY <1>1, <1>3, <1>4, <2>2 DEF AwaitedAt
    <2> QED
      BY <2>1, <2>2
  <1> QED
    BY <1>1, <1>3, <1>5

\* The steps of a case that open no gate, propose nothing and consume nothing.
Quiet ==
    /\ UNCHANGED <<mailVars, shown>>
    /\ \/ queue' = queue
       \/ \E e \in AgentEvent(Ids) : /\ queue' = Append(queue, e)
                                     /\ e.type \notin {"awaiting_approval", "proposal"}
    /\ \A region \in {{"absent", "created", "plan"}, BeforeWork, BeforeProposal, BeforeReview,
                      BeforeReview \cup {"action_wait"}} : pc' \in region => pc \in region
    /\ pendingGate' \in {pendingGate, NoGate}

\* All steps but five are quiet.
LEMMA QuietSteps ==
    ASSUME IInv, (StartAuditCase /\ Keep) \/ TaskStep
    PROVE  \/ Quiet
           \/ AwaitPlan \/ AwaitAction \/ Propose \/ ResumePlan \/ ResumeAction
  <1> DEFINE Regions == {{"absent", "created", "plan"}, BeforeWork, BeforeProposal, BeforeReview,
                         BeforeReview \cup {"action_wait"}}
             Move(from, to) == \A region \in Regions : to \in region => from \in region
  <1>1. ASSUME NEW type \in EventTypes \ {"awaiting_approval", "proposal"},
               NEW items \in SUBSET Ids, NEW total \in Nat, NEW from, NEW to,
               Move(from, to), shown' = shown, Yield(from, Evt(type, items, total), to)
        PROVE  Quiet
    <2> DEFINE e == Evt(type, items, total)
    <2>1. e \in AgentEvent(Ids) /\ e.type = type
      BY <1>1, EventTypes_Evt
    <2>2. pc = from /\ pc' = to /\ queue' = Append(queue, e) /\ UNCHANGED mailVars
          /\ ApplyEvent(e)
      BY <1>1 DEF Yield, Relay
    <2> HIDE DEF e
    <2>3. pendingGate' \in {pendingGate, NoGate}
      BY <2>1, <2>2 DEF ApplyEvent
    <2> QED
      BY <1>1, <2>1, <2>2, <2>3 DEF Quiet
  <1>2. ASSUME NEW type \in EventTypes \ {"awaiting_approval", "proposal"}, NEW from, NEW to,
               Move(from, to), shown' = shown, Yield(from, Plain(type), to)
        PROVE  Quiet
    BY <1>1, <1>2 DEF Plain
  <1>3. ASSUME UNCHANGED <<mailVars, shown, queue>>, Move(pc, pc'), pendingGate' = pendingGate
        PROVE  Quiet
    BY <1>3 DEF Quiet
  <1>4. ASSUME NEW type \in {"error", "done"}, NEW from, NEW to, Move(from, to), shown' = shown,
               Announce(from, type, to)
        PROVE  Quiet
    <2>1. Unstamped(type) \in AgentEvent(Ids) /\ Unstamped(type).type = type
      BY DEF Unstamped, Plain, Evt, AgentEvent, EventTypes, Stages, StageOf
    <2> QED
      BY <1>4, <2>1 DEF Announce, Quiet, recordVars
  <1> USE DEF BeforeWork, BeforeProposal, BeforeReview
  <1>6. CASE EmitPlan \/ RejectPlan \/ CallRead \/ LoadDataset \/ CallQuery
    <2>1. Move("created", "plan") /\ Move("reject", "done") /\ Move("read_call", "loading")
          /\ Move("loading", "query_call") /\ Move("query_call", "querying")
      OBVIOUS
    <2> HIDE DEF Move
    <2> QED
      BY <1>2, <1>6, <2>1
         DEF EmitPlan, RejectPlan, CallRead, LoadDataset, CallQuery, EventTypes, Keep, locals,
             client
  <1>7. CASE QueryFails \/ QueryResult \/ CallAggregate \/ AggregateResult \/ Done
    <2>1. Move("querying", "query_result") /\ Move("query_result", "aggregate_call")
          /\ Move("aggregate_call", "aggregate_result") /\ Move("aggregate_result", "propose")
          /\ Move("done", "sentinel")
      OBVIOUS
    <2> HIDE DEF Move
    <2> QED
      BY <1>2, <1>7, <2>1
         DEF QueryFails, QueryResult, CallAggregate, AggregateResult, Done, EventTypes, Keep,
             locals
  <1>8. CASE WriteSucceeds \/ WriteSkipped \/ ReportReady
    <2>1. Move("writing", "report") /\ Move("no_url", "report") /\ Move("report", "cache")
      OBVIOUS
    <2>2. approvedItems \in SUBSET Ids /\ Cardinality(approvedItems) \in Nat
      BY Counts DEF IInv, TypeOK
    <2> HIDE DEF Move
    <2> QED
      BY <1>1, <1>8, <2>1, <2>2
         DEF WriteSucceeds, WriteSkipped, YieldWritten, ReportReady, YieldReport, EventTypes,
             Keep, locals, client
  <1>9. CASE LoadFails \/ RecordsFail \/ WriteRefused \/ WriteReplyLost
    BY <1>3, <1>9
       DEF LoadFails, RecordsFail, WriteRefused, WriteReplyLost, Raise, recordVars, Keep, locals,
           client
  <1>10. CASE \/ QueryAnswers \/ (StartAuditCase /\ Keep)
              \/ (CacheReport /\ Keep) \/ (PutSentinel /\ Keep)
    BY <1>3, <1>10
       DEF QueryAnswers, StartAuditCase, CacheReport, PutSentinel, recordVars, Keep, locals, client
  <1>11. CASE AnnounceError \/ AnnounceDone
    <2>1. Move("failed", "fail_done") /\ Move("fail_done", "sentinel")
      OBVIOUS
    <2> HIDE DEF Move
    <2> QED
      BY <1>4, <1>11, <2>1 DEF AnnounceError, AnnounceDone, Keep, locals, client
  <1> QED
    BY <1>6, <1>7, <1>8, <1>9, <1>10, <1>11 DEF TaskStep

\* Every step of a case keeps the order of its gates.
LEMMA GateStep ==
    ASSUME IInv, GateInv, [Next]_vars
    PROVE  GateInv'
  <1>0. ServerTypeOK /\ ProgressInv /\ MailInv
    BY DEF IInv, TypeOK
  <1>1. CASE Quiet
    <2>1. /\ UNCHANGED <<EventsOf("awaiting_approval"), EventsOf("proposal")>>
          /\ \A g : AwaitedAt(g)' = AwaitedAt(g)
          /\ \A i \in 1 .. Len(queue) : queue'[i] = queue[i]
      <3>1. CASE queue' = queue
        BY <3>1 DEF EventsOf, AwaitedAt
      <3>2. CASE \E e \in AgentEvent(Ids) : /\ queue' = Append(queue, e)
                                            /\ e.type \notin {"awaiting_approval", "proposal"}
        BY <1>0, <3>2, AppendedEvents
      <3> QED
        BY <1>1, <3>1, <3>2 DEF Quiet
    <2>2. \A i \in EventsOf("proposal") : queue'[i] = queue[i]
      BY <2>1 DEF EventsOf
    <2>3. UNCHANGED <<consumed, shown, PlanApproved>>
      BY <1>1 DEF Quiet, mailVars, PlanApproved
    <2> QED
      BY <1>1, <2>1, <2>2, <2>3 DEF GateInv, Quiet
  <1>2. ASSUME NEW g \in Gates, NEW from, OpenGate(from, g), shown' = shown,
               AwaitedAt(g) = {}
        PROVE  /\ \A h \in Gates :
                     AwaitedAt(h)' = IF h = g THEN {Len(queue) + 1} ELSE AwaitedAt(h)
               /\ EventsOf("proposal")' = EventsOf("proposal")
               /\ \A i \in EventsOf("proposal") : queue'[i] = queue[i] /\ i < Len(queue) + 1
               /\ pc = from /\ pc' = WaitPoint(g) /\ UNCHANGED <<consumed, PlanApproved>>
    <2> DEFINE e == Awaiting(g)
    <2>1. e \in AgentEvent(Ids) /\ e.type = "awaiting_approval" /\ e.gate = g
      BY EventTypes_Awaiting
    <2>2. queue' = Append(queue, e) /\ pc = from /\ pc' = WaitPoint(g) /\ UNCHANGED consumed
      BY <1>2 DEF OpenGate, Relay
    <2> HIDE DEF e
    <2>3. \A i \in EventsOf("proposal") : i \in 1 .. Len(queue)
      BY DEF EventsOf
    <2> QED
      BY <1>0, <1>2, <2>1, <2>2, <2>3, AppendedEvents DEF PlanApproved
  <1>3. CASE AwaitPlan
    <2>1. pc = "plan" /\ AwaitedAt("plan") = {} /\ shown' = shown
      BY <1>3 DEF AwaitPlan, OpenGate, GateInv, AwaitedAt, Keep, locals, client
    <2> QED
      BY <1>2, <1>3, <2>1
         DEF AwaitPlan, GateInv, Gates, WaitPoint, BeforeWork, BeforeProposal, BeforeReview
  <1>4. CASE AwaitAction
    <2>1. pc = "action" /\ AwaitedAt("action") = {} /\ shown' = shown
      BY <1>4 DEF AwaitAction, OpenGate, GateInv, Keep, locals, client, BeforeReview
    <2>2. PlanApproved /\ EventsOf("proposal") # {}
      BY <1>0, <2>1 DEF ProgressInv, PastPlan, PastProposal, InProposal
    <2> QED
      BY <1>2, <1>4, <2>1, <2>2
         DEF AwaitAction, GateInv, Gates, WaitPoint, BeforeWork, BeforeProposal, BeforeReview
  <1>5. CASE Propose
    <2>1. PICK total \in Nat, items \in SUBSET Ids :
             /\ Yield("propose", Evt("proposal", items, total), "action")
             /\ shown' = items
      BY <1>5, ProposeYields
    <2> DEFINE e == Evt("proposal", items, total)
    <2>2. e \in AgentEvent(Ids) /\ e.type = "proposal" /\ e.items = items
      BY EventTypes_Evt DEF EventTypes
    <2>3. queue' = Append(queue, e) /\ pc = "propose" /\ pc' = "action" /\ UNCHANGED consumed
      BY <2>1 DEF Yield, Relay, mailVars
    <2> HIDE DEF e
    <2>4. EventsOf("proposal") = {} /\ AwaitedAt("action") = {}
      BY <2>3 DEF GateInv, BeforeReview, BeforeProposal
    <2>5. /\ EventsOf("proposal")' = {Len(queue) + 1} /\ queue'[Len(queue) + 1] = e
          /\ EventsOf("awaiting_approval")' = EventsOf("awaiting_approval")
          /\ \A g \in Gates : AwaitedAt(g)' = AwaitedAt(g)
      BY <1>0, <2>2, <2>3, <2>4, AppendedEvents
    <2> QED
      BY <2>1, <2>2, <2>3, <2>4, <2>5
         DEF GateInv, Gates, BeforeWork, BeforeProposal, BeforeReview
  <1>6. CASE ResumePlan \/ ResumeAction
    <2>1. UNCHANGED <<queue, shown>>
          /\ (ResumePlan => pc = "plan_wait" /\ pc' \in {"read_call", "reject"})
          /\ (ResumeAction => pc = "action_wait" /\ pc' \in {"writing", "no_url"})
      BY <1>6 DEF ResumePlan, ResumeAction, TakeDecision, Keep, locals, client, WaitPoint
    <2>2. UNCHANGED <<EventsOf("awaiting_approval"), EventsOf("proposal"),
                      AwaitedAt("plan"), AwaitedAt("action")>>
      BY <2>1 DEF EventsOf, AwaitedAt
    <2>3. CASE ResumePlan
      <3>1. /\ consumed' = [consumed EXCEPT !["plan"] = mailbox]
            /\ consumed \in [Gates -> Mail \cup {None}]
        BY <1>0, <2>3 DEF ResumePlan, TakeDecision, ServerTypeOK
      <3> QED
        BY <2>1, <2>2, <2>3, <3>1
           DEF GateInv, Gates, BeforeWork, BeforeProposal, BeforeReview
    <2>4. CASE ResumeAction
      <3>1. /\ consumed' = [consumed EXCEPT !["action"] = mailbox]
            /\ consumed \in [Gates -> Mail \cup {None}]
        BY <1>0, <2>4 DEF ResumeAction, TakeDecision, ServerTypeOK
      <3>2. UNCHANGED PlanApproved
        BY <3>1 DEF PlanApproved, Gates
      <3> QED
        BY <2>1, <2>2, <2>4, <3>1, <3>2
           DEF GateInv, Gates, BeforeWork, BeforeProposal, BeforeReview
    <2> QED
      BY <1>6, <2>3, <2>4
  <1>7. CASE Approve \/ TokenChanges \/ UNCHANGED vars
    <2>1. UNCHANGED <<pc, queue, consumed, shown>>
      BY <1>7 DEF Approve, TokenChanges, PushApproval, DeliverDecision, Keep, locals, client,
                  vars, serverVars, mailVars
    <2> QED
      BY <2>1 DEF GateInv, EventsOf, AwaitedAt, PlanApproved
  <1> QED
    BY <1>1, <1>3, <1>4, <1>5, <1>6, <1>7, QuietSteps DEF Next

\* No gate has been opened in the initial state.
LEMMA GateInit == Init => GateInv
  BY DEF Init, ServerInit, GateInv, EventsOf, AwaitedAt, Gates, BeforeWork

-------------------------------------------------------------------------------
(* Which cases are closed when their stream is *)

\* DONE ends a stream; a case that is not closed then has failed on the way.
DoneInv ==
    /\ EventsOf("done") # {} => pc \in Ending
    /\ pc \in Ending => stage = "closed" \/ (report = None /\ PlanApproved)

\* Steps on the way to the end stream no DONE.
LEMMA NoDoneYet ==
    ASSUME IInv, EventsOf("done") = {},
           \/ EmitPlan \/ AwaitPlan \/ ResumePlan \/ RejectPlan
           \/ CallRead \/ LoadDataset \/ LoadFails
           \/ CallQuery \/ QueryAnswers \/ QueryFails \/ QueryResult
           \/ CallAggregate \/ AggregateResult
           \/ Propose \/ RecordsFail \/ AwaitAction \/ ResumeAction
           \/ WriteSucceeds \/ WriteSkipped \/ WriteRefused \/ WriteReplyLost
           \/ ReportReady \/ AnnounceError \/ CacheReport \/ StartAuditCase
    PROVE  pc' \notin Ending /\ EventsOf("done")' = {}
  <1>0. ServerTypeOK
    BY DEF IInv, TypeOK
  <1> USE DEF Ending
  <1>1. ASSUME NEW type \in EventTypes \ {"done"}, NEW from, NEW to, to \notin Ending,
               Yield(from, Plain(type), to)
        PROVE  pc' \notin Ending /\ EventsOf("done")' = {}
    BY <1>0, <1>1, PlainFacts
  <1>2. ASSUME NEW type \in EventTypes \ {"done"}, NEW items \in SUBSET Ids, NEW total \in Nat,
               NEW from, NEW to, to \notin Ending, Yield(from, Evt(type, items, total), to)
        PROVE  pc' \notin Ending /\ EventsOf("done")' = {}
    BY <1>0, <1>2, YieldFacts
  <1>3. CASE EmitPlan \/ RejectPlan \/ CallRead \/ LoadDataset \/ CallQuery
    BY <1>1, <1>3 DEF EmitPlan, RejectPlan, CallRead, LoadDataset, CallQuery, EventTypes
  <1>4. CASE QueryFails \/ QueryResult \/ CallAggregate \/ AggregateResult
    BY <1>1, <1>4 DEF QueryFails, QueryResult, CallAggregate, AggregateResult, EventTypes
  <1>5. CASE AwaitPlan \/ AwaitAction
    <2>1. PICK g \in Gates : pc' = WaitPoint(g) /\ queue' = Append(queue, Awaiting(g))
      BY <1>5 DEF AwaitPlan, AwaitAction, OpenGate, Relay, Gates
    <2> QED
      BY <1>0, <2>1, EventTypes_Awaiting, AppendedEvents DEF WaitPoint
  <1>6. CASE Propose
    <2>1. PICK total \in Nat, items \in SUBSET Ids :
             Yield("propose", Evt("proposal", items, total), "action")
      BY <1>6, ProposeYields
    <2>2. "proposal" \in EventTypes \ {"done"} /\ "action" \notin Ending
      BY DEF EventTypes
    <2> QED
      BY <1>2, <2>1, <2>2
  <1>7. CASE WriteSucceeds \/ WriteSkipped \/ ReportReady
    <2>1. approvedItems \in SUBSET Ids /\ Cardinality(approvedItems) \in Nat
      BY Counts DEF IInv, TypeOK
    <2>2. {"written", "report_ready"} \subseteq EventTypes \ {"done"} /\ 0 \in Nat
          /\ "report" \notin Ending /\ "cache" \notin Ending /\ {} \in SUBSET Ids
      BY DEF EventTypes
    <2>3. CASE WriteSucceeds \/ WriteSkipped
      <3>1. PICK from :
               Yield(from, Evt("written", {}, Cardinality(approvedItems)), "report")
        BY <2>3 DEF WriteSucceeds, WriteSkipped, YieldWritten
      <3> QED
        BY <1>2, <2>1, <2>2, <3>1
    <2>4. CASE ReportReady
      <3>1. Yield("report", Evt("report_ready", approvedItems, 0), "cache")
        BY <2>4 DEF ReportReady, YieldReport
      <3> QED
        BY <1>2, <2>1, <2>2, <3>1
    <2> QED
      BY <1>7, <2>3, <2>4
  <1>8. CASE AnnounceError
    BY <1>0, <1>8, AnnounceFacts DEF AnnounceError, EventTypes
  <1>9. CASE \/ ResumePlan \/ ResumeAction \/ QueryAnswers \/ LoadFails \/ RecordsFail
             \/ WriteRefused \/ WriteReplyLost \/ CacheReport \/ StartAuditCase
    <2>1. queue' = queue /\ pc' \notin Ending
      BY <1>9 DEF ResumePlan, ResumeAction, TakeDecision, QueryAnswers, LoadFails, RecordsFail,
                  WriteRefused, WriteReplyLost, Raise, CacheReport, StartAuditCase
    <2> QED
      BY <2>1 DEF EventsOf
  <1> QED
    BY <1>3, <1>4, <1>5, <1>6, <1>7, <1>8, <1>9

\* Every step keeps a case that has not failed on the way to being closed.
LEMMA DoneStep ==
    ASSUME IInv, DoneInv, [Next]_vars
    PROVE  DoneInv'
  <1>0. ServerTypeOK /\ ProgressInv
    BY DEF IInv, TypeOK
  <1>1. CASE Done
    <2>1. pc' = "sentinel" /\ stage' = "closed"
      BY <1>1 DEF Done, Yield, Relay, ApplyEvent, Plain, Evt
    <2> QED
      BY <2>1 DEF DoneInv, Ending
  <1>2. CASE AnnounceDone
    <2>1. pc = "fail_done" /\ pc' = "sentinel" /\ UNCHANGED <<consumed, report>>
      BY <1>0, <1>2, AnnounceFacts DEF AnnounceDone, EventTypes
    <2> QED
      BY <1>0, <2>1 DEF DoneInv, Ending, ProgressInv, PastPlan, PlanApproved
  <1>3. CASE PutSentinel \/ Approve \/ TokenChanges \/ UNCHANGED vars
    <2>1. /\ UNCHANGED <<queue, stage, report, consumed>>
          /\ pc' = pc \/ (pc \in Ending /\ pc' \in Ending)
      BY <1>3 DEF PutSentinel, Approve, TokenChanges, PushApproval, DeliverDecision,
                  recordVars, mailVars, vars, serverVars, Ending
    <2> QED
      BY <2>1 DEF DoneInv, EventsOf, PlanApproved
  <1>4. CASE Next /\ ~(Done \/ AnnounceDone \/ PutSentinel \/ Approve \/ TokenChanges)
    <2>1. pc \notin Ending
      BY <1>4 DEF Next, TaskStep, Ending, EmitPlan, AwaitPlan, ResumePlan, RejectPlan, CallRead,
                  LoadDataset, LoadFails, CallQuery, QueryAnswers, QueryFails, QueryResult,
                  CallAggregate, AggregateResult, Propose, RecordsFail, AwaitAction,
                  ResumeAction, WriteSucceeds, WriteSkipped, YieldWritten, WriteRefused,
                  WriteReplyLost, ReportReady,
                  AnnounceError, CacheReport, StartAuditCase, Yield, OpenGate, TakeDecision,
                  Announce, YieldReport, WaitPoint
    <2>2. EventsOf("done") = {}
      BY <2>1 DEF DoneInv
    <2> QED
      BY <1>4, <2>2, NoDoneYet DEF Next, TaskStep, DoneInv
  <1> QED
    BY <1>1, <1>2, <1>3, <1>4 DEF Next

\* A case whose plan was rejected or whose report is out is closed as soon as its
\* DONE is streamed: the poll never shows a case closed only if a call failed
\* before the report (store.py:92, app.py:70-78).
THEOREM OnlyFailedStayOpen ==
    Spec => [](PlanRejected \/ report # None => StreamedDoneClosesCase)
  <1>1. Init => DoneInv
    BY DEF Init, ServerInit, DoneInv, EventsOf, Ending
  <1>2. IInv /\ DoneInv => (PlanRejected \/ report # None => StreamedDoneClosesCase)
    BY DEF DoneInv, PlanRejected, PlanApproved, StreamedDoneClosesCase
  <1> QED
    BY <1>1, <1>2, DoneStep, Invariance, PTL DEF Spec
==============================================================================
