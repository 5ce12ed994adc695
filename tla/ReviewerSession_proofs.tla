------------------------ MODULE ReviewerSession_proofs ------------------------
(***************************************************************************)
(* With the one client of ReviewerSession the case stays a case of         *)
(* UiPathRunner, so everything proved there holds here; and which decision *)
(* reaches which gate is settled for every number of retries at Gate 1,    *)
(* and at Gate 2 when nothing is posted twice.                             *)
(***************************************************************************)
EXTENDS ReviewerSession, UiPathRunner_proofs

\* Only what was decided is posted, and only what was posted is in flight.
ClientInv ==
    /\ ClientTypeOK
    /\ \A g \in Gates : attempts[g] > 0 => answer[g] # None
    /\ \A g \in Gates : answer[g] # None => answer[g].gate = g

\* Mail that reaches Gate 1 is the reviewer's answer to the plan, because Gate 2
\* is not shown, hence not answered, before Gate 1 is passed.
PlanMail ==
    /\ pc \in BeforeWork => consumed["plan"] = None
    /\ answer["action"] # None => consumed["plan"] # None
    /\ consumed["plan"] = None /\ mailbox # None =>
          answer["plan"] # None /\ mailbox.decision = answer["plan"]
    /\ consumed["plan"] # None =>
          answer["plan"] # None /\ consumed["plan"].decision = answer["plan"]

\* If nothing is posted twice, no plan decision is left over for Gate 2.
ActionMail ==
    /\ \A g \in Gates : answer[g] # None => attempts[g] > 0
    /\ PostedOnce =>
          /\ mailbox # None \/ consumed["plan"] # None => inFlight["plan"] = 0
          /\ consumed["plan"] # None /\ mailbox # None =>
                answer["action"] # None /\ mailbox.decision = answer["action"]
          /\ consumed["action"] # None =>
                answer["action"] # None /\ consumed["action"].decision = answer["action"]

SInv == IInv /\ ClientInv /\ PlanMail

-------------------------------------------------------------------------------

\* A step of the session is a step of the case: the client's own steps stutter,
\* and a received post is an approval by some client.
LEMMA StepRefines == ClientInv /\ [SessionNext]_sessionVars => [Next]_vars
  <1> SUFFICES ASSUME ClientInv, [SessionNext]_sessionVars PROVE [Next]_vars
    OBVIOUS
  <1>1. CASE ServerStep
    BY <1>1 DEF ServerStep, Next
  <1>2. ASSUME NEW g \in Gates, Decide(g) \/ Retry(g) \/ Lose(g) PROVE UNCHANGED vars
    BY <1>2 DEF Decide, Retry, Lose
  <1>3. ASSUME NEW g \in Gates, Receive(g) PROVE Approve
    <2>1. answer[g] \in Decisions
      BY <1>3 DEF Receive, ClientInv, ClientTypeOK
    <2> QED
      BY <1>3, <2>1 DEF Receive, Approve
  <1>4. CASE UNCHANGED sessionVars
    BY <1>4 DEF sessionVars
  <1> QED
    BY <1>1, <1>2, <1>3, <1>4 DEF SessionNext, ClientStep, Next

\* What each client step does to the client's variables.
LEMMA ClientStepInv == ClientInv /\ [SessionNext]_sessionVars => ClientInv'
  <1> SUFFICES ASSUME ClientInv, [SessionNext]_sessionVars PROVE ClientInv'
    OBVIOUS
  <1> USE SessionAssumption DEF ClientInv, ClientTypeOK
  <1>1. ASSUME NEW g \in Gates, Decide(g) PROVE ClientInv'
    <2>1. attempts[g] = 0 /\ inFlight[g] = 0
      BY <1>1 DEF Decide
    <2>2. PICK d \in Decisions : d.gate = g /\ answer' = [answer EXCEPT ![g] = d]
      BY <1>1 DEF Decide
    <2>3. d # None
      BY SessionAssumption
    <2>4. /\ attempts' = [attempts EXCEPT ![g] = 1]
          /\ inFlight' = [inFlight EXCEPT ![g] = 1]
      BY <1>1, <2>1 DEF Decide, Post
    <2>5. \A h \in Gates : answer'[h] # None => answer'[h].gate = h
      BY <2>2
    <2> QED
      BY <2>2, <2>3, <2>4, <2>5
  <1>2. ASSUME NEW g \in Gates, Retry(g) PROVE ClientInv'
    BY <1>2 DEF Retry, Post
  <1>3. ASSUME NEW g \in Gates, Lose(g) \/ Receive(g) PROVE ClientInv'
    BY <1>3 DEF Lose, Receive
  <1>4. CASE ServerStep \/ UNCHANGED sessionVars
    BY <1>4 DEF ServerStep, sessionVars, clientVars
  <1> QED
    BY <1>1, <1>2, <1>3, <1>4 DEF SessionNext, ClientStep

\* What the steps of the task do to the mailbox: only the two gates touch it.
LEMMA TaskMailbox ==
    ASSUME IInv, (StartAuditCase /\ Keep) \/ TaskStep \/ TokenChanges
    PROVE  \/ /\ UNCHANGED <<mailbox, consumed>>
              /\ pc' \in BeforeWork => pc \in BeforeWork
           \/ \E g \in Gates :
                 /\ pc = WaitPoint(g) /\ pc' \notin BeforeWork
                 /\ mailbox # None /\ mailbox' = None
                 /\ consumed' = [consumed EXCEPT ![g] = mailbox]
  <1>1. ASSUME NEW g \in Gates, TakeDecision(g), pc' \notin BeforeWork
        PROVE  /\ pc = WaitPoint(g) /\ mailbox # None /\ mailbox' = None
               /\ consumed' = [consumed EXCEPT ![g] = mailbox]
    BY <1>1 DEF TakeDecision, IInv, MailInv, WokenWithDecision
  <1>2. CASE ResumePlan
    <2>1. TakeDecision("plan") /\ pc' \notin BeforeWork
      BY <1>2 DEF ResumePlan, BeforeWork
    <2> QED
      BY <1>1, <2>1 DEF Gates
  <1>3. CASE ResumeAction
    <2>1. TakeDecision("action") /\ pc' \notin BeforeWork
      BY <1>3 DEF ResumeAction, BeforeWork
    <2> QED
      BY <1>1, <2>1 DEF Gates
  <1>4. CASE ~ResumePlan /\ ~ResumeAction
    <2> USE DEF BeforeWork, mailVars, WaitPoint
    <2>1. CASE StartAuditCase \/ TokenChanges
      BY <2>1 DEF StartAuditCase, TokenChanges, serverVars
    <2>2. CASE EmitPlan \/ RejectPlan \/ CallRead \/ LoadDataset \/ CallQuery \/ QueryFails
      BY <2>2 DEF EmitPlan, RejectPlan, CallRead, LoadDataset, CallQuery, QueryFails, Yield
    <2>3. CASE QueryResult \/ CallAggregate \/ AggregateResult \/ Propose
      BY <2>3 DEF QueryResult, CallAggregate, AggregateResult, Propose, Yield
    <2>4. CASE ReportReady \/ Done \/ CacheReport \/ PutSentinel \/ QueryAnswers
      BY <2>4 DEF ReportReady, YieldReport, Done, CacheReport, PutSentinel, QueryAnswers, Yield
    <2>5. CASE AwaitPlan \/ AwaitAction
      BY <2>5 DEF AwaitPlan, AwaitAction, OpenGate
    <2>6. CASE LoadFails \/ RecordsFail \/ WriteRefused \/ WriteReplyLost
      BY <2>6 DEF LoadFails, RecordsFail, WriteRefused, WriteReplyLost, Raise
    <2>7. CASE AnnounceError \/ AnnounceDone
      BY <2>7 DEF AnnounceError, AnnounceDone, Announce
    <2>8. CASE WriteSucceeds \/ WriteSkipped
      BY <2>8 DEF WriteSucceeds, WriteSkipped, YieldWritten, Yield
    <2> QED
      BY <1>4, <2>1, <2>2, <2>3, <2>4, <2>5, <2>6, <2>7, <2>8 DEF TaskStep
  <1> QED
    BY <1>2, <1>3, <1>4

\* A gate is decided while the task is blocked at it; at Gate 2 the plan is passed.
LEMMA DecideFacts ==
    ASSUME IInv, NEW g \in Gates, pendingGate = g \/ pc = WaitPoint(g)
    PROVE  g = "action" => consumed["plan"] # None
  <1>1. pc = WaitPoint(g)
    BY DEF IInv, MailInv, PendingGateIsBlockedGate, Gates, NoGate
  <1> QED
    BY <1>1 DEF IInv, ProgressInv, PastPlan, PlanApproved, WaitPoint

\* Every step of the session keeps the plan's mail in order.
LEMMA PlanMailInv == SInv /\ [SessionNext]_sessionVars => PlanMail'
  <1> SUFFICES ASSUME SInv, [SessionNext]_sessionVars PROVE PlanMail'
    OBVIOUS
  <1>0. consumed \in [Gates -> Mail \cup {None}]
    BY DEF SInv, IInv, TypeOK, ServerTypeOK
  <1> USE DEF SInv, PlanMail, Gates
  <1>1. CASE ServerStep
    <2>1. UNCHANGED answer /\ ((StartAuditCase /\ Keep) \/ TaskStep \/ TokenChanges)
      BY <1>1 DEF ServerStep, clientVars
    <2>2. CASE UNCHANGED <<mailbox, consumed>> /\ (pc' \in BeforeWork => pc \in BeforeWork)
      BY <2>1, <2>2
    <2>3. ASSUME NEW g \in Gates, pc = WaitPoint(g), pc' \notin BeforeWork,
                 mailbox # None, mailbox' = None,
                 consumed' = [consumed EXCEPT ![g] = mailbox]
          PROVE  PlanMail'
      <3>1. CASE g = "plan"
        BY <1>0, <2>1, <2>3, <3>1 DEF WaitPoint, BeforeWork
      <3>2. CASE g = "action"
        BY <1>0, <2>1, <2>3, <3>2, DecideFacts
      <3> QED
        BY <3>1, <3>2
    <2> QED
      BY <2>1, <2>2, <2>3, TaskMailbox
  <1>2. ASSUME NEW g \in Gates, Decide(g) PROVE PlanMail'
    <2>1. UNCHANGED <<pc, mailbox, consumed>> /\ answer[g] = None /\ pendingGate = g
      BY <1>2 DEF Decide, vars, serverVars, mailVars
    <2>2. \A h \in Gates : h # g => answer'[h] = answer[h]
      BY <1>2 DEF Decide, ClientInv, ClientTypeOK
    <2>3. answer["plan"] # None => answer'["plan"] = answer["plan"]
      BY <2>1, <2>2
    <2>4. answer'["action"] # None => consumed["plan"] # None
      BY <2>1, <2>2, DecideFacts
    <2> QED
      BY <2>1, <2>3, <2>4
  <1>3. ASSUME NEW g \in Gates, Retry(g) \/ Lose(g) PROVE PlanMail'
    BY <1>3 DEF Retry, Lose, vars, serverVars, mailVars
  <1>4. ASSUME NEW g \in Gates, Receive(g) PROVE PlanMail'
    <2>1. UNCHANGED <<pc, consumed, answer>> /\ mailbox'.decision = answer[g]
      BY <1>4 DEF Receive, PushApproval, DeliverDecision
    <2>2. answer[g] # None
      BY <1>4 DEF Receive, ClientInv, ClientTypeOK
    <2> QED
      BY <2>1, <2>2
  <1>5. CASE UNCHANGED sessionVars
    BY <1>5 DEF sessionVars, vars, serverVars, mailVars, clientVars
  <1> QED
    BY <1>1, <1>2, <1>3, <1>4, <1>5 DEF SessionNext, ClientStep

\* Every step keeps the action's mail in order as well.
LEMMA ActionMailInv == SInv /\ ActionMail /\ [SessionNext]_sessionVars => ActionMail'
  <1> SUFFICES ASSUME SInv, ActionMail, [SessionNext]_sessionVars PROVE ActionMail'
    OBVIOUS
  <1>0. consumed \in [Gates -> Mail \cup {None}]
    BY DEF SInv, IInv, TypeOK, ServerTypeOK
  <1>00. ClientTypeOK /\ PlanMail /\ IInv
    BY DEF SInv, ClientInv
  <1> USE DEF ActionMail, PlanMail, Gates, PostedOnce
  <1>1. CASE ServerStep
    <2>1. /\ UNCHANGED <<answer, attempts, inFlight>>
          /\ (StartAuditCase /\ Keep) \/ TaskStep \/ TokenChanges
      BY <1>1 DEF ServerStep, clientVars
    <2>2. CASE UNCHANGED <<mailbox, consumed>>
      BY <2>1, <2>2
    <2>3. ASSUME NEW g \in Gates, pc = WaitPoint(g), mailbox # None, mailbox' = None,
                 consumed' = [consumed EXCEPT ![g] = mailbox]
          PROVE  ActionMail'
      <3>1. CASE g = "plan"
        BY <1>0, <2>1, <2>3, <3>1
      <3>2. CASE g = "action"
        BY <1>0, <1>00, <2>1, <2>3, <3>2, DecideFacts
      <3> QED
        BY <3>1, <3>2
    <2> QED
      BY <1>00, <2>1, <2>2, <2>3, TaskMailbox
  <1>2. ASSUME NEW g \in Gates, Decide(g) PROVE ActionMail'
    <2>1. UNCHANGED <<mailbox, consumed>> /\ answer[g] = None /\ pendingGate = g
      BY <1>2 DEF Decide, vars, serverVars, mailVars
    <2>2. \A h \in Gates : h # g => answer'[h] = answer[h] /\ attempts'[h] = attempts[h]
                                   /\ inFlight'[h] = inFlight[h]
      BY <1>00, <1>2 DEF Decide, Post, ClientTypeOK
    <2>3. attempts[g] = 0 /\ attempts'[g] = 1
      BY <1>00, <1>2, <2>1 DEF Decide, Post, ClientTypeOK, SInv, ClientInv
    <2>4. CASE g = "plan"
      BY <1>00, <2>1, <2>2, <2>3, <2>4
    <2>5. CASE g = "action"
      BY <1>00, <2>1, <2>2, <2>3, <2>5
    <2> QED
      BY <2>4, <2>5
  <1>3. ASSUME NEW g \in Gates, Retry(g) PROVE ActionMail'
    <2>1. UNCHANGED <<mailbox, consumed, answer>> /\ answer[g] # None
      BY <1>3 DEF Retry, vars, serverVars, mailVars
    <2>2. attempts[g] \in Nat /\ attempts[g] > 0
      BY <1>00, <2>1 DEF ClientTypeOK
    <2>3. attempts'[g] = attempts[g] + 1
      BY <1>00, <1>3 DEF Retry, Post, ClientTypeOK
    <2>4. ~PostedOnce'
      BY <2>2, <2>3
    <2>5. \A h \in Gates : h # g => attempts'[h] = attempts[h]
      BY <1>00, <1>3 DEF Retry, Post, ClientTypeOK
    <2> QED
      BY <2>1, <2>2, <2>3, <2>4, <2>5
  <1>4. ASSUME NEW g \in Gates, Lose(g) PROVE ActionMail'
    <2>1. UNCHANGED <<mailbox, consumed, answer, attempts>> /\ inFlight[g] > 0
      BY <1>4 DEF Lose, vars, serverVars, mailVars
    <2>2. inFlight["plan"] = 0 => inFlight'["plan"] = 0
      BY <1>00, <1>4, <2>1 DEF Lose, ClientTypeOK
    <2> QED
      BY <2>1, <2>2
  <1>5. ASSUME NEW g \in Gates, Receive(g) PROVE ActionMail'
    <2>1. /\ UNCHANGED <<consumed, answer, attempts>> /\ mailbox'.decision = answer[g]
          /\ inFlight[g] > 0 /\ inFlight' = [inFlight EXCEPT ![g] = @ - 1]
      BY <1>5 DEF Receive, PushApproval, DeliverDecision
    <2>2. answer[g] # None /\ (PostedOnce => inFlight[g] = 1)
      BY <1>00, <2>1 DEF SInv, ClientInv, ClientTypeOK
    <2>3. CASE g = "plan"
      BY <1>00, <2>1, <2>2, <2>3 DEF ClientTypeOK
    <2>4. CASE g = "action"
      BY <1>00, <2>1, <2>2, <2>4 DEF ClientTypeOK
    <2> QED
      BY <2>3, <2>4
  <1>6. CASE UNCHANGED sessionVars
    BY <1>6 DEF sessionVars, vars, serverVars, mailVars, clientVars
  <1> QED
    BY <1>1, <1>2, <1>3, <1>4, <1>5, <1>6 DEF SessionNext, ClientStep

-------------------------------------------------------------------------------

\* The strengthened invariant, from the one of UiPathRunner.
LEMMA SessionInvariance == SessionSpec => []SInv
  <1>1. SessionInit => SInv
    <2> SUFFICES ASSUME SessionInit PROVE SInv
      OBVIOUS
    <2>1. IInv
      BY InitInv DEF SessionInit
    <2>2. ClientInv
      BY SessionAssumption DEF SessionInit, ClientInv, ClientTypeOK
    <2>3. PlanMail
      BY DEF SessionInit, Init, ServerInit, PlanMail, Gates
    <2> QED
      BY <2>1, <2>2, <2>3 DEF SInv
  <1>2. SInv /\ [SessionNext]_sessionVars => SInv'
    BY StepRefines, StepInv, ClientStepInv, PlanMailInv DEF SInv
  <1> QED
    BY <1>1, <1>2, PTL DEF SessionSpec

\* The session implements the case: with this client the service does nothing
\* that UiPathRunner does not allow, so its theorems hold for the session.
THEOREM SessionImplementsCase == SessionSpec => Spec
  <1>1. SInv /\ [SessionNext]_sessionVars => [Next]_vars
    BY StepRefines DEF SInv
  <1> QED
    BY <1>1, SessionInvariance, PTL DEF SessionSpec, SessionInit, Spec

\* Maestro posts at most MaxAttempts times per gate, and never counts more posts
\* under way than it made.
THEOREM ClientTypeCorrect == SessionSpec => []ClientTypeOK
  <1>1. SInv => ClientTypeOK
    BY DEF SInv, ClientInv
  <1> QED
    BY <1>1, SessionInvariance, PTL

\* However often the plan's decision is posted, lost or delayed, what Gate 1
\* consumes is what the reviewer decided about the plan.
THEOREM PlanHonoured == SessionSpec => []PlanAnswerHonoured
  <1>1. SInv => PlanAnswerHonoured
    BY DEF SInv, PlanMail, PlanAnswerHonoured
  <1> QED
    BY <1>1, SessionInvariance, PTL

\* As long as nothing was posted twice, Gate 2 consumes what the reviewer decided
\* about the findings; so nothing is written without a decision for Gate 2.
THEOREM ActionHonouredOnce ==
    SessionSpec => [](ActionAnswerHonoured /\ (PostedOnce => WriteNeedsGate2Decision))
  <1>1. SessionInit => ActionMail
    BY DEF SessionInit, Init, ServerInit, ActionMail, Gates
  <1>2. SInv /\ ActionMail /\ [SessionNext]_sessionVars => ActionMail'
    BY ActionMailInv
  <1>3. SInv /\ ActionMail => ActionAnswerHonoured /\ (PostedOnce => WriteNeedsGate2Decision)
    <2> SUFFICES ASSUME SInv, ActionMail, PostedOnce
                 PROVE  ActionAnswerHonoured /\ WriteNeedsGate2Decision
      BY DEF ActionAnswerHonoured
    <2>1. EventsOf("written") # {} => consumed["action"] # None
      BY DEF SInv, IInv, ProgressInv, NothingLogged, Logged, Chosen, ActionConsumed
    <2>2. answer["action"] # None => answer["action"].gate = "action"
      BY DEF SInv, ClientInv, Gates
    <2> QED
      BY <2>1, <2>2 DEF ActionMail, ActionAnswerHonoured, WriteNeedsGate2Decision
  <1> QED
    BY <1>1, <1>2, <1>3, SessionInvariance, PTL DEF SessionSpec
===============================================================================
