-------------------------- MODULE CaseServer_proofs --------------------------
(***************************************************************************)
(* Lemmas about the actions every runner is built from.  A runner's proof  *)
(* cites them once per step: for the types, and for MailInv, the part of   *)
(* the inductive invariant that ties the poll, the event and the mailbox.  *)
(***************************************************************************)
EXTENDS CaseServer, SequenceTheorems, TLAPS

\* The four mailbox properties together, with what makes them inductive: a woken
\* task finds a decision that was posted where the task still stands.
MailInv ==
    /\ PendingGateIsBlockedGate
    /\ WokenWithDecision
    /\ signal = "set" => mailbox.postedAt = pc
    /\ DecisionIsFresh

Waits == {"plan_wait", "action_wait"}

\* Every event the runners build is an event: helpers of models.py.
LEMMA EventTypes_Evt ==
    ASSUME NEW type \in EventTypes, NEW items \in SUBSET Ids, NEW total \in Nat
    PROVE  /\ Evt(type, items, total) \in AgentEvent(Ids)
           /\ Evt(type, items, total).type = type
           /\ Evt(type, items, total).items = items
           /\ Evt(type, items, total).gate = NoGate
           /\ Evt(type, items, total).stage = StageOf(type, NoGate)
  BY DEF Evt, AgentEvent, StageOf, Stages, EventTypes

\* The same for the gate events.
LEMMA EventTypes_Awaiting ==
    ASSUME NEW g \in Gates
    PROVE  /\ Awaiting(g) \in AgentEvent(Ids)
           /\ Awaiting(g).type = "awaiting_approval"
           /\ Awaiting(g).gate = g
           /\ Awaiting(g).stage \in Stages
  BY DEF Awaiting, Plain, Evt, AgentEvent, StageOf, Stages, EventTypes, Gates

\* An event put on the queue joins the events of its type and changes no other.
LEMMA AppendQueue ==
    ASSUME NEW e \in AgentEvent(Ids), ServerTypeOK, queue' = Append(queue, e)
    PROVE  /\ queue' \in Seq(AgentEvent(Ids)) /\ queue' # <<>> /\ LastEvent' = e
           /\ \A i \in 1 .. Len(queue) : i \in 1 .. Len(queue') /\ queue'[i] = queue[i]
           /\ \A type : type # e.type => EventsOf(type)' = EventsOf(type)
           /\ \A type : EventsOf(type) \subseteq EventsOf(type)'
           /\ Len(queue) + 1 \in EventsOf(e.type)'
           /\ queue'[Len(queue) + 1] = e
  <1>1. queue' = Append(queue, e) /\ queue \in Seq(AgentEvent(Ids))
    BY DEF ServerTypeOK
  <1>2. /\ Len(queue) \in Nat
        /\ queue' \in Seq(AgentEvent(Ids))
        /\ Len(queue') = Len(queue) + 1
        /\ queue'[Len(queue) + 1] = e
        /\ \A i \in 1 .. Len(queue) : queue'[i] = queue[i]
    BY <1>1, AppendProperties, LenProperties
  <1>3. 1 .. Len(queue') = (1 .. Len(queue)) \cup {Len(queue) + 1}
    BY <1>2
  <1>4. \A i \in 1 .. Len(queue) : i # Len(queue) + 1
    BY <1>2
  <1>5. queue' # <<>> /\ LastEvent' = e
    BY <1>1, <1>2 DEF LastEvent
  <1> QED
    BY <1>2, <1>3, <1>4, <1>5 DEF EventsOf

\* Relaying an event keeps the record and the queue well typed.
LEMMA RelayType ==
    ASSUME NEW e \in AgentEvent(Ids), ServerTypeOK, Relay(e)
    PROVE  /\ stage' \in Stages
           /\ pendingGate' \in Gates \cup {NoGate}
           /\ exceptionCount' \in Nat
           /\ report' = None \/ report' \in SUBSET Ids
           /\ queue' \in Seq(AgentEvent(Ids))
  <1>1. stage' \in Stages /\ report' = report /\ exceptionCount' \in Nat
    BY DEF Relay, ApplyEvent, ServerTypeOK, AgentEvent, Stages
  <1>2. pendingGate' \in Gates \cup {NoGate}
    BY DEF Relay, ApplyEvent, ServerTypeOK, AgentEvent
  <1>3. queue' \in Seq(AgentEvent(Ids))
    BY AppendQueue DEF Relay
  <1> QED
    BY <1>1, <1>2, <1>3 DEF ServerTypeOK

\* A yield keeps the types.
LEMMA YieldType ==
    ASSUME NEW e \in AgentEvent(Ids), NEW from, NEW to, ServerTypeOK, Yield(from, e, to)
    PROVE  ServerTypeOK'
  <1>1. Relay(e) /\ UNCHANGED <<mailVars, ended, strays>>
    BY DEF Yield
  <1> QED
    BY <1>1, RelayType DEF ServerTypeOK, mailVars

\* Opening a gate keeps the types.
LEMMA OpenGateType ==
    ASSUME NEW g \in Gates, NEW from, ServerTypeOK, OpenGate(from, g)
    PROVE  ServerTypeOK'
  <1>1. Relay(Awaiting(g)) /\ signal' = "unset" /\ UNCHANGED <<mailbox, consumed, ended, strays>>
    BY DEF OpenGate
  <1>2. Awaiting(g) \in AgentEvent(Ids)
    BY EventTypes_Awaiting
  <1> QED
    BY <1>1, <1>2, RelayType DEF ServerTypeOK

\* An approval keeps the types.
LEMMA PushApprovalType ==
    ASSUME NEW d \in Decisions, ServerTypeOK, PushApproval(d)
    PROVE  ServerTypeOK'
  <1>1. mailbox' \in Mail
    BY ConstantsAssumption DEF PushApproval, DeliverDecision, Mail
  <1>2. strays' \in 0 .. MaxStrays
    BY ConstantsAssumption DEF PushApproval, ServerTypeOK
  <1> QED
    BY <1>1, <1>2 DEF PushApproval, DeliverDecision, ServerTypeOK

\* Taking the decision keeps the types.
LEMMA TakeDecisionType ==
    ASSUME NEW g \in Gates, ServerTypeOK, TakeDecision(g)
    PROVE  ServerTypeOK'
  <1>1. consumed' \in [Gates -> Mail \cup {None}]
    BY DEF TakeDecision, ServerTypeOK
  <1> QED
    BY <1>1 DEF TakeDecision, ServerTypeOK, recordVars

-------------------------------------------------------------------------------

\* Between the gates nothing is pending and nobody is woken, so a yield cannot
\* disturb the mailbox.
LEMMA YieldMail ==
    ASSUME NEW e, NEW from, NEW to, MailInv, ServerTypeOK, Yield(from, e, to),
           from \notin Waits, to \notin Waits, e.type # "awaiting_approval"
    PROVE  MailInv'
  <1>1. pc = from /\ pc' = to /\ UNCHANGED <<signal, mailbox, consumed>>
    BY DEF Yield, mailVars
  <1>2. signal = "none" /\ pendingGate = NoGate
    BY <1>1 DEF MailInv, PendingGateIsBlockedGate, WaitPoint, Waits, ServerTypeOK
  <1>3. pendingGate' = NoGate
    BY <1>2 DEF Yield, Relay, ApplyEvent
  <1> QED
    BY <1>1, <1>2, <1>3 DEF MailInv, PendingGateIsBlockedGate, WokenWithDecision, DecisionIsFresh

\* The same for a step of the task that touches neither the mailbox nor the gate.
LEMMA QuietMail ==
    ASSUME MailInv, ServerTypeOK, UNCHANGED mailVars, pendingGate' = pendingGate,
           pc \notin Waits
    PROVE  MailInv'
  <1>1. signal = "none" /\ pendingGate = NoGate
    BY DEF MailInv, PendingGateIsBlockedGate, WaitPoint, Waits, ServerTypeOK
  <1> QED
    BY <1>1 DEF MailInv, PendingGateIsBlockedGate, WokenWithDecision, DecisionIsFresh, mailVars

\* Opening a gate shows exactly that gate and arms a fresh event.
LEMMA OpenGateMail ==
    ASSUME NEW g \in Gates, NEW from, MailInv, OpenGate(from, g)
    PROVE  MailInv'
  <1>1. /\ pendingGate' = g /\ signal' = "unset" /\ pc' = WaitPoint(g)
        /\ consumed' = consumed
    BY EventTypes_Awaiting DEF OpenGate, Relay, ApplyEvent
  <1> QED
    BY <1>1 DEF MailInv, PendingGateIsBlockedGate, WokenWithDecision, DecisionIsFresh, Gates, NoGate

\* An approval clears the poll and wakes the task at once, if it waits at all.
LEMMA PushApprovalMail ==
    ASSUME NEW d \in Decisions, MailInv, ServerTypeOK, PushApproval(d)
    PROVE  MailInv'
  <1>1. /\ pendingGate' = NoGate /\ pc' = pc /\ consumed' = consumed
        /\ mailbox' = [decision |-> d, postedAt |-> pc]
        /\ signal' = IF signal = "none" THEN "none" ELSE "set"
        /\ pc \in Suspensions
    BY DEF PushApproval, DeliverDecision
  <1>2. mailbox' # None
    BY <1>1, ConstantsAssumption DEF Mail
  <1>3. signal' = "set" => \E g \in Gates : pc = WaitPoint(g)
    BY <1>1 DEF MailInv, PendingGateIsBlockedGate, ServerTypeOK
  <1>4. signal' # "unset"
    BY <1>1
  <1> QED
    BY <1>1, <1>2, <1>3, <1>4 DEF MailInv, PendingGateIsBlockedGate, WokenWithDecision, DecisionIsFresh

\* What a gate consumes was posted at that gate.
LEMMA TakeDecisionMail ==
    ASSUME NEW g \in Gates, MailInv, ServerTypeOK, TakeDecision(g)
    PROVE  MailInv'
  <1>1. /\ pendingGate' = pendingGate /\ signal = "set" /\ signal' = "none"
        /\ consumed' = [consumed EXCEPT ![g] = mailbox]
        /\ pc = WaitPoint(g) /\ mailbox.postedAt = pc
    BY DEF TakeDecision, MailInv, recordVars
  <1>2. pendingGate = NoGate
    BY <1>1 DEF MailInv, PendingGateIsBlockedGate
  <1>3. DecisionIsFresh'
    BY <1>1 DEF MailInv, DecisionIsFresh, ServerTypeOK
  <1> QED
    BY <1>1, <1>2, <1>3 DEF MailInv, PendingGateIsBlockedGate, WokenWithDecision

-------------------------------------------------------------------------------
(* The past of a case, as the runners' invariants speak of it. *)

PlanApproved == consumed["plan"] # None /\ consumed["plan"].decision.approved
PlanRejected == consumed["plan"] # None /\ ~consumed["plan"].decision.approved
ActionConsumed == consumed["action"] # None
InProposal(items) == \E i \in EventsOf("proposal") : queue[i].items = items

\* What a yield does to the past: it adds one event and moves the stage with it.
LEMMA YieldFacts ==
    ASSUME ServerTypeOK,
           NEW type \in EventTypes, NEW items \in SUBSET Ids, NEW total \in Nat,
           NEW from, NEW to, Yield(from, Evt(type, items, total), to)
    PROVE  /\ pc = from /\ pc' = to
           /\ UNCHANGED <<consumed, report, ended>>
           /\ queue' # <<>>
           /\ LastEvent'.type = type /\ LastEvent'.items = items
           /\ LastEvent'.stage = StageOf(type, NoGate)
           /\ stage' = StageOf(type, NoGate)
           /\ \A t : t # type => EventsOf(t)' = EventsOf(t)
           /\ \A shown : InProposal(shown) => InProposal(shown)'
  <1> DEFINE e == Evt(type, items, total)
  <1>1. /\ e \in AgentEvent(Ids) /\ e.type = type /\ e.items = items
        /\ e.stage = StageOf(type, NoGate)
    BY EventTypes_Evt
  <1>2. Relay(e) /\ pc = from /\ pc' = to /\ UNCHANGED <<consumed, ended>>
    BY DEF Yield, mailVars
  <1> HIDE DEF e
  <1>3. queue' # <<>> /\ LastEvent' = e
    BY <1>1, <1>2, AppendQueue DEF Relay
  <1>4. report' = report /\ stage' = StageOf(type, NoGate)
    BY <1>1, <1>2 DEF Relay, ApplyEvent, StageOf
  <1>5. \A t : t # type => EventsOf(t)' = EventsOf(t)
    BY <1>1, <1>2, AppendQueue DEF Relay
  <1>6. /\ \A i \in 1 .. Len(queue) : queue'[i] = queue[i]
        /\ EventsOf("proposal") \subseteq EventsOf("proposal")'
    BY <1>1, <1>2, AppendQueue DEF Relay
  <1>7. \A shown : InProposal(shown) => InProposal(shown)'
    BY <1>6 DEF InProposal, EventsOf
  <1> QED
    BY <1>1, <1>2, <1>3, <1>4, <1>5, <1>7

\* The same for an event without payload.
LEMMA PlainFacts ==
    ASSUME ServerTypeOK,
           NEW type \in EventTypes, NEW from, NEW to, Yield(from, Plain(type), to)
    PROVE  /\ pc = from /\ pc' = to
           /\ UNCHANGED <<consumed, report, ended>>
           /\ queue' # <<>>
           /\ LastEvent'.type = type
           /\ LastEvent'.stage = StageOf(type, NoGate)
           /\ stage' = StageOf(type, NoGate)
           /\ \A t : t # type => EventsOf(t)' = EventsOf(t)
           /\ \A shown : InProposal(shown) => InProposal(shown)'
  BY YieldFacts DEF Plain

\* A proposal is in the stream once it is yielded.
LEMMA ProposalFacts ==
    ASSUME ServerTypeOK, NEW items \in SUBSET Ids, NEW total \in Nat,
           NEW from, NEW to, Yield(from, Evt("proposal", items, total), to)
    PROVE  InProposal(items)'
  <1> DEFINE e == Evt("proposal", items, total)
  <1>1. e \in AgentEvent(Ids) /\ e.type = "proposal" /\ e.items = items
    BY EventTypes_Evt DEF EventTypes
  <1>2. Relay(e)
    BY DEF Yield
  <1>3. Len(queue) + 1 \in EventsOf("proposal")' /\ queue'[Len(queue) + 1] = e
    BY <1>1, <1>2, AppendQueue DEF Relay
  <1> QED
    BY <1>1, <1>3 DEF InProposal

\* What opening a gate does to the past.
LEMMA GateFacts ==
    ASSUME ServerTypeOK, NEW g \in Gates, NEW from, OpenGate(from, g)
    PROVE  /\ pc = from /\ pc' = WaitPoint(g)
           /\ UNCHANGED <<consumed, report, ended>>
           /\ queue' # <<>> /\ stage' = LastEvent'.stage
           /\ LastEvent'.type = "awaiting_approval" /\ LastEvent'.gate = g
           /\ stage' = IF g = "plan" THEN "audit_plan_review" ELSE "exception_review"
           /\ \A t : t # "awaiting_approval" => EventsOf(t)' = EventsOf(t)
           /\ \A shown : InProposal(shown) => InProposal(shown)'
  <1> DEFINE e == Awaiting(g)
  <1>1. /\ e \in AgentEvent(Ids) /\ e.type = "awaiting_approval" /\ e.gate = g
        /\ e.stage = IF g = "plan" THEN "audit_plan_review" ELSE "exception_review"
    BY EventTypes_Awaiting DEF Awaiting, Plain, Evt, StageOf
  <1>2. Relay(e) /\ pc = from /\ pc' = WaitPoint(g) /\ UNCHANGED <<consumed, ended>>
    BY DEF OpenGate
  <1> HIDE DEF e
  <1>3. queue' # <<>> /\ LastEvent' = e
    BY <1>1, <1>2, AppendQueue DEF Relay
  <1>4. report' = report /\ stage' = e.stage
    BY <1>1, <1>2 DEF Relay, ApplyEvent
  <1>5. \A t : t # "awaiting_approval" => EventsOf(t)' = EventsOf(t)
    BY <1>1, <1>2, AppendQueue DEF Relay
  <1>6. /\ \A i \in 1 .. Len(queue) : queue'[i] = queue[i]
        /\ EventsOf("proposal") \subseteq EventsOf("proposal")'
    BY <1>1, <1>2, AppendQueue DEF Relay
  <1>7. \A shown : InProposal(shown) => InProposal(shown)'
    BY <1>6 DEF InProposal, EventsOf
  <1> QED
    BY <1>1, <1>2, <1>3, <1>4, <1>5, <1>7

\* What does not touch the queue does not touch the past it records.
LEMMA QueueFacts ==
    ASSUME UNCHANGED queue
    PROVE  /\ LastEvent' = LastEvent
           /\ \A t : EventsOf(t)' = EventsOf(t)
           /\ \A shown : InProposal(shown)' <=> InProposal(shown)
  BY DEF LastEvent, EventsOf, InProposal

\* What taking a decision does to the past.
LEMMA TakeFacts ==
    ASSUME ServerTypeOK, MailInv, NEW g \in Gates, TakeDecision(g)
    PROVE  /\ pc = WaitPoint(g)
           /\ UNCHANGED <<stage, report, queue, ended>>
           /\ mailbox # None /\ consumed'[g] = mailbox
           /\ \A h \in Gates : h # g => consumed'[h] = consumed[h]
  BY DEF TakeDecision, MailInv, WokenWithDecision, ServerTypeOK, recordVars

-------------------------------------------------------------------------------
(* Steps of the task as steps of CaseProtocol. *)

\* The instance's copy of the vocabulary is the vocabulary.
LEMMA ProtocolVocabulary ==
    Protocol!NoGate = NoGate /\ Protocol!AgentEvent(Ids) = AgentEvent(Ids)
  <1>1. Protocol!NoGate = NoGate /\ Protocol!Gates = Gates
    BY DEF Protocol!NoGate, NoGate, Protocol!Gates, Gates
  <1>2. Protocol!EventTypes = EventTypes /\ Protocol!Stages = Stages
    BY DEF Protocol!EventTypes, EventTypes, Protocol!Stages, Stages
  <1> QED
    BY <1>1, <1>2 DEF Protocol!AgentEvent, AgentEvent

\* What may follow the last event, said of the queue.
MayEmit(type, items) ==
    /\ IF queue = <<>> THEN type = "plan" ELSE type \in Protocol!Successors(LastEvent)
    /\ type = "report_ready" => Protocol!Reviewed(items)
    /\ queue # <<>> /\ LastEvent.type = "report_ready" => report # None

\* An append of an event that may follow, with no gate pending, is an Emit.
LEMMA AppendImplements ==
    ASSUME ServerTypeOK, pendingGate = NoGate, ~ended,
           NEW e \in AgentEvent(Ids), queue' = Append(queue, e),
           e.type # "awaiting_approval", e.gate = NoGate, MayEmit(e.type, e.items),
           pendingGate' = NoGate, UNCHANGED <<report, ended>>
    PROVE  Protocol!Emit
  <1>1. Len(queue) \in Nat /\ Len(queue') = Len(queue) + 1 /\ queue'[Len(queue')] = e
    BY AppendProperties, LenProperties DEF ServerTypeOK
  <1>2. LastEvent = Protocol!Last
    BY DEF LastEvent, Protocol!Last
  <1>3. Protocol!MayFollow(e) /\ Protocol!GateMatches(e)
    BY <1>2 DEF Protocol!MayFollow, Protocol!GateMatches, MayEmit
  <1>4. e.type = "report_ready" => Protocol!Reviewed(e.items)
    BY DEF MayEmit
  <1>5. queue # <<>> /\ Protocol!Last.type = "report_ready" => report # None
    BY <1>2 DEF MayEmit
  <1> QED
    BY <1>1, <1>3, <1>4, <1>5, ProtocolVocabulary DEF Protocol!Emit

\* A yield of the runner is an Emit of the protocol.
LEMMA YieldImplements ==
    ASSUME ServerTypeOK, MailInv, ~ended,
           NEW type \in EventTypes, NEW items \in SUBSET Ids, NEW total \in Nat,
           NEW from, NEW to, from \notin Waits, type # "awaiting_approval",
           Yield(from, Evt(type, items, total), to), MayEmit(type, items)
    PROVE  Protocol!Emit
  <1> DEFINE e == Evt(type, items, total)
  <1>1. e \in AgentEvent(Ids) /\ e.type = type /\ e.items = items /\ e.gate = NoGate
    BY EventTypes_Evt
  <1>2. pc = from /\ Relay(e) /\ ended' = ended
    BY DEF Yield
  <1> HIDE DEF e
  <1>3. pendingGate = NoGate
    BY <1>2 DEF MailInv, PendingGateIsBlockedGate, WaitPoint, Waits
  <1>4. /\ queue' = Append(queue, e) /\ pendingGate' = NoGate
        /\ UNCHANGED <<report, ended>>
    BY <1>1, <1>2, <1>3 DEF Relay, ApplyEvent
  <1> QED
    BY <1>1, <1>3, <1>4, AppendImplements

\* Opening a gate after its plan or its proposal is an Emit of the protocol.
LEMMA OpenGateImplements ==
    ASSUME ServerTypeOK, MailInv, ~ended,
           NEW g \in Gates, NEW from, from \notin Waits, OpenGate(from, g),
           queue # <<>>, LastEvent.type = IF g = "plan" THEN "plan" ELSE "proposal"
    PROVE  Protocol!Emit
  <1> DEFINE e == Awaiting(g)
  <1>1. e \in AgentEvent(Ids) /\ e.type = "awaiting_approval" /\ e.gate = g
    BY EventTypes_Awaiting
  <1>2. pc = from /\ Relay(e) /\ ended' = ended
    BY DEF OpenGate
  <1> HIDE DEF e
  <1>3. pendingGate = NoGate
    BY <1>2 DEF MailInv, PendingGateIsBlockedGate, WaitPoint, Waits
  <1>4. queue' = Append(queue, e) /\ pendingGate' = g /\ report' = report
    BY <1>1, <1>2 DEF Relay, ApplyEvent
  <1>5. Len(queue) \in Nat /\ Len(queue') = Len(queue) + 1 /\ queue'[Len(queue')] = e
    BY <1>4, AppendProperties, LenProperties DEF ServerTypeOK
  <1>6. LastEvent = Protocol!Last
    BY DEF LastEvent, Protocol!Last
  <1>7. g = "plan" \/ g = "action"
    BY DEF Gates
  <1>8. "awaiting_approval" \in Protocol!Successors(LastEvent)
    BY <1>7 DEF Protocol!Successors
  <1>9. Protocol!MayFollow(e) /\ Protocol!GateMatches(e)
    BY <1>1, <1>6, <1>7, <1>8 DEF Protocol!MayFollow, Protocol!GateMatches
  <1>10. e.type # "report_ready" /\ Protocol!Last.type # "report_ready"
    BY <1>1, <1>6, <1>7
  <1> QED
    BY <1>1, <1>2, <1>3, <1>4, <1>5, <1>9, <1>10, ProtocolVocabulary
       DEF Protocol!Emit

\* An approval answers the pending gate, or the protocol does not see it.
LEMMA PushApprovalImplements ==
    ASSUME NEW d \in Decisions, PushApproval(d)
    PROVE  Protocol!Answer \/ UNCHANGED Protocol!vars
  <1>1. pendingGate' = NoGate /\ UNCHANGED <<queue, report, ended>>
    BY DEF PushApproval
  <1> QED
    BY <1>1, ProtocolVocabulary DEF Protocol!Answer, Protocol!vars
===============================================================================
