-------------------------- MODULE MockSession_proofs --------------------------
(***************************************************************************)
(* Proofs about the page and the mock server: whatever the order of        *)
(* clicks, replies and timeouts, and case after case on one page, a gate   *)
(* that waits is offered, a report is what was submitted for its case, and *)
(* the page shows the report of the case it has open.                      *)
(*                                                                         *)
(* The argument: Gate 2 of a case is announced once, so that it is asked   *)
(* for once and submitted once (CaseOK), and everything the page holds or  *)
(* has under way is about the case it has open, or was carried over a      *)
(* launch (PageCase, CallsOK).                                             *)
(***************************************************************************)
EXTENDS MockSession, SequenceTheorems, FiniteSetTheorems, TLAPS

Phases == {"off", "opening", "investigation", "closing", "rejected", "returned"}

\* The types of the server; the script of a phase bounds how far a thread is.
ServerTypes ==
    /\ cases \in [Cases -> AuditCase \cup {None}]
    /\ threads \in [Cases -> [phase : Phases, next : Nat, ids : SUBSET Ids]]
    /\ \A c \in Cases : threads[c].next \in 1 .. Len(Script(threads[c])) + 1
    /\ handlers \in [Cases -> {"none", "open", "ended"}]

PageTypes ==
    /\ UI!UITypeOK
    /\ conn \in Cases \cup {None}
    /\ carried \subseteq UI!Kinds
    /\ submitted \in [Cases -> (SUBSET Ids) \cup {None}]

\* The thread has put the announcement of this gate on the queue and stops at it.
PhaseOf(gate) == IF gate = "plan" THEN "opening" ELSE "investigation"
AtGate(c, gate) == threads[c].phase = PhaseOf(gate) /\ AllSent(c)

\* Gate 2 has been announced, if it ever is.
Announced(c) == threads[c].phase \in {"closing", "returned"} \/ AtGate(c, "action")

\* An event in the queue of a case is one its thread has come to.
EventOK(c, e) ==
    /\ e.type # "error"
    /\ e.type = "proposal" => e.items \subseteq Ids
    /\ e.type = "awaiting_approval" => e.gate \in Gates /\ (e.gate = "action" => Announced(c))
    /\ e.type = "written" => threads[c].phase \in {"closing", "returned"}

\* Where in the queue of a case Gate 2 is announced.
ActionEvents(c) ==
    {i \in 1 .. Len(cases[c].queue) :
        cases[c].queue[i].type = "awaiting_approval" /\ cases[c].queue[i].gate = "action"}

\* What a case holds was submitted for it; what was submitted was asked for once.
CaseOK(c) ==
    /\ \A i \in 1 .. Len(cases[c].queue) : EventOK(c, cases[c].queue[i])
    /\ \A i, j \in ActionEvents(c) : i = j
    /\ cases[c].planGate => cases[c].planDecision # None
    /\ cases[c].actionGate => cases[c].actionDecision # None
    /\ cases[c].actionDecision # None =>
          submitted[c] # None /\ cases[c].actionDecision.approvedIds = submitted[c]
    /\ threads[c].phase = "closing" => threads[c].ids = submitted[c]
    /\ cases[c].report # None => cases[c].report = submitted[c]
    /\ submitted[c] # None => Announced(c) /\ ActionEvents(c) = {}

CaseInv ==
    /\ \A c \in Started : CaseOK(c)
    /\ \A c \in Cases \ Started : submitted[c] = None

\* A case whose launch the page has not heard of yet is untouched.
Fresh(c) ==
    /\ threads[c].phase = "opening" /\ ~cases[c].planGate
    /\ AtGate(c, "plan") => OnItsWay(c, "plan")
    /\ submitted[c] = None
    /\ \A q \in UI!Posts : q.case # c

\* The page is on one case at a time.
PageCase ==
    /\ launchable => source = None /\ conn = None
    /\ conn # None => conn = source
    /\ source # None => source = caseId
    /\ caseId # None => caseId \in Started
    /\ panels # {} => caseId # None
    /\ "action" \in panels =>
          Announced(caseId) /\ submitted[caseId] = None /\ ActionEvents(caseId) = {}

\* A fetch is about the case that was open when it was sent.
CallsOK ==
    /\ \A r \in calls : r.kind = "launch" =>
          /\ ~launchable /\ caseId = None
          /\ r.state = "answered" => r.case \in Started /\ Fresh(r.case)
    /\ \A r, q \in calls : r.kind = "launch" /\ q.kind = "launch" => r = q
    /\ \A r \in calls : r.kind # "launch" => r.case \in Started
    /\ \A r \in calls : r.kind = "submit" =>
          submitted[r.case] # None /\ r.approvedIds = submitted[r.case]
    /\ \A r \in calls : r.kind = "reject_plan" =>
          /\ "reject_plan" \in carried \/ r.case = caseId
          /\ r.state # "sent" => cases[r.case].planGate
    /\ \A r \in calls : r.kind = "report" =>
          /\ "report" \in carried \/ r.case = caseId
          /\ r.state = "answered" =>
                cases[r.case].report # None /\ cases[r.case].report = r.items

\* The inductive invariant.
MInv ==
    /\ ServerTypes /\ PageTypes
    /\ CaseInv /\ PageCase /\ CallsOK
    /\ ShownReportIsCurrent /\ WaitingGateIsShown

-------------------------------------------------------------------------------
(* The script *)

Events == AgentEvent(Ids) \cup {Sentinel}

\* The events of the script are events: helpers of models.py.
LEMMA ScriptEvents ==
    /\ \A type \in EventTypes, items \in SUBSET Ids, total \in Nat :
          /\ Evt(type, items, total) \in AgentEvent(Ids)
          /\ Evt(type, items, total).type = type
          /\ Evt(type, items, total).items = items
    /\ \A g \in Gates :
          /\ Awaiting(g) \in AgentEvent(Ids)
          /\ Awaiting(g).type = "awaiting_approval" /\ Awaiting(g).gate = g
    /\ \A e \in AgentEvent(Ids) : StageOf(e.type, e.gate) \in Stages
    /\ Sentinel \notin AgentEvent(Ids) /\ Sentinel.type = "sentinel"
  <1>1. \A type \in EventTypes, items \in SUBSET Ids, total \in Nat :
          /\ Evt(type, items, total) \in AgentEvent(Ids)
          /\ Evt(type, items, total).type = type
          /\ Evt(type, items, total).items = items
    BY DEF Evt, AgentEvent, StageOf, Stages, EventTypes
  <1>2. \A g \in Gates :
          /\ Awaiting(g) \in AgentEvent(Ids)
          /\ Awaiting(g).type = "awaiting_approval" /\ Awaiting(g).gate = g
    BY DEF Awaiting, Plain, Evt, AgentEvent, StageOf, Stages, EventTypes, Gates
  <1>3. \A e \in AgentEvent(Ids) : StageOf(e.type, e.gate) \in Stages
    BY DEF AgentEvent, StageOf, Stages
  <1>4. Sentinel.type = "sentinel"
    BY DEF Sentinel, Plain, Evt
  <1>5. Sentinel \notin AgentEvent(Ids)
    BY <1>4 DEF AgentEvent, EventTypes
  <1> QED
    BY <1>1, <1>2, <1>3, <1>4, <1>5

\* The tool calls of the investigation.
LEMMA ToolCalls ==
    /\ 2 * Tools \in Nat
    /\ ToolEvents \in Seq(AgentEvent(Ids)) /\ Len(ToolEvents) = 2 * Tools
    /\ \A k \in 1 .. 2 * Tools : ToolEvents[k].type \in {"tool_call", "tool_result"}
  <1>1. 2 * Tools \in Nat
    BY MockAssumption
  <1>2. \A type \in {"tool_call", "tool_result"} :
           Plain(type) \in AgentEvent(Ids) /\ Plain(type).type = type
    BY ScriptEvents DEF Plain, EventTypes
  <1>3. \A k \in 1 .. 2 * Tools : /\ ToolEvents[k] \in AgentEvent(Ids)
                                  /\ ToolEvents[k].type \in {"tool_call", "tool_result"}
    BY <1>2 DEF ToolEvents
  <1>4. ToolEvents \in [1 .. 2 * Tools -> AgentEvent(Ids)]
    BY <1>3 DEF ToolEvents
  <1>5. ToolEvents \in Seq(AgentEvent(Ids))
    BY <1>1, <1>4, SeqDef
  <1>6. Len(ToolEvents) = 2 * Tools
    BY <1>1, <1>4, <1>5
  <1> QED
    BY <1>1, <1>3, <1>5, <1>6

\* The investigation: tool calls, the proposal, Gate 2.
LEMMA InvestigationEvents ==
    /\ Len(Investigation) = 2 * Tools + 2
    /\ \A k \in 1 .. 2 * Tools + 2 :
          /\ Investigation[k] \in AgentEvent(Ids)
          /\ Investigation[k].type \in {"tool_call", "tool_result", "proposal",
                                        "awaiting_approval"}
          /\ Investigation[k].type = "awaiting_approval" <=> k = 2 * Tools + 2
    /\ Investigation[2 * Tools + 2].gate = "action"
  <1> DEFINE p == Evt("proposal", Ids, Cardinality(Ids))
             a == Awaiting("action")
             last == <<p, a>>
  <1>1. Cardinality(Ids) \in Nat
    BY MockAssumption, FS_CardinalityType
  <1>2. p \in AgentEvent(Ids) /\ p.type = "proposal"
    BY <1>1, ScriptEvents DEF EventTypes
  <1>3. a \in AgentEvent(Ids) /\ a.type = "awaiting_approval" /\ a.gate = "action"
    BY ScriptEvents DEF Gates
  <1> HIDE DEF p, a
  <1>4. last \in Seq(AgentEvent(Ids)) /\ Len(last) = 2 /\ last[1] = p /\ last[2] = a
    BY <1>2, <1>3
  <1>5. Investigation = ToolEvents \o last
    BY DEF Investigation, p, a
  <1> HIDE DEF last
  <1>6. /\ Len(Investigation) = 2 * Tools + 2
        /\ \A k \in 1 .. 2 * Tools + 2 :
              Investigation[k] = IF k <= 2 * Tools THEN ToolEvents[k] ELSE last[k - 2 * Tools]
    <2>1. /\ Len(ToolEvents \o last) = Len(ToolEvents) + Len(last)
          /\ \A k \in 1 .. Len(ToolEvents) + Len(last) :
                (ToolEvents \o last)[k] =
                    IF k <= Len(ToolEvents) THEN ToolEvents[k] ELSE last[k - Len(ToolEvents)]
      BY <1>4, ToolCalls, ConcatProperties
    <2> QED
      BY <1>4, <1>5, <2>1, ToolCalls
  <1>7. Tools \in Nat
    BY MockAssumption
  <1>8. /\ \A k \in 1 .. 2 * Tools : Investigation[k] = ToolEvents[k]
        /\ Investigation[2 * Tools + 1] = p /\ Investigation[2 * Tools + 2] = a
    BY <1>4, <1>6, <1>7
  <1>9. \A k \in 1 .. 2 * Tools + 2 :
           k \in 1 .. 2 * Tools \/ k = 2 * Tools + 1 \/ k = 2 * Tools + 2
    BY <1>7
  <1>10. \A k \in 1 .. 2 * Tools : ToolEvents[k] \in AgentEvent(Ids)
    BY ToolCalls, ElementOfSeq
  <1>11. ASSUME NEW k \in 1 .. 2 * Tools + 2
         PROVE  /\ Investigation[k] \in AgentEvent(Ids)
                /\ Investigation[k].type \in {"tool_call", "tool_result", "proposal",
                                              "awaiting_approval"}
                /\ Investigation[k].type = "awaiting_approval" <=> k = 2 * Tools + 2
    <2>1. CASE k \in 1 .. 2 * Tools
      <3>1. /\ Investigation[k] = ToolEvents[k] /\ k # 2 * Tools + 2
            /\ ToolEvents[k].type \in {"tool_call", "tool_result"}
        BY <1>7, <1>8, <2>1, ToolCalls
      <3> QED
        BY <1>10, <2>1, <3>1
    <2>2. CASE k = 2 * Tools + 1
      BY <1>2, <1>7, <1>8, <2>2
    <2>3. CASE k = 2 * Tools + 2
      BY <1>3, <1>8, <2>3
    <2> QED
      BY <1>9, <2>1, <2>2, <2>3
  <1> QED
    BY <1>3, <1>6, <1>8, <1>11

\* What a thread sends, told from its phase: the last event of the first two is the
\* announcement of their gate.
LEMMA ScriptFacts ==
    ASSUME NEW t, t.phase \in Phases, t.ids \in SUBSET Ids
    PROVE  /\ Len(Script(t)) \in Nat
           /\ t.phase \in {"off", "rejected", "returned"} => Len(Script(t)) = 0
           /\ t.phase \in {"opening", "investigation", "closing"} => Len(Script(t)) >= 2
           /\ \A k \in 1 .. Len(Script(t)) :
                 /\ Script(t)[k] \in AgentEvent(Ids)
                 /\ Script(t)[k].type # "error"
                 /\ Script(t)[k].type = "awaiting_approval" =>
                       k = Len(Script(t)) /\ t.phase \in {"opening", "investigation"}
                 /\ k = Len(Script(t)) =>
                       \A g \in Gates : t.phase = PhaseOf(g) =>
                           Script(t)[k].type = "awaiting_approval" /\ Script(t)[k].gate = g
                 /\ Script(t)[k].type = "written" => t.phase = "closing"
  <1>1. CASE t.phase = "opening"
    <2>1. Script(t) = Opening
      BY <1>1 DEF Script
    <2>2. Plain("plan") \in AgentEvent(Ids) /\ Plain("plan").type = "plan"
      BY ScriptEvents DEF Plain, EventTypes
    <2>3. /\ Awaiting("plan") \in AgentEvent(Ids) /\ Awaiting("plan").type = "awaiting_approval"
          /\ Awaiting("plan").gate = "plan"
      BY ScriptEvents DEF Gates
    <2>4. Len(Opening) = 2 /\ Opening[1] = Plain("plan") /\ Opening[2] = Awaiting("plan")
      BY DEF Opening
    <2> QED
      BY <1>1, <2>1, <2>2, <2>3, <2>4 DEF PhaseOf, Gates
  <1>2. CASE t.phase = "investigation"
    <2>1. Script(t) = Investigation
      BY <1>2 DEF Script
    <2> QED
      BY <1>2, <2>1, MockAssumption, InvestigationEvents DEF PhaseOf, Gates
  <1>3. CASE t.phase = "closing"
    <2>1. Script(t) = Closing(t.ids)
      BY <1>3 DEF Script
    <2>2. Cardinality(t.ids) \in Nat
      BY MockAssumption, FS_Subset, FS_CardinalityType
    <2> DEFINE w == Evt("written", t.ids, Cardinality(t.ids))
               r == Evt("report_ready", t.ids \cap Ids, Cardinality(t.ids))
               d == Plain("done")
    <2>3. /\ w \in AgentEvent(Ids) /\ w.type = "written"
          /\ r \in AgentEvent(Ids) /\ r.type = "report_ready"
          /\ d \in AgentEvent(Ids) /\ d.type = "done"
      BY <2>2, ScriptEvents DEF EventTypes, Plain
    <2>4. Script(t) = <<w, r, d>>
      BY <2>1 DEF Closing
    <2> HIDE DEF w, r, d
    <2>5. Len(Script(t)) = 3 /\ Script(t)[1] = w /\ Script(t)[2] = r /\ Script(t)[3] = d
      BY <2>4
    <2> QED
      BY <1>3, <2>3, <2>5 DEF PhaseOf, Gates
  <1>4. CASE t.phase \in {"off", "rejected", "returned"}
    <2>1. Script(t) = <<>>
      BY <1>4 DEF Script
    <2> QED
      BY <1>4, <2>1
  <1> QED
    BY <1>1, <1>2, <1>3, <1>4 DEF Phases

-------------------------------------------------------------------------------
(* Queues *)

\* This queue holds the announcement of this gate; the places of that of Gate 2.
Announces(e, gate) == e.type = "awaiting_approval" /\ e.gate = gate
Holds(q, gate) == \E i \in 1 .. Len(q) : Announces(q[i], gate)
Places(q) == {i \in 1 .. Len(q) : Announces(q[i], "action")}

\* What an event put at the end of a queue changes: queue.put.
LEMMA AppendedQueue ==
    ASSUME NEW q \in Seq(Events), NEW e \in Events
    PROVE  /\ Append(q, e) \in Seq(Events)
           /\ \A i \in 1 .. Len(Append(q, e)) :
                 (i \in 1 .. Len(q) /\ Append(q, e)[i] = q[i]) \/ Append(q, e)[i] = e
           /\ \A g \in Gates : Holds(q, g) \/ Announces(e, g) => Holds(Append(q, e), g)
           /\ ~Announces(e, "action") => Places(Append(q, e)) = Places(q)
           /\ Places(q) = {} => \A i, j \in Places(Append(q, e)) : i = j
  <1>1. /\ Append(q, e) \in Seq(Events)
        /\ Len(q) \in Nat /\ Len(Append(q, e)) = Len(q) + 1
        /\ \A i \in 1 .. Len(q) : Append(q, e)[i] = q[i]
        /\ Append(q, e)[Len(q) + 1] = e
    BY AppendProperties, LenProperties
  <1> DEFINE p == Append(q, e)
  <1> HIDE DEF p
  <1>2. /\ p \in Seq(Events) /\ Len(q) \in Nat /\ Len(p) = Len(q) + 1
        /\ \A i \in 1 .. Len(q) : p[i] = q[i]
        /\ p[Len(q) + 1] = e
    BY <1>1 DEF p
  <1>3. \A i \in 1 .. Len(p) : (i \in 1 .. Len(q) /\ p[i] = q[i]) \/ (i = Len(q) + 1 /\ p[i] = e)
    BY <1>2
  <1>4. \A g \in Gates : Holds(q, g) \/ Announces(e, g) => Holds(p, g)
    BY <1>2 DEF Holds
  <1>5. ~Announces(e, "action") => Places(p) = Places(q)
    BY <1>2, <1>3 DEF Places
  <1>6. Places(q) = {} => \A i, j \in Places(p) : i = j
    BY <1>3 DEF Places
  <1> QED
    BY <1>2, <1>3, <1>4, <1>5, <1>6 DEF p

\* What the event taken from the head of a queue changes: queue.get.
LEMMA TakenQueue ==
    ASSUME NEW q \in Seq(Events), q # <<>>
    PROVE  /\ Head(q) \in Events /\ Tail(q) \in Seq(Events)
           /\ 1 \in 1 .. Len(q) /\ Head(q) = q[1]
           /\ \A i \in 1 .. Len(Tail(q)) : i + 1 \in 1 .. Len(q) /\ Tail(q)[i] = q[i + 1]
           /\ \A g \in Gates : Holds(q, g) => Announces(Head(q), g) \/ Holds(Tail(q), g)
           /\ Places(q) = {} => Places(Tail(q)) = {}
           /\ (\A i, j \in Places(q) : i = j) =>
                 /\ \A i, j \in Places(Tail(q)) : i = j
                 /\ Announces(Head(q), "action") => Places(Tail(q)) = {}
  <1> DEFINE p == Tail(q)
             h == Head(q)
  <1>1. /\ h \in Events /\ p \in Seq(Events)
        /\ Len(q) \in Nat /\ Len(q) >= 1 /\ Len(p) = Len(q) - 1
        /\ h = q[1]
        /\ \A i \in 1 .. Len(p) : p[i] = q[i + 1]
    BY HeadTailProperties, LenProperties, EmptySeq
  <1> HIDE DEF p, h
  <1>2. \A i \in 1 .. Len(p) : i \in Nat /\ i + 1 \in 1 .. Len(q) /\ p[i] = q[i + 1] /\ i + 1 # 1
    BY <1>1
  <1>3. \A i \in 1 .. Len(q) : i = 1 \/ (i - 1 \in 1 .. Len(p) /\ p[i - 1] = q[i])
    BY <1>1
  <1>4. \A g \in Gates : Holds(q, g) => Announces(h, g) \/ Holds(p, g)
    BY <1>1, <1>3 DEF Holds
  <1>5. \A i \in Places(p) : i \in Nat /\ i + 1 \in Places(q) /\ i + 1 # 1
    BY <1>2 DEF Places
  <1>6. 1 \in 1 .. Len(q) /\ (Announces(h, "action") => 1 \in Places(q))
    BY <1>1 DEF Places
  <1>7. Places(q) = {} => Places(p) = {}
    BY <1>5
  <1>8. ASSUME \A i, j \in Places(q) : i = j
        PROVE  /\ \A i, j \in Places(p) : i = j
               /\ Announces(h, "action") => Places(p) = {}
    <2>1. \A i, j \in Places(p) : i = j
      BY <1>5, <1>8
    <2>2. Announces(h, "action") => Places(p) = {}
      BY <1>5, <1>6, <1>8
    <2> QED
      BY <2>1, <2>2
  <1> QED
    BY <1>1, <1>2, <1>4, <1>6, <1>7, <1>8 DEF p, h

\* The operators of the session, told from the queue of the case.
LEMMA QueueOf ==
    ASSUME NEW c \in Cases
    PROVE  /\ ActionEvents(c) = Places(cases[c].queue)
           /\ \A g \in Gates : OnItsWay(c, g) <=> Holds(cases[c].queue, g)
  BY DEF ActionEvents, OnItsWay, Places, Holds, Announces

-------------------------------------------------------------------------------
(* The threads of the server *)

Others(c) == \A d \in Cases \ {c} : cases'[d] = cases[d] /\ threads'[d] = threads[d]

\* The record of one case is replaced.
LEMMA CaseReplaced ==
    ASSUME ServerTypes, NEW c \in Started, NEW r \in AuditCase,
           cases' = [cases EXCEPT ![c] = r]
    PROVE  /\ cases' \in [Cases -> AuditCase \cup {None}]
           /\ Started' = Started
           /\ cases'[c] = r
           /\ \A d \in Cases \ {c} : cases'[d] = cases[d]
  <1>1. c \in Cases /\ cases[c] # None
    BY DEF Started
  <1>2. r # None
    BY MockAssumption
  <1>3. /\ cases' \in [Cases -> AuditCase \cup {None}]
        /\ cases'[c] = r
        /\ \A d \in Cases \ {c} : cases'[d] = cases[d]
    BY <1>1 DEF ServerTypes
  <1> QED
    BY <1>1, <1>2, <1>3 DEF Started

\* The thread of one case moves on.
LEMMA ThreadReplaced ==
    ASSUME ServerTypes, NEW c \in Cases, NEW phase \in Phases, NEW next \in Nat,
           NEW ids \in SUBSET Ids,
           threads' = [threads EXCEPT ![c] = [phase |-> phase, next |-> next, ids |-> ids]],
           next \in 1 .. Len(Script([phase |-> phase, next |-> next, ids |-> ids])) + 1
    PROVE  /\ threads' \in [Cases -> [phase : Phases, next : Nat, ids : SUBSET Ids]]
           /\ \A d \in Cases : threads'[d].next \in 1 .. Len(Script(threads'[d])) + 1
           /\ threads'[c] = [phase |-> phase, next |-> next, ids |-> ids]
           /\ \A d \in Cases \ {c} : threads'[d] = threads[d]
  <1> DEFINE t == [phase |-> phase, next |-> next, ids |-> ids]
  <1>1. t \in [phase : Phases, next : Nat, ids : SUBSET Ids]
    OBVIOUS
  <1>2. t.next = next
    OBVIOUS
  <1> HIDE DEF t
  <1>3. /\ threads' = [threads EXCEPT ![c] = t]
        /\ t.next \in 1 .. Len(Script(t)) + 1
    BY <1>2 DEF t
  <1>4. /\ threads' \in [Cases -> [phase : Phases, next : Nat, ids : SUBSET Ids]]
        /\ threads'[c] = t
        /\ \A d \in Cases \ {c} : threads'[d] = threads[d]
    BY <1>1, <1>3 DEF ServerTypes
  <1>5. ASSUME NEW d \in Cases
        PROVE  threads'[d].next \in 1 .. Len(Script(threads'[d])) + 1
    <2>1. CASE d = c
      BY <1>3, <1>4, <2>1
    <2>2. CASE d # c
      BY <1>4, <2>2 DEF ServerTypes
    <2> QED
      BY <2>1, <2>2
  <1> QED
    BY <1>4, <1>5 DEF t

\* A thread that begins the next part of its script: GoTo.
LEMMA GoneTo ==
    ASSUME ServerTypes, NEW c \in Cases, NEW phase \in Phases, NEW ids \in SUBSET Ids,
           GoTo(c, phase, ids)
    PROVE  /\ threads' \in [Cases -> [phase : Phases, next : Nat, ids : SUBSET Ids]]
           /\ \A d \in Cases : threads'[d].next \in 1 .. Len(Script(threads'[d])) + 1
           /\ threads'[c].phase = phase /\ threads'[c].ids = ids
           /\ \A d \in Cases \ {c} : threads'[d] = threads[d]
           /\ \A g \in Gates : ~AtGate(c, g)'
  <1> DEFINE t == [phase |-> phase, next |-> 1, ids |-> ids]
  <1>1. t.phase = phase /\ t.ids = ids /\ t.next = 1
    OBVIOUS
  <1>2. Len(Script(t)) \in Nat /\ (phase \in {"opening", "investigation"} => Len(Script(t)) >= 2)
    <2> HIDE DEF t
    <2> QED
      BY <1>1, ScriptFacts
  <1>3. 1 \in 1 .. Len(Script(t)) + 1
    BY <1>2
  <1>4. threads' = [threads EXCEPT ![c] = t]
    BY DEF GoTo
  <1>5. /\ threads' \in [Cases -> [phase : Phases, next : Nat, ids : SUBSET Ids]]
        /\ \A d \in Cases : threads'[d].next \in 1 .. Len(Script(threads'[d])) + 1
        /\ threads'[c] = t
        /\ \A d \in Cases \ {c} : threads'[d] = threads[d]
    BY <1>3, <1>4, ThreadReplaced
  <1> HIDE DEF t
  <1>6. ASSUME NEW g \in Gates PROVE ~AtGate(c, g)'
    BY <1>1, <1>2, <1>5 DEF AtGate, AllSent, PhaseOf, Gates
  <1> QED
    BY <1>1, <1>5, <1>6

\* What the server may do to a case by itself.
Moved(c) ==
    /\ ServerTypes' /\ Started' = Started /\ Others(c) /\ CaseOK(c)'
    /\ cases'[c].planGate = cases[c].planGate /\ cases'[c].actionGate = cases[c].actionGate
    /\ cases[c].report # None => cases'[c].report = cases[c].report
    /\ Announced(c) => Announced(c)' /\ (ActionEvents(c) = {} => ActionEvents(c)' = {})
    /\ \A g \in Gates : /\ OnItsWay(c, g) => OnItsWay(c, g)'
                        /\ AtGate(c, g)' => AtGate(c, g) \/ OnItsWay(c, g)'
    /\ threads[c].phase = "opening" /\ ~cases[c].planGate => threads'[c].phase = "opening"

\* Of a started case, the record is one.
LEMMA RecordOf ==
    ASSUME ServerTypes, NEW c \in Started
    PROVE  /\ c \in Cases /\ cases[c] \in AuditCase
           /\ cases[c].queue \in Seq(Events)
           /\ cases[c].planGate \in BOOLEAN /\ cases[c].actionGate \in BOOLEAN
           /\ cases[c].planDecision \in Decision \cup {None}
           /\ cases[c].actionDecision \in Decision \cup {None}
           /\ cases[c].stage \in Stages
           /\ cases[c].report \in (SUBSET Ids) \cup {None}
           /\ threads[c].phase \in Phases /\ threads[c].ids \in SUBSET Ids
           /\ threads[c].next \in Nat
           /\ threads[c].next \in 1 .. Len(Script(threads[c])) + 1
  <1>1. c \in Cases /\ cases[c] \in AuditCase
    BY DEF ServerTypes, Started
  <1> QED
    BY <1>1 DEF ServerTypes, AuditCase, Events

\* An event is put on the queue of a case: put.
LEMMA PutMove ==
    ASSUME ServerTypes, NEW c \in Started, CaseOK(c), NEW e \in Events, NEW r \in AuditCase,
           cases' = [cases EXCEPT ![c] = r],
           r.queue = Append(cases[c].queue, e),
           r.planGate = cases[c].planGate, r.actionGate = cases[c].actionGate,
           r.planDecision = cases[c].planDecision, r.actionDecision = cases[c].actionDecision,
           r.report = cases[c].report,
           threads' \in [Cases -> [phase : Phases, next : Nat, ids : SUBSET Ids]],
           \A d \in Cases : threads'[d].next \in 1 .. Len(Script(threads'[d])) + 1,
           \A d \in Cases \ {c} : threads'[d] = threads[d],
           UNCHANGED <<handlers, submitted>>,
           Announced(c) => Announced(c)',
           threads[c].phase \in {"closing", "returned"} =>
               threads'[c].phase \in {"closing", "returned"},
           threads'[c].phase = "closing" => threads'[c].ids = submitted[c],
           threads[c].phase = "opening" => threads'[c].phase = "opening",
           EventOK(c, e)', Announces(e, "action") => ~Announced(c),
           \A g \in Gates : AtGate(c, g)' => AtGate(c, g) \/ Announces(e, g)
    PROVE  Moved(c)
  <1>0. c \in Cases /\ cases[c].queue \in Seq(Events)
    BY RecordOf
  <1>1. PICK q \in Seq(Events) : q = cases[c].queue
    BY <1>0
  <1>2. PICK p \in Seq(Events) : p = Append(q, e)
    BY AppendedQueue
  <1>3. /\ cases' \in [Cases -> AuditCase \cup {None}] /\ Started' = Started
        /\ cases'[c] = r /\ \A d \in Cases \ {c} : cases'[d] = cases[d]
    BY CaseReplaced
  <1>4. ServerTypes'
    BY <1>3 DEF ServerTypes
  <1>5. /\ \A i \in 1 .. Len(p) : (i \in 1 .. Len(q) /\ p[i] = q[i]) \/ p[i] = e
        /\ \A g \in Gates : Holds(q, g) \/ Announces(e, g) => Holds(p, g)
        /\ ~Announces(e, "action") => Places(p) = Places(q)
        /\ Places(q) = {} => \A i, j \in Places(p) : i = j
    <2>1. /\ \A i \in 1 .. Len(Append(q, e)) :
                (i \in 1 .. Len(q) /\ Append(q, e)[i] = q[i]) \/ Append(q, e)[i] = e
          /\ \A g \in Gates : Holds(q, g) \/ Announces(e, g) => Holds(Append(q, e), g)
          /\ ~Announces(e, "action") => Places(Append(q, e)) = Places(q)
          /\ Places(q) = {} => \A i, j \in Places(Append(q, e)) : i = j
      BY AppendedQueue
    <2> QED
      BY <1>2, <2>1
  <1>6. /\ cases'[c].queue = p /\ cases[c].queue = q
        /\ cases'[c].planGate = cases[c].planGate /\ cases'[c].actionGate = cases[c].actionGate
        /\ cases'[c].planDecision = cases[c].planDecision
        /\ cases'[c].actionDecision = cases[c].actionDecision
        /\ cases'[c].report = cases[c].report
    BY <1>1, <1>3, <1>2
  <1>7. /\ ActionEvents(c) = Places(q) /\ ActionEvents(c)' = Places(p)
        /\ \A g \in Gates : (OnItsWay(c, g) <=> Holds(q, g)) /\ (OnItsWay(c, g)' <=> Holds(p, g))
    BY <1>0, <1>6 DEF ActionEvents, OnItsWay, Places, Holds, Announces
  <1>8. Announced(c) => ActionEvents(c)' = ActionEvents(c)
    BY <1>5, <1>7
  <1>9. CaseOK(c)'
    <2>1. \A i \in 1 .. Len(q) : EventOK(c, q[i])
      BY <1>6 DEF CaseOK
    <2>2. ASSUME NEW i \in 1 .. Len(p) PROVE EventOK(c, p[i])'
      <3>1. CASE i \in 1 .. Len(q) /\ p[i] = q[i]
        BY <2>1, <3>1 DEF EventOK
      <3>2. CASE p[i] = e
        BY <3>2 DEF EventOK
      <3> QED
        BY <1>5, <3>1, <3>2
    <2>3. \A i, j \in ActionEvents(c)' : i = j
      <3>1. CASE Announces(e, "action")
        <4>1. \A i \in 1 .. Len(q) : ~Announces(q[i], "action")
          BY <2>1, <3>1 DEF EventOK, Announces
        <4> QED
          BY <1>5, <1>7, <4>1 DEF Places
      <3>2. CASE ~Announces(e, "action")
        BY <1>5, <1>7, <3>2 DEF CaseOK
      <3> QED
        BY <3>1, <3>2
    <2>4. (\A i \in 1 .. Len(cases[c].queue) : EventOK(c, cases[c].queue[i]))'
      BY <1>6, <2>2 DEF EventOK
    <2> QED
      BY <1>6, <1>8, <2>3, <2>4 DEF CaseOK
  <1> QED
    BY <1>3, <1>4, <1>5, <1>6, <1>7, <1>8, <1>9 DEF Moved, Others

\* run_case puts the next event of its script.
LEMMA SendMove ==
    ASSUME ServerTypes, NEW c \in Started, CaseOK(c), Send(c), submitted' = submitted
    PROVE  Moved(c)
  <1>1. /\ c \in Cases /\ cases[c] \in AuditCase /\ cases[c].queue \in Seq(Events)
        /\ threads[c].phase \in Phases /\ threads[c].ids \in SUBSET Ids
        /\ threads[c].next \in Nat /\ threads[c].next \in 1 .. Len(Script(threads[c])) + 1
    BY RecordOf
  <1>2. PICK t : t = threads[c]
    OBVIOUS
  <1>3. PICK k : k = t.next
    OBVIOUS
  <1>4. /\ Len(Script(t)) \in Nat
        /\ \A i \in 1 .. Len(Script(t)) :
              /\ Script(t)[i] \in AgentEvent(Ids)
              /\ Script(t)[i].type # "error"
              /\ Script(t)[i].type = "awaiting_approval" =>
                    i = Len(Script(t)) /\ t.phase \in {"opening", "investigation"}
              /\ i = Len(Script(t)) =>
                    \A g \in Gates : t.phase = PhaseOf(g) =>
                        Script(t)[i].type = "awaiting_approval" /\ Script(t)[i].gate = g
              /\ Script(t)[i].type = "written" => t.phase = "closing"
    BY <1>1, <1>2, ScriptFacts
  <1>5. k \in Nat /\ k \in 1 .. Len(Script(t))
    BY <1>1, <1>2, <1>3, <1>4 DEF Send, AllSent
  <1>6. PICK e : e = Script(t)[k]
    OBVIOUS
  <1>7. /\ e \in AgentEvent(Ids) /\ e \in Events /\ StageOf(e.type, e.gate) \in Stages
        /\ e.type # "error"
        /\ e.type = "awaiting_approval" =>
              k = Len(Script(t)) /\ t.phase \in {"opening", "investigation"}
        /\ k = Len(Script(t)) =>
              \A g \in Gates : t.phase = PhaseOf(g) => Announces(e, g)
        /\ e.type = "written" => t.phase = "closing"
    BY <1>4, <1>5, <1>6, ScriptEvents DEF Events, Announces
  <1>8. Announces(e, "action") => t.phase = "investigation"
    BY <1>7 DEF Announces, Gates, PhaseOf
  <1>9. PICK r : r = [[cases[c] EXCEPT !.queue = Append(@, e)]
                              EXCEPT !.stage = StageOf(e.type, e.gate)]
    OBVIOUS
  <1>10. /\ r \in AuditCase /\ cases' = [cases EXCEPT ![c] = r]
         /\ r.queue = Append(cases[c].queue, e)
         /\ r.planGate = cases[c].planGate /\ r.actionGate = cases[c].actionGate
         /\ r.planDecision = cases[c].planDecision /\ r.actionDecision = cases[c].actionDecision
         /\ r.report = cases[c].report
    <2>1. Append(cases[c].queue, e) \in Seq(Events)
      BY <1>1, <1>7, AppendProperties
    <2>2. r \in AuditCase
      BY <1>1, <1>7, <1>9, <2>1 DEF AuditCase, Events
    <2>3. cases' = [cases EXCEPT ![c] = r]
      BY <1>1, <1>2, <1>3, <1>6, <1>9 DEF Send, Put, ServerTypes, AuditCase
    <2> QED
      BY <1>1, <1>9, <2>2, <2>3 DEF AuditCase
  <1>11. threads' = [threads EXCEPT ![c] = [phase |-> t.phase, next |-> k + 1, ids |-> t.ids]]
    <2>1. t \in [phase : Phases, next : Nat, ids : SUBSET Ids]
      BY <1>1, <1>2 DEF ServerTypes
    <2>2. threads' = [threads EXCEPT ![c] = [t EXCEPT !.next = k + 1]]
      BY <1>1, <1>2, <1>3 DEF Send, ServerTypes
    <2>3. [t EXCEPT !.next = k + 1] = [phase |-> t.phase, next |-> k + 1, ids |-> t.ids]
      BY <2>1
    <2> QED
      BY <2>2, <2>3
  <1>12. PICK u : u = [phase |-> t.phase, next |-> k + 1, ids |-> t.ids]
    OBVIOUS
  <1>13. u.phase = t.phase /\ u.next = k + 1 /\ u.ids = t.ids /\ Script(u) = Script(t)
    BY <1>12 DEF Script
  <1>14. k + 1 \in Nat /\ k + 1 \in 1 .. Len(Script(u)) + 1
    BY <1>4, <1>5, <1>13
  <1>15. /\ threads' \in [Cases -> [phase : Phases, next : Nat, ids : SUBSET Ids]]
         /\ \A d \in Cases : threads'[d].next \in 1 .. Len(Script(threads'[d])) + 1
         /\ threads'[c] = u
         /\ \A d \in Cases \ {c} : threads'[d] = threads[d]
    BY <1>1, <1>2, <1>11, <1>12, <1>14, ThreadReplaced
  <1>16. \A g \in Gates : ~AtGate(c, g)
    BY DEF Send, AtGate
  <1>17. /\ AllSent(c)' <=> k = Len(Script(t))
         /\ \A g \in Gates : AtGate(c, g)' <=> t.phase = PhaseOf(g) /\ k = Len(Script(t))
    BY <1>4, <1>5, <1>13, <1>15 DEF AllSent, AtGate
  <1>18. Announced(c) => Announced(c)'
    BY <1>2, <1>13, <1>15, <1>16 DEF Announced, Gates
  <1>19. EventOK(c, e)'
    <2>1. e.type = "proposal" => e.items \subseteq Ids
      BY <1>7 DEF AgentEvent
    <2>2. e.type = "awaiting_approval" => e.gate \in Gates
      BY <1>7 DEF Announces, Gates, PhaseOf
    <2>3. e.type = "awaiting_approval" /\ e.gate = "action" => Announced(c)'
      BY <1>7, <1>8, <1>17 DEF Announced, Announces, Gates, PhaseOf
    <2> QED
      BY <1>7, <1>13, <1>15, <2>1, <2>2, <2>3 DEF EventOK
  <1>20. Announces(e, "action") => ~Announced(c)
    BY <1>2, <1>8, <1>16 DEF Announced, Gates
  <1>21. threads'[c].phase = "closing" => threads'[c].ids = submitted[c]
    BY <1>2, <1>13, <1>15 DEF CaseOK
  <1>22. \A g \in Gates : AtGate(c, g)' => AtGate(c, g) \/ Announces(e, g)
    BY <1>7, <1>17
  <1>23. UNCHANGED <<handlers, submitted>>
    BY DEF Send
  <1> QED
    BY <1>2, <1>7, <1>10, <1>13, <1>15, <1>18, <1>19, <1>20, <1>21, <1>22, <1>23, PutMove

\* The thread ends: a rejected case sends DONE, an approved one its sentinel.
LEMMA EndMove ==
    ASSUME ServerTypes, NEW c \in Started, CaseOK(c), EndRejected(c) \/ PutSentinel(c),
           submitted' = submitted
    PROVE  Moved(c)
  <1>1. /\ c \in Cases /\ cases[c] \in AuditCase /\ cases[c].queue \in Seq(Events)
    BY RecordOf
  <1>2. Plain("done") \in Events /\ Plain("done").type = "done"
    BY ScriptEvents DEF Events, Plain, EventTypes
  <1>3. Sentinel \in Events /\ Sentinel.type = "sentinel"
    BY ScriptEvents DEF Events
  <1>4. /\ GoTo(c, "returned", {}) /\ UNCHANGED <<handlers, submitted>>
        /\ threads[c].phase \in {"rejected", "closing"}
    BY DEF EndRejected, PutSentinel
  <1>5. /\ threads' \in [Cases -> [phase : Phases, next : Nat, ids : SUBSET Ids]]
        /\ \A d \in Cases : threads'[d].next \in 1 .. Len(Script(threads'[d])) + 1
        /\ threads'[c].phase = "returned"
        /\ \A d \in Cases \ {c} : threads'[d] = threads[d]
        /\ \A g \in Gates : ~AtGate(c, g)'
    <2>1. "returned" \in Phases /\ {} \in SUBSET Ids
      BY DEF Phases
    <2> QED
      BY <1>1, <1>4, <2>1, GoneTo
  <1>6. \E e \in {Plain("done"), Sentinel}, r \in AuditCase :
           /\ cases' = [cases EXCEPT ![c] = r]
           /\ r.queue = Append(cases[c].queue, e)
           /\ r.planGate = cases[c].planGate /\ r.actionGate = cases[c].actionGate
           /\ r.planDecision = cases[c].planDecision
           /\ r.actionDecision = cases[c].actionDecision
           /\ r.report = cases[c].report
    <2>1. CASE EndRejected(c)
      <3>1. PICK e : e = Plain("done")
        OBVIOUS
      <3>2. PICK r : r = [[cases[c] EXCEPT !.queue = Append(@, e)]
                                   EXCEPT !.stage = StageOf(e.type, e.gate)]
        OBVIOUS
      <3>3. StageOf(e.type, e.gate) \in Stages
        BY <3>1 DEF StageOf, Stages
      <3>4. Append(cases[c].queue, e) \in Seq(Events)
        BY <1>1, <1>2, <3>1, AppendProperties
      <3>5. r \in AuditCase
        BY <1>1, <3>2, <3>3, <3>4 DEF AuditCase, Events
      <3>6. cases' = [cases EXCEPT ![c] = r]
        BY <1>1, <2>1, <3>1, <3>2 DEF EndRejected, Put, ServerTypes, AuditCase
      <3> QED
        BY <1>1, <3>1, <3>2, <3>5, <3>6 DEF AuditCase
    <2>2. CASE PutSentinel(c)
      <3>1. PICK e : e = Sentinel
        OBVIOUS
      <3>2. PICK r : r = [cases[c] EXCEPT !.queue = Append(@, e)]
        OBVIOUS
      <3>3. Append(cases[c].queue, e) \in Seq(Events)
        BY <1>1, <1>3, <3>1, AppendProperties
      <3>4. r \in AuditCase
        BY <1>1, <3>2, <3>3 DEF AuditCase, Events
      <3>5. cases' = [cases EXCEPT ![c] = r]
        BY <1>1, <2>2, <3>1, <3>2 DEF PutSentinel, ServerTypes, AuditCase
      <3> QED
        BY <1>1, <3>1, <3>2, <3>4, <3>5 DEF AuditCase
    <2> QED
      BY <2>1, <2>2
  <1>7. PICK e \in {Plain("done"), Sentinel}, r \in AuditCase :
           /\ cases' = [cases EXCEPT ![c] = r]
           /\ r.queue = Append(cases[c].queue, e)
           /\ r.planGate = cases[c].planGate /\ r.actionGate = cases[c].actionGate
           /\ r.planDecision = cases[c].planDecision
           /\ r.actionDecision = cases[c].actionDecision
           /\ r.report = cases[c].report
    BY <1>6
  <1>8. e \in Events /\ e.type \in {"done", "sentinel"}
    BY <1>2, <1>3
  <1>9. EventOK(c, e)' /\ ~Announces(e, "action")
    BY <1>8 DEF EventOK, Announces
  <1>10. Announced(c)'
    BY <1>5 DEF Announced
  <1> QED
    BY <1>4, <1>5, <1>7, <1>8, <1>9, <1>10, PutMove

\* The thread leaves a gate: plan_gate.wait() and action_gate.wait() return.
LEMMA PassMove ==
    ASSUME ServerTypes, NEW c \in Started, CaseOK(c), PassPlanGate(c) \/ PassActionGate(c),
           submitted' = submitted
    PROVE  Moved(c)
  <1>1. /\ c \in Cases /\ cases[c].actionDecision \in Decision \cup {None}
        /\ threads[c].phase \in Phases
    BY RecordOf
  <1>2. UNCHANGED <<cases, handlers, submitted>>
    BY DEF PassPlanGate, PassActionGate
  <1>3. \E phase \in Phases, ids \in SUBSET Ids :
           /\ GoTo(c, phase, ids)
           /\ Announced(c) => phase = "closing"
           /\ phase = "closing" => ids = submitted[c]
           /\ threads[c].phase = "opening" => cases[c].planGate
           /\ threads[c].phase \in {"opening", "investigation"}
    <2>1. CASE PassPlanGate(c)
      <3>1. PICK phase : /\ phase \in {"investigation", "rejected"}
                         /\ GoTo(c, phase, {})
        BY <2>1 DEF PassPlanGate
      <3>2. /\ threads[c].phase = "opening" /\ cases[c].planGate
            /\ ~Announced(c)
        BY <2>1 DEF PassPlanGate, Announced, AtGate, PhaseOf
      <3> QED
        BY <3>1, <3>2 DEF Phases
    <2>2. CASE PassActionGate(c)
      <3>1. PICK ids : ids = cases[c].actionDecision.approvedIds
        OBVIOUS
      <3>2. /\ threads[c].phase = "investigation" /\ cases[c].actionGate
            /\ GoTo(c, "closing", ids)
        BY <2>2, <3>1 DEF PassActionGate
      <3>3. cases[c].actionDecision # None /\ ids = submitted[c]
        BY <3>1, <3>2 DEF CaseOK
      <3>4. ids \in SUBSET Ids
        BY <1>1, <3>1, <3>3 DEF Decision
      <3> QED
        BY <3>2, <3>3, <3>4 DEF Phases
    <2> QED
      BY <2>1, <2>2
  <1>4. PICK phase \in Phases, ids \in SUBSET Ids :
           /\ GoTo(c, phase, ids)
           /\ Announced(c) => phase = "closing"
           /\ phase = "closing" => ids = submitted[c]
           /\ threads[c].phase = "opening" => cases[c].planGate
           /\ threads[c].phase \in {"opening", "investigation"}
    BY <1>3
  <1>5. /\ threads' \in [Cases -> [phase : Phases, next : Nat, ids : SUBSET Ids]]
        /\ \A d \in Cases : threads'[d].next \in 1 .. Len(Script(threads'[d])) + 1
        /\ threads'[c].phase = phase /\ threads'[c].ids = ids
        /\ \A d \in Cases \ {c} : threads'[d] = threads[d]
        /\ \A g \in Gates : ~AtGate(c, g)'
    BY <1>1, <1>4, GoneTo
  <1>6. Announced(c) => Announced(c)'
    BY <1>4, <1>5 DEF Announced
  <1>7. ServerTypes' /\ Started' = Started /\ Others(c)
    BY <1>2, <1>5 DEF ServerTypes, Started, Others
  <1>8. CaseOK(c)'
    <2>1. \A i \in 1 .. Len(cases[c].queue) : EventOK(c, cases[c].queue[i])
      BY DEF CaseOK
    <2>2. (\A i \in 1 .. Len(cases[c].queue) : EventOK(c, cases[c].queue[i]))'
      BY <1>2, <1>4, <1>6, <2>1 DEF EventOK
    <2>3. ActionEvents(c)' = ActionEvents(c)
      BY <1>2 DEF ActionEvents
    <2> QED
      BY <1>2, <1>4, <1>5, <1>6, <2>2, <2>3 DEF CaseOK
  <1>9. /\ ActionEvents(c)' = ActionEvents(c)
        /\ \A g \in Gates : OnItsWay(c, g)' <=> OnItsWay(c, g)
    BY <1>2 DEF ActionEvents, OnItsWay
  <1> QED
    BY <1>2, <1>4, <1>5, <1>6, <1>7, <1>8, <1>9 DEF Moved

\* The report of a case is stored.
LEMMA StoreMove ==
    ASSUME ServerTypes, NEW c \in Started, CaseOK(c), StoreReport(c), submitted' = submitted
    PROVE  Moved(c)
  <1>1. /\ c \in Cases /\ cases[c] \in AuditCase /\ threads[c].ids \in SUBSET Ids
    BY RecordOf
  <1>2. /\ threads[c].phase = "closing" /\ cases[c].report = None
        /\ UNCHANGED <<threads, handlers, submitted>>
    BY DEF StoreReport, ReportDue
  <1>3. Ids \cap threads[c].ids = submitted[c] /\ submitted[c] \in SUBSET Ids
    BY <1>1, <1>2 DEF CaseOK
  <1>4. PICK r : r = [cases[c] EXCEPT !.report = submitted[c]]
    OBVIOUS
  <1>5. /\ r \in AuditCase
        /\ r.queue = cases[c].queue
        /\ r.planGate = cases[c].planGate /\ r.actionGate = cases[c].actionGate
        /\ r.planDecision = cases[c].planDecision /\ r.actionDecision = cases[c].actionDecision
        /\ r.report = submitted[c]
    BY <1>1, <1>3, <1>4 DEF AuditCase
  <1>6. cases' = [cases EXCEPT ![c] = r]
    BY <1>1, <1>3, <1>4 DEF StoreReport, ServerTypes, AuditCase
  <1>7. /\ cases' \in [Cases -> AuditCase \cup {None}] /\ Started' = Started
        /\ cases'[c] = r /\ \A d \in Cases \ {c} : cases'[d] = cases[d]
    BY <1>5, <1>6, CaseReplaced
  <1>8. ServerTypes' /\ Others(c)
    BY <1>2, <1>7 DEF ServerTypes, Others
  <1>9. /\ cases'[c].queue = cases[c].queue
        /\ ActionEvents(c)' = ActionEvents(c)
        /\ Announced(c)' <=> Announced(c)
        /\ \A g \in Gates : /\ OnItsWay(c, g)' <=> OnItsWay(c, g)
                            /\ AtGate(c, g)' <=> AtGate(c, g)
    BY <1>2, <1>5, <1>7 DEF ActionEvents, OnItsWay, Announced, AtGate, AllSent
  <1>10. CaseOK(c)'
    <2>1. (\A i \in 1 .. Len(cases[c].queue) : EventOK(c, cases[c].queue[i]))'
      BY <1>2, <1>9 DEF CaseOK, EventOK
    <2> QED
      BY <1>2, <1>5, <1>7, <1>9, <2>1 DEF CaseOK
  <1> QED
    BY <1>2, <1>5, <1>7, <1>8, <1>9, <1>10 DEF Moved

\* An event leaves the queue of a case: the stream has read it.
LEMMA TakeMove ==
    ASSUME ServerTypes, NEW c \in Started, CaseOK(c), cases[c].queue # <<>>,
           cases' = [cases EXCEPT ![c].queue = Tail(@)],
           UNCHANGED <<threads, submitted>>, handlers' \in [Cases -> {"none", "open", "ended"}]
    PROVE  /\ Head(cases[c].queue) \in Events
           /\ EventOK(c, Head(cases[c].queue))
           /\ Announces(Head(cases[c].queue), "action") =>
                 ActionEvents(c) # {} /\ ActionEvents(c)' = {}
           /\ \A g \in Gates : OnItsWay(c, g) =>
                 OnItsWay(c, g)' \/ Announces(Head(cases[c].queue), g)
           /\ (\A g \in Gates : ~Announces(Head(cases[c].queue), g)) => Moved(c)
           /\ ServerTypes' /\ Started' = Started /\ Others(c) /\ CaseOK(c)'
           /\ cases'[c].planGate = cases[c].planGate
           /\ cases'[c].actionGate = cases[c].actionGate
           /\ cases'[c].report = cases[c].report
           /\ Announced(c)' <=> Announced(c)
           /\ ActionEvents(c) = {} => ActionEvents(c)' = {}
           /\ \A g \in Gates : AtGate(c, g)' <=> AtGate(c, g)
  <1>1. /\ c \in Cases /\ cases[c] \in AuditCase /\ cases[c].queue \in Seq(Events)
    BY RecordOf
  <1>2. PICK q : q = cases[c].queue
    OBVIOUS
  <1>3. PICK p : p = Tail(q)
    OBVIOUS
  <1>4. PICK h : h = Head(q)
    OBVIOUS
  <1>5. /\ h \in Events /\ p \in Seq(Events)
        /\ 1 \in 1 .. Len(q) /\ h = q[1]
        /\ \A i \in 1 .. Len(p) : i + 1 \in 1 .. Len(q) /\ p[i] = q[i + 1]
        /\ \A g \in Gates : Holds(q, g) => Announces(h, g) \/ Holds(p, g)
        /\ Places(q) = {} => Places(p) = {}
        /\ (\A i, j \in Places(q) : i = j) =>
              /\ \A i, j \in Places(p) : i = j
              /\ Announces(h, "action") => Places(p) = {}
    <2>1. q \in Seq(Events) /\ q # <<>>
      BY <1>1, <1>2
    <2>2. /\ Head(q) \in Events /\ Tail(q) \in Seq(Events)
          /\ 1 \in 1 .. Len(q) /\ Head(q) = q[1]
          /\ \A i \in 1 .. Len(Tail(q)) : i + 1 \in 1 .. Len(q) /\ Tail(q)[i] = q[i + 1]
          /\ \A g \in Gates : Holds(q, g) => Announces(Head(q), g) \/ Holds(Tail(q), g)
          /\ Places(q) = {} => Places(Tail(q)) = {}
          /\ (\A i, j \in Places(q) : i = j) =>
                /\ \A i, j \in Places(Tail(q)) : i = j
                /\ Announces(Head(q), "action") => Places(Tail(q)) = {}
      BY <2>1, TakenQueue
    <2> QED
      BY <1>3, <1>4, <2>2
  <1>6. PICK r : r = [cases[c] EXCEPT !.queue = p]
    OBVIOUS
  <1>7. /\ r \in AuditCase
        /\ r.queue = p
        /\ r.planGate = cases[c].planGate /\ r.actionGate = cases[c].actionGate
        /\ r.planDecision = cases[c].planDecision /\ r.actionDecision = cases[c].actionDecision
        /\ r.report = cases[c].report
    BY <1>1, <1>5, <1>6 DEF AuditCase, Events
  <1>8. cases' = [cases EXCEPT ![c] = r]
    BY <1>1, <1>2, <1>3, <1>6 DEF ServerTypes, AuditCase
  <1>9. /\ cases' \in [Cases -> AuditCase \cup {None}] /\ Started' = Started
        /\ cases'[c] = r /\ \A d \in Cases \ {c} : cases'[d] = cases[d]
    BY <1>7, <1>8, CaseReplaced
  <1>10. ServerTypes' /\ Others(c)
    BY <1>9 DEF ServerTypes, Others
  <1>11. /\ ActionEvents(c) = Places(q) /\ ActionEvents(c)' = Places(p)
         /\ Announced(c)' <=> Announced(c)
         /\ \A g \in Gates : /\ OnItsWay(c, g) <=> Holds(q, g)
                             /\ OnItsWay(c, g)' <=> Holds(p, g)
                             /\ AtGate(c, g)' <=> AtGate(c, g)
    BY <1>2, <1>7, <1>9 DEF ActionEvents, OnItsWay, Announced, AtGate, AllSent, Places, Holds,
                            Announces
  <1>12. \A i, j \in Places(q) : i = j
    BY <1>11 DEF CaseOK
  <1>13. \A i \in 1 .. Len(q) : EventOK(c, q[i])
    BY <1>2 DEF CaseOK
  <1>14. Announces(h, "action") => Places(q) # {}
    BY <1>5 DEF Places
  <1>15. CaseOK(c)'
    <2>1. \A i \in 1 .. Len(p) : EventOK(c, p[i])'
      BY <1>5, <1>11, <1>13 DEF EventOK
    <2>2. (\A i \in 1 .. Len(cases[c].queue) : EventOK(c, cases[c].queue[i]))'
      BY <1>7, <1>9, <2>1 DEF EventOK
    <2> QED
      BY <1>5, <1>7, <1>9, <1>11, <1>12, <2>2 DEF CaseOK
  <1>16. (\A g \in Gates : ~Announces(h, g)) => Moved(c)
    BY <1>5, <1>7, <1>9, <1>10, <1>11, <1>15 DEF Moved
  <1>17. h = Head(cases[c].queue)
    BY <1>2, <1>4
  <1>18. /\ h \in Events /\ EventOK(c, h)
         /\ Announces(h, "action") => ActionEvents(c) # {} /\ ActionEvents(c)' = {}
         /\ \A g \in Gates : OnItsWay(c, g) => OnItsWay(c, g)' \/ Announces(h, g)
    BY <1>5, <1>11, <1>12, <1>13, <1>14
  <1>19. /\ cases'[c].planGate = cases[c].planGate /\ cases'[c].actionGate = cases[c].actionGate
         /\ cases'[c].report = cases[c].report
         /\ ActionEvents(c) = {} => ActionEvents(c)' = {}
    BY <1>5, <1>7, <1>9, <1>11
  <1> QED
    BY <1>9, <1>10, <1>11, <1>15, <1>16, <1>17, <1>18, <1>19

\* Every step the server takes by itself is such a move.
LEMMA ServerMove ==
    ASSUME ServerTypes, NEW c \in Started, CaseOK(c), ThreadStep(c) \/ HandlerEnds(c),
           submitted' = submitted
    PROVE  Moved(c)
  <1>1. CASE EndStream(c)
    <2>1. ~Announces(Head(cases[c].queue), "plan") /\ ~Announces(Head(cases[c].queue), "action")
      BY <1>1, ScriptEvents DEF EndStream, Announces
    <2>2. /\ cases[c].queue # <<>> /\ cases' = [cases EXCEPT ![c].queue = Tail(@)]
          /\ UNCHANGED <<threads, submitted>>
          /\ handlers' \in [Cases -> {"none", "open", "ended"}]
      BY <1>1 DEF EndStream, ServerTypes
    <2> QED
      BY <2>1, <2>2, TakeMove DEF Gates
  <1>2. CASE QueueTimeout(c)
    <2>1. UNCHANGED <<cases, threads, submitted>>
      BY <1>2 DEF QueueTimeout
    <2>2. ServerTypes'
      BY <1>2, <2>1 DEF QueueTimeout, ServerTypes
    <2>3. /\ ActionEvents(c)' = ActionEvents(c)
          /\ Announced(c)' <=> Announced(c)
          /\ \A g \in Gates : /\ OnItsWay(c, g)' <=> OnItsWay(c, g)
                              /\ AtGate(c, g)' <=> AtGate(c, g)
      BY <2>1 DEF ActionEvents, OnItsWay, Announced, AtGate, AllSent
    <2>4. CaseOK(c)'
      BY <2>1, <2>3 DEF CaseOK, EventOK
    <2> QED
      BY <2>1, <2>2, <2>3, <2>4 DEF Moved, Started, Others
  <1> QED
    BY <1>1, <1>2, SendMove, EndMove, PassMove, StoreMove DEF ThreadStep, HandlerEnds

-------------------------------------------------------------------------------
(* The page while the server moves *)

\* A decision on this gate is under way for this case.
Out(c, gate) ==
    \E r \in UI!Posts : r.state = "sent" /\ r.case = c /\ UI!DecisionOf(r).gate = gate

\* What WaitsAt says, with one formula for both gates.
LEMMA Waiting ==
    ASSUME NEW g \in Gates
    PROVE  WaitsAt(g) <=>
               /\ caseId # None /\ AtGate(caseId, g) /\ ~Out(caseId, g)
               /\ g = "plan" => ~cases[caseId].planGate
               /\ g = "action" => ~cases[caseId].actionGate
  <1>1. CASE g = "plan"
    BY <1>1 DEF WaitsAt, Blocked, AtGate, PhaseOf, Out
  <1>2. CASE g = "action"
    BY <1>2 DEF WaitsAt, Blocked, AtGate, PhaseOf, Out
  <1> QED
    BY <1>1, <1>2 DEF Gates

\* The same after a step.
LEMMA WaitingNext ==
    ASSUME NEW g \in Gates
    PROVE  WaitsAt(g)' <=>
               /\ caseId' # None /\ AtGate(caseId, g)' /\ ~Out(caseId, g)'
               /\ g = "plan" => ~cases'[caseId'].planGate
               /\ g = "action" => ~cases'[caseId'].actionGate
  <1>1. CASE g = "plan"
    BY <1>1 DEF WaitsAt, Blocked, AtGate, PhaseOf, Out
  <1>2. CASE g = "action"
    BY <1>2 DEF WaitsAt, Blocked, AtGate, PhaseOf, Out
  <1> QED
    BY <1>1, <1>2 DEF Gates

\* A case no step concerns stays as it is.
LEMMA UntouchedCase ==
    ASSUME NEW d, cases'[d] = cases[d], threads'[d] = threads[d]
    PROVE  /\ Announced(d)' <=> Announced(d)
           /\ ActionEvents(d)' = ActionEvents(d)
           /\ \A g \in Gates : /\ OnItsWay(d, g)' <=> OnItsWay(d, g)
                               /\ AtGate(d, g)' <=> AtGate(d, g)
           /\ submitted'[d] = submitted[d] => (CaseOK(d)' <=> CaseOK(d))
  <1>1. /\ Announced(d)' <=> Announced(d)
        /\ ActionEvents(d)' = ActionEvents(d)
        /\ \A g \in Gates : /\ OnItsWay(d, g)' <=> OnItsWay(d, g)
                            /\ AtGate(d, g)' <=> AtGate(d, g)
    BY DEF Announced, ActionEvents, OnItsWay, AtGate, AllSent
  <1>2. (\A i \in 1 .. Len(cases[d].queue) : EventOK(d, cases[d].queue[i]))' <=>
            (\A i \in 1 .. Len(cases[d].queue) : EventOK(d, cases[d].queue[i]))
    BY <1>1 DEF EventOK
  <1> QED
    BY <1>1, <1>2 DEF CaseOK

\* The server moves a case and the page does nothing.
LEMMA InsideStep ==
    ASSUME MInv, NEW c \in Started, Moved(c), UNCHANGED <<page, conn, submitted, carried>>
    PROVE  MInv'
  <1>0. /\ ServerTypes /\ PageTypes /\ CaseInv /\ PageCase /\ CallsOK
        /\ ShownReportIsCurrent /\ WaitingGateIsShown
    BY DEF MInv, CaseInv
  <1>1. /\ ServerTypes' /\ Started' = Started /\ Others(c) /\ CaseOK(c)'
        /\ cases'[c].planGate = cases[c].planGate /\ cases'[c].actionGate = cases[c].actionGate
        /\ cases[c].report # None => cases'[c].report = cases[c].report
        /\ Announced(c) => Announced(c)' /\ (ActionEvents(c) = {} => ActionEvents(c)' = {})
        /\ \A g \in Gates : /\ OnItsWay(c, g) => OnItsWay(c, g)'
                            /\ AtGate(c, g)' => AtGate(c, g) \/ OnItsWay(c, g)'
        /\ threads[c].phase = "opening" /\ ~cases[c].planGate => threads'[c].phase = "opening"
    BY DEF Moved
  <1>2. /\ UNCHANGED <<conn, submitted, carried>>
        /\ UNCHANGED <<caseId, source, launchable, panels, rows, statuses, underReview,
                       shownReport, calls>>
    BY DEF page
  <1>3. UI!Posts' = UI!Posts /\ UI!UITypeOK' /\ \A d, g : Out(d, g)' <=> Out(d, g)
    BY <1>0, <1>2 DEF UI!Posts, PageTypes, UI!UITypeOK, Out, UI!DecisionOf
  <1>4. \A d \in Cases \ {c} : cases'[d] = cases[d] /\ threads'[d] = threads[d]
    BY <1>1 DEF Others
  <1>5. ASSUME NEW d \in Started
        PROVE  /\ CaseOK(d)'
               /\ cases'[d].planGate = cases[d].planGate
               /\ cases'[d].actionGate = cases[d].actionGate
               /\ cases[d].report # None => cases'[d].report = cases[d].report
               /\ Announced(d) => /\ Announced(d)'
                                  /\ ActionEvents(d) = {} => ActionEvents(d)' = {}
               /\ \A g \in Gates : /\ OnItsWay(d, g) => OnItsWay(d, g)'
                                   /\ AtGate(d, g)' => AtGate(d, g) \/ OnItsWay(d, g)'
               /\ threads[d].phase = "opening" /\ ~cases[d].planGate =>
                      threads'[d].phase = "opening"
    <2>1. CASE d = c
      BY <1>1, <2>1
    <2>2. CASE d # c
      <3>1. cases'[d] = cases[d] /\ threads'[d] = threads[d] /\ submitted'[d] = submitted[d]
        BY <1>2, <1>4, <2>2 DEF Started
      <3> QED
        BY <1>0, <3>1, UntouchedCase DEF CaseInv
    <2> QED
      BY <2>1, <2>2
  <1>6. PageTypes'
    BY <1>0, <1>2, <1>3 DEF PageTypes
  <1>7. CaseInv'
    BY <1>0, <1>1, <1>2, <1>5 DEF CaseInv
  <1>8. PageCase'
    BY <1>0, <1>1, <1>2, <1>5 DEF PageCase
  <1>9. ASSUME NEW d \in Started, Fresh(d) PROVE Fresh(d)'
    <2>1. "plan" \in Gates
      BY DEF Gates
    <2> QED
      BY <1>2, <1>3, <1>5, <1>9, <2>1 DEF Fresh
  <1>10. CallsOK'
    BY <1>0, <1>1, <1>2, <1>5, <1>9 DEF CallsOK
  <1>11. ShownReportIsCurrent'
    BY <1>0, <1>2, <1>5 DEF ShownReportIsCurrent, PageCase
  <1>12. WaitingGateIsShown'
    <2>1. SUFFICES ASSUME "reject_plan" \notin carried, NEW g \in Gates, WaitsAt(g)'
                   PROVE  g \in panels \/ OnItsWay(caseId, g)'
      BY <1>2 DEF WaitingGateIsShown
    <2>2. caseId \in Started
      BY <1>0, <1>2, <2>1, WaitingNext DEF PageCase
    <2>3. WaitsAt(g) \/ OnItsWay(caseId, g)'
      BY <1>2, <1>3, <1>5, <2>1, <2>2, Waiting, WaitingNext
    <2> QED
      BY <1>0, <1>2, <1>5, <2>1, <2>2, <2>3 DEF WaitingGateIsShown
  <1> QED
    BY <1>1, <1>6, <1>7, <1>8, <1>10, <1>11, <1>12 DEF MInv, CaseInv

-------------------------------------------------------------------------------
(* The page moves and the server stands still *)

\* The server stands still.
LEMMA ServerStill ==
    ASSUME UNCHANGED <<cases, threads>>
    PROVE  /\ Started' = Started
           /\ \A d : /\ Announced(d)' <=> Announced(d)
                     /\ ActionEvents(d)' = ActionEvents(d)
                     /\ \A g \in Gates : /\ OnItsWay(d, g)' <=> OnItsWay(d, g)
                                         /\ AtGate(d, g)' <=> AtGate(d, g)
                     /\ submitted'[d] = submitted[d] => (CaseOK(d)' <=> CaseOK(d))
  <1>1. \A d : cases'[d] = cases[d] /\ threads'[d] = threads[d]
    OBVIOUS
  <1>2. \A d : /\ Announced(d)' <=> Announced(d)
               /\ ActionEvents(d)' = ActionEvents(d)
               /\ \A g \in Gates : /\ OnItsWay(d, g)' <=> OnItsWay(d, g)
                                   /\ AtGate(d, g)' <=> AtGate(d, g)
               /\ submitted'[d] = submitted[d] => (CaseOK(d)' <=> CaseOK(d))
    BY <1>1, UntouchedCase
  <1> QED
    BY <1>2 DEF Started

\* What is out on a gate once one more fetch has been sent.
LEMMA OutAdded ==
    ASSUME NEW q, calls' = calls \cup {q}
    PROVE  /\ \A d, g : Out(d, g) => Out(d, g)'
           /\ q.kind \in {"approve_plan", "reject_plan"} /\ q.state = "sent" =>
                  Out(q.case, "plan")'
           /\ q.kind = "submit" /\ q.state = "sent" => Out(q.case, "action")'
  <1>1. UI!Posts \subseteq UI!Posts'
    BY DEF UI!Posts
  <1>2. q.kind \in {"approve_plan", "reject_plan", "submit"} => q \in UI!Posts'
    BY DEF UI!Posts
  <1>3. UI!DecisionOf(q).gate = IF q.kind = "submit" THEN "action" ELSE "plan"
    BY DEF UI!DecisionOf
  <1> QED
    BY <1>1, <1>2, <1>3 DEF Out

\* What is out on a gate once a settled fetch has been forgotten.
LEMMA OutForgotten ==
    ASSUME NEW r, r.state # "sent", calls' = calls \ {r}
    PROVE  \A d, g : Out(d, g)' <=> Out(d, g)
  BY DEF Out, UI!Posts, UI!DecisionOf

\* launchAuditCase.
LEMMA LaunchStep ==
    ASSUME MInv, ClickLaunch, UNCHANGED <<serverVars, conn>>
    PROVE  MInv'
  <1>0. /\ ServerTypes /\ PageTypes /\ CaseInv /\ PageCase /\ CallsOK
        /\ UNCHANGED <<cases, threads, handlers, conn, submitted>>
    BY DEF MInv, CaseInv, ClickLaunch, serverVars
  <1>1. PICK q : q = [UI!Request("launch", {}, {}) EXCEPT !.case = None]
    OBVIOUS
  <1>2. q \in UI!Call /\ q.kind = "launch" /\ q.state = "sent"
    <2>1. "launch" \in UI!Kinds
      BY DEF UI!Kinds
    <2>2. UI!UITypeOK
      BY <1>0 DEF PageTypes
    <2> QED
      BY <1>1, <2>1, <2>2 DEF UI!UITypeOK, UI!Call, UI!Request
  <1>3. /\ launchable /\ launchable' = FALSE
        /\ caseId' = None /\ source' = None
        /\ panels' = {} /\ rows' = UI!NoRows /\ statuses' = UI!NoRows
        /\ underReview' = None /\ shownReport' = None
        /\ calls' = calls \cup {q}
        /\ carried' = {r.kind : r \in calls}
    BY <1>1 DEF ClickLaunch, UI!Launch, UI!Fetch
  <1>4. PageTypes'
    <2>1. UI!UITypeOK'
      BY <1>0, <1>2, <1>3 DEF PageTypes, UI!UITypeOK, UI!NoRows
    <2>2. carried' \subseteq UI!Kinds
      BY <1>0, <1>3 DEF PageTypes, UI!UITypeOK, UI!Call
    <2> QED
      BY <1>0, <2>1, <2>2 DEF PageTypes
  <1>5. ServerTypes' /\ CaseInv'
    BY <1>0, ServerStill DEF ServerTypes, CaseInv
  <1>6. PageCase'
    BY <1>0, <1>3 DEF PageCase
  <1>7. CallsOK'
    <2>1. \A r \in calls : r.kind # "launch" /\ r.kind \in carried'
      BY <1>0, <1>3 DEF CallsOK
    <2>2. \A r \in calls' : r = q \/ r \in calls
      BY <1>3
    <2>3. Started' = Started
      BY <1>0, ServerStill
    <2> QED
      BY <1>0, <1>2, <1>3, <2>1, <2>2, <2>3 DEF CallsOK
  <1>8. ShownReportIsCurrent' /\ WaitingGateIsShown'
    BY <1>3, WaitingNext DEF ShownReportIsCurrent, WaitingGateIsShown
  <1> QED
    BY <1>4, <1>5, <1>6, <1>7, <1>8 DEF MInv, CaseInv

\* approvePlan and rejectPlan.
LEMMA PlanStep ==
    ASSUME MInv, ClickPlan, UNCHANGED <<serverVars, conn>>
    PROVE  MInv'
  <1>0. /\ ServerTypes /\ PageTypes /\ CaseInv /\ PageCase /\ CallsOK
        /\ ShownReportIsCurrent /\ WaitingGateIsShown
        /\ UNCHANGED <<cases, threads, handlers, conn, submitted, carried>>
    BY DEF MInv, CaseInv, ClickPlan, serverVars
  <1>1. PICK kind \in {"approve_plan", "reject_plan"} :
           /\ "plan" \in panels
           /\ panels' \subseteq panels /\ panels \subseteq panels' \cup {"plan"}
           /\ calls' = calls \cup {UI!Request(kind, {}, {})}
    BY DEF ClickPlan, UI!ApprovePlan, UI!RejectPlan, UI!Fetch
  <1>2. UNCHANGED <<caseId, source, launchable, rows, statuses, underReview, shownReport>>
    BY DEF ClickPlan, UI!ApprovePlan, UI!RejectPlan
  <1>3. PICK q : q = UI!Request(kind, {}, {})
    OBVIOUS
  <1>4. q \in UI!Call /\ q.kind = kind /\ q.state = "sent" /\ q.case = caseId
    <2>1. kind \in UI!Kinds
      BY DEF UI!Kinds
    <2>2. UI!UITypeOK
      BY <1>0 DEF PageTypes
    <2> QED
      BY <1>3, <2>1, <2>2 DEF UI!UITypeOK, UI!Call, UI!Request
  <1>5. /\ calls' = calls \cup {q} /\ \A r \in calls' : r = q \/ r \in calls
        /\ caseId # None /\ caseId \in Started
    BY <1>0, <1>1, <1>3 DEF PageCase
  <1>6. PageTypes'
    BY <1>0, <1>1, <1>2, <1>4, <1>5 DEF PageTypes, UI!UITypeOK
  <1>7. ServerTypes' /\ CaseInv' /\ Started' = Started
    BY <1>0, ServerStill DEF ServerTypes, CaseInv
  <1>8. PageCase'
    BY <1>0, <1>1, <1>2, <1>7, ServerStill DEF PageCase
  <1>9. CallsOK'
    <2>1. \A r \in calls' : r.kind # "launch"
      BY <1>0, <1>4, <1>5 DEF CallsOK
    <2> QED
      BY <1>0, <1>2, <1>4, <1>5, <1>7, <2>1 DEF CallsOK
  <1>10. ShownReportIsCurrent'
    BY <1>0, <1>2 DEF ShownReportIsCurrent
  <1>11. WaitingGateIsShown'
    <2>1. SUFFICES ASSUME "reject_plan" \notin carried, NEW g \in Gates, WaitsAt(g)'
                   PROVE  g \in panels' \/ OnItsWay(caseId, g)'
      BY <1>0, <1>2 DEF WaitingGateIsShown
    <2>2. (\A d, h : Out(d, h) => Out(d, h)') /\ Out(caseId, "plan")'
      BY <1>2, <1>4, <1>5, OutAdded
    <2>3. g # "plan" /\ WaitsAt(g)
      BY <1>0, <1>2, <2>1, <2>2, Waiting, WaitingNext, ServerStill
    <2> QED
      BY <1>0, <1>1, <1>2, <2>1, <2>3, ServerStill DEF WaitingGateIsShown
  <1> QED
    BY <1>6, <1>7, <1>8, <1>9, <1>10, <1>11 DEF MInv, CaseInv

\* submitActionDecision: what was submitted is recorded with the post that carries it.
LEMMA SubmitStep ==
    ASSUME MInv, ClickSubmit, UNCHANGED <<serverVars, conn>>
    PROVE  MInv'
  <1>0. /\ ServerTypes /\ PageTypes /\ CaseInv /\ PageCase /\ CallsOK
        /\ ShownReportIsCurrent /\ WaitingGateIsShown /\ UI!UITypeOK
        /\ UNCHANGED <<cases, threads, handlers, conn, carried>>
    BY DEF MInv, CaseInv, ClickSubmit, serverVars, PageTypes
  <1>1. PICK table : /\ UI!SubmitRows(table) /\ DOMAIN table = DOMAIN rows
                     /\ \A i \in DOMAIN table : i \in Ids /\ table[i] \in {"approve", "reject"}
    BY <1>0 DEF ClickSubmit, UI!Submit, UI!ApproveAll, UI!RejectAllAction, UI!UITypeOK
  <1>2. PICK yes : yes = UI!RowsWith(table, "approve")
    OBVIOUS
  <1>3. PICK no : no = UI!RowsWith(table, "reject")
    OBVIOUS
  <1>4. yes \in SUBSET Ids /\ no \in SUBSET Ids /\ None # yes
    <2>1. yes \in SUBSET Ids /\ no \in SUBSET Ids
      BY <1>1, <1>2, <1>3 DEF UI!RowsWith
    <2> QED
      BY <2>1, MockAssumption
  <1>5. PICK q : q = UI!Request("submit", yes, no)
    OBVIOUS
  <1>6. /\ q \in UI!Call /\ q.kind = "submit" /\ q.state = "sent" /\ q.case = caseId
        /\ q.approvedIds = yes
    <2>1. "submit" \in UI!Kinds
      BY DEF UI!Kinds
    <2> QED
      BY <1>0, <1>4, <1>5, <2>1 DEF UI!UITypeOK, UI!Call, UI!Request
  <1>7. /\ "action" \in panels /\ panels' = panels \ {"action"} /\ rows' = table
        /\ calls' = calls \cup {q} /\ (\A r \in calls' : r = q \/ r \in calls)
        /\ UNCHANGED <<caseId, source, launchable, statuses, underReview, shownReport>>
    BY <1>1, <1>2, <1>3, <1>5 DEF UI!SubmitRows, UI!Fetch
  <1>8. /\ caseId # None /\ caseId \in Started /\ caseId \in Cases
        /\ Announced(caseId) /\ submitted[caseId] = None /\ ActionEvents(caseId) = {}
    BY <1>0, <1>7 DEF PageCase, Started
  <1>9. /\ submitted' \in [Cases -> (SUBSET Ids) \cup {None}]
        /\ submitted'[caseId] = yes
        /\ \A d \in Cases \ {caseId} : submitted'[d] = submitted[d]
    BY <1>0, <1>2, <1>4, <1>7, <1>8 DEF ClickSubmit, PageTypes
  <1>10. PageTypes'
    BY <1>0, <1>1, <1>6, <1>7, <1>9 DEF PageTypes, UI!UITypeOK
  <1>11. ServerTypes' /\ Started' = Started
    BY <1>0, ServerStill DEF ServerTypes
  <1>12. CaseOK(caseId)'
    <2>1. /\ Announced(caseId)' /\ ActionEvents(caseId)' = {}
          /\ UNCHANGED <<cases, threads>> /\ caseId' = caseId
      BY <1>0, <1>7, <1>8, ServerStill
    <2>2. (\A i \in 1 .. Len(cases[caseId].queue) : EventOK(caseId, cases[caseId].queue[i]))'
      BY <1>0, <1>8, <2>1 DEF CaseInv, CaseOK, EventOK
    <2>3. threads[caseId].phase # "closing"
      <3>1. threads[caseId].ids # None
        BY <1>0, <1>8, MockAssumption DEF ServerTypes
      <3> QED
        BY <1>0, <1>8, <3>1 DEF CaseInv, CaseOK
    <2>4. cases[caseId].actionDecision = None /\ cases[caseId].report = None
      BY <1>0, <1>8 DEF CaseInv, CaseOK
    <2>5. /\ cases[caseId].planGate => cases[caseId].planDecision # None
          /\ cases[caseId].actionGate => cases[caseId].actionDecision # None
      BY <1>0, <1>8 DEF CaseInv, CaseOK
    <2> QED
      BY <2>1, <2>2, <2>3, <2>4, <2>5 DEF CaseOK
  <1>13. CaseInv'
    <2>1. ASSUME NEW d \in Started PROVE CaseOK(d)'
      <3>1. CASE d = caseId
        BY <1>7, <1>12, <3>1 DEF CaseOK, EventOK, Announced, AtGate, AllSent, ActionEvents
      <3>2. CASE d # caseId
        BY <1>0, <1>9, <2>1, <3>2, ServerStill DEF CaseInv, Started
      <3> QED
        BY <3>1, <3>2
    <2>2. \A d \in Cases \ Started : submitted'[d] = None
      BY <1>0, <1>8, <1>9 DEF CaseInv
    <2> QED
      BY <1>11, <2>1, <2>2 DEF CaseInv
  <1>14. PageCase'
    BY <1>0, <1>7, <1>8, <1>11 DEF PageCase
  <1>15. CallsOK'
    <2>1. \A r \in calls' : r.kind # "launch"
      BY <1>0, <1>6, <1>7, <1>8 DEF CallsOK
    <2>2. \A r \in calls : r.kind = "submit" => r.case # caseId /\ r.case \in Started
      BY <1>0, <1>8 DEF CallsOK
    <2>3. \A r \in calls' : r.kind = "submit" =>
             submitted'[r.case] # None /\ r.approvedIds = submitted'[r.case]
      <3>1. \A d \in Started : d \in Cases
        BY DEF Started
      <3> QED
        BY <1>0, <1>4, <1>6, <1>7, <1>9, <2>2, <3>1 DEF CallsOK
    <2> QED
      BY <1>0, <1>6, <1>7, <1>8, <1>11, <2>1, <2>3 DEF CallsOK
  <1>16. ShownReportIsCurrent'
    BY <1>0, <1>7 DEF ShownReportIsCurrent
  <1>17. WaitingGateIsShown'
    <2>1. SUFFICES ASSUME "reject_plan" \notin carried, NEW g \in Gates, WaitsAt(g)'
                   PROVE  g \in panels' \/ OnItsWay(caseId, g)'
      BY <1>0, <1>7 DEF WaitingGateIsShown
    <2>2. (\A d, h : Out(d, h) => Out(d, h)') /\ Out(caseId, "action")'
      BY <1>6, <1>7, OutAdded
    <2>3. g # "action" /\ WaitsAt(g)
      BY <1>0, <1>7, <2>1, <2>2, Waiting, WaitingNext, ServerStill
    <2> QED
      BY <1>0, <1>7, <2>1, <2>3, ServerStill DEF WaitingGateIsShown
  <1> QED
    BY <1>10, <1>11, <1>13, <1>14, <1>15, <1>16, <1>17 DEF MInv, CaseInv

\* The EventSource connects, or finds its stream closed.
LEMMA StreamStep ==
    ASSUME MInv, OpenStream \/ Disconnected
    PROVE  MInv'
  <1>0. /\ ServerTypes /\ PageTypes /\ CaseInv /\ PageCase /\ CallsOK
        /\ ShownReportIsCurrent /\ WaitingGateIsShown
    BY DEF MInv, CaseInv
  <1>1. /\ UNCHANGED <<cases, threads, submitted, carried>>
        /\ UNCHANGED <<caseId, source, launchable, panels, rows, statuses, underReview,
                       shownReport, calls>>
        /\ handlers' \in [Cases -> {"none", "open", "ended"}]
        /\ conn' = None \/ (source # None /\ conn' = source)
    BY <1>0 DEF OpenStream, Disconnected, Connect, page, serverVars, ServerTypes
  <1>2. ServerTypes' /\ CaseInv' /\ Started' = Started
    BY <1>0, <1>1, ServerStill DEF ServerTypes, CaseInv
  <1>3. PageTypes'
    BY <1>0, <1>1 DEF PageTypes, UI!UITypeOK
  <1>4. PageCase'
    BY <1>0, <1>1, <1>2, ServerStill DEF PageCase
  <1>5. UI!Posts' = UI!Posts /\ \A d, g : Out(d, g)' <=> Out(d, g)
    BY <1>1 DEF UI!Posts, Out, UI!DecisionOf
  <1>6. \A d : Fresh(d)' <=> Fresh(d)
    <2>1. "plan" \in Gates
      BY DEF Gates
    <2> QED
      BY <1>1, <1>5, <2>1, ServerStill DEF Fresh
  <1>7. CallsOK'
    BY <1>0, <1>1, <1>2, <1>6 DEF CallsOK
  <1>8. ShownReportIsCurrent'
    BY <1>0, <1>1 DEF ShownReportIsCurrent
  <1>9. WaitingGateIsShown'
    BY <1>0, <1>1, <1>5, Waiting, WaitingNext, ServerStill DEF WaitingGateIsShown
  <1> QED
    BY <1>2, <1>3, <1>4, <1>7, <1>8, <1>9 DEF MInv, CaseInv

\* The code behind an await runs, on whatever case is open by then.
LEMMA GoOnStep ==
    ASSUME MInv, NEW r \in calls, GoOn(r)
    PROVE  MInv'
  <1>0. /\ ServerTypes /\ PageTypes /\ CaseInv /\ PageCase /\ CallsOK
        /\ ShownReportIsCurrent /\ WaitingGateIsShown /\ UI!UITypeOK
        /\ UNCHANGED <<cases, threads, handlers, conn, submitted, carried>>
        /\ r \in UI!Call
    BY DEF MInv, CaseInv, GoOn, serverVars, PageTypes, UI!UITypeOK
  <1>1. /\ calls' = calls \ {r} /\ r.state # "sent" /\ UNCHANGED <<rows, statuses, underReview>>
        /\ \/ /\ UI!ContinueLaunch(r) /\ r.kind = "launch"
           \/ /\ UI!ContinueReject(r) /\ r.kind = "reject_plan"
           \/ /\ UI!ContinueReport(r) /\ r.kind = "report"
           \/ /\ UI!Forget(r) /\ r.kind \in {"approve_plan", "submit"}
    BY DEF GoOn, UI!Continue, UI!ContinueLaunch, UI!ContinueReject, UI!ContinueReport, UI!Forget,
           UI!Settle
  <1>2. ServerTypes' /\ CaseInv' /\ Started' = Started
    BY <1>0, ServerStill DEF ServerTypes, CaseInv
  <1>3. (\A d, g : Out(d, g)' <=> Out(d, g)) /\ UI!Posts' \subseteq UI!Posts
    <2>1. \A d, g : Out(d, g)' <=> Out(d, g)
      BY <1>1, OutForgotten
    <2>2. UI!Posts' \subseteq UI!Posts
      BY <1>1 DEF UI!Posts
    <2> QED
      BY <2>1, <2>2
  <1>4. \A d : Fresh(d) => Fresh(d)'
    <2>1. "plan" \in Gates
      BY DEF Gates
    <2> QED
      BY <1>0, <1>3, <2>1, ServerStill DEF Fresh
  <1>5. CASE UI!ContinueLaunch(r)
    <2>1. /\ r.kind = "launch" /\ ~launchable /\ caseId = None
          /\ \A q \in calls' : q \in calls /\ q.kind # "launch"
      BY <1>0, <1>1, <1>5 DEF CallsOK, UI!ContinueLaunch, UI!Settle
    <2>2. /\ UNCHANGED <<panels, shownReport>>
          /\ \/ /\ r.state = "answered" /\ caseId' = r.case /\ source' = r.case
                /\ UNCHANGED launchable
             \/ launchable' = TRUE /\ UNCHANGED <<caseId, source>>
      BY <1>5 DEF UI!ContinueLaunch
    <2>3. source = None /\ conn = None /\ panels = {}
      BY <1>0, <2>1 DEF PageCase
    <2>4. r.state = "answered" => r.case \in Started /\ Fresh(r.case)
      BY <1>0, <2>1 DEF CallsOK
    <2>5. PageTypes'
      <3>1. r.case \in Cases \cup {None}
        BY <1>0 DEF UI!Call
      <3>2. /\ launchable' \in BOOLEAN
            /\ caseId' \in Cases \cup {None} /\ source' \in Cases \cup {None}
        BY <1>0, <2>2, <3>1 DEF UI!UITypeOK
      <3> QED
        BY <1>0, <1>1, <2>2, <3>2 DEF PageTypes, UI!UITypeOK
    <2>6. PageCase'
      BY <1>0, <1>2, <2>1, <2>2, <2>3, <2>4 DEF PageCase
    <2>7. \A d \in Started : d # caseId
      BY <2>1, MockAssumption DEF Started
    <2>8. CallsOK'
      BY <1>0, <1>2, <2>1, <2>7 DEF CallsOK
    <2>9. ShownReportIsCurrent'
      BY <1>0, <2>1, <2>2 DEF ShownReportIsCurrent
    <2>10. WaitingGateIsShown'
      <3>1. SUFFICES ASSUME NEW g \in Gates, WaitsAt(g)'
                     PROVE  g \in panels' \/ OnItsWay(caseId, g)'
        BY DEF WaitingGateIsShown
      <3>2. caseId' # None /\ AtGate(caseId, g)'
        BY <3>1, WaitingNext
      <3>3. caseId' = r.case /\ Fresh(r.case)
        BY <2>1, <2>2, <2>4, <3>2
      <3>4. AtGate(r.case, g) /\ threads[r.case].phase = "opening"
        BY <1>0, <3>2, <3>3 DEF Fresh, AtGate, AllSent
      <3>5. g = "plan" /\ OnItsWay(r.case, g)
        BY <3>3, <3>4 DEF AtGate, PhaseOf, Fresh, Gates
      <3> QED
        BY <1>0, <3>3, <3>5 DEF OnItsWay
    <2> QED
      BY <1>2, <2>5, <2>6, <2>8, <2>9, <2>10 DEF MInv, CaseInv
  <1>6. CASE ~UI!ContinueLaunch(r)
    <2>1. /\ UNCHANGED <<caseId, source, launchable>>
          /\ panels' = panels \/ (panels' = panels \ {"plan"} /\ r.kind = "reject_plan")
          /\ \/ shownReport' = shownReport
             \/ r.kind = "report" /\ r.state = "answered" /\ shownReport' = r.items
      BY <1>1, <1>6 DEF UI!ContinueReject, UI!ContinueReport, UI!Forget
    <2>2. PageTypes'
      <3>1. r.items \in SUBSET Ids
        BY <1>0 DEF UI!Call
      <3> QED
        BY <1>0, <1>1, <2>1, <3>1 DEF PageTypes, UI!UITypeOK
    <2>3. PageCase'
      BY <1>0, <1>2, <2>1, ServerStill DEF PageCase
    <2>4. CallsOK'
      BY <1>0, <1>1, <1>2, <1>4, <2>1 DEF CallsOK
    <2>5. ShownReportIsCurrent'
      <3>1. CASE shownReport' = shownReport
        BY <1>0, <2>1, <3>1 DEF ShownReportIsCurrent
      <3>2. CASE r.kind = "report" /\ r.state = "answered" /\ shownReport' = r.items
        <4>1. /\ r.case \in Started /\ cases[r.case].report = r.items
              /\ "report" \notin carried => r.case = caseId
          BY <1>0, <3>2 DEF CallsOK
        <4>2. r.case # None
          BY <4>1, MockAssumption DEF Started
        <4> QED
          BY <1>0, <2>1, <3>2, <4>1, <4>2 DEF ShownReportIsCurrent
      <3> QED
        BY <2>1, <3>1, <3>2
    <2>6. WaitingGateIsShown'
      <3>1. SUFFICES ASSUME "reject_plan" \notin carried, NEW g \in Gates, WaitsAt(g)'
                     PROVE  g \in panels' \/ OnItsWay(caseId, g)'
        BY <1>0, <2>1 DEF WaitingGateIsShown
      <3>2. WaitsAt(g)
        BY <1>0, <1>3, <2>1, <3>1, Waiting, WaitingNext, ServerStill
      <3>3. g \in panels \/ OnItsWay(caseId, g)
        BY <1>0, <3>1, <3>2 DEF WaitingGateIsShown
      <3>4. g \in panels => g \in panels'
        <4>1. SUFFICES ASSUME r.kind = "reject_plan", g = "plan" PROVE FALSE
          BY <2>1
        <4>2. r.case = caseId /\ cases[r.case].planGate
          BY <1>0, <1>1, <3>1, <4>1 DEF CallsOK
        <4> QED
          BY <3>2, <4>1, <4>2, Waiting
      <3> QED
        BY <1>0, <2>1, <3>3, <3>4, ServerStill
    <2> QED
      BY <1>2, <2>2, <2>3, <2>4, <2>5, <2>6 DEF MInv, CaseInv
  <1> QED
    BY <1>5, <1>6

\* An event is read and handled: app.events.js.
LEMMA ReadStep ==
    ASSUME MInv, ReadEvent
    PROVE  MInv'
  <1>0. /\ ServerTypes /\ PageTypes /\ CaseInv /\ PageCase /\ CallsOK
        /\ ShownReportIsCurrent /\ WaitingGateIsShown /\ UI!UITypeOK
    BY DEF MInv, CaseInv, PageTypes
  <1>1. PICK c : c = conn
    OBVIOUS
  <1>2. PICK e : e = Head(cases[c].queue)
    OBVIOUS
  <1>3. /\ SendEvent(c, e) /\ UI!Handle(e) /\ conn' = IF e.type = "done" THEN None ELSE c
        /\ UNCHANGED <<submitted, carried>>
    BY <1>1, <1>2 DEF ReadEvent
  <1>4. c = caseId /\ source = c /\ c # None /\ c \in Started
    BY <1>0, <1>1 DEF ReadEvent, PageCase
  <1>5. /\ cases' = [cases EXCEPT ![c].queue = Tail(@)]
        /\ cases[c].queue # <<>> /\ e # Sentinel
        /\ UNCHANGED <<threads, submitted, handlers>>
        /\ handlers' \in [Cases -> {"none", "open", "ended"}]
    BY <1>0, <1>3 DEF SendEvent, ServerTypes
  <1>6. /\ e \in Events /\ EventOK(c, e)
        /\ Announces(e, "action") => ActionEvents(c) # {} /\ ActionEvents(c)' = {}
        /\ \A g \in Gates : OnItsWay(c, g) => OnItsWay(c, g)' \/ Announces(e, g)
        /\ ServerTypes' /\ Started' = Started /\ Others(c) /\ CaseOK(c)'
        /\ cases'[c].planGate = cases[c].planGate /\ cases'[c].actionGate = cases[c].actionGate
        /\ cases'[c].report = cases[c].report
        /\ Announced(c)' <=> Announced(c)
        /\ ActionEvents(c) = {} => ActionEvents(c)' = {}
        /\ \A g \in Gates : AtGate(c, g)' <=> AtGate(c, g)
    <2>1. CaseOK(c)
      BY <1>0, <1>4 DEF CaseInv
    <2> QED
      BY <1>0, <1>2, <1>4, <1>5, <2>1, TakeMove
  <1>7. /\ e \in AgentEvent(Ids) /\ e.items \in SUBSET Ids /\ e.type # "error"
        /\ e.type = "awaiting_approval" => e.gate \in Gates
    BY <1>5, <1>6 DEF Events, AgentEvent, EventOK
  <1>8. \A d \in Cases \ {c} : cases'[d] = cases[d] /\ threads'[d] = threads[d]
    BY <1>6 DEF Others
  <1>9. CaseInv'
    <2>1. ASSUME NEW d \in Started PROVE CaseOK(d)'
      <3>1. CASE d = c
        BY <1>6, <3>1
      <3>2. CASE d # c
        BY <1>0, <1>5, <1>8, <3>2, UntouchedCase DEF CaseInv, Started
      <3> QED
        BY <3>1, <3>2
    <2> QED
      BY <1>0, <1>5, <1>6, <2>1 DEF CaseInv
  <1>10. \A r \in calls : r.kind # "launch"
    BY <1>0, <1>4 DEF CallsOK
  <1>11. PICK q : q = UI!Request("report", {}, {})
    OBVIOUS
  <1>12. q \in UI!Call /\ q.kind = "report" /\ q.state = "sent" /\ q.case = caseId
    <2>1. "report" \in UI!Kinds
      BY DEF UI!Kinds
    <2> QED
      BY <1>0, <1>11, <2>1 DEF UI!UITypeOK, UI!Call, UI!Request
  \* What a handler may do to the page.
  <1>13. /\ UI!UITypeOK'
         /\ UNCHANGED <<caseId, underReview, shownReport>>
         /\ calls' \subseteq calls \cup {q} /\ calls \subseteq calls'
         /\ IF e.type = "done" THEN source' = None ELSE UNCHANGED <<source, launchable>>
         /\ \/ panels' = panels
            \/ e.type = "awaiting_approval" /\ panels' = panels \cup {e.gate}
            \/ e.type = "written" /\ panels' = panels \ {"action"}
         /\ e.type = "awaiting_approval" => panels' = panels \cup {e.gate}
    <2>1. CASE UI!HandleProposal(e)
      BY <1>0, <1>7, <2>1 DEF UI!HandleProposal, UI!UITypeOK
    <2>2. CASE UI!HandleAwaitingApproval(e)
      BY <1>0, <1>7, <2>2 DEF UI!HandleAwaitingApproval, UI!UITypeOK, UI!Gates, Gates
    <2>3. CASE UI!HandleWritten(e)
      BY <1>0, <1>7, <2>3 DEF UI!HandleWritten, UI!UITypeOK
    <2>4. CASE UI!HandleReportReady(e)
      BY <1>0, <1>7, <1>11, <1>12, <2>4 DEF UI!HandleReportReady, UI!UITypeOK
    <2>5. CASE UI!HandleDone(e)
      BY <1>0, <1>7, <2>5 DEF UI!HandleDone, UI!UITypeOK
    <2>6. CASE UI!HandleOther(e)
      BY <1>0, <1>7, <2>6 DEF UI!HandleOther, UI!UITypeOK
    <2> QED
      BY <1>3, <1>7, <2>1, <2>2, <2>3, <2>4, <2>5, <2>6 DEF UI!Handle, UI!HandleError
  <1>14. PageTypes'
    BY <1>0, <1>3, <1>4, <1>13 DEF PageTypes, Started
  <1>15. PageCase'
    <2>1. /\ launchable' => source' = None /\ conn' = None
          /\ conn' # None => conn' = source'
          /\ source' # None => source' = caseId'
          /\ caseId' # None => caseId' \in Started'
          /\ panels' # {} => caseId' # None
      BY <1>0, <1>1, <1>3, <1>4, <1>6, <1>13 DEF PageCase
    <2>2. ASSUME "action" \in panels'
          PROVE  Announced(c)' /\ submitted[c] = None /\ ActionEvents(c)' = {}
      <3>1. CASE "action" \in panels
        BY <1>0, <1>4, <1>6, <3>1 DEF PageCase
      <3>2. CASE Announces(e, "action")
        BY <1>0, <1>4, <1>6, <3>2 DEF EventOK, Announces, CaseInv, CaseOK
      <3> QED
        BY <1>13, <2>2, <3>1, <3>2 DEF Announces
    <2> QED
      BY <1>3, <1>4, <1>13, <2>1, <2>2 DEF PageCase
  <1>16. CallsOK'
    <2>1. \A r \in calls' : r \in calls \/ r = q
      BY <1>13
    <2>2. \A r \in calls' : r.kind # "launch"
      BY <1>10, <1>12, <2>1
    <2>3. \A d \in Started : /\ cases'[d].planGate = cases[d].planGate
                             /\ cases'[d].report = cases[d].report
      BY <1>6, <1>8 DEF Started
    <2> QED
      BY <1>0, <1>3, <1>4, <1>6, <1>12, <1>13, <2>1, <2>2, <2>3 DEF CallsOK
  <1>17. ShownReportIsCurrent'
    BY <1>0, <1>3, <1>4, <1>6, <1>13 DEF ShownReportIsCurrent
  <1>18. WaitingGateIsShown'
    <2>1. SUFFICES ASSUME "reject_plan" \notin carried, NEW g \in Gates, WaitsAt(g)'
                   PROVE  g \in panels' \/ OnItsWay(c, g)'
      BY <1>3, <1>4, <1>13 DEF WaitingGateIsShown
    <2>2. Out(c, g) => Out(c, g)'
      BY <1>13 DEF Out, UI!Posts, UI!DecisionOf
    <2>3. WaitsAt(g)
      BY <1>4, <1>6, <1>13, <2>1, <2>2, Waiting, WaitingNext
    <2>4. g \in panels \/ OnItsWay(c, g)
      BY <1>0, <1>4, <2>1, <2>3 DEF WaitingGateIsShown
    <2>5. g \in panels => g \in panels'
      <3>1. e.type = "written" => ~AtGate(c, "action")
        BY <1>6 DEF EventOK, AtGate, PhaseOf
      <3> QED
        BY <1>4, <1>13, <2>3, <3>1, Waiting
    <2> QED
      BY <1>6, <1>13, <2>4, <2>5 DEF Announces
  <1> QED
    BY <1>6, <1>9, <1>14, <1>15, <1>16, <1>17, <1>18 DEF MInv, CaseInv

-------------------------------------------------------------------------------
(* Requests *)

\* What a reply leaves of the fetches.
LEMMA ReplyFacts ==
    ASSUME NEW r \in UI!Call, NEW c \in Cases, NEW state \in {"answered", "failed"},
           NEW items \in SUBSET Ids, Reply(r, c, state, items)
    PROVE  \E q \in UI!Call :
              /\ q.kind = r.kind /\ q.case = c /\ q.state = state /\ q.items = items
              /\ calls' \subseteq (calls \ {r}) \cup {q} /\ calls \ {r} \subseteq calls'
              /\ q.kind \notin {"launch", "reject_plan", "report"} => calls' = calls \ {r}
  <1>1. PICK q : q = [r EXCEPT !.state = state, !.case = c, !.items = items]
    OBVIOUS
  <1>2. q \in UI!Call /\ q.kind = r.kind /\ q.case = c /\ q.state = state /\ q.items = items
    BY <1>1 DEF UI!Call
  <1>3. calls' = (calls \ {r}) \cup {p \in {q} : Awaited(p)}
    BY <1>1 DEF Reply
  <1>4. q.kind \notin {"launch", "reject_plan", "report"} => calls' = calls \ {r}
    BY <1>3 DEF Awaited
  <1> QED
    BY <1>2, <1>3, <1>4

\* _post_audit_case: the case is there before the page knows of it.
LEMMA CreateStep ==
    ASSUME MInv, NEW r \in calls, NEW c \in Cases, r.kind = "launch",
           PostAuditCase(c), Reply(r, c, "answered", {}),
           UNCHANGED <<caseId, source, launchable, panels, rows, statuses, underReview,
                       shownReport, conn, submitted, carried>>
    PROVE  MInv'
  <1>0. /\ ServerTypes /\ PageTypes /\ CaseInv /\ PageCase /\ CallsOK
        /\ ShownReportIsCurrent /\ WaitingGateIsShown /\ UI!UITypeOK
        /\ r \in UI!Call
    BY DEF MInv, CaseInv, PageTypes, UI!UITypeOK
  <1>1. caseId = None /\ ~launchable /\ panels = {} /\ source = None /\ conn = None
    BY <1>0 DEF CallsOK, PageCase
  <1>2. PICK q \in UI!Call :
           /\ q.kind = r.kind /\ q.case = c /\ q.state = "answered" /\ q.items = {}
           /\ calls' \subseteq (calls \ {r}) \cup {q} /\ calls \ {r} \subseteq calls'
    <2>1. {} \in SUBSET Ids
      OBVIOUS
    <2> QED
      BY <1>0, <2>1, ReplyFacts
  <1>3. PICK new : new = [queue |-> <<>>, planGate |-> FALSE, actionGate |-> FALSE,
                          planDecision |-> None, actionDecision |-> None,
                          stage |-> "case_intake", report |-> None]
    OBVIOUS
  <1>4. /\ new \in AuditCase /\ new # None
        /\ new.queue = <<>> /\ ~new.planGate /\ ~new.actionGate
        /\ new.planDecision = None /\ new.actionDecision = None /\ new.report = None
    <2>1. new \in AuditCase
      BY <1>3 DEF AuditCase, Stages
    <2> QED
      BY <1>3, <2>1, MockAssumption
  <1>5. /\ cases[c] = None /\ cases' = [cases EXCEPT ![c] = new]
        /\ GoTo(c, "opening", {}) /\ UNCHANGED handlers
    BY <1>3 DEF PostAuditCase
  <1>6. /\ cases' \in [Cases -> AuditCase \cup {None}]
        /\ cases'[c] = new /\ \A d \in Cases \ {c} : cases'[d] = cases[d]
    BY <1>0, <1>4, <1>5 DEF ServerTypes
  <1>7. /\ threads' \in [Cases -> [phase : Phases, next : Nat, ids : SUBSET Ids]]
        /\ \A d \in Cases : threads'[d].next \in 1 .. Len(Script(threads'[d])) + 1
        /\ threads'[c].phase = "opening"
        /\ \A d \in Cases \ {c} : threads'[d] = threads[d]
        /\ \A g \in Gates : ~AtGate(c, g)'
    <2>1. "opening" \in Phases /\ {} \in SUBSET Ids
      BY DEF Phases
    <2> QED
      BY <1>0, <1>5, <2>1, GoneTo
  <1>8. /\ ServerTypes' /\ c \notin Started /\ Started' = Started \cup {c}
        /\ \A d \in Started : cases'[d] = cases[d] /\ threads'[d] = threads[d]
    BY <1>0, <1>4, <1>5, <1>6, <1>7 DEF ServerTypes, Started
  <1>9. submitted[c] = None
    BY <1>0, <1>8 DEF CaseInv
  <1>10. CaseOK(c)'
    <2>1. Len(new.queue) = 0
      BY <1>4
    <2>2. \A i \in 1 .. Len(cases'[c].queue) : FALSE
      BY <1>6, <2>1
    <2>3. (\A i \in 1 .. Len(cases[c].queue) : EventOK(c, cases[c].queue[i]))'
      BY <2>2
    <2>4. ActionEvents(c)' = {}
      BY <2>2 DEF ActionEvents
    <2> QED
      BY <1>4, <1>6, <1>7, <1>9, <2>3, <2>4 DEF CaseOK
  <1>11. CaseInv'
    <2>1. \A d \in Started : CaseOK(d)'
      BY <1>0, <1>8, UntouchedCase DEF CaseInv
    <2> QED
      BY <1>0, <1>8, <1>10, <2>1 DEF CaseInv
  <1>12. PageTypes'
    BY <1>0, <1>2 DEF PageTypes, UI!UITypeOK
  <1>13. PageCase'
    BY <1>0, <1>1 DEF PageCase
  <1>14. \A p \in calls' : p = q \/ (p \in calls /\ p.kind # "launch" /\ p.case \in Started)
    BY <1>0, <1>2 DEF CallsOK
  <1>15. Fresh(c)'
    <2>1. \A p \in UI!Posts' : p.case # c
      BY <1>2, <1>8, <1>14 DEF UI!Posts
    <2>2. "plan" \in Gates
      BY DEF Gates
    <2> QED
      BY <1>4, <1>6, <1>7, <1>9, <2>1, <2>2 DEF Fresh
  <1>16. CallsOK'
    BY <1>0, <1>1, <1>2, <1>8, <1>14, <1>15 DEF CallsOK
  <1>17. ShownReportIsCurrent' /\ WaitingGateIsShown'
    BY <1>0, <1>1, WaitingNext DEF ShownReportIsCurrent, WaitingGateIsShown
  <1> QED
    BY <1>8, <1>11, <1>12, <1>13, <1>16, <1>17 DEF MInv, CaseInv

\* The report is asked for: found, or not there yet.
LEMMA ReportStep ==
    ASSUME MInv, NEW r \in calls, r.kind = "report",
           LET found == cases[r.case].report
           IN  Reply(r, r.case, IF found = None THEN "failed" ELSE "answered",
                     IF found = None THEN {} ELSE found),
           UNCHANGED serverVars,
           UNCHANGED <<caseId, source, launchable, panels, rows, statuses, underReview,
                       shownReport, conn, submitted, carried>>
    PROVE  MInv'
  <1>0. /\ ServerTypes /\ PageTypes /\ CaseInv /\ PageCase /\ CallsOK
        /\ ShownReportIsCurrent /\ WaitingGateIsShown /\ UI!UITypeOK
        /\ r \in UI!Call /\ UNCHANGED <<cases, threads, handlers>>
    BY DEF MInv, CaseInv, PageTypes, UI!UITypeOK, serverVars
  <1>1. PICK found : found = cases[r.case].report
    OBVIOUS
  <1>2. PICK state : state = IF found = None THEN "failed" ELSE "answered"
    OBVIOUS
  <1>3. PICK items : items = IF found = None THEN {} ELSE found
    OBVIOUS
  <1>4. r.case \in Started /\ r.case \in Cases /\ found \in (SUBSET Ids) \cup {None}
    <2>1. r.case \in Started
      BY <1>0 DEF CallsOK
    <2> QED
      BY <1>0, <1>1, <2>1, RecordOf
  <1>5. PICK q \in UI!Call :
           /\ q.kind = r.kind /\ q.case = r.case /\ q.state = state /\ q.items = items
           /\ calls' \subseteq (calls \ {r}) \cup {q} /\ calls \ {r} \subseteq calls'
    <2>1. Reply(r, r.case, state, items)
      BY <1>1, <1>2, <1>3
    <2>2. items \in SUBSET Ids /\ state \in {"answered", "failed"}
      BY <1>2, <1>3, <1>4
    <2> QED
      BY <1>0, <1>4, <2>1, <2>2, ReplyFacts
  <1>6. /\ \A p \in calls' : p = q \/ p \in calls
        /\ q.state = "answered" => cases[q.case].report # None /\ cases[q.case].report = q.items
    BY <1>1, <1>2, <1>3, <1>5
  <1>7. ServerTypes' /\ CaseInv' /\ Started' = Started
    BY <1>0, ServerStill DEF ServerTypes, CaseInv
  <1>8. PageTypes'
    BY <1>0, <1>5 DEF PageTypes, UI!UITypeOK
  <1>9. PageCase'
    BY <1>0, <1>7, ServerStill DEF PageCase
  <1>10. UI!Posts' = UI!Posts /\ \A d, g : Out(d, g)' <=> Out(d, g)
    <2>1. UI!Posts' = UI!Posts
      BY <1>5 DEF UI!Posts
    <2> QED
      BY <2>1 DEF Out, UI!DecisionOf
  <1>11. \A d : Fresh(d) => Fresh(d)'
    <2>1. "plan" \in Gates
      BY DEF Gates
    <2> QED
      BY <1>0, <1>10, <2>1, ServerStill DEF Fresh
  <1>12. CallsOK'
    <2>1. \A p \in calls : p.kind = "launch" => p \in calls'
      BY <1>5
    <2> QED
      BY <1>0, <1>4, <1>5, <1>6, <1>7, <1>11 DEF CallsOK
  <1>13. ShownReportIsCurrent'
    BY <1>0 DEF ShownReportIsCurrent
  <1>14. WaitingGateIsShown'
    BY <1>0, <1>10, Waiting, WaitingNext, ServerStill DEF WaitingGateIsShown
  <1> QED
    BY <1>7, <1>8, <1>9, <1>12, <1>13, <1>14 DEF MInv, CaseInv

\* _post_approve: the decision is stored and its gate set, whatever the thread does.
LEMMA ApproveStep ==
    ASSUME MInv, NEW r \in calls, r.state = "sent", r \in UI!Posts,
           PostApprove(r.case, UI!DecisionOf(r)), Reply(r, r.case, "answered", {}),
           UNCHANGED <<caseId, source, launchable, panels, rows, statuses, underReview,
                       shownReport, conn, submitted, carried>>
    PROVE  MInv'
  <1>0. /\ ServerTypes /\ PageTypes /\ CaseInv /\ PageCase /\ CallsOK
        /\ ShownReportIsCurrent /\ WaitingGateIsShown /\ UI!UITypeOK
        /\ r \in UI!Call
    BY DEF MInv, CaseInv, PageTypes, UI!UITypeOK
  <1>1. r.kind \in {"approve_plan", "reject_plan", "submit"}
    BY DEF UI!Posts
  <1>2. PICK c : c = r.case
    OBVIOUS
  <1>3. PICK d : d = UI!DecisionOf(r)
    OBVIOUS
  <1>4. /\ c \in Started /\ c \in Cases /\ CaseOK(c)
        /\ cases[c] \in AuditCase
    BY <1>0, <1>1, <1>2, RecordOf DEF CallsOK, CaseInv
  <1>5. /\ d \in Decision /\ d # None /\ d.approvedIds = r.approvedIds
        /\ d.gate = IF r.kind = "submit" THEN "action" ELSE "plan"
    <2>1. /\ d.approvedIds = r.approvedIds
          /\ d.gate = IF r.kind = "submit" THEN "action" ELSE "plan"
      BY <1>3 DEF UI!DecisionOf
    <2>2. d \in Decision
      BY <1>0, <1>3 DEF UI!DecisionOf, UI!Call, Decision, Gates
    <2> QED
      BY <2>1, <2>2, MockAssumption
  <1>6. PICK q \in UI!Call :
           /\ q.kind = r.kind /\ q.case = c /\ q.state = "answered"
           /\ calls' \subseteq (calls \ {r}) \cup {q} /\ calls \ {r} \subseteq calls'
    <2>1. {} \in SUBSET Ids
      OBVIOUS
    <2> QED
      BY <1>0, <1>2, <1>4, <2>1, ReplyFacts
  \* The record afterwards.
  <1>7. \E s \in AuditCase :
           /\ cases' = [cases EXCEPT ![c] = s]
           /\ s.queue = cases[c].queue /\ s.report = cases[c].report
           /\ d.gate = "plan" => /\ s.planGate = TRUE /\ s.planDecision = d
                                 /\ s.actionGate = cases[c].actionGate
                                 /\ s.actionDecision = cases[c].actionDecision
           /\ d.gate # "plan" => /\ s.actionGate = TRUE /\ s.actionDecision = d
                                 /\ s.planGate = cases[c].planGate
                                 /\ s.planDecision = cases[c].planDecision
    <2>1. CASE d.gate = "plan"
      <3>1. PICK s : s = [[cases[c] EXCEPT !.planDecision = d] EXCEPT !.planGate = TRUE]
        OBVIOUS
      <3>2. s \in AuditCase
        BY <1>4, <1>5, <3>1 DEF AuditCase
      <3>3. cases' = [cases EXCEPT ![c] = s]
        BY <1>0, <1>2, <1>3, <1>4, <2>1, <3>1 DEF PostApprove, ServerTypes, AuditCase
      <3> QED
        BY <1>4, <2>1, <3>1, <3>2, <3>3 DEF AuditCase
    <2>2. CASE d.gate # "plan"
      <3>1. PICK s : s = [[cases[c] EXCEPT !.actionDecision = d] EXCEPT !.actionGate = TRUE]
        OBVIOUS
      <3>2. s \in AuditCase
        BY <1>4, <1>5, <3>1 DEF AuditCase
      <3>3. cases' = [cases EXCEPT ![c] = s]
        BY <1>0, <1>2, <1>3, <1>4, <2>2, <3>1 DEF PostApprove, ServerTypes, AuditCase
      <3> QED
        BY <1>4, <2>2, <3>1, <3>2, <3>3 DEF AuditCase
    <2> QED
      BY <2>1, <2>2
  <1>8. PICK s \in AuditCase :
           /\ cases' = [cases EXCEPT ![c] = s]
           /\ s.queue = cases[c].queue /\ s.report = cases[c].report
           /\ d.gate = "plan" => /\ s.planGate = TRUE /\ s.planDecision = d
                                 /\ s.actionGate = cases[c].actionGate
                                 /\ s.actionDecision = cases[c].actionDecision
           /\ d.gate # "plan" => /\ s.actionGate = TRUE /\ s.actionDecision = d
                                 /\ s.planGate = cases[c].planGate
                                 /\ s.planDecision = cases[c].planDecision
    BY <1>7
  <1>9. /\ cases' \in [Cases -> AuditCase \cup {None}] /\ Started' = Started
        /\ cases'[c] = s /\ \A b \in Cases \ {c} : cases'[b] = cases[b]
    BY <1>0, <1>4, <1>8, CaseReplaced
  <1>10. UNCHANGED <<threads, handlers>>
    BY DEF PostApprove
  <1>11. ServerTypes'
    BY <1>0, <1>9, <1>10 DEF ServerTypes
  <1>12. \A b \in Started :
            /\ cases'[b].queue = cases[b].queue /\ cases'[b].report = cases[b].report
            /\ Announced(b)' <=> Announced(b)
            /\ ActionEvents(b)' = ActionEvents(b)
            /\ \A g \in Gates : /\ OnItsWay(b, g)' <=> OnItsWay(b, g)
                                /\ AtGate(b, g)' <=> AtGate(b, g)
            /\ cases[b].planGate => cases'[b].planGate
            /\ cases[b].actionGate => cases'[b].actionGate
    <2>1. \A b \in Started :
             /\ cases'[b].queue = cases[b].queue /\ cases'[b].report = cases[b].report
             /\ cases[b].planGate => cases'[b].planGate
             /\ cases[b].actionGate => cases'[b].actionGate
      BY <1>5, <1>8, <1>9 DEF Started
    <2> QED
      BY <1>10, <2>1 DEF Announced, ActionEvents, OnItsWay, AtGate, AllSent
  <1>13. CaseOK(c)'
    <2>1. (\A i \in 1 .. Len(cases[c].queue) : EventOK(c, cases[c].queue[i]))'
      BY <1>4, <1>10, <1>12 DEF CaseOK, EventOK
    <2>2. /\ s.planGate => s.planDecision # None
          /\ s.actionGate => s.actionDecision # None
          /\ s.actionDecision # None =>
                submitted[c] # None /\ s.actionDecision.approvedIds = submitted[c]
      <3>1. CASE d.gate = "plan"
        BY <1>4, <1>5, <1>8, <3>1 DEF CaseOK
      <3>2. CASE d.gate # "plan"
        <4>1. r.kind = "submit"
          BY <1>5, <3>2
        <4>2. submitted[c] # None /\ r.approvedIds = submitted[c]
          BY <1>0, <1>2, <4>1 DEF CallsOK
        <4> QED
          BY <1>4, <1>5, <1>8, <3>2, <4>2 DEF CaseOK
      <3> QED
        BY <3>1, <3>2
    <2> QED
      BY <1>4, <1>9, <1>10, <1>12, <2>1, <2>2 DEF CaseOK
  <1>14. CaseInv'
    <2>1. ASSUME NEW b \in Started PROVE CaseOK(b)'
      <3>1. CASE b = c
        BY <1>13, <3>1
      <3>2. CASE b # c
        BY <1>0, <1>9, <1>10, <3>2, UntouchedCase DEF CaseInv, Started
      <3> QED
        BY <3>1, <3>2
    <2> QED
      BY <1>0, <1>9, <2>1 DEF CaseInv
  <1>15. PageTypes'
    BY <1>0, <1>6 DEF PageTypes, UI!UITypeOK
  <1>16. PageCase'
    BY <1>0, <1>9, <1>12 DEF PageCase
  <1>17. \A p \in calls' : p = q \/ p \in calls
    BY <1>6
  <1>18. ASSUME NEW b \in Started, Fresh(b) PROVE Fresh(b)'
    <2>1. \A p \in UI!Posts : p.case # b
      BY <1>18 DEF Fresh
    <2>2. b # c
      BY <1>2, <2>1
    <2>3. \A p \in UI!Posts' : p.case # b
      BY <1>6, <1>17, <2>1, <2>2 DEF UI!Posts
    <2>4. cases'[b] = cases[b]
      BY <1>9, <2>2 DEF Started
    <2>5. "plan" \in Gates
      BY DEF Gates
    <2> QED
      BY <1>10, <1>12, <1>18, <2>3, <2>4, <2>5 DEF Fresh
  <1>19. CallsOK'
    <2>1. q.kind = "reject_plan" => cases'[c].planGate
      BY <1>5, <1>6, <1>8, <1>9
    <2>2. q.kind = "reject_plan" => "reject_plan" \in carried \/ c = caseId
      BY <1>0, <1>2, <1>6 DEF CallsOK
    <2>3. q.kind = "submit" => submitted[c] # None
      BY <1>0, <1>2, <1>6 DEF CallsOK
    <2>4. q \in calls' => q.kind = "reject_plan" \/ q \in calls
      <3>1. r.kind \notin {"launch", "reject_plan", "report"} => calls' = calls \ {r}
        <4>1. \E p \in UI!Call :
                 /\ p.kind = r.kind
                 /\ p.kind \notin {"launch", "reject_plan", "report"} => calls' = calls \ {r}
          <5>1. {} \in SUBSET Ids
            OBVIOUS
          <5> QED
            BY <1>0, <1>2, <1>4, <5>1, ReplyFacts
        <4> QED
          BY <4>1
      <3> QED
        BY <1>1, <1>6, <3>1
    <2>5. \A p \in calls' : p \in calls \/ (p = q /\ p.kind = "reject_plan")
      BY <1>17, <2>4
    <2> QED
      BY <1>0, <1>4, <1>6, <1>9, <1>12, <1>18, <2>1, <2>2, <2>5 DEF CallsOK
  <1>20. ShownReportIsCurrent'
    BY <1>0, <1>12 DEF ShownReportIsCurrent, PageCase
  <1>21. WaitingGateIsShown'
    <2>1. SUFFICES ASSUME "reject_plan" \notin carried, NEW g \in Gates, WaitsAt(g)'
                   PROVE  g \in panels \/ OnItsWay(caseId, g)'
      BY DEF WaitingGateIsShown
    <2>2. caseId # None /\ caseId \in Started
      BY <1>0, <2>1, WaitingNext DEF PageCase
    <2>3. ~(c = caseId /\ d.gate = g)
      BY <1>8, <1>9, <2>1, WaitingNext DEF Gates
    <2>4. ASSUME Out(caseId, g) PROVE Out(caseId, g)'
      <3>1. PICK p \in UI!Posts :
               p.state = "sent" /\ p.case = caseId /\ UI!DecisionOf(p).gate = g
        BY <2>4 DEF Out
      <3>2. p # r
        BY <1>2, <1>3, <2>3, <3>1
      <3>3. p \in UI!Posts'
        BY <1>6, <3>2 DEF UI!Posts
      <3> QED
        BY <3>1, <3>3 DEF Out, UI!DecisionOf
    <2>5. WaitsAt(g)
      BY <1>12, <2>1, <2>2, <2>4, Waiting, WaitingNext
    <2> QED
      BY <1>0, <1>12, <2>1, <2>2, <2>5 DEF WaitingGateIsShown
  <1> QED
    BY <1>11, <1>14, <1>15, <1>16, <1>19, <1>20, <1>21 DEF MInv, CaseInv

\* A request reaches the server.
LEMMA ReceiveStep ==
    ASSUME MInv, NEW r \in calls, Receive(r)
    PROVE  MInv'
  <1>1. CASE r.kind = "launch"
    <2>1. PICK c \in Cases : PostAuditCase(c) /\ Reply(r, c, "answered", {})
      BY <1>1 DEF Receive, UI!Posts
    <2> QED
      BY <1>1, <2>1, CreateStep DEF Receive
  <1>2. CASE r \in UI!Posts
    <2>1. PostApprove(r.case, UI!DecisionOf(r)) /\ Reply(r, r.case, "answered", {})
      BY <1>2 DEF Receive, UI!Posts
    <2> QED
      BY <1>2, <2>1, ApproveStep DEF Receive
  <1>3. CASE r.kind = "report"
    BY <1>3, ReportStep DEF Receive, UI!Posts
  <1> QED
    BY <1>1, <1>2, <1>3 DEF Receive

-------------------------------------------------------------------------------
(* The invariant *)

LEMMA MockInitInv == MockInit => MInv
  <1> SUFFICES ASSUME MockInit PROVE MInv
    OBVIOUS
  <1>1. /\ cases = [c \in Cases |-> None]
        /\ threads = [c \in Cases |-> [phase |-> "off", next |-> 1, ids |-> {}]]
        /\ handlers = [c \in Cases |-> "none"]
        /\ conn = None /\ submitted = [c \in Cases |-> None] /\ carried = {}
        /\ UI!UIInit
    BY DEF MockInit, ServerInit
  <1>2. ServerTypes
    <2>1. ASSUME NEW c \in Cases
          PROVE  threads[c].next \in 1 .. Len(Script(threads[c])) + 1
      <3>1. threads[c].phase = "off" /\ threads[c].next = 1
        BY <1>1
      <3>2. Script(threads[c]) = <<>>
        BY <3>1 DEF Script
      <3> QED
        BY <3>1, <3>2
    <2> QED
      BY <1>1, <2>1 DEF ServerTypes, Phases
  <1>3. Started = {}
    BY <1>1 DEF Started
  <1>4. PageTypes
    BY <1>1 DEF PageTypes, UI!UIInit, UI!UITypeOK, UI!NoRows
  <1>5. PageCase /\ CallsOK
    BY <1>1 DEF PageCase, CallsOK, UI!UIInit, UI!Posts
  <1>6. ShownReportIsCurrent /\ WaitingGateIsShown
    BY <1>1, Waiting DEF ShownReportIsCurrent, WaitingGateIsShown, UI!UIInit
  <1> QED
    BY <1>1, <1>2, <1>3, <1>4, <1>5, <1>6 DEF MInv, CaseInv

LEMMA MockStep == MInv /\ [MockNext]_sessionVars => MInv'
  <1> SUFFICES ASSUME MInv, [MockNext]_sessionVars PROVE MInv'
    OBVIOUS
  <1>1. ASSUME NEW c \in Started, Inside(ThreadStep(c)) \/ Inside(HandlerEnds(c))
        PROVE  MInv'
    <2>1. ThreadStep(c) \/ HandlerEnds(c)
      BY <1>1 DEF Inside
    <2>2. UNCHANGED <<page, conn, submitted, carried>>
      BY <1>1 DEF Inside
    <2>3. ServerTypes /\ CaseOK(c)
      BY DEF MInv, CaseInv
    <2>4. Moved(c)
      BY <2>1, <2>2, <2>3, ServerMove
    <2> QED
      BY <2>2, <2>4, InsideStep
  <1>2. CASE Click
    BY <1>2, LaunchStep, PlanStep, SubmitStep DEF Click
  <1>3. CASE StreamPage
    BY <1>3, StreamStep, ReadStep DEF StreamPage
  <1>4. ASSUME NEW r \in calls, Receive(r) \/ GoOn(r)
        PROVE  MInv'
    BY <1>4, ReceiveStep, GoOnStep
  <1>5. CASE UNCHANGED sessionVars
    <2>1. /\ UNCHANGED <<cases, threads, handlers, conn, submitted, carried>>
          /\ UNCHANGED <<caseId, source, launchable, panels, rows, statuses, underReview,
                         shownReport, calls>>
      BY <1>5 DEF sessionVars, serverVars, page
    <2>2. ServerTypes' /\ PageTypes'
      BY <2>1 DEF MInv, ServerTypes, PageTypes, UI!UITypeOK
    <2>3. CaseInv'
      BY <2>1, ServerStill DEF MInv, CaseInv
    <2>4. UI!Posts' = UI!Posts /\ \A d, g : Out(d, g)' <=> Out(d, g)
      BY <2>1 DEF UI!Posts, Out, UI!DecisionOf
    <2>5. "plan" \in Gates
      BY DEF Gates
    <2>6. \A d : Fresh(d)' <=> Fresh(d)
      BY <2>1, <2>4, <2>5, ServerStill DEF Fresh
    <2>7. PageCase' /\ CallsOK'
      BY <2>1, <2>6, ServerStill DEF MInv, PageCase, CallsOK
    <2>8. ShownReportIsCurrent' /\ WaitingGateIsShown'
      BY <2>1, <2>4, Waiting, WaitingNext, ServerStill
         DEF MInv, ShownReportIsCurrent, WaitingGateIsShown
    <2> QED
      BY <2>2, <2>3, <2>7, <2>8 DEF MInv, CaseInv
  <1> QED
    BY <1>1, <1>2, <1>3, <1>4, <1>5 DEF MockNext

\* Every reachable state of the page and the mock server is one of MInv, for any
\* cases and any order of clicks, replies and timeouts.
THEOREM MockInvariance == MockSpec => []MInv
  BY MockInitInv, MockStep, PTL DEF MockSpec

\* The types of MockSession: no thread is past the end of its script, and the page
\* holds what its buttons and handlers put there (mockserver.py, web/js).
THEOREM MockTypeCorrect == MockSpec => []MockTypeOK
  <1>1. MInv => MockTypeOK
    <2> SUFFICES ASSUME MInv PROVE MockTypeOK
      OBVIOUS
    <2>1. UI!UITypeOK /\ conn \in Cases \cup {None} /\ carried \subseteq UI!Kinds
      BY DEF MInv, PageTypes
    <2>2. ASSUME NEW c \in Cases
          PROVE  /\ threads[c].ids \subseteq Ids
                 /\ threads[c].next \in 1 .. Len(Script(threads[c])) + 1
                 /\ cases[c] # None => /\ cases[c].report = None \/ cases[c].report \subseteq Ids
                                       /\ cases[c].stage \in Stages
                 /\ handlers[c] \in {"none", "open", "ended"}
      BY DEF MInv, ServerTypes, AuditCase
    <2> QED
      BY <2>1, <2>2 DEF MockTypeOK
  <1> QED
    BY <1>1, MockInvariance, PTL

\* A report holds what the reviewer submitted for that very case, however often
\* Gate 1 was answered: run_case and _post_approve (mockserver.py).
THEOREM SubmissionIsReported == MockSpec => []ReportIsSubmission
  <1>1. MInv => ReportIsSubmission
    BY DEF MInv, CaseInv, CaseOK, ReportIsSubmission
  <1> QED
    BY <1>1, MockInvariance, PTL

\* A report on the page is that of the open case, unless a fetch of one was out at
\* the last launch: the report_ready handler (app.events.js).
THEOREM CurrentReportShown == MockSpec => []ShownReportIsCurrent
  <1>1. MInv => ShownReportIsCurrent
    BY DEF MInv
  <1> QED
    BY <1>1, MockInvariance, PTL

\* A gate the open case waits at is offered, or its announcement is still in the
\* queue, unless a rejection was out at the last launch: rejectPlan (app.gates.js).
THEOREM WaitingGateOffered == MockSpec => []WaitingGateIsShown
  <1>1. MInv => WaitingGateIsShown
    BY DEF MInv
  <1> QED
    BY <1>1, MockInvariance, PTL
===============================================================================
