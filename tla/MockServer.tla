------------------------------- MODULE MockServer -------------------------------
(***************************************************************************)
(* The stand-alone mock server (fraudcase_ai/web/mockserver.py): one       *)
(* thread replays the script of each case and waits at two gates, one      *)
(* thread per request serves the page.  Unlike the service, a gate is a    *)
(* threading.Event that stays set, and each gate has its own decision.     *)
(*                                                                         *)
(* Every case is flagged the same Ids.  The stage is set by make_event     *)
(* just before the event is queued, and by nothing else.                   *)
(***************************************************************************)
EXTENDS CaseEvents, Sequences, FiniteSets

CONSTANTS Cases,    \* case ids, in the order they are handed out
          Ids,      \* FLAGGED_ITEMS
          Tools,    \* tools in the script; six in the code
          None

\* The None that ends a queue.
Sentinel == [Plain("done") EXCEPT !.type = "sentinel"]

\* The body of an approval.
Decision == [gate : Gates, approved : BOOLEAN, approvedIds : SUBSET Ids, rejectedIds : SUBSET Ids]

\* An entry of the dict.
AuditCase == [queue : Seq(AgentEvent(Ids) \cup {Sentinel}),
              planGate : BOOLEAN, actionGate : BOOLEAN,
              planDecision : Decision \cup {None}, actionDecision : Decision \cup {None},
              stage : Stages, report : (SUBSET Ids) \cup {None}]

ASSUME MockAssumption ==
    /\ Tools \in Nat
    /\ IsFiniteSet(Ids)
    /\ None \notin Cases \cup Ids \cup Decision \cup AuditCase
    /\ \A items \in SUBSET Ids : None # items

VARIABLES cases,      \* the dict: a record per case, None for no such case
          threads,    \* where the thread of a case stands
          handlers    \* the request that streams a case

serverVars == <<cases, threads, handlers>>

Started == {c \in Cases : cases[c] # None}

ServerInit ==
    /\ cases = [c \in Cases |-> None]
    /\ threads = [c \in Cases |-> [phase |-> "off", next |-> 1, ids |-> {}]]
    /\ handlers = [c \in Cases |-> "none"]

-------------------------------------------------------------------------------
(* The script of a case *)

Opening == <<Plain("plan"), Awaiting("plan")>>

ToolEvents == [k \in 1 .. 2 * Tools |-> Plain(IF k % 2 = 1 THEN "tool_call" ELSE "tool_result")]

\* Mutant: the second gate is announced as the first.
InvestigationOneGate ==
    ToolEvents \o <<Evt("proposal", Ids, Cardinality(Ids)), Awaiting("plan")>>

Investigation ==
    ToolEvents \o <<Evt("proposal", Ids, Cardinality(Ids)), Awaiting("action")>>

Closing(ids) ==
    <<Evt("written", ids, Cardinality(ids)),
      Evt("report_ready", ids \cap Ids, Cardinality(ids)), Plain("done")>>

Script(t) ==
    CASE t.phase = "opening" -> Opening
      [] t.phase = "investigation" -> Investigation
      [] t.phase = "closing" -> Closing(t.ids)
      [] OTHER -> <<>>

AllSent(c) == threads[c].next > Len(Script(threads[c]))

\* Mutant: the event's type is recorded for its stage.
PutType(c, e) == cases' = [cases EXCEPT ![c].queue = Append(@, e), ![c].stage = e.type]

Put(c, e) == cases' = [cases EXCEPT ![c].queue = Append(@, e),
                                    ![c].stage = StageOf(e.type, e.gate)]

GoTo(c, phase, ids) ==
    threads' = [threads EXCEPT ![c] = [phase |-> phase, next |-> 1, ids |-> ids]]

\* The report is stored between WRITTEN and REPORT_READY.
ReportDue(c) ==
    threads[c].phase = "closing" /\ threads[c].next = 2 /\ cases[c].report = None

Send(c) ==
    /\ ~AllSent(c) /\ ~ReportDue(c)
    /\ Put(c, Script(threads[c])[threads[c].next])
    /\ threads' = [threads EXCEPT ![c].next = @ + 1]
    /\ UNCHANGED handlers

\* plan_gate.wait(): the decision is read afterwards, whichever was posted last.
PassPlanGate(c) ==
    /\ threads[c].phase = "opening" /\ AllSent(c)
    /\ cases[c].planGate
    /\ GoTo(c, IF cases[c].planDecision.approved THEN "investigation" ELSE "rejected", {})
    /\ UNCHANGED <<cases, handlers>>

\* Mutant: a rejected case just returns.
EndRejectedSilently(c) ==
    /\ threads[c].phase = "rejected"
    /\ GoTo(c, "returned", {})
    /\ UNCHANGED <<cases, handlers>>

\* A rejected case sends DONE and returns: no sentinel.
EndRejected(c) ==
    /\ threads[c].phase = "rejected"
    /\ Put(c, Plain("done"))
    /\ GoTo(c, "returned", {})
    /\ UNCHANGED handlers

\* Mutant: no approved ids means all of them.
PassActionGateAll(c) ==
    /\ threads[c].phase = "investigation" /\ AllSent(c)
    /\ cases[c].actionGate
    /\ LET ids == cases[c].actionDecision.approvedIds
       IN  GoTo(c, "closing", IF ids = {} THEN Ids ELSE ids)
    /\ UNCHANGED <<cases, handlers>>

\* action_gate.wait(): only the list counts.  (Its default, all of FLAGGED_ITEMS,
\* is for a body without the list; the page always sends it.)
PassActionGate(c) ==
    /\ threads[c].phase = "investigation" /\ AllSent(c)
    /\ cases[c].actionGate
    /\ GoTo(c, "closing", cases[c].actionDecision.approvedIds)
    /\ UNCHANGED <<cases, handlers>>

StoreReport(c) ==
    /\ ReportDue(c)
    /\ cases' = [cases EXCEPT ![c].report = Ids \cap threads[c].ids]
    /\ UNCHANGED <<threads, handlers>>

\* q.put(None).
PutSentinel(c) ==
    /\ threads[c].phase = "closing" /\ AllSent(c)
    /\ cases' = [cases EXCEPT ![c].queue = Append(@, Sentinel)]
    /\ GoTo(c, "returned", {})
    /\ UNCHANGED handlers

ThreadStep(c) ==
    \/ Send(c) \/ PassPlanGate(c) \/ EndRejected(c)
    \/ PassActionGate(c) \/ StoreReport(c) \/ PutSentinel(c)

-------------------------------------------------------------------------------
(* Requests *)

PostAuditCase(c) ==
    /\ cases[c] = None
    /\ cases' = [cases EXCEPT ![c] =
          [queue |-> <<>>, planGate |-> FALSE, actionGate |-> FALSE,
           planDecision |-> None, actionDecision |-> None,
           stage |-> "case_intake", report |-> None]]
    /\ GoTo(c, "opening", {})
    /\ UNCHANGED handlers

\* Any decision is taken, at any time, for the gate it names.
PostApprove(c, d) ==
    /\ cases[c] # None
    /\ cases' = IF d.gate = "plan"
                THEN [cases EXCEPT ![c].planDecision = d, ![c].planGate = TRUE]
                ELSE [cases EXCEPT ![c].actionDecision = d, ![c].actionGate = TRUE]
    /\ UNCHANGED <<threads, handlers>>

\* _sse_stream: 404 for a case that does not exist.
Connect(c) ==
    /\ cases[c] # None
    /\ handlers' = [handlers EXCEPT ![c] = "open"]
    /\ UNCHANGED <<cases, threads>>

\* q.get() and the write of event e.
SendEvent(c, e) ==
    /\ handlers[c] = "open"
    /\ cases[c].queue # <<>> /\ e = Head(cases[c].queue) /\ e # Sentinel
    /\ cases' = [cases EXCEPT ![c].queue = Tail(@)]
    /\ UNCHANGED <<threads, handlers>>

EndStream(c) ==
    /\ handlers[c] = "open"
    /\ cases[c].queue # <<>> /\ Head(cases[c].queue) = Sentinel
    /\ handlers' = [handlers EXCEPT ![c] = "ended"]
    /\ cases' = [cases EXCEPT ![c].queue = Tail(@)]
    /\ UNCHANGED threads

\* A thread that is not blocked sends within two seconds.
Blocked(c) ==
    \/ threads[c].phase = "opening" /\ AllSent(c) /\ ~cases[c].planGate
    \/ threads[c].phase = "investigation" /\ AllSent(c) /\ ~cases[c].actionGate
    \/ threads[c].phase = "returned"

\* Mutant: the request goes on waiting.
QueueTimeoutIgnored(c) ==
    /\ handlers[c] = "open"
    /\ cases[c].queue = <<>> /\ Blocked(c)
    /\ UNCHANGED serverVars

\* q.get(timeout=120) raises Empty and the request ends.
QueueTimeout(c) ==
    /\ handlers[c] = "open"
    /\ cases[c].queue = <<>> /\ Blocked(c)
    /\ handlers' = [handlers EXCEPT ![c] = "ended"]
    /\ UNCHANGED <<cases, threads>>

HandlerEnds(c) == EndStream(c) \/ QueueTimeout(c)
===============================================================================
