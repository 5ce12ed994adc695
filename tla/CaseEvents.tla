------------------------------ MODULE CaseEvents ------------------------------
(***************************************************************************)
(* The vocabulary of an audit case: gates, event types, Maestro stages and *)
(* the table that stamps an event with its stage                           *)
(* (fraudcase_ai/models.py).                                               *)
(*                                                                         *)
(* An event keeps of its payload what some reader acts upon: the gate it   *)
(* waits at, the invoice ids it carries and the number of findings it      *)
(* announces.  Plan text, scores, actor badges and timestamps are left out.*)
(***************************************************************************)
EXTENDS Naturals

Gates == {"plan", "action"}

NoGate == "no_gate"

EventTypes == {"plan", "tool_call", "tool_result", "exception", "proposal",
               "awaiting_approval", "written", "report_ready", "error", "done"}

Stages == {"case_intake", "audit_plan_review", "agent_investigation",
           "exception_review", "audit_log_write", "audit_report_ready", "closed"}

\* The stage of an event of this type; only AWAITING_APPROVAL looks at the gate.
StageOf(type, gate) ==
    CASE type = "plan" -> "audit_plan_review"
      [] type = "awaiting_approval" ->
            IF gate = "plan" THEN "audit_plan_review" ELSE "exception_review"
      [] type \in {"tool_call", "tool_result"} -> "agent_investigation"
      [] type \in {"exception", "proposal"} -> "exception_review"
      [] type = "written" -> "audit_log_write"
      [] type = "report_ready" -> "audit_report_ready"
      [] type = "done" -> "closed"
      [] OTHER -> "case_intake"

AgentEvent(Ids) ==
    [type : EventTypes, gate : Gates \cup {NoGate}, stage : Stages,
     items : SUBSET Ids, total : Nat]

\* The runners' evt helper: an event of this type with its stage, no gate.
Evt(type, items, total) ==
    [type |-> type, gate |-> NoGate, stage |-> StageOf(type, NoGate),
     items |-> items, total |-> total]

Plain(type) == Evt(type, {}, 0)

Awaiting(gate) ==
    [Plain("awaiting_approval") EXCEPT !.gate = gate,
                                       !.stage = StageOf("awaiting_approval", gate)]

\* An AgentEvent built without maestro_event_context keeps the model's default
\* stage, whatever its type.
Unstamped(type) == [Plain(type) EXCEPT !.stage = "case_intake"]
===============================================================================
