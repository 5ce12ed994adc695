----------------------------- MODULE CaseProtocol -----------------------------
(***************************************************************************)
(* What the service promises about one case, whoever runs it: to the       *)
(* reader of the event stream, the order of events (the sequence in the    *)
(* docstring of fraudcase_ai/server/runner.py, with tool events of any     *)
(* number and a run that may fail); to the reader of the poll, that        *)
(* nothing is streamed while a gate is pending; to the reader of the       *)
(* report, that it is published once, before DONE, and lists findings of   *)
(* the proposal only.                                                      *)
(***************************************************************************)
EXTENDS CaseEvents, Sequences

CONSTANTS Ids, None

VARIABLES stream,   \* events so far
          pending,  \* the gate the poll shows
          report,   \* the published report
          ended     \* the stream is closed

vars == <<stream, pending, report, ended>>

Last == stream[Len(stream)]

\* Which types may follow an event; the stream starts with a plan.
Successors(e) ==
    CASE e.type = "plan" -> {"awaiting_approval"}
      [] e.type = "awaiting_approval" ->
            IF e.gate = "plan" THEN {"tool_call", "error"} ELSE {"written", "error"}
      [] e.type = "tool_call" -> {"tool_result", "exception", "error"}
      [] e.type = "tool_result" -> {"tool_call", "exception", "proposal", "error"}
      [] e.type = "exception" -> {"tool_result", "proposal"}
      [] e.type = "proposal" -> {"awaiting_approval"}
      [] e.type = "written" -> {"report_ready"}
      [] e.type = "report_ready" -> {"done"}
      [] e.type = "error" -> {"done"}
      [] OTHER -> {}

MayFollow(e) ==
    IF stream = <<>> THEN e.type = "plan" ELSE e.type \in Successors(Last)

\* Gate 1 follows the plan, Gate 2 the proposal.
GateMatches(e) ==
    e.type = "awaiting_approval" =>
        e.gate = IF Last.type = "plan" THEN "plan" ELSE "action"

Reviewed(items) ==
    \E i \in 1 .. Len(stream) :
        stream[i].type = "proposal" /\ items \subseteq stream[i].items

Init == stream = <<>> /\ pending = NoGate /\ report = None /\ ended = FALSE

\* One event is appended.  It is named by what the next state ends with, so that
\* the payload needs no enumeration.
Emit ==
    /\ Len(stream') = Len(stream) + 1
    /\ LET e == stream'[Len(stream')]
       IN  /\ stream' = Append(stream, e)
           /\ e \in AgentEvent(Ids)
           /\ MayFollow(e) /\ GateMatches(e)
           /\ e.type = "report_ready" => Reviewed(e.items)
           /\ pending' = e.gate
    /\ pending = NoGate /\ ~ended
    /\ stream # <<>> /\ Last.type = "report_ready" => report # None
    /\ UNCHANGED <<report, ended>>

Answer ==
    /\ pending # NoGate
    /\ pending' = NoGate
    /\ UNCHANGED <<stream, report, ended>>

Publish ==
    /\ stream # <<>> /\ Last.type = "report_ready"
    /\ report = None
    /\ report' = Last.items
    /\ UNCHANGED <<stream, pending, ended>>

End ==
    /\ stream # <<>> /\ Last.type = "done" /\ ~ended
    /\ ended' = TRUE
    /\ UNCHANGED <<stream, pending, report>>

Next == Emit \/ Answer \/ Publish \/ End

Spec == Init /\ [][Next]_vars
===============================================================================
