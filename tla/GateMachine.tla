------------------------------ MODULE GateMachine ------------------------------
(***************************************************************************)
(* The two-gate approval state machine of one audit case                   *)
(* (fraudcase_ai/agent/gates.py), a plain object whose methods an agent    *)
(* and a human interface call in whatever order.  A call the machine       *)
(* refuses raises GateMachineError before it assigns anything, so it is no *)
(* step here.                                                              *)
(***************************************************************************)
EXTENDS FiniteSets

CONSTANTS Plans,    \* plan texts; the blank ones are those submit_plan refuses
          Blank,    \* the texts with nothing but white space
          NoPlan,   \* Python's None
          Ids       \* invoice ids

ASSUME GateMachineAssumption == Blank \subseteq Plans /\ NoPlan \notin Plans

Statuses == {"planning", "awaiting_plan", "executing", "awaiting_action",
             "writing", "done"}

\* An ApprovalDecision, as far as the machine reads it.
Decision == [approved : BOOLEAN, editedPlan : Plans \cup {NoPlan},
             approvedIds : SUBSET Ids]

VARIABLES status, plan, proposedItems, approvedIds,
          granted   \* history: the gates passed with approved = TRUE, in order
                    \* of the calls that passed them

machineVars == <<status, plan, proposedItems, approvedIds>>
vars == <<machineVars, granted>>

TypeOK ==
    /\ status \in Statuses
    /\ plan \in Plans \cup {NoPlan}
    /\ proposedItems \in SUBSET Ids
    /\ approvedIds \in SUBSET Ids
    /\ granted \in SUBSET {"plan", "action"}

Init ==
    /\ status = "planning" /\ plan = NoPlan
    /\ proposedItems = {} /\ approvedIds = {}
    /\ granted = {}

Grant(d, gate) == granted' = IF d.approved THEN granted \cup {gate} ELSE granted

SubmitPlan(text) ==
    /\ status = "planning"
    /\ text \notin Blank
    /\ plan' = text
    /\ status' = "awaiting_plan"
    /\ UNCHANGED <<proposedItems, approvedIds, granted>>

ApprovePlan(d) ==
    /\ status = "awaiting_plan"
    /\ status' = IF d.approved THEN "executing" ELSE "done"
    /\ plan' = IF d.approved /\ d.editedPlan # NoPlan THEN d.editedPlan ELSE plan
    /\ Grant(d, "plan")
    /\ UNCHANGED <<proposedItems, approvedIds>>

Propose(items) ==
    /\ status = "executing"
    /\ proposedItems' = items
    /\ status' = "awaiting_action"
    /\ UNCHANGED <<plan, approvedIds, granted>>

\* Mutant: a list of ids is taken for an approval.
ApproveActionByIds(d) ==
    /\ status = "awaiting_action"
    /\ approvedIds' = d.approvedIds
    /\ status' = IF d.approvedIds # {} THEN "writing" ELSE "done"
    /\ Grant(d, "action")
    /\ UNCHANGED <<plan, proposedItems>>

ApproveAction(d) ==
    /\ status = "awaiting_action"
    /\ LET writes == d.approved /\ d.approvedIds # {}
       IN  /\ approvedIds' = IF writes THEN d.approvedIds ELSE {}
           /\ status' = IF writes THEN "writing" ELSE "done"
    /\ Grant(d, "action")
    /\ UNCHANGED <<plan, proposedItems>>

\* Mutant: a status that is not one of CaseStatus.
CompleteMisspelt ==
    /\ status = "writing"
    /\ status' = "complete"
    /\ UNCHANGED <<plan, proposedItems, approvedIds, granted>>

Complete ==
    /\ status = "writing"
    /\ status' = "done"
    /\ UNCHANGED <<plan, proposedItems, approvedIds, granted>>

Next ==
    \/ \E text \in Plans : SubmitPlan(text)
    \/ \E items \in SUBSET Ids : Propose(items)
    \/ \E d \in Decision : ApprovePlan(d) \/ ApproveAction(d)
    \/ Complete

Spec == Init /\ [][Next]_vars

-------------------------------------------------------------------------------

\* Ids are handed to the write phase only after both gates said yes, and then
\* they are not empty; every other way to `done` leaves none behind.
WriteNeedsBothGrants ==
    /\ status = "writing" => approvedIds # {}
    /\ approvedIds # {} => granted = {"plan", "action"} /\ status \in {"writing", "done"}

\* A plan the human has seen is never blank until the human edits it: up to
\* Gate 1 the plan is a submitted one, and nothing runs without a plan.
PlanPrecedesWork ==
    /\ plan = NoPlan <=> status = "planning"
    /\ status = "awaiting_plan" => plan \notin Blank
===============================================================================
