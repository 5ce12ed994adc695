-------------------------- MODULE GateMachine_proofs --------------------------
(***************************************************************************)
(* The gate machine keeps its types and its write discipline for every set *)
(* of plans and invoice ids, under every sequence of calls.                *)
(***************************************************************************)
EXTENDS GateMachine, TLAPS

\* WriteNeedsBothGrants is not inductive: it has to know which gates are passed,
\* and that nothing is approved, while the machine is still on its way.
PhaseInv ==
    /\ status \in {"planning", "awaiting_plan"} => granted = {}
    /\ status \in {"executing", "awaiting_action"} => granted = {"plan"}
    /\ status \in {"planning", "awaiting_plan", "executing", "awaiting_action"} =>
          approvedIds = {}
    /\ status = "writing" => approvedIds # {} /\ granted = {"plan", "action"}
    /\ status = "done" => approvedIds = {} \/ granted = {"plan", "action"}

IInv == TypeOK /\ PhaseInv /\ PlanPrecedesWork

\* The initial state satisfies the invariant.
LEMMA InitInv == Init => IInv
  BY GateMachineAssumption
     DEF Init, IInv, TypeOK, Statuses, PhaseInv, PlanPrecedesWork

\* Every accepted call keeps the invariant.
LEMMA StepInv == IInv /\ [Next]_vars => IInv'
  <1> SUFFICES ASSUME IInv, [Next]_vars PROVE IInv'
    OBVIOUS
  <1> USE DEF IInv, TypeOK, Statuses, PhaseInv, PlanPrecedesWork
  <1>1. ASSUME NEW text \in Plans, SubmitPlan(text) PROVE IInv'
    BY <1>1, GateMachineAssumption DEF SubmitPlan
  <1>2. ASSUME NEW d \in Decision, ApprovePlan(d) PROVE IInv'
    <2>1. plan' \in Plans /\ d.approved \in BOOLEAN
      BY <1>2, GateMachineAssumption DEF ApprovePlan, Decision
    <2>2. CASE d.approved
      BY <1>2, <2>1, <2>2, GateMachineAssumption DEF ApprovePlan, Grant
    <2>3. CASE ~d.approved
      BY <1>2, <2>1, <2>3, GateMachineAssumption DEF ApprovePlan, Grant
    <2> QED
      BY <2>1, <2>2, <2>3
  <1>3. ASSUME NEW items \in SUBSET Ids, Propose(items) PROVE IInv'
    BY <1>3 DEF Propose
  <1>4. ASSUME NEW d \in Decision, ApproveAction(d) PROVE IInv'
    <2>1. d.approvedIds \in SUBSET Ids /\ d.approved \in BOOLEAN
      BY DEF Decision
    <2>2. CASE d.approved /\ d.approvedIds # {}
      BY <1>4, <2>1, <2>2 DEF ApproveAction, Grant
    <2>3. CASE ~(d.approved /\ d.approvedIds # {})
      <3>1. approvedIds' = {} /\ status' = "done"
        BY <1>4, <2>3 DEF ApproveAction
      <3>2. granted' \in {{"plan"}, {"plan", "action"}} /\ UNCHANGED <<plan, proposedItems>>
        BY <1>4, <2>1 DEF ApproveAction, Grant
      <3> QED
        BY <1>4, <3>1, <3>2 DEF ApproveAction
    <2> QED
      BY <2>2, <2>3
  <1>5. CASE Complete
    BY <1>5 DEF Complete
  <1>6. CASE UNCHANGED vars
    BY <1>6 DEF vars, machineVars
  <1> QED
    BY <1>1, <1>2, <1>3, <1>4, <1>5, <1>6 DEF Next

THEOREM Invariance == Spec => []IInv
  BY InitInv, StepInv, PTL DEF Spec

\* The fields of the machine keep their types.
THEOREM TypeCorrect == Spec => []TypeOK
  <1>1. IInv => TypeOK
    BY DEF IInv
  <1> QED
    BY <1>1, Invariance, PTL

\* No id reaches the write phase, or stays behind in a finished case, unless both
\* gates were passed with approved = TRUE.
THEOREM WriteDiscipline == Spec => []WriteNeedsBothGrants
  <1>1. IInv => WriteNeedsBothGrants
    BY DEF IInv, TypeOK, Statuses, PhaseInv, WriteNeedsBothGrants
  <1> QED
    BY <1>1, Invariance, PTL

\* Nothing runs without a plan, and the plan under review is not blank.
THEOREM PlanDiscipline == Spec => []PlanPrecedesWork
  <1>1. IInv => PlanPrecedesWork
    BY DEF IInv
  <1> QED
    BY <1>1, Invariance, PTL
===============================================================================
