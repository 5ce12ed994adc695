-------------------------------- MODULE MCCase --------------------------------
(* Values shared by the model-checked instances of a case: two invoices, one   *)
(* more id that a decision may name although no proposal of the scripted       *)
(* runner holds it, and the decisions that differ in what a gate does with     *)
(* them.                                                                       *)
CONSTANTS inv1, inv2, inv9

MCIds == {inv1, inv2, inv9}
MCItems == {inv1, inv2}

PlanDecision(ok) ==
    [gate |-> "plan", approved |-> ok, approvedIds |-> {}, rejectedIds |-> {}]

ActionDecision(ok, yes, no) ==
    [gate |-> "action", approved |-> ok, approvedIds |-> yes, rejectedIds |-> no]

\* Approve all, one, an unknown id beside a proposed one, reject one, reject all.
MCDecisions ==
    {PlanDecision(TRUE), PlanDecision(FALSE),
     ActionDecision(TRUE, MCItems, {}),
     ActionDecision(TRUE, {inv1}, {inv2}),
     ActionDecision(TRUE, {inv2, inv9}, {}),
     ActionDecision(TRUE, {}, {inv2}),
     ActionDecision(FALSE, {}, MCItems)}
===============================================================================
