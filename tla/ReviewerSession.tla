---------------------------- MODULE ReviewerSession ----------------------------
(***************************************************************************)
(* A live case together with the one client the blueprint describes        *)
(* (uipath/maestro-case-blueprint.md): Maestro polls the case, opens a     *)
(* human task when a gate is pending, posts the decision of that task, and *)
(* repeats the post when no answer comes back in time.  The service is     *)
(* UiPathRunner unchanged; here only this client posts.                    *)
(*                                                                         *)
(* The network may lose, delay or reorder requests and answers.  A request *)
(* whose answer is lost has been handled, and is posted again all the same.*)
(***************************************************************************)
EXTENDS UiPathRunner

CONSTANT MaxAttempts    \* the post and its retries; the blueprint says 1 + 2

ASSUME SessionAssumption == MaxAttempts \in Nat \ {0} /\ None \notin Decisions

VARIABLES answer,    \* per gate, what the reviewer decided in the human task
          attempts,  \* per gate, posts made so far
          inFlight   \* per gate, posts the service has not received yet

clientVars == <<answer, attempts, inFlight>>
sessionVars == <<vars, clientVars>>

ClientTypeOK ==
    /\ answer \in [Gates -> Decisions \cup {None}]
    /\ attempts \in [Gates -> 0 .. MaxAttempts]
    /\ inFlight \in [Gates -> 0 .. MaxAttempts]
    /\ \A g \in Gates : inFlight[g] <= attempts[g]

SessionInit ==
    /\ Init
    /\ answer = [g \in Gates |-> None]
    /\ attempts = [g \in Gates |-> 0]
    /\ inFlight = [g \in Gates |-> 0]

Post(g) ==
    /\ attempts' = [attempts EXCEPT ![g] = @ + 1]
    /\ inFlight' = [inFlight EXCEPT ![g] = @ + 1]

\* The poll shows gate g pending and the human task for it is completed.
Decide(g) ==
    /\ pendingGate = g
    /\ answer[g] = None
    /\ \E d \in Decisions : d.gate = g /\ answer' = [answer EXCEPT ![g] = d]
    /\ Post(g)
    /\ UNCHANGED vars

\* Mutant: one retry too many.
RetryOnceMore(g) ==
    /\ answer[g] # None
    /\ attempts[g] <= MaxAttempts
    /\ Post(g)
    /\ UNCHANGED <<vars, answer>>

\* No answer in time: the request or its answer is late or lost.
Retry(g) ==
    /\ answer[g] # None
    /\ attempts[g] < MaxAttempts
    /\ Post(g)
    /\ UNCHANGED <<vars, answer>>

\* A post that has not reached the service is lost; a retry is left to make up
\* for it, or the case needs manual investigation.
Lose(g) ==
    /\ inFlight[g] > 0
    /\ attempts[g] < MaxAttempts
    /\ inFlight' = [inFlight EXCEPT ![g] = @ - 1]
    /\ UNCHANGED <<vars, answer, attempts>>

Receive(g) ==
    /\ inFlight[g] > 0
    /\ inFlight' = [inFlight EXCEPT ![g] = @ - 1]
    /\ PushApproval(answer[g])
    /\ Keep
    /\ UNCHANGED <<answer, attempts>>

ServerStep ==
    /\ (StartAuditCase /\ Keep) \/ TaskStep \/ TokenChanges
    /\ UNCHANGED clientVars

ClientStep == \E g \in Gates : Decide(g) \/ Retry(g) \/ Lose(g) \/ Receive(g)

SessionNext == ServerStep \/ ClientStep

SessionSpec == SessionInit /\ [][SessionNext]_sessionVars

\* Nothing is in flight and the poll still shows the gate: the post was lost.
RepeatLost(g) == pendingGate = g /\ inFlight[g] = 0 /\ Retry(g)

\* Ready tasks run; the reviewer completes an open task, Maestro repeats a post
\* that was lost, and a post that is not lost arrives.
SessionFairSpec ==
    /\ SessionSpec
    /\ WF_sessionVars(TaskStep /\ UNCHANGED clientVars)
    /\ \A g \in Gates :
        /\ WF_sessionVars(Decide(g))
        /\ WF_sessionVars(RepeatLost(g))
        /\ WF_sessionVars(Receive(g))

-------------------------------------------------------------------------------

\* Gate 1 always consumes what the reviewer decided about the plan, however often
\* that decision is posted.
PlanAnswerHonoured ==
    consumed["plan"] # None => consumed["plan"].decision = answer["plan"]

PostedOnce == \A g \in Gates : attempts[g] <= 1

\* As long as nothing was posted twice, Gate 2 consumes what the reviewer decided
\* about the findings, even if a post was lost.  After a repeated post it may be
\* the answer to Gate 1: deliver_decision never compares decision.gate with the
\* gate that waits (uipath_runner.py:167).
ActionAnswerHonoured ==
    PostedOnce /\ consumed["action"] # None =>
        consumed["action"].decision = answer["action"]

\* Once the reviewer has answered a pending gate, the gate consumes an answer: at
\* Gate 1 the reviewer's, at Gate 2 the reviewer's if nothing was posted twice by
\* then.  After a repeated post Gate 2 may have consumed the answer to Gate 1.
AnswerIsConsumed ==
    /\ answer["plan"] # None ~>
          consumed["plan"] # None /\ consumed["plan"].decision = answer["plan"]
    /\ answer["action"] # None ~>
          /\ consumed["action"] # None
          /\ PostedOnce => consumed["action"].decision = answer["action"]
===============================================================================
