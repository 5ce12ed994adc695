------------------------------ MODULE MockSession ------------------------------
(***************************************************************************)
(* The page and the mock server, case after case on the same page.  The    *)
(* network loses nothing but answers late: the code behind the await of an *)
(* old case's fetch may run on the page of the next case.                  *)
(***************************************************************************)
EXTENDS MockServer

VARIABLES caseId, source, launchable, panels, rows, statuses, underReview,
          shownReport, calls,
          conn,       \* the case whose stream the EventSource is connected to
          submitted,  \* history: per case, the ids approved at Gate 2
          carried     \* history: kinds of fetches still out at the last launch

UI == INSTANCE WebUI

page == <<caseId, source, launchable, panels, rows, statuses, underReview,
          shownReport, calls>>
sessionVars == <<serverVars, page, conn, submitted, carried>>

MockTypeOK ==
    /\ UI!UITypeOK
    /\ \A c \in Cases :
          /\ threads[c].ids \subseteq Ids
          /\ threads[c].next \in 1 .. Len(Script(threads[c])) + 1
          /\ cases[c] # None => /\ cases[c].report = None \/ cases[c].report \subseteq Ids
                                /\ cases[c].stage \in Stages
          /\ handlers[c] \in {"none", "open", "ended"}
    /\ conn \in Cases \cup {None}
    /\ carried \subseteq UI!Kinds

MockInit ==
    /\ ServerInit /\ UI!UIInit
    /\ conn = None
    /\ submitted = [c \in Cases |-> None]
    /\ carried = {}

\* The reviewer

ClickLaunch ==
    /\ Started # Cases
    /\ UI!Launch
    /\ carried' = {r.kind : r \in calls}
    /\ UNCHANGED submitted

ClickPlan == (UI!ApprovePlan \/ UI!RejectPlan) /\ UNCHANGED <<submitted, carried>>

ClickSubmit ==
    /\ UI!Submit \/ UI!ApproveAll \/ UI!RejectAllAction
    /\ submitted' = [submitted EXCEPT ![caseId] = UI!RowsWith(rows', "approve")]
    /\ UNCHANGED carried

Click ==
    /\ ClickLaunch \/ ClickPlan \/ ClickSubmit
    /\ UNCHANGED <<serverVars, conn>>

\* Fetches

\* Only these continuations do anything; the other replies need not be kept.
Awaited(r) == r.kind \in {"launch", "reject_plan", "report"}

Reply(r, case, state, items) ==
    calls' = (calls \ {r}) \cup
        {q \in {[r EXCEPT !.state = state, !.case = case, !.items = items]} : Awaited(q)}

Receive(r) ==
    /\ r \in calls /\ r.state = "sent"
    /\ \/ /\ r.kind = "launch"
          /\ \E c \in Cases : /\ \A d \in Cases \ Started : c <= d
                              /\ PostAuditCase(c)
                              /\ Reply(r, c, "answered", {})
       \/ /\ r \in UI!Posts
          /\ PostApprove(r.case, UI!DecisionOf(r))
          /\ Reply(r, r.case, "answered", {})
       \/ /\ r.kind = "report"
          /\ LET found == cases[r.case].report
             IN  Reply(r, r.case, IF found = None THEN "failed" ELSE "answered",
                       IF found = None THEN {} ELSE found)
          /\ UNCHANGED serverVars
    /\ UNCHANGED <<caseId, source, launchable, panels, rows, statuses, underReview,
                   shownReport, conn, submitted, carried>>

GoOn(r) == UI!Continue(r) /\ UNCHANGED <<serverVars, conn, submitted, carried>>

\* The EventSource, which connects again by itself until the page closes it.

OpenStream ==
    /\ source # None /\ conn = None
    /\ Connect(source)
    /\ conn' = source
    /\ UNCHANGED <<page, submitted, carried>>

\* The stream has one reader and loses nothing, so that an event under way is as
\* good as one in the queue.
ReadEvent ==
    /\ conn # None /\ cases[conn].queue # <<>>
    /\ LET e == Head(cases[conn].queue)
       IN  /\ SendEvent(conn, e)
           /\ UI!Handle(e)
           /\ conn' = IF e.type = "done" THEN None ELSE conn
    /\ UNCHANGED <<submitted, carried>>

Disconnected ==
    /\ conn # None /\ handlers[conn] = "ended"
    /\ conn' = None
    /\ UNCHANGED <<serverVars, page, submitted, carried>>

StreamPage == OpenStream \/ ReadEvent \/ Disconnected

Inside(A) == A /\ UNCHANGED <<page, conn, submitted, carried>>

MockNext ==
    \/ \E c \in Started : Inside(ThreadStep(c)) \/ Inside(HandlerEnds(c))
    \/ Click \/ StreamPage
    \/ \E r \in calls : Receive(r) \/ GoOn(r)

MockSpec == MockInit /\ [][MockNext]_sessionVars

\* Threads of the server run, and the browser works off its events and replies.
MockFairSpec ==
    /\ MockSpec
    /\ \A c \in Cases : /\ WF_sessionVars(c \in Started /\ Inside(ThreadStep(c)))
                        /\ WF_sessionVars(c \in Started /\ Inside(HandlerEnds(c)))
    /\ WF_sessionVars(StreamPage)
    /\ WF_sessionVars(\E r \in calls : Receive(r) \/ GoOn(r))

-------------------------------------------------------------------------------

\* The report of a case holds what the reviewer submitted for that very case, even
\* if Gate 1 was answered twice: the second answer cannot reach Gate 2, which the
\* service's mailbox allows (uipath_runner.py:168).
ReportIsSubmission ==
    \A c \in Started : cases[c].report # None => cases[c].report = submitted[c]

\* The page shows a report only of the case it has open, unless the last launch
\* overtook the fetch of a report (app.events.js:157 stores whatever comes back).
ShownReportIsCurrent ==
    shownReport # None /\ "report" \notin carried =>
        caseId # None /\ cases[caseId].report = shownReport

OnItsWay(c, gate) ==
    \E i \in 1 .. Len(cases[c].queue) :
        cases[c].queue[i].type = "awaiting_approval" /\ cases[c].queue[i].gate = gate

\* The case on the page waits at this gate, and nothing has been sent to answer it.
WaitsAt(gate) ==
    /\ caseId # None /\ Blocked(caseId)
    /\ threads[caseId].phase = IF gate = "plan" THEN "opening" ELSE "investigation"
    /\ ~\E r \in UI!Posts : r.state = "sent" /\ r.case = caseId /\ UI!DecisionOf(r).gate = gate

\* A gate the open case waits at has its panel on the page or on its way there,
\* through stream timeouts and case after case, unless a rejection was still out at
\* the last launch.
WaitingGateIsShown ==
    "reject_plan" \notin carried =>
        \A gate \in Gates : WaitsAt(gate) => gate \in panels \/ OnItsWay(caseId, gate)

\* "Gate 1 is plan review, where a human can approve, edit, or reject the audit
\* plan" (README.md:14): at Gate 1 the page offers it.
Gate1IsOffered == WaitsAt("plan") => "plan" \in panels \/ OnItsWay(caseId, "plan")

\* If the reviewer answers the panels and no rejection is out at a launch, the page
\* that launched a case becomes ready for the next one.
PageRecovers ==
    /\ []("reject_plan" \notin carried)
    /\ WF_sessionVars(ClickPlan /\ UNCHANGED <<serverVars, conn>>)
    /\ WF_sessionVars(ClickSubmit /\ UNCHANGED <<serverVars, conn>>)
    => (~launchable ~> launchable)

\* No request thread is left behind: a rejected case has no sentinel, so that only
\* the timeout of the queue ends its stream.
HandlersEnd == \A c \in Cases : handlers[c] = "open" ~> handlers[c] = "ended"
===============================================================================
