------------------------------ MODULE LiveSession ------------------------------
(***************************************************************************)
(* One live case and the page of its one reviewer: UiPathRunner behind the *)
(* routes of the service, its event stream, and the page that follows the  *)
(* stream, opens the gate panels and posts what the reviewer clicks.       *)
(*                                                                         *)
(* A fault is a fetch that is lost on the way, a reply that is lost after  *)
(* the server has acted, or a stream that breaks; a broken EventSource     *)
(* connects again by itself.  At most MaxFaults of them happen.            *)
(***************************************************************************)
EXTENDS CaseStream

CONSTANT MaxFaults

TheCase == "case"

\* Decisions are what the page can post, and more; None is no case.
ASSUME LiveAssumption ==
    /\ MaxFaults \in Nat
    /\ Decision \subseteq Decisions
    /\ None # TheCase

VARIABLES caseId, source, launchable, panels, rows, statuses, underReview,
          shownReport, calls,
          conn,       \* the request the EventSource is connected by, or 0
          faults,     \* faults so far
          planClicks, \* history: the Gate 1 buttons that were clicked
          submitted,  \* history: the ids the reviewer approved at Gate 2
          edited      \* history: rows changed after that

UI == INSTANCE WebUI WITH Cases <- {TheCase}

page == <<caseId, source, launchable, panels, rows, statuses, underReview,
          shownReport, calls>>
history == <<planClicks, submitted, edited>>
pageVars == <<page, conn>>
liveVars == <<vars, streamVars, pageVars, faults, history>>

LiveTypeOK ==
    /\ StreamTypeOK
    /\ UI!UITypeOK
    /\ conn \in 0 .. opened
    /\ faults \in 0 .. MaxFaults
    /\ planClicks \subseteq {"approve", "reject"}
    /\ submitted = None \/ submitted \in SUBSET Ids
    /\ edited \subseteq Ids

LiveInit ==
    /\ Init /\ StreamInit /\ UI!UIInit
    /\ conn = 0 /\ faults = 0
    /\ planClicks = {} /\ submitted = None /\ edited = {}

\* Between two suspensions the task runs alone: the steps of the page and of the
\* network commute with its steps there, so that nothing is left out.  The one
\* place a thread of the service can look at is before set_report.
Settled == pc \in Suspensions \cup {"absent", "cache"}

-------------------------------------------------------------------------------
(* The reviewer *)

\* One case is modelled, so the button is used once.
ClickLaunch == pc = "absent" /\ UI!Launch /\ UNCHANGED history

ClickPlan ==
    \/ UI!ApprovePlan /\ planClicks' = planClicks \cup {"approve"} /\ UNCHANGED <<submitted, edited>>
    \/ UI!RejectPlan /\ planClicks' = planClicks \cup {"reject"} /\ UNCHANGED <<submitted, edited>>

ClickRow ==
    \E i \in Ids, choice \in {"approve", "reject"} :
        /\ UI!SetRow(i, choice)
        /\ edited' = IF submitted = None THEN edited ELSE edited \cup {i}
        /\ UNCHANGED <<planClicks, submitted>>

ClickReview ==
    /\ UI!CloseReview \/ \E i \in Ids : UI!OpenReview(i)
    /\ UNCHANGED history

ClickSubmit ==
    /\ UI!Submit \/ UI!ApproveAll \/ UI!RejectAllAction
    /\ submitted' = UI!RowsWith(rows', "approve")
    /\ UNCHANGED <<planClicks, edited>>

Click ==
    /\ Settled
    /\ ClickLaunch \/ ClickPlan \/ ClickRow \/ ClickReview \/ ClickSubmit
    /\ UNCHANGED <<vars, streamVars, conn, faults>>

-------------------------------------------------------------------------------
(* Fetches *)

Reply(r, state, items) ==
    calls' = (calls \ {r}) \cup {[r EXCEPT !.state = state, !.case = TheCase, !.items = items]}

\* The service handles fetch r; its reply may be lost.
Handle(r, state) ==
    /\ r \in calls /\ r.state = "sent"
    /\ \/ /\ r.kind = "launch"
          /\ StartAuditCase /\ Keep
          /\ Reply(r, state, {})
       \/ /\ r \in UI!Posts
          /\ PushApproval(UI!DecisionOf(r)) /\ Keep
          /\ Reply(r, state, {})
       \/ /\ r.kind = "report"
          /\ Reply(r, IF report = None THEN "failed" ELSE state, IF report = None THEN {} ELSE report)
          /\ UNCHANGED vars
    /\ UNCHANGED <<streamVars, caseId, source, launchable, panels, rows, statuses,
                   underReview, shownReport, conn, history>>

Receive(r) == Handle(r, "answered") /\ UNCHANGED faults

Fault == faults < MaxFaults /\ faults' = faults + 1

LoseReply(r) == Fault /\ Handle(r, "failed")

LoseRequest(r) ==
    /\ Fault
    /\ r \in calls /\ r.state = "sent"
    /\ Reply(r, "failed", {})
    /\ UNCHANGED <<vars, streamVars, caseId, source, launchable, panels, rows, statuses,
                   underReview, shownReport, conn, history>>

GoOn(r) == UI!Continue(r) /\ UNCHANGED <<vars, streamVars, conn, faults, history>>

-------------------------------------------------------------------------------
(* The EventSource *)

OpenStream ==
    /\ source # None /\ conn = 0
    /\ Connect
    /\ conn' = opened + 1
    /\ UNCHANGED <<vars, page, faults, history>>

\* handleDone closes the source.
ReadEvent ==
    /\ conn # 0 /\ wire[conn] # 0
    /\ LET e == queue[wire[conn]]
       IN  UI!Handle(e) /\ conn' = IF e.type = "done" THEN 0 ELSE conn
    /\ wire' = [wire EXCEPT ![conn] = 0]
    /\ UNCHANGED <<vars, opened, streams, taken, sentinelTaken, faults, history>>

\* onerror: the connection is over, by a break or by the server.
Disconnected ==
    /\ conn # 0 /\ wire[conn] = 0 /\ streams[conn] # "open"
    /\ conn' = 0
    /\ UNCHANGED <<vars, streamVars, page, faults, history>>

BreakStream ==
    /\ Fault
    /\ conn # 0 /\ Break(conn)
    /\ UNCHANGED <<vars, pageVars, history>>

StreamStep ==
    /\ Serve \/ \E s \in Streams : Notice(s)
    /\ UNCHANGED <<vars, pageVars, faults, history>>

CaseStep == TaskStep /\ UNCHANGED <<streamVars, pageVars, faults, history>>

TokenStep == TokenChanges /\ UNCHANGED <<streamVars, pageVars, faults, history>>

PageStep ==
    /\ Settled
    /\ (\E r \in calls : GoOn(r)) \/ OpenStream \/ ReadEvent \/ Disconnected

FaultStep == Settled /\ (BreakStream \/ \E r \in calls : LoseReply(r) \/ LoseRequest(r))

ReceiveStep == Settled /\ \E r \in calls : Receive(r)

LiveNext ==
    \/ CaseStep \/ TokenStep \/ StreamStep \/ PageStep \/ Click \/ ReceiveStep \/ FaultStep

LiveSpec == LiveInit /\ [][LiveNext]_liveVars

\* The loop, the browser and a network without faults make progress.
LiveFairSpec ==
    /\ LiveSpec
    /\ WF_liveVars(CaseStep)
    /\ WF_liveVars(StreamStep)
    /\ WF_liveVars(PageStep)
    /\ WF_liveVars(ReceiveStep)

-------------------------------------------------------------------------------

Unread(i) == i > taken \/ \E s \in Streams : wire[s] = i

\* A gate the case waits at can be answered from the page: its panel is shown, or
\* the event that shows it is still on the way, or a post is (app.gates.js hides
\* the panel before or after the post, app.events.js shows it).  Faults break this.
PendingGateIsShown ==
    faults = 0 /\ pendingGate # NoGate =>
        \/ pendingGate \in panels
        \/ \E i \in 1 .. Len(queue) :
              queue[i].type = "awaiting_approval" /\ queue[i].gate = pendingGate /\ Unread(i)
        \/ \E r \in UI!Posts : r.state = "sent"

\* What is logged is what the reviewer submitted, if Gate 1 got one answer only
\* and nothing was lost: two answers to Gate 1 may leave one for Gate 2.
LogIsSubmission ==
    faults = 0 /\ planClicks # {"approve", "reject"} /\ auditLog # <<>> =>
        submitted # None /\ auditLog[1] = submitted

\* Under the same conditions, and with a log to write to, a row whose status says
\* approved was logged and one that says rejected was not, unless the row was edited
\* after the submission: the statuses are taken from the rows as they are when WRITTEN
\* arrives, so that only for those rows may they be wrong (app.events.js:139).
StatusesMatchLog ==
    faults = 0 /\ planClicks # {"approve", "reject"} /\ settings.logUrl =>
        \A i \in DOMAIN statuses \ edited :
            statuses[i] # "pending" => (statuses[i] = "approved" <=> i \in auditLog[1])

\* The report the page shows is the one in the log, whatever was lost; without a URL
\* for the log there is no row at all.
ShownReportIsLogged ==
    shownReport # None => auditLog = IF settings.logUrl THEN <<shownReport>> ELSE <<>>

\* When the page learns that the report is ready, the service has it: the request
\* it makes at once is never answered by 404 (app.py:61-69, app.events.js:157).
ReportReadyIsFetchable ==
    \A r \in calls : r.kind = "report" /\ r.state = "sent" => report # None

\* "Only approved findings are written to the audit log"
\* (uipath/maestro-case-blueprint.md:120): what is logged the reviewer approved,
\* if Gate 1 got one answer only, whatever was lost on the way.
OnlyApprovedLogged ==
    planClicks # {"approve", "reject"} /\ auditLog # <<>> =>
        submitted # None /\ auditLog[1] \subseteq submitted

\* If the reviewer answers the panels the page shows and nothing is lost, the
\* page that launched a case is ready for the next one.
PageRecovers ==
    /\ [](faults = 0)
    /\ WF_liveVars(ClickPlan /\ UNCHANGED <<vars, streamVars, conn, faults>>)
    /\ WF_liveVars(ClickSubmit /\ UNCHANGED <<vars, streamVars, conn, faults>>)
    => (~launchable ~> launchable)
===============================================================================
