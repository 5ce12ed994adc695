--------------------------------- MODULE WebUI ---------------------------------
(***************************************************************************)
(* The page a reviewer works with (fraudcase_ai/web/js): its state object, *)
(* the handler of each streamed event, the buttons of the two gates and    *)
(* the fetches they start.  A handler runs to its first await; what stands *)
(* behind the await is Continue, which may run any time later, on whatever *)
(* the page shows then.  What a server does with a fetch is not said here. *)
(***************************************************************************)
EXTENDS CaseEvents

CONSTANTS Cases,    \* case ids a server hands out
          Ids,      \* invoice ids
          None

VARIABLES caseId,       \* state.caseId
          source,       \* the case state.eventSource follows
          launchable,   \* the launch button is enabled
          panels,       \* gate panels that are shown
          rows,         \* state.rowDecisions of state.flaggedItems
          statuses,     \* state.itemStatuses
          underReview,  \* state.selectedGateInvoiceId: the open invoice review
          shownReport,  \* state.report, as ids
          calls         \* fetches sent and not yet forgotten

Kinds == {"launch", "approve_plan", "reject_plan", "submit", "report"}

\* A fetch: sent, then answered by the server or failed.
Call == [kind : Kinds, case : Cases \cup {None}, approvedIds : SUBSET Ids,
         rejectedIds : SUBSET Ids, state : {"sent", "answered", "failed"},
         items : SUBSET Ids]

Request(kind, yes, no) ==
    [kind |-> kind, case |-> caseId, approvedIds |-> yes, rejectedIds |-> no,
     state |-> "sent", items |-> {}]

\* The body postApproval sends; Gate 2 is never refused as a whole.
DecisionOf(r) ==
    [gate |-> IF r.kind = "submit" THEN "action" ELSE "plan",
     approved |-> r.kind # "reject_plan",
     approvedIds |-> r.approvedIds, rejectedIds |-> r.rejectedIds]

Posts == {r \in calls : r.kind \in {"approve_plan", "reject_plan", "submit"}}

NoRows == [i \in {} |-> "approve"]

UITypeOK ==
    /\ caseId \in Cases \cup {None}
    /\ source \in Cases \cup {None}
    /\ launchable \in BOOLEAN
    /\ panels \subseteq Gates
    /\ \A i \in DOMAIN rows : i \in Ids /\ rows[i] \in {"approve", "reject"}
    /\ DOMAIN statuses = DOMAIN rows
    /\ underReview \in Ids \cup {None}
    /\ shownReport = None \/ shownReport \in SUBSET Ids
    /\ calls \subseteq Call

UIInit ==
    /\ caseId = None /\ source = None /\ launchable = TRUE
    /\ panels = {} /\ rows = NoRows /\ statuses = NoRows
    /\ underReview = None /\ shownReport = None
    /\ calls = {}

\* One fetch of each content is under way at a time: the bound on double clicks.
Fetch(r) == r \notin calls /\ calls' = calls \cup {r}

-------------------------------------------------------------------------------
(* Buttons *)

\* Mutant: resetUI leaves the report of the previous case.
LaunchKeepsReport ==
    /\ launchable
    /\ launchable' = FALSE
    /\ caseId' = None /\ source' = None
    /\ panels' = {} /\ rows' = NoRows /\ statuses' = NoRows
    /\ underReview' = None
    /\ Fetch([Request("launch", {}, {}) EXCEPT !.case = None])
    /\ UNCHANGED shownReport

\* launchAuditCase: resetUI forgets the previous case, then the fetch is sent.
Launch ==
    /\ launchable
    /\ launchable' = FALSE
    /\ caseId' = None /\ source' = None
    /\ panels' = {} /\ rows' = NoRows /\ statuses' = NoRows
    /\ underReview' = None /\ shownReport' = None
    /\ Fetch([Request("launch", {}, {}) EXCEPT !.case = None])

\* The panel is hidden before the post is sent ...
ApprovePlan ==
    /\ "plan" \in panels
    /\ panels' = panels \ {"plan"}
    /\ Fetch(Request("approve_plan", {}, {}))
    /\ UNCHANGED <<caseId, source, launchable, rows, statuses, underReview, shownReport>>

\* ... or, for a rejection, after it has returned.
RejectPlan ==
    /\ "plan" \in panels
    /\ Fetch(Request("reject_plan", {}, {}))
    /\ UNCHANGED <<caseId, source, launchable, panels, rows, statuses, underReview,
                   shownReport>>

OpenReview(i) ==
    /\ "action" \in panels
    /\ i \in DOMAIN rows
    /\ underReview' = i
    /\ UNCHANGED <<caseId, source, launchable, panels, rows, statuses, shownReport, calls>>

CloseReview ==
    /\ underReview # None
    /\ underReview' = None
    /\ UNCHANGED <<caseId, source, launchable, panels, rows, statuses, shownReport, calls>>

\* A row button or check box of the Gate 2 table, or the buttons of the open
\* review, which stays open when the panel is hidden.  The check box in the head
\* of the table (toggleSelectAll) is this for every row in turn.
SetRow(i, choice) ==
    /\ i \in DOMAIN rows
    /\ "action" \in panels \/ underReview = i
    /\ rows' = [rows EXCEPT ![i] = choice]
    /\ UNCHANGED <<caseId, source, launchable, panels, statuses, underReview,
                   shownReport, calls>>

RowsWith(table, choice) == {i \in DOMAIN table : table[i] = choice}

SubmitRows(table) ==
    /\ "action" \in panels
    /\ panels' = panels \ {"action"}
    /\ rows' = table
    /\ Fetch(Request("submit", RowsWith(table, "approve"), RowsWith(table, "reject")))
    /\ UNCHANGED <<caseId, source, launchable, statuses, underReview, shownReport>>

Submit == SubmitRows(rows)
ApproveAll == SubmitRows([i \in DOMAIN rows |-> "approve"])
RejectAllAction == SubmitRows([i \in DOMAIN rows |-> "reject"])

-------------------------------------------------------------------------------
(* Behind the await of a fetch *)

Settle(r, kind) == r \in calls /\ r.kind = kind /\ r.state # "sent" /\ calls' = calls \ {r}

\* startSSE(case_id), or the button again.
ContinueLaunch(r) ==
    /\ Settle(r, "launch")
    /\ IF r.state = "answered"
       THEN caseId' = r.case /\ source' = r.case /\ UNCHANGED launchable
       ELSE launchable' = TRUE /\ UNCHANGED <<caseId, source>>
    /\ UNCHANGED <<panels, rows, statuses, underReview, shownReport>>

\* Mutant: the gate panels are hidden without asking which.
ContinueRejectHidesAll(r) ==
    /\ Settle(r, "reject_plan")
    /\ panels' = {}
    /\ UNCHANGED <<caseId, source, launchable, rows, statuses, underReview, shownReport>>

\* postApproval swallows a failure, so the panel is hidden even if the rejection
\* never arrived.
ContinueReject(r) ==
    /\ Settle(r, "reject_plan")
    /\ panels' = panels \ {"plan"}
    /\ UNCHANGED <<caseId, source, launchable, rows, statuses, underReview, shownReport>>

ContinueReport(r) ==
    /\ Settle(r, "report")
    /\ shownReport' = IF r.state = "answered" THEN r.items ELSE shownReport
    /\ UNCHANGED <<caseId, source, launchable, panels, rows, statuses, underReview>>

\* approvePlan and submitActionDecision do nothing more.
Forget(r) ==
    /\ \/ Settle(r, "approve_plan")
       \/ Settle(r, "submit")
    /\ UNCHANGED <<caseId, source, launchable, panels, rows, statuses, underReview,
                   shownReport>>

Continue(r) == ContinueLaunch(r) \/ ContinueReject(r) \/ ContinueReport(r) \/ Forget(r)

-------------------------------------------------------------------------------
(* Event handlers *)

\* Mutant: the rows are filled in, their statuses are not.
HandleProposalRows(e) ==
    /\ e.type = "proposal"
    /\ rows' = [i \in e.items |-> "approve"]
    /\ UNCHANGED <<caseId, source, launchable, panels, statuses, underReview, shownReport,
                   calls>>

\* A case proposes once, after resetUI has emptied both tables.
HandleProposal(e) ==
    /\ e.type = "proposal"
    /\ rows' = [i \in e.items |-> "approve"]
    /\ statuses' = [i \in e.items |-> "pending"]
    /\ UNCHANGED <<caseId, source, launchable, panels, underReview, shownReport, calls>>

HandleAwaitingApproval(e) ==
    /\ e.type = "awaiting_approval"
    /\ panels' = panels \cup {e.gate}
    /\ UNCHANGED <<caseId, source, launchable, rows, statuses, underReview, shownReport,
                   calls>>

\* Mutant: whatever was proposed counts as approved once something is written.
HandleWrittenAll(e) ==
    /\ e.type = "written"
    /\ panels' = panels \ {"action"}
    /\ statuses' = [i \in DOMAIN rows |-> "approved"]
    /\ UNCHANGED <<caseId, source, launchable, rows, underReview, shownReport, calls>>

HandleWritten(e) ==
    /\ e.type = "written"
    /\ panels' = panels \ {"action"}
    /\ statuses' = [i \in DOMAIN rows |->
                        IF rows[i] = "approve" THEN "approved" ELSE "rejected"]
    /\ UNCHANGED <<caseId, source, launchable, rows, underReview, shownReport, calls>>

HandleReportReady(e) ==
    /\ e.type = "report_ready"
    /\ calls' = calls \cup {Request("report", {}, {})}
    /\ UNCHANGED <<caseId, source, launchable, panels, rows, statuses, underReview,
                   shownReport>>

HandleError(e) ==
    /\ e.type = "error"
    /\ launchable' = TRUE
    /\ UNCHANGED <<caseId, source, panels, rows, statuses, underReview, shownReport, calls>>

HandleDone(e) ==
    /\ e.type = "done"
    /\ source' = None
    /\ launchable' = TRUE
    /\ UNCHANGED <<caseId, panels, rows, statuses, underReview, shownReport, calls>>

\* The other handlers touch the timeline only.
HandleOther(e) ==
    /\ e.type \in {"plan", "tool_call", "tool_result", "exception"}
    /\ UNCHANGED <<caseId, source, launchable, panels, rows, statuses, underReview,
                   shownReport, calls>>

Handle(e) ==
    \/ HandleProposal(e) \/ HandleAwaitingApproval(e) \/ HandleWritten(e)
    \/ HandleReportReady(e) \/ HandleError(e) \/ HandleDone(e) \/ HandleOther(e)
===============================================================================
