----------------------------- MODULE UiPathRunner -----------------------------
(***************************************************************************)
(* The live runner (fraudcase_ai/server/uipath_runner.py) over the UiPath  *)
(* Data Service and Context Grounding clients.  It differs from FakeRunner *)
(* in three ways that matter: it gives up the loop during UiPath calls,    *)
(* a call may fail, and Gate 2 is followed by a write to a remote log.     *)
(***************************************************************************)
EXTENDS CaseServer, FiniteSets

CONSTANTS MaxFlagged,   \* MAX_FLAGGED: findings shown to the reviewer
          Deployments   \* the settings the service may be started with

\* Which settings are not empty: the three read URLs (DataServiceStore.configured),
\* the URL of the audit log, the three OAuth settings.
Settings == [dataUrls : BOOLEAN, logUrl : BOOLEAN, oauth : BOOLEAN]

ASSUME UiPathAssumption ==
    /\ MaxFlagged \in Nat /\ IsFiniteSet(Ids)
    /\ Deployments \subseteq Settings

VARIABLES settings,     \* get_settings(), read once
          token,        \* UiPathAuth._token of the runner's one store, with its age
          shown,        \* run()'s local items: the findings in the proposal
          approvedItems,\* run()'s local approved, as ids
          auditLog      \* external: rows the Data Service log holds for the case

client == <<settings, token>>
locals == <<client, shown, approvedItems, auditLog>>
vars == <<serverVars, locals>>

Points == {"absent", "created", "plan", "plan_wait", "reject",
           "read_call", "loading", "query_call", "querying", "query_result",
           "aggregate_call", "aggregate_result", "propose",
           "action", "action_wait", "writing", "no_url", "report", "cache",
           "failed", "done", "fail_done", "sentinel", "finished"}

TypeOK ==
    /\ ServerTypeOK
    /\ pc \in Points
    /\ settings \in Settings
    /\ token \in {"none", "valid", "expired"}
    /\ shown \in SUBSET Ids
    /\ approvedItems \in SUBSET Ids
    /\ auditLog \in Seq(SUBSET Ids)

\* The runner is older than the case: cases before it may have fetched a token.
Init ==
    /\ ServerInit
    /\ settings \in Deployments
    /\ token \in IF settings.oauth THEN {"none", "valid", "expired"} ELSE {"none"}
    /\ shown = {} /\ approvedItems = {} /\ auditLog = <<>>

Keep == UNCHANGED locals

\* UiPathAuth.token: what is cached is never asked for again.  The Data Service
\* answers a request with an expired token by an error.
GetToken == token' = IF settings.oauth /\ token = "none" THEN "valid" ELSE token

EmitPlan == Yield("created", Plain("plan"), "plan") /\ Keep

AwaitPlan == OpenGate("plan", "plan") /\ Keep

ResumePlan ==
    /\ TakeDecision("plan")
    /\ pc' = IF mailbox.decision.approved THEN "read_call" ELSE "reject"
    /\ Keep

RejectPlan == Yield("reject", Plain("error"), "done") /\ Keep

\* The generator yields TOOL_CALL and then suspends in load_case_dataset.
CallRead == Yield("read_call", Plain("tool_call"), "loading") /\ Keep
\* Without the read URLs the records come from the demo files.
LoadDataset ==
    /\ Yield("loading", Plain("tool_result"), "query_call")
    /\ \/ settings.dataUrls /\ token # "expired" /\ GetToken
       \/ ~settings.dataUrls /\ UNCHANGED token
    /\ UNCHANGED <<settings, shown, approvedItems, auditLog>>

CallQuery == Yield("query_call", Plain("tool_call"), "querying") /\ Keep

\* The answer arrives, or the call fails and the case goes on with no hits.
QueryAnswers ==
    /\ pc = "querying"
    /\ pc' = "query_result"
    /\ UNCHANGED <<recordVars, mailVars, queue, ended, strays>>
    /\ Keep
QueryFails == Yield("querying", Plain("exception"), "query_result") /\ Keep
QueryResult == Yield("query_result", Plain("tool_result"), "aggregate_call") /\ Keep

CallAggregate == Yield("aggregate_call", Plain("tool_call"), "aggregate_result") /\ Keep
AggregateResult == Yield("aggregate_result", Plain("tool_result"), "propose") /\ Keep

\* The detectors flag `total` invoices; the proposal carries the first
\* MaxFlagged of them and announces the total.
Propose ==
    \E total \in 0 .. Cardinality(Ids), items \in SUBSET Ids :
        /\ Cardinality(items) = IF total < MaxFlagged THEN total ELSE MaxFlagged
        /\ Yield("propose", Evt("proposal", items, total), "action")
        /\ shown' = items
        /\ UNCHANGED <<client, approvedItems, auditLog>>

AwaitAction == OpenGate("action", "action") /\ Keep

\* Mutants: rejected ids are not looked at; approved ids are not matched with the
\* proposal.
SelectedAll(d, items) == IF d.approvedIds # {} THEN d.approvedIds \cap items ELSE items

SelectedUnchecked(d, items) ==
    IF d.approvedIds # {} THEN d.approvedIds ELSE items \ d.rejectedIds

\* Explicit approvals win, else everything not rejected, else everything; the
\* decision's gate and its approved flag are not looked at.
Selected(d, items) ==
    IF d.approvedIds # {} THEN d.approvedIds \cap items
    ELSE items \ d.rejectedIds

\* The generator then suspends in write_audit_log, if there is a URL to post to.
ResumeAction ==
    /\ TakeDecision("action")
    /\ pc' = IF settings.logUrl THEN "writing" ELSE "no_url"
    /\ approvedItems' = Selected(mailbox.decision, shown)
    /\ UNCHANGED <<client, shown, auditLog>>

YieldWritten(from) ==
    Yield(from, Evt("written", {}, Cardinality(approvedItems)), "report")

\* Mutant: a write that was already done is done again.
WriteTwice ==
    /\ YieldWritten("writing")
    /\ token # "expired" /\ GetToken
    /\ auditLog' = auditLog \o <<approvedItems, approvedItems>>
    /\ UNCHANGED <<settings, shown, approvedItems>>

\* The row is appended and the reply arrives.
WriteSucceeds ==
    /\ YieldWritten("writing")
    /\ token # "expired" /\ GetToken
    /\ auditLog' = Append(auditLog, approvedItems)
    /\ UNCHANGED <<settings, shown, approvedItems>>

\* Without a URL write_audit_log returns the payload and posts nothing; WRITTEN is
\* streamed all the same.
WriteSkipped == YieldWritten("no_url") /\ Keep

ReportReady == YieldReport("report", approvedItems) /\ Keep

Done == Yield("done", Plain("done"), "sentinel") /\ Keep

-------------------------------------------------------------------------------
(* Exceptions that leave run() *)

Raise == pc' = "failed" /\ UNCHANGED <<recordVars, mailVars, queue, ended, strays>>

\* An HTTP error or a timeout of the read, or of the token before it.
LoadFails ==
    /\ pc = "loading"
    /\ Raise
    /\ \/ settings.dataUrls /\ GetToken
       \/ UNCHANGED token
    /\ UNCHANGED <<settings, shown, approvedItems, auditLog>>

\* A hit, an amount or a record that float() or the models reject; after a failed
\* query there is no hit to convert.
RecordsFail ==
    /\ pc \in {"query_result", "aggregate_result", "propose"}
    /\ pc = "query_result" => LastEvent.type = "tool_call"
    /\ Raise /\ Keep

\* Mutant: the status of the reply is not looked at.
WriteUnchecked ==
    /\ YieldWritten("writing")
    /\ GetToken \/ UNCHANGED token
    /\ UNCHANGED <<settings, shown, approvedItems, auditLog>>

\* The write fails, before or after the Data Service has appended the row.
WriteRefused ==
    /\ pc = "writing"
    /\ Raise
    /\ GetToken \/ UNCHANGED token
    /\ UNCHANGED <<settings, shown, approvedItems, auditLog>>
WriteReplyLost ==
    /\ pc = "writing"
    /\ Raise
    /\ token # "expired" /\ GetToken
    /\ auditLog' = Append(auditLog, approvedItems)
    /\ UNCHANGED <<settings, shown, approvedItems>>

\* Mutant: a failed run is applied to the record like a completed one.
AnnounceApplied(from, type, to) ==
    /\ pc = from
    /\ pc' = to
    /\ Relay(Unstamped(type))
    /\ UNCHANGED <<mailVars, ended, strays>>

\* _process_case's except clause puts ERROR and DONE on the queue itself: neither
\* goes through apply_event, and both carry the default stage.
Announce(from, type, to) ==
    /\ pc = from
    /\ pc' = to
    /\ queue' = Append(queue, Unstamped(type))
    /\ UNCHANGED <<recordVars, mailVars, ended, strays>>

AnnounceError == Announce("failed", "error", "fail_done") /\ Keep
AnnounceDone == Announce("fail_done", "done", "sentinel") /\ Keep

-------------------------------------------------------------------------------

TaskStep ==
    \/ EmitPlan \/ AwaitPlan \/ ResumePlan \/ RejectPlan
    \/ CallRead \/ LoadDataset \/ LoadFails
    \/ CallQuery \/ QueryAnswers \/ QueryFails \/ QueryResult
    \/ CallAggregate \/ AggregateResult
    \/ Propose \/ RecordsFail \/ AwaitAction \/ ResumeAction
    \/ WriteSucceeds \/ WriteSkipped \/ WriteRefused \/ WriteReplyLost
    \/ ReportReady \/ Done \/ AnnounceError \/ AnnounceDone
    \/ (CacheReport /\ Keep) \/ (PutSentinel /\ Keep)

Approve == \E d \in Decisions : PushApproval(d) /\ Keep

\* Meanwhile another case of the runner fetches the token, or it expires.
TokenChanges ==
    /\ settings.oauth /\ pc \in Suspensions
    /\ token' = IF token = "none" THEN "valid" ELSE "expired"
    /\ UNCHANGED <<serverVars, settings, shown, approvedItems, auditLog>>

Next == (StartAuditCase /\ Keep) \/ TaskStep \/ Approve \/ TokenChanges

Spec == Init /\ [][Next]_vars

\* Ready tasks run, and every UiPath call ends: httpx gives each one a timeout.
FairSpec == Spec /\ WF_vars(TaskStep)

AnswerPending == pendingGate # NoGate /\ Approve

-------------------------------------------------------------------------------

\* The remote log and the case agree: a case with a report, or whose WRITTEN has been
\* streamed, has exactly one row, and it holds the reported ids; it has none if the
\* service was started without a URL for the log (clients.py:124).
LogMatchesReport ==
    LET rows == IF settings.logUrl THEN 1 ELSE 0
    IN  /\ EventsOf("written") # {} \/ report # None => Len(auditLog) = rows
        /\ report # None => \A r \in 1 .. rows : auditLog[r] = report

\* A token that expires at any time before the row is written, as it may while Gate 2
\* waits, costs the whole review: the runner keeps it and never asks for another
\* (clients.py:59), so that the post is refused, and what the reviewer decides, before
\* or after, never becomes a report.  No report slips through without its row.
NoReportAfterExpiry ==
    [](token = "expired" /\ settings.logUrl /\ auditLog = <<>> => [](report = None))

\* A row is appended only after both gates, and holds only findings that were in
\* the proposal: nothing beyond MAX_FLAGGED, no unknown id, nothing the reviewer
\* listed as rejected without also approving it (uipath_runner.py:144-154).
LogHoldsReviewedFindings ==
    \A r \in 1 .. Len(auditLog) :
        /\ consumed["plan"] # None /\ consumed["plan"].decision.approved
        /\ consumed["action"] # None
        /\ \E i \in EventsOf("proposal") : auditLog[r] \subseteq queue[i].items
        /\ LET d == consumed["action"].decision
           IN  auditLog[r] \cap (d.rejectedIds \ d.approvedIds) = {}

\* A failed run ends its stream but leaves the stage where the failure found it,
\* and it is never closed: the exact condition under which the poll and the
\* stream part (app.py:70-78).
StageTracksStreamUntilFailure ==
    queue # <<>> =>
        \/ stage = LastEvent.stage
        \/ /\ pc \in {"fail_done", "sentinel", "finished"}
           /\ stage \in {"agent_investigation", "exception_review"}
           /\ report = None

\* store.apply_event "Update case status from a streamed event" (store.py:92),
\* whose DONE closes the case: a case whose DONE has been streamed is closed.
StreamedDoneClosesCase == EventsOf("done") # {} => stage = "closed"

\* If a reviewer keeps answering pending gates, the stream of every started case
\* ends with the sentinel, whatever is rejected or fails on the way: nobody who
\* follows the stream waits for ever (_process_case, finally clause).
ReviewedStreamEnds == WF_vars(AnswerPending) => StreamEnds
===============================================================================
