# FraudCase AI: a formal model

FraudCase AI audits invoices under human control. A reviewer opens an *audit case*; agents plan, query
UiPath services and run fraud detectors; a human approves the plan (**Gate 1**) and then the findings
(**Gate 2**); only then is the audit log written and the report published. UiPath Maestro or the web page
follows the case and posts the decisions.

This directory holds TLA+ modules translated from the source, TLC runs over small instances of them,
and theorems checked by TLAPS for every instance. Paths below are relative to the repository root;
`server/`, `agent/`, `uipath/clients.py`, `tools/` and `web/` are under `fraudcase_ai/`.

    tlc -workers 2 -config FakeRunner.cfg MCFakeRunner     # a run: see the table in section 4
    tlapm UiPathRunner_proofs.tla                          # a proof module: section 6

Contents: 1 inventory, 2 how the parts run, 3 modules and code, 4 runs, 5 disagreements between code and
documents, 6 proofs, 7 what is not modelled, 8 plan.

## 1. Inventory

| Part (source) | State it keeps | Operations | What makes it correct |
| --- | --- | --- | --- |
| Event vocabulary (`models.py`) | none | `maestro_event_context`, event and decision types | each event type has one Maestro stage |
| Case store (`server/store.py`) | per case: stage, pending gate, exception count, report, event queue | `create_case`, `push_approval`, `set_report`, `apply_event` | poll, report and stream tell the same story |
| Background task (`server/app.py:54-81`) | position of the task | `_process_case`: relay events, cache the report, announce a failure, put the sentinel | every way out ends the stream; the report is cached before the reader can ask |
| Scripted runner (`server/runner.py`) | per case: an event to wait on, a mailbox; locals of `run` | `run`, `deliver_decision`, `_wait_for_decision` | a gate consumes a decision posted while it waited; nothing is written without both gates |
| Live runner (`server/uipath_runner.py`) | the same; one store, with its token, for all cases; the remote audit log | the same with awaited UiPath calls that may fail | the log, if there is one, holds what was reviewed and agrees with the report |
| UiPath clients (`uipath/clients.py`) | the settings; an OAuth token, kept for the life of a client: in the live runner through every wait for a human | load the dataset (three readers in parallel, or the demo files), append to the log (if it has a URL), query the index | one row per case, if the log has a URL; a failed call, such as one with an expired token, fails the case |
| Event streams (`server/app.py:88-99, 170-183`) | which events are taken from the queue | `stream_events`, `_sse_generator` | a reader learns that a gate waits |
| Web page (`web/js`) | case id, panels, rows, statuses, report, fetches under way | event handlers, gate buttons, fetches and what follows their `await` | what is logged is what was submitted; the page never blocks |
| Maestro client (`uipath/maestro-case-blueprint.md`) | human tasks, retries | poll, open a task, post, retry twice | the answer to a gate is the answer consumed there |
| Gate machine (`agent/gates.py`) | status, plan, proposed and approved ids | `submit_plan`, `approve_plan`, `propose`, `approve_action`, `complete` | nothing reaches the write phase without both approvals |
| Detectors and triage (`tools/`) | none | exact and near duplicates, OFAC, policy, assembly of findings | one original per group of equals; the cut at `MAX_FLAGGED` hides nothing stronger than what it shows |
| Coded-agent entrypoints (`coded_agent/`) | none; each call is a job with a client of its own | `plan`, `investigate`, `finalize` | whatever is repeated, the log holds reviewed ids only and agrees with the report |
| Mock server (`web/mockserver.py`) | per case: two thread events, a decision per gate, stage, report, queue, a script thread | a threaded replay of the protocol; streams that time out | an answer reaches its own gate; the page can answer a waiting gate and launch again; no request thread is left behind |
| Report, narration, insights, loading, exports, dashboard | none that a case depends on | formatting, reading, counting | out of scope |

## 2. How the parts run and what is hard about it

*One asyncio loop.* `POST /api/audit-case` creates a task per case that iterates the runner's generator.
The queue is unbounded, so `await queue.put` does not suspend: the task gives up the loop only where the
runner waits for a human or for a UiPath call. Everything between two such places is atomic with respect
to other coroutines (approvals, streams), but not to the synchronous `GET` routes, which FastAPI runs in
threads: these can read the record between `apply_event(REPORT_READY)` and `set_report`.

*One mailbox per case, not per gate.* `deliver_decision` stores the decision and sets the event;
`_wait_for_decision` clears it, waits, and pops. Between "set" and "popped" another post may replace the
decision. A post is accepted at any time, whichever gate it names.

*One queue per case.* All streams of a case take from it. What is taken for a reader that is gone is lost.

*Settings and token.* Which UiPath URLs and credentials are set decides which calls are made: without the read URLs the
records come from the demo files, without a URL for the log nothing is written and the case is reported all the same
(`clients.py:96-105, 124-126`). The live runner has one `DataServiceStore` for all its cases, which asks for a token once and keeps it
(`clients.py:59`), before Gate 2 and after it; each job of the coded agent makes a store of its own.

*Two views.* The poll reads the record, the page reads the stream; they are updated by different
statements, and on the failure path only the stream is.

*The page.* A handler runs to its first `await`; the rest runs any time later on whatever the page shows
then. Panels are hidden before some posts and after others, and a failed post is swallowed.

*The mock.* One thread per case replays the script, one thread per request serves the page. Each gate is a
`threading.Event` that stays set, with a decision of its own; a rejection ends the case without a sentinel, so
that its stream ends by the timeout of `q.get`. The page stays while cases come and go, and the code
behind the `await` of an old case's fetch runs on the page of the next one.

*Jobs.* The coded agent's entrypoints keep nothing between them. An orchestrator repeats a job that
fails or takes too long; one given up may still append to the log, even after the case is over.

The behaviours the properties aim at: early, late, repeated, lost and conflicting decisions; failures
between the append to the log and its reply; readers that disconnect; the window around `set_report`;
edits after submission; repeated and late jobs; replies that come after the next launch. `PROJECT.json` lists each hazard with its line.

## 3. Modules and code

| Module | Models | State and actions |
| --- | --- | --- |
| `CaseEvents` | `models.py` | gates, event types, stages; `StageOf` is `maestro_event_context`. An event keeps the gate, the ids and the announced total; text and timestamps are dropped. |
| `CaseServer` | `store.py`, `_process_case`, the mailbox shared by both runners | `pc` is where the task stands, `Suspensions` where it has given up the loop. `Yield` is one `yield` of the generator *together with* `apply_event` and `queue.put`; `YieldReport` and `CacheReport` are the two halves of the loop body for REPORT_READY. `OpenGate`, `PushApproval`, `TakeDecision` are the gate. `queue` keeps every event ever put; `consumed` and `postedAt` are history. |
| `FakeRunner`, `UiPathRunner` | the two `run` generators | one action per `yield`; `UiPathRunner` adds `shown`, `approvedItems`, the remote `auditLog`, `settings` and the kept `token`, which `TokenChanges` lets expire at any suspension, `WriteSkipped` (no URL for the log), and one failing action per awaited call (`LoadFails`, `QueryFails`, `RecordsFail`, `WriteRefused`, `WriteReplyLost`) followed by `Announce`, the `except` branch. |
| `CaseProtocol` | what the service promises | abstract: `stream`, `pending`, `report`, `ended`; both runners implement it (`ImplementsProtocol`). |
| `ReviewerSession` | Maestro over `UiPathRunner` | `Decide`, `Retry`, `Lose`, `Receive`: a post is in flight until received or lost. |
| `CaseStream` | `stream_events`, `_sse_generator` | per request: not made, open, gone unnoticed, ended; `wire` is the event under way; `taken` the position in the one queue. |
| `WebUI` | the page | buttons, the continuation of each fetch, one action per event handler. Says nothing of a server. |
| `LiveSession` | page + streams + `UiPathRunner` | routes a fetch to the service, an event to the page; faults; the reviewer's clicks. |
| `GateMachine` | `agent/gates.py` | one action per method; a call that raises changes nothing and is no step. |
| `Triage` | `tools/triage.py`, `dedup.py`, `policy.py` | pure definitions: `Copies`, `LocalReasons`, `Reasons`, `Priority`, `FoundAt` (when the dict of reasons first sees an invoice, which a stable sort keeps among equals), `Ahead`, `Shown`. An invoice is meant by its position. |
| `UiPathClients` | `uipath/clients.py` | where each coroutine of a job's client stands: waiting for a token, in the request, answered. How a token ages in a client that outlives a decision is in `UiPathRunner`. |
| `CodedCase` | `coded_agent/main.py`, `context_grounding.py` over the three above | the steps of `GateMachine` with what the jobs hand it: `RunPlan`, `Investigated` (which *is* `Propose` of what triage shows), `Finalized` (which is `Complete`); jobs start, fail, time out, are repeated, are given up; `settings` says which calls they make. `late` counts appends of jobs given up, `evidence` is history. |
| `MockServer` | `web/mockserver.py` | `Script` is the list of events of the phase a thread is in; `ThreadStep` sends the next one or passes a gate; `PostAuditCase`, `PostApprove`, `Connect`, `SendEvent`, `QueueTimeout` are the requests. |
| `MockSession` | page + mock, case after case | routes fetches and events between `WebUI` and `MockServer`; `carried` remembers which fetches were still out at the last launch. |
| `MC*` | | ids, decisions and proposals as model values. |
| `*_proofs` | | theorems, section 6; one module per module that has properties of its own. |

A definition whose comment begins with *Mutant* is a plausible slip of the definition after it
(a flag not reset, a check dropped, an order swapped). No specification uses it: it serves to show that
a property is able to fail.

## 4. Runs

| Run | States | Question |
| --- | --- | --- |
| `FakeRunner` | 2 734 | Any client posts any decision at any time to a scripted case. Do mailbox, record, report and stream agree, is it a `CaseProtocol`, does a reviewed case end its stream? |
| `UiPathRunner` | 418 268 | The same for the live runner with failing calls, with and without credentials and URLs; and do log, proposal and report agree, is there a row exactly if the log has a URL, what does a token that expires cost? Where exactly do poll and stream part? |
| `ReviewerSession_retry` | 111 935 | Posts are delayed, lost and repeated: is Gate 1's answer honoured, is Gate 2's as long as nothing was posted twice, does every answered gate consume an answer (Gate 1 that one, Gate 2 that one if nothing was posted twice), does the stream end? |
| `LiveSession` | 665 120 | The page over a network that loses nothing, all interleavings of clicks, fetches, events and the task: can a waiting gate be answered from the page, is what is logged what was submitted, do the statuses match the log where there is one, is the page ready again? |
| `LiveSession_faults` | 2 910 634 | One request, reply or stream lost at any moment: is a report that is shown the one in the log, if there is a log? |
| `CodedCase` | 108 826 | A case run by the coded agent over every data set of three small invoices, with jobs that fail, are repeated and finish late: do the gates hold, is the log what was reviewed, does the report agree with every row, is there a row exactly if the log has a URL, has each group of equals one original, does the cut keep the strongest? |
| `MockSession` | 215 444 | Two cases one after the other on one page over the mock, with slow replies and stream timeouts: does an answer reach its gate, is the report the current case's, can a waiting gate be answered, are page and request threads ready again? |
| `FakeRunner_rejected`, `UiPathRunner_closed`, `ReviewerSession_gate2`, `LiveSession_lost`, `MockSession_stale` | | Each finds a counterexample; section 5. |

**Bounds.** `Ids` has three members in the case runs: two that can be proposed together and one more, which
a decision may name though it was not proposed (`FakeRunner`) or was cut off by `MaxFlagged = 2`
(`UiPathRunner`, where any subset may be detected). The seven decisions differ in everything a gate looks at:
approve and reject the plan; approve all, one of two, an unknown id beside a known one; reject one; reject
all. `MaxStrays` bounds the posts made while no gate is pending: one is enough to reach every pairing of an
early or late decision with a gate, two for one replacing another; the runs with a client bound posts by
`MaxAttempts` too. `Deployments` are the settings a case may be started with: everything, no read URLs, nothing in `UiPathRunner`, so that the records, the log
and the token are each there and not; everything or nothing in `ReviewerSession_retry` and `LiveSession_faults`; no credentials, with and without a log, in `LiveSession`;
all eight in `CodedCase`. The token starts as absent, valid or expired, since the runner may have served cases before. `MaxAttempts = 2` is one retry,
the first number that can reach the other gate (the blueprint's policy is two). `MaxStreams = 2`: a stream
and the one that replaces it. `MaxFaults = 1`. Two ids without faults tell partial approval apart;
with faults one id keeps the run short, and no property there compares ids with each other.
`Fetch` lets one fetch of each content be under way.

In `CodedCase` three invoices, each at or over the amount a policy allows, in or after hours, early or late, by a ghost vendor
or not, are the smallest number with a group of three equals and, with `MaxFlagged = 2`, a cut; the retrieval returns
scores at and below the threshold, one invoice twice, an unknown id and no id. `MaxAttempts = 3` is the
blueprint's two retries, and bounds `late` with it. In `MockSession` two cases are the case a late reply comes from and the one it
comes to. One finding, `Tools = 1` of the six tool calls, and no edits of rows (`LiveSession` has them, on the same
`WebUI`) keep it small: no property there compares findings. Replies nobody awaits are not kept, and an event under way to the only reader
of a mock's stream is as good as one in its queue.

`CHECK_DEADLOCK FALSE` is set because a finished case stops, and a case may wait for a human for ever.

**A reduction.** In `LiveSession`, page and network move only when the task is at a suspension (or before the
case, or before `set_report`), the conjunct `Settled`. Between these places the task runs alone on the loop, and
the steps left out commute with its steps: they touch neither the record nor the queue.

**Fairness.** `WF(TaskStep)`: the loop runs every ready task, and awaited calls return or raise (`httpx` has time-outs:
`clients.py` sets 20 to 45 s). Nothing makes a human answer: `ReviewedStreamEnds` and `PageRecovers` carry that as
a premise, `WF(...) =>`, so that the property says what is assumed. In `ReviewerSession` the human completes
an open task and Maestro repeats a lost post (blueprint, "Failure And Retry Handling"); a post with no retry left is
not lost. In `LiveSession` the browser and the service make progress; `PageRecovers` assumes no fault. In `MockSession` every thread runs
(`ThreadStep`, and `HandlerEnds`, which `q.get(timeout=120)` brings about) and the browser works off replies and events; its
`PageRecovers` assumes that the reviewer answers panels and that no rejection is out at a launch, which `MockSession_stale` shows to be
needed. `CodedCase` states no liveness: nothing obliges the orchestrator to repeat a job.

## 5. Where code and documents disagree

* `FakeRunner_rejected`: *Reject all* on the page posts an empty `approved_ids`; `runner.py:169` reads that as
  *approve everything* and reports every rejected finding as written (blueprint, line 120).
* `ReviewerSession_gate2`: a repeated post of the plan decision, arriving while Gate 2 waits, resumes Gate 2;
  the log is written without a Gate 2 decision (blueprint, line 145).
* `LiveSession_lost`: the stream breaks and takes PROPOSAL with it; AWAITING_APPROVAL reaches the new stream and opens
  the panel over an empty table; submitting it posts two empty lists, which `uipath_runner.py:148` reads as *everything*
  (blueprint, line 120).
* `UiPathRunner_closed`: after a failure ERROR and DONE are queued without `apply_event`; the poll never shows
  the case closed. `StageTracksStreamUntilFailure` states exactly when the two part.
* `MockSession_stale`: `rejectPlan` hides the plan panel when its post has returned, whatever case the page shows by then
  (`app.gates.js:291`). The next case waits at Gate 1 and the page offers nothing to answer it with (`README.md`, line 14).

### Weaknesses no document contradicts

The models contain these too. No statement of the repository says otherwise, so no run reports them; the property named has
the case as a premise, or states it, and shows that nothing else goes wrong.

* *An expired token loses the review* (`clients.py:59`, `server/uipath_runner.py:52, 82, 154`). The runner's store sends after Gate 2 the token it
  got before, and never asks for another. Once it has expired the read of every later case fails, and a case that waits at Gate 2
  fails after the reviewer's answer: `NoReportAfterExpiry`.
* *Written without a row* (`clients.py:124-126`). Without a URL for the log, WRITTEN and the report come with no row. The docstring of
  `uipath_runner.py` (15-17) and `tests/test_clients.py:106` intend this for work without credentials, but `configured` (89-94) does not look at this URL, so
  a service that reads live data may run without a log and say nothing. `LogMatchesReport`, `ReportMatchesRows` and `ShownReportIsLogged` state both cases.
* *A lost post leaves the page stuck* (`app.gates.js:334`). `postApproval` swallows the failure after the panel of the gate is hidden; the gate waits
  and the page has nothing to answer it with. `PendingGateIsShown` and `PageRecovers` have `faults = 0` as a premise.
* *Approve and reject of one plan* (`app.gates.js:289`). The panel of Gate 1 stays up until the rejection has returned, so both answers can be under way, and the later one
  may arrive when Gate 2 waits and be taken for its answer. `LogIsSubmission` and `StatusesMatchLog` have one answer to Gate 1 as a premise.
* *Statuses of rows edited after the submission* (`app.events.js:139`). `handleWritten` takes the statuses from the rows as they are then, so a row edited in the open
  review after the submission shows `approved` though it was not logged, or the reverse. `StatusesMatchLog` excludes exactly these rows.
* *The report of an earlier case* (`app.events.js:157-161`). `handleReportReady` stores whatever its fetch returns; after the next launch the page of
  the new case shows the old report. `ShownReportIsCurrent` excludes exactly a report fetch that was out at the launch (`carried`).

The docstring of `approve_action` (`gates.py:98`) speaks of "a subset of flagged" ids, which the machine does not enforce; the coded agent
does, in `finalize`, and `LoggedWasReviewed` is that promise at the place where it matters.

## 6. Proofs

All theorems hold for any finite set of ids, any set of decisions, any `MaxStrays`, `MaxFlagged`, `MaxAttempts`, `MaxStreams`, `MaxFaults`,
any data sets and query results, and, for the mock, any number of cases (finite or not) and of tool calls.
Every safety invariant a passing run checks, and every action property and implementation, is stated by a theorem; liveness is not.
Assumptions: `ConstantsAssumption` (decisions have their type; `None` is neither mail nor a report),
`FakeItemsAssumption`, `UiPathAssumption` (`MaxFlagged` is a number, the ids are finitely many, a deployment says which settings are there), `SessionAssumption`, `StreamAssumption`, `LiveAssumption`, `GateMachineAssumption`,
`CodedAssumption` (a data set is a list of invoices with ids of their own, which `generate_data.py` draws with `uuid4` and which triage takes
as keys, numbers for amounts and dates; the ids are known; the results of a query are numbered; the built plan is not blank),
`MockAssumption` (`None` is no case, id, decision or record).

*Cases.* Neither runner's properties are inductive. The invariant is
`IInv == TypeOK /\ MailInv /\ ProgressInv` (and `StageInv` for the live runner):
`MailInv` ties `pendingGate`, `signal` and `mailbox` to `pc`, so that "a set event means there is mail, posted while this
gate waited" is preserved by a post in any place; `ProgressInv` says, per position, what has been streamed, consumed,
selected and logged, with and without a URL for the log; `StageInv` gives the stage at each position and the shapes a failed run may have.
`CaseServer_proofs` proves once, for the operators both runners are made of (`Yield`, `OpenGate`, `PushApproval`,
`TakeDecision`), what each does to the type, the mailbox and the queue; the runners cite these lemmas, one step per
action. `ExpiredTokenLosesReview` is an argument about two moments: from the invariant, a case whose token is
expired, whose log is empty and has a URL has no report, and no step leaves this condition. From `Invariance` follow `TypeCorrect`, the mailbox, write, report, log and stage theorems and `Finality` (a closed
case never changes again).

*Implementation.* `ProtocolImplemented` maps each action to one step of `CaseProtocol` or a stutter; `StreamInv`
relates `pc` to the last event, which decides what may follow.

*Clients.* `SessionImplementsCase` shows that a case with its Maestro client is a case, so the theorems above carry over.
`PlanHonoured` holds with any number of retries; `ActionHonouredOnce` holds as long as nothing was posted twice (`PostedOnce`),
whatever `MaxAttempts` is, and the run `ReviewerSession_gate2` shows that the premise is needed. `ClientTypeCorrect` is inductive by itself.

*Coded agent.* `CodedImplementsGates`: each step of a case is a step of `GateMachine` or a stutter, so `WriteDiscipline` carries over
(`CodedWriteDiscipline`). The log and the report need `CInv == IInv /\ CodedTypeOK /\ JobInv /\ LogInv`: `JobInv` says which status
each job runs in, that no call is open between jobs, and that the writer has one only if the log has a URL; `LogInv` says that there is no row without a URL, and that once a row is written, or a late append is out, both gates are passed and proposal and approval no
longer change, so that every row is the same (`LogWasReviewed`, `ReportAgreesWithLog`), for any number of repeated and late jobs.
What triage shows matters to these proofs only in that it names invoices of the data set.

*Triage.* `OneOriginalIsKept` rests on lemmas about the operators: `Earlier` orders the positions of a group strictly and totally, so that each
finite group has exactly one first member, and `Copies` are the others. `CutDiscipline`: `Ahead` is a strict total order on the flagged invoices
(strong reasons, reasons, amount, then `FoundAt`, which two flagged invoices never share), and `Shown` takes those with fewer than `MaxFlagged` ahead of
them, so whatever ranks ahead of something shown is shown. Both are carried to the states of `CodedCase` by `EvidenceInv`: the proposal is what triage makes of the
data set and hits that `evidence` keeps. `Normalize` keeps each result at its old place: only the order of places matters.

*Page.* `LiveImplementsCase` does the same for the page, its streams and its faults: `StepRefinesCase` maps each step
to a step of the case or a stutter. `ReportFetchable` and `ShownIsLogged` need `LInv`: an event on the wire that
announces the report implies the report (`WireInv`), so does a fetch for it (`ReportCallInv`), and what is shown is
what is cached (`ShownInv`). Why an announced report is there comes from the protocol, not from the runner:
`CaseHistory` reads off the implemented `CaseProtocol` that events and report never change once they are there, and
`AnnouncedIsCached` that the one announcement without a report is the last event, at the one place (`pc = "cache"`) where no
stream can run. `LiveAssumption` says the decisions of the case include what the page can post.

*A page that loses nothing.* `PendingGateAnswerable`, `SubmissionIsLogged` and `StatusesFollowLog` need more: `GateInv` about the case
(it proposes once and opens each gate once, in this order; by a lemma, all steps but five are quiet for it), and, while `faults = 0`,
`FaultlessInv` about the page. Its parts: the one event on the wire is the last one taken (`WireOrder`); a panel is open, or hidden for good, by what the page
has read of the stream and what was clicked (`PanelInv`); a pending gate has a panel, an unread announcement, or an answer
under way (`Answerable`); a post under way is the one click it came from (`PostInv`); as long as Gate 1 was answered one way only, no answer
to Gate 1 is left in the mailbox when Gate 2 opens (`AnswerInv`); rows and statuses agree with proposal, submission and log, but for rows edited
later (`TableInv`); so `StatusesFollowLog` is about the rows not edited after the submission, in a case with a log. They hold only together: the mailbox at Gate 2 depends on the posts, these on the panels, and these on the order of
the stream.

*Mock.* `MInv` rests on two facts. The script announces Gate 2 of a case once, so it is asked for once and submitted once (`CaseOK`: a submission
implies that the announcement has left the queue), and therefore the decision, the report and the submission are equal whatever is
posted twice. And everything on the page, on its stream or under way in a fetch is about the case that is open, or was carried over
a launch (`PageCase`, `CallsOK`), so a reply of an earlier case can only do what `carried` records. `CurrentReportShown`, whose premise is that no report fetch was out at the launch, and
`WaitingGateOffered` are conjuncts of it.

*Boundaries of the disagreements.* For each disagreement of section 5 a theorem gives a condition under which the documents are right:
at least one id approved by name (`RejectionHonoured`), no loss (`ApprovedAreLogged`), no failure before the report
(`OnlyFailedStayOpen`), no decision posted twice (`ActionHonouredOnce`), no rejection out at a launch (`WaitingGateOffered`). For the weaknesses listed there the premises
of `LogAgreement`, `ShownIsLogged`, `ReportAgreesWithLog`, `PendingGateAnswerable`, `SubmissionIsLogged`, `StatusesFollowLog` and `CurrentReportShown` do the same.

*Only model-checked:* liveness (`ReviewedStreamEnds`, `AnsweredGateResumes`, `StreamEnds`, `AnswerIsConsumed`,
`PageRecovers`, `HandlersEnd`), since fairness and ENABLED are beyond the prover.

## 7. What is not modelled

Text (plans, narration, Markdown, timeline cards), similarity scores as shown, time stamps, the dashboard and exports: no control depends
on them. `server/insights.py`, `data/load.py` and the generator of demo data read, count or write files; they change no
state a case depends on. Of `config.py` only `Settings` is there, by which settings are not empty. `find_near_duplicates` and the OFAC screening (`tools/ofac.py`) are called by their unit tests only. The
plan editor: neither runner uses `edited_plan` to decide anything; the gate machine does, and there it is modelled. Several cases in
one service: they share the store's dictionary and nothing else; `newest_report`, which reads all of them, feeds the question-answering
route only. Without the URLs a call returns at once and does not suspend; for the reading and the query the model lets others run there
all the same, which adds interleavings and leaves none out. The retriever has a token of its own, whose failures are `QueryFails`. That the Data Service refuses an expired token
is assumed, and so is that a setting does not change while the service runs (`get_settings` is cached). A crash of the service loses every case: nothing is persisted but the remote log.

## 8. Plan

1. *Done:* events, case, both runners, protocol, gate machine, Maestro client, streams and page; triage, clients and the coded agent; the mock under
   the page, case after case; theorems for every safety invariant.
2. Theorem: each case of the mock follows the order of `CaseProtocol` as far as its rejected cases, which end without DONE, allow.
3. Several cases in the store, if anything comes to depend on the order of their reports.
