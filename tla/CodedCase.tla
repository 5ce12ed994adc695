------------------------------- MODULE CodedCase -------------------------------
(***************************************************************************)
(* An audit case run by the coded-agent entrypoints plan, investigate and  *)
(* finalize (fraudcase_ai/coded_agent/main.py) between the gates of a      *)
(* GateMachine, put together as the docs (docs/agenthack-alignment.md) and *)
(* tests/integration/test_e2e_mock.py put them together.  An entrypoint is *)
(* a job without state of its own: it makes its UiPath client, and what it *)
(* returns goes through the gate machine to the next one.                  *)
(*                                                                         *)
(* The orchestrator is external: it repeats a job that fails or takes too  *)
(* long (uipath/maestro-case-blueprint.md, "Failure And Retry Handling").  *)
(* A job it has given up may still append to the audit log.                *)
(***************************************************************************)
EXTENDS GateMachine, Triage

CONSTANTS Datasets,      \* what the Data Service may return
          Results,       \* what Context Grounding may return, sequences of [id, score]
          NoId,          \* the id of a result that names no invoice
          BuiltPlan,     \* build_plan(objective)
          MaxFlagged,    \* MAX_FLAGGED
          MaxAttempts    \* of one job; the blueprint retries twice

ASSUME CodedAssumption ==
    /\ \A ds \in Datasets :
          IsDataSet(ds) /\ \A i \in DOMAIN ds.invoices : ds.invoices[i].id \in Ids
    /\ \A results \in Results : DOMAIN results \subseteq Nat
    /\ BuiltPlan \in Plans \ Blank
    /\ MaxFlagged \in Nat /\ MaxAttempts \in Nat

VARIABLES settings,   \* get_settings(): which of them are not empty
          job,        \* the job under way
          attempts,   \* of that job, or of the next one
          calls,      \* of its client
          evidence,   \* history: data set and hits of the proposal, while Gate 2 waits
          auditLog,   \* rows of the remote log, as sets of ids
          report,     \* the report finalize returned, or {} before
          reported,   \* it has returned one
          late        \* requests to append of jobs that were given up

Readers == {"transactions", "vendors", "policies"}
Writer == "audit_log"

Client == INSTANCE UiPathClients WITH Callers <- Readers \cup {Writer}

jobVars == <<settings, job, attempts, calls>>
codedVars == <<vars, jobVars, evidence, auditLog, report, reported, late>>

\* The three read URLs, the URL of the audit log, the three OAuth settings.
Settings == [dataUrls : BOOLEAN, logUrl : BOOLEAN, oauth : BOOLEAN]

NoEvidence == [invoices |-> <<>>, ghosts |-> {}, policies |-> {}, hits |-> <<>>]

CodedTypeOK ==
    /\ TypeOK
    /\ settings \in Settings
    /\ job \in {"none", "load", "retrieve", "write", "manual"}
    /\ attempts \in 0 .. MaxAttempts
    /\ Client!ClientTypeOK
    /\ auditLog \in Seq(SUBSET Ids)
    /\ report \in SUBSET Ids /\ reported \in BOOLEAN
    /\ late \in Nat

CodedInit ==
    /\ Init
    /\ settings \in Settings
    /\ job = "none" /\ attempts = 0 /\ calls = Client!Idle
    /\ evidence = NoEvidence
    /\ auditLog = <<>> /\ report = {} /\ reported = FALSE /\ late = 0

\* Items finalize keeps of those it is given.
ApprovedItems == proposedItems \cap approvedIds

-------------------------------------------------------------------------------
(* plan *)

\* The Agent Builder agent's answer, None on any failure, or the built plan; a
\* blank answer is kept here and refused by submit_plan.
PlanText(answer) == IF answer = NoPlan THEN BuiltPlan ELSE answer

RunPlan ==
    /\ \E answer \in Plans \cup {NoPlan} : SubmitPlan(PlanText(answer))
    /\ UNCHANGED <<jobVars, evidence, auditLog, report, reported, late>>

DecidePlan ==
    /\ \E d \in Decision : ApprovePlan(d)
    /\ UNCHANGED <<jobVars, evidence, auditLog, report, reported, late>>

-------------------------------------------------------------------------------
(* Jobs with a client *)

Start(kind, callers) ==
    /\ job = "none" /\ attempts < MaxAttempts
    /\ job' = kind /\ attempts' = attempts + 1
    /\ Client!Ask(callers, settings.oauth)
    /\ UNCHANGED <<vars, settings, evidence, auditLog, report, reported, late>>

\* Without the read URLs the records come from the demo files and no call is made.
StartInvestigate ==
    /\ status = "executing"
    /\ Start("load", IF settings.dataUrls THEN Readers ELSE {})

\* Without a URL for the log write_audit_log returns and makes no call.
StartFinalize ==
    /\ status = "writing"
    /\ Start("write", IF settings.logUrl THEN {Writer} ELSE {})

TokenArrives(c) ==
    /\ Client!TokenGranted(c)
    /\ UNCHANGED <<vars, settings, job, attempts, evidence, auditLog, report, reported, late>>

RecordsArrive(c) ==
    /\ c \in Readers
    /\ Client!Answered(c)
    /\ UNCHANGED <<vars, settings, job, attempts, evidence, auditLog, report, reported, late>>

\* A call raises, or the job ends without its result getting back.
JobFails ==
    /\ job \in {"load", "retrieve", "write"}
    /\ job' = "none"
    /\ Client!Dropped
    /\ UNCHANGED <<vars, settings, attempts, evidence, auditLog, report, reported, late>>

\* The orchestrator no longer waits for a job that is about to append.
TimeOut ==
    /\ job = "write" /\ Client!Pending(Writer)
    /\ late' = late + 1
    /\ job' = "none"
    /\ Client!Dropped
    /\ UNCHANGED <<vars, settings, attempts, evidence, auditLog, report, reported>>

\* "Needs manual investigation".
GiveUp ==
    /\ job = "none" /\ attempts = MaxAttempts
    /\ status \in {"executing", "writing"}
    /\ job' = "manual"
    /\ UNCHANGED <<vars, settings, attempts, calls, evidence, auditLog, report, reported, late>>

-------------------------------------------------------------------------------
(* investigate *)

\* gather returns when the three calls, if there are any, have.
Gathered ==
    /\ job = "load" /\ \A c \in Readers : ~Client!Pending(c)
    /\ job' = "retrieve"
    /\ UNCHANGED <<vars, settings, attempts, calls, evidence, auditLog, report, reported, late>>

\* _normalize drops what has no id.  The others keep their positions in the list,
\* which only their order matters of.
Normalize(results) ==
    [k \in {k \in DOMAIN results : results[k].id # NoId} |-> results[k]]

\* Retrieval answers, or fails and leaves no hits; triage follows at once and the
\* first MaxFlagged items are proposed.
Investigated ==
    /\ job = "retrieve"
    /\ \E ds \in Datasets, results \in Results \cup {<<>>} :
          LET hits == Normalize(results)
          IN  /\ Propose(Shown(ds, hits, MaxFlagged))
              /\ evidence' = [invoices |-> ds.invoices, ghosts |-> ds.ghosts,
                              policies |-> ds.policies, hits |-> hits]
    /\ job' = "none" /\ attempts' = 0
    /\ Client!Dropped
    /\ UNCHANGED <<settings, auditLog, report, reported, late>>

DecideAction ==
    /\ \E d \in Decision : ApproveAction(d)
    /\ evidence' = NoEvidence
    /\ UNCHANGED <<jobVars, auditLog, report, reported, late>>

-------------------------------------------------------------------------------
(* finalize *)

\* Mutant: the approved ids are logged as they came.
AppendRowUnfiltered ==
    /\ auditLog' = Append(auditLog, approvedIds)
    /\ UNCHANGED <<vars, settings, job, attempts, evidence, report, reported>>

\* The Data Service appends a row; the ids are those of the kept items.
AppendRow ==
    /\ auditLog' = Append(auditLog, ApprovedItems)
    /\ UNCHANGED <<vars, settings, job, attempts, evidence, report, reported>>

Write == AppendRow /\ Client!Answered(Writer) /\ UNCHANGED late

LateWrite == late > 0 /\ late' = late - 1 /\ AppendRow /\ UNCHANGED calls

\* Mutant: the report lists what was proposed.
FinalizedProposal ==
    /\ job = "write" /\ ~Client!Pending(Writer)
    /\ report' = proposedItems /\ reported' = TRUE
    /\ Complete
    /\ job' = "none" /\ attempts' = 0
    /\ Client!Dropped
    /\ UNCHANGED <<settings, evidence, auditLog, late>>

\* The reply of the append is there, or none is awaited: the report is rendered and
\* the case completed.
Finalized ==
    /\ job = "write" /\ ~Client!Pending(Writer)
    /\ report' = ApprovedItems /\ reported' = TRUE
    /\ Complete
    /\ job' = "none" /\ attempts' = 0
    /\ Client!Dropped
    /\ UNCHANGED <<settings, evidence, auditLog, late>>

CodedNext ==
    \/ RunPlan \/ DecidePlan \/ DecideAction
    \/ StartInvestigate \/ StartFinalize
    \/ \E c \in Readers \cup {Writer} : TokenArrives(c) \/ RecordsArrive(c)
    \/ Gathered \/ Investigated \/ Write \/ Finalized
    \/ JobFails \/ TimeOut \/ GiveUp \/ LateWrite

CodedSpec == CodedInit /\ [][CodedNext]_codedVars

-------------------------------------------------------------------------------

\* Every row of the log, repeated and late ones included, holds ids that were
\* proposed and approved, although the gate machine keeps any id it is given
\* (gates.py:107) and a job may append after the case is over.
LoggedWasReviewed ==
    \A i \in 1 .. Len(auditLog) :
        /\ granted = {"plan", "action"}
        /\ auditLog[i] \subseteq proposedItems \cap approvedIds

\* finalize appends before it returns, and is repeated when its answer is lost: the
\* log may hold several rows, but all agree with the report.  There is one at least,
\* unless no URL for the log is set: then there is none.
ReportMatchesRows ==
    /\ reported /\ settings.logUrl => auditLog # <<>>
    /\ ~settings.logUrl => auditLog = <<>>
    /\ \A i \in 1 .. Len(auditLog) :
          (reported => auditLog[i] = report) /\ auditLog[i] = auditLog[1]

\* While Gate 2 waits: of invoices with the same vendor, amount and category all
\* but one are marked as duplicates, and that one is dated no later than the rest.
OneOriginalPerGroup ==
    LET invs == evidence.invoices
        Marked(i) == "duplicate" \in Reasons(evidence, evidence.hits, i)
    IN  \A i \in DOMAIN invs :
            \E o \in Group(invs, i) :
                /\ ~Marked(o)
                /\ \A j \in Group(invs, i) \ {o} : Marked(j) /\ invs[o].date <= invs[j].date

\* The cut at MAX_FLAGGED hides nothing stronger than what it shows: it only cuts
\* when the list is full, and then no item with more high-signal reasons.
StrongestAreShown ==
    LET all == Flagged(evidence, evidence.hits)
        Signals(i) == Cardinality(Reasons(evidence, evidence.hits, i) \cap HighSignal)
        IsShown(i) == evidence.invoices[i].id \in proposedItems
    IN  \A i \in all :
            ~IsShown(i) => /\ Cardinality(proposedItems) = MaxFlagged
                           /\ \A j \in all : IsShown(j) => Signals(i) <= Signals(j)
===============================================================================
