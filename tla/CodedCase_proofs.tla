--------------------------- MODULE CodedCase_proofs ---------------------------
(***************************************************************************)
(* Whatever the Data Service and the retrieval return, and however often   *)
(* jobs fail, are repeated or finish late: a case run by the coded agent   *)
(* is a run of the gate machine, so that what is proved of the machine     *)
(* holds of the case, and the audit log holds what was reviewed.           *)
(***************************************************************************)
EXTENDS CodedCase, GateMachine_proofs, FiniteSetTheorems, FunctionTheorems

\* What triage shows are invoices of the data set.
LEMMA ShownIsKnown ==
    ASSUME NEW ds \in Datasets, NEW hits, NEW max
    PROVE  Shown(ds, hits, max) \subseteq Ids
  BY CodedAssumption DEF Shown, Flagged

\* The steps that leave the gate machine alone are no step of it, the others are one.
LEMMA StepRefinesGates == [CodedNext]_codedVars => [Next]_vars
  <1> SUFFICES ASSUME [CodedNext]_codedVars PROVE [Next]_vars
    OBVIOUS
  <1>1. CASE RunPlan
    BY <1>1, CodedAssumption DEF RunPlan, PlanText, SubmitPlan, Next
  <1>2. CASE DecidePlan
    BY <1>2 DEF DecidePlan, Next
  <1>3. CASE DecideAction
    BY <1>3 DEF DecideAction, Next
  <1>4. CASE Investigated
    <2>1. PICK ds \in Datasets, results \in Results \cup {<<>>} :
            Propose(Shown(ds, Normalize(results), MaxFlagged))
      BY <1>4 DEF Investigated
    <2> QED
      BY <2>1, ShownIsKnown DEF Next
  <1>5. CASE Finalized
    BY <1>5 DEF Finalized, Next
  <1>6. CASE StartInvestigate \/ StartFinalize
    BY <1>6 DEF StartInvestigate, StartFinalize, Start
  <1>7. ASSUME NEW c \in Readers \cup {Writer}, TokenArrives(c) \/ RecordsArrive(c)
        PROVE  [Next]_vars
    BY <1>7 DEF TokenArrives, RecordsArrive
  <1>8. CASE Gathered \/ JobFails \/ TimeOut \/ GiveUp
    BY <1>8 DEF Gathered, JobFails, TimeOut, GiveUp
  <1>9. CASE Write \/ LateWrite
    BY <1>9 DEF Write, LateWrite, AppendRow
  <1>10. CASE UNCHANGED codedVars
    BY <1>10 DEF codedVars
  <1> QED
    BY <1>1, <1>2, <1>3, <1>4, <1>5, <1>6, <1>7, <1>8, <1>9, <1>10 DEF CodedNext

\* A case run by the coded agent is a run of the gate machine.
THEOREM CodedImplementsGates == CodedSpec => Spec
  <1>1. CodedInit => Init
    BY DEF CodedInit
  <1> QED
    BY <1>1, StepRefinesGates, PTL DEF CodedSpec, Spec

\* No invoice of a case run by the coded agent is left for the write phase unless
\* the human passed both gates.
THEOREM CodedWriteDiscipline == CodedSpec => []WriteNeedsBothGrants
  BY CodedImplementsGates, WriteDiscipline

-------------------------------------------------------------------------------
(* The jobs and the log *)

\* Which job runs says what the machine waits for, and whose calls are open.
JobInv ==
    /\ job \in {"load", "retrieve"} => status = "executing" /\ calls[Writer] = "idle"
    /\ job = "write" => status = "writing"
    /\ job \in {"none", "manual"} => \A c \in Readers \cup {Writer} : calls[c] = "idle"
    /\ job = "write" /\ settings.logUrl => calls[Writer] # "idle"
    /\ ~settings.logUrl => calls[Writer] = "idle"

\* Once anything is logged, reported, or on its way to the log, both gates are
\* passed and the ids to log no longer change.  Without a URL nothing is ever logged.
LogInv ==
    /\ late > 0 \/ auditLog # <<>> \/ reported =>
          status \in {"writing", "done"} /\ granted = {"plan", "action"}
    /\ \A i \in 1 .. Len(auditLog) : auditLog[i] = ApprovedItems
    /\ job = "write" /\ calls[Writer] = "answered" => auditLog # <<>>
    /\ reported => report = ApprovedItems
    /\ reported /\ settings.logUrl => auditLog # <<>>
    /\ ~settings.logUrl => auditLog = <<>> /\ late = 0

CInv == IInv /\ CodedTypeOK /\ JobInv /\ LogInv

\* A client between two jobs has no call under way.
LEMMA IdleCalls ==
    /\ \A c \in Readers \cup {Writer} : Client!Idle[c] = "idle"
    /\ Client!Idle \in [Readers \cup {Writer} -> {"idle", "auth", "request", "answered"}]
  BY DEF Client!Idle

\* The initial state satisfies the invariant.
LEMMA CodedInitInv == CodedInit => CInv
  <1> SUFFICES ASSUME CodedInit PROVE CInv
    OBVIOUS
  <1>1. IInv
    BY InitInv DEF CodedInit
  <1>2. CodedTypeOK
    <2>1. Client!ClientTypeOK
      BY IdleCalls DEF CodedInit, Client!ClientTypeOK
    <2>2. auditLog \in Seq(SUBSET Ids)
      BY DEF CodedInit
    <2>3. attempts \in 0 .. MaxAttempts
      BY CodedAssumption DEF CodedInit
    <2>4. /\ job = "none" /\ report = {} /\ reported \in BOOLEAN /\ late \in Nat
          /\ settings \in Settings
      BY DEF CodedInit
    <2> QED
      BY <1>1, <2>1, <2>2, <2>3, <2>4 DEF CodedTypeOK, IInv
  <1>3. JobInv
    BY IdleCalls DEF CodedInit, JobInv
  <1>4. LogInv
    BY DEF CodedInit, LogInv
  <1> QED
    BY <1>1, <1>2, <1>3, <1>4 DEF CInv

\* A call of the gate machine that leaves the jobs and the log alone.
LEMMA GateStep ==
    ASSUME CInv, IInv',
           UNCHANGED <<jobVars, auditLog, report, reported, late>>,
           job \in {"none", "manual"},
           status \in {"planning", "awaiting_plan", "executing", "awaiting_action"}
    PROVE  CodedTypeOK' /\ JobInv' /\ LogInv'
  <1>1. CodedTypeOK'
    BY DEF CInv, IInv, CodedTypeOK, jobVars, Client!ClientTypeOK
  <1>2. JobInv'
    BY DEF CInv, JobInv, jobVars
  <1>3. late = 0 /\ auditLog = <<>> /\ reported = FALSE
    BY DEF CInv, CodedTypeOK, LogInv
  <1>4. LogInv'
    BY <1>3 DEF LogInv, CInv, JobInv, jobVars
  <1> QED
    BY <1>1, <1>2, <1>4

\* A step of a job that leaves the machine and the log alone.
LEMMA QuietStep ==
    ASSUME CInv, UNCHANGED <<vars, settings, auditLog, report, reported>>,
           job' \in {"none", "load", "retrieve", "write", "manual"},
           attempts' \in 0 .. MaxAttempts, Client!ClientTypeOK', late' \in Nat,
           late' > 0 => late > 0 \/ (status = "writing" /\ settings.logUrl),
           job' = "write" /\ calls'[Writer] = "answered" =>
              job = "write" /\ calls[Writer] = "answered"
    PROVE  CodedTypeOK' /\ LogInv'
  <1>1. CodedTypeOK'
    BY DEF CInv, CodedTypeOK, TypeOK, vars, machineVars
  <1>2. status = "writing" => granted = {"plan", "action"}
    BY DEF CInv, IInv, PhaseInv
  <1>3. UNCHANGED <<status, granted, ApprovedItems>>
    BY DEF vars, machineVars, ApprovedItems
  <1>4. ~settings.logUrl => late' = 0
    BY DEF CInv, LogInv, CodedTypeOK
  <1>5. LogInv'
    BY <1>2, <1>3, <1>4 DEF CInv, LogInv
  <1> QED
    BY <1>1, <1>5

\* A row is only appended while the ids to log are settled, and a URL is set.
LEMMA AppendStep ==
    ASSUME CInv, AppendRow, Client!ClientTypeOK', late' \in Nat, settings.logUrl,
           late' > 0 => late > 0, status \in {"writing", "done"},
           granted = {"plan", "action"}
    PROVE  CodedTypeOK' /\ LogInv'
  <1>1. UNCHANGED <<vars, settings, status, granted, ApprovedItems>>
    BY DEF AppendRow, vars, machineVars, ApprovedItems
  <1>2. /\ ApprovedItems \in SUBSET Ids /\ auditLog \in Seq(SUBSET Ids)
        /\ auditLog' = Append(auditLog, ApprovedItems)
    BY DEF CInv, CodedTypeOK, TypeOK, ApprovedItems, AppendRow
  <1>3. /\ auditLog' \in Seq(SUBSET Ids) /\ auditLog' # <<>>
        /\ \A i \in 1 .. Len(auditLog') :
              \/ i \in 1 .. Len(auditLog) /\ auditLog'[i] = auditLog[i]
              \/ auditLog'[i] = ApprovedItems
    BY <1>2
  <1>4. CodedTypeOK'
    BY <1>1, <1>3 DEF CInv, CodedTypeOK, TypeOK, AppendRow, vars, machineVars
  <1>5. LogInv'
    BY <1>1, <1>3 DEF CInv, LogInv, AppendRow
  <1> QED
    BY <1>4, <1>5

\* Every step of the case keeps the invariant.
LEMMA CodedStepInv == CInv /\ [CodedNext]_codedVars => CInv'
  <1> SUFFICES ASSUME CInv, [CodedNext]_codedVars PROVE CInv'
    OBVIOUS
  <1>0. IInv'
    BY StepInv, StepRefinesGates DEF CInv
  <1>a. CodedTypeOK /\ JobInv /\ LogInv
    BY DEF CInv
  <1>b. /\ Client!ClientTypeOK /\ DOMAIN calls = Readers \cup {Writer}
        /\ attempts \in 0 .. MaxAttempts /\ late \in Nat
        /\ job \in {"none", "load", "retrieve", "write", "manual"}
    BY <1>a DEF CodedTypeOK, Client!ClientTypeOK
  <1>c. status = "writing" => granted = {"plan", "action"}
    BY DEF CInv, IInv, PhaseInv
  <1>d. /\ job = "load" => status = "executing"
        /\ job = "retrieve" => status = "executing"
        /\ job = "write" => status = "writing"
    BY <1>a DEF JobInv
  <1>e. "audit_log" \notin Readers
    BY DEF Readers
  <1>1. CASE RunPlan
    <2>1. status = "planning" /\ UNCHANGED <<jobVars, auditLog, report, reported, late>>
      BY <1>1 DEF RunPlan, SubmitPlan
    <2> QED
      BY <2>1, <1>0, <1>b, <1>d, GateStep DEF CInv
  <1>2. CASE DecidePlan
    <2>1. status = "awaiting_plan" /\ UNCHANGED <<jobVars, auditLog, report, reported, late>>
      BY <1>2 DEF DecidePlan, ApprovePlan
    <2> QED
      BY <2>1, <1>0, <1>b, <1>d, GateStep DEF CInv
  <1>3. CASE DecideAction
    <2>1. status = "awaiting_action" /\ UNCHANGED <<jobVars, auditLog, report, reported, late>>
      BY <1>3 DEF DecideAction, ApproveAction
    <2> QED
      BY <2>1, <1>0, <1>b, <1>d, GateStep DEF CInv
  <1>4. CASE StartInvestigate \/ StartFinalize
    <2>1. PICK kind \in {"load", "write"}, S \in SUBSET (Readers \cup {Writer}) :
            /\ Start(kind, S)
            /\ kind = "load" => status = "executing" /\ Writer \notin S
            /\ kind = "write" => /\ status = "writing"
                                 /\ Writer \in S <=> settings.logUrl
      <3>1. CASE StartInvestigate
        <4>1. PICK S \in SUBSET Readers : Start("load", S)
          BY <3>1 DEF StartInvestigate
        <4>2. Writer \notin S /\ S \in SUBSET (Readers \cup {Writer})
          BY <1>e DEF Writer
        <4> QED
          BY <4>1, <4>2, <3>1 DEF StartInvestigate
      <3>2. CASE StartFinalize
        <4>1. PICK S : S = (IF settings.logUrl THEN {Writer} ELSE {})
          OBVIOUS
        <4>2. S \in SUBSET (Readers \cup {Writer}) /\ (Writer \in S <=> settings.logUrl)
          BY <4>1, <1>a DEF CodedTypeOK, Settings
        <4>3. Start("write", S) /\ status = "writing"
          BY <4>1, <3>2 DEF StartFinalize
        <4> QED
          BY <4>2, <4>3
      <3> QED
        BY <3>1, <3>2, <1>4
    <2>2. /\ UNCHANGED <<vars, settings, auditLog, report, reported, late>>
          /\ job' = kind /\ attempts' \in 0 .. MaxAttempts
      BY <2>1, <1>b, CodedAssumption DEF Start
    <2>3. PICK start \in {"auth", "request"} :
            calls' = [c \in Readers \cup {Writer} |-> IF c \notin S THEN "idle" ELSE start]
      <3>1. calls' = [c \in Readers \cup {Writer} |->
                        IF c \notin S THEN "idle"
                        ELSE IF settings.oauth THEN "auth" ELSE "request"]
        BY <2>1 DEF Start, Client!Ask
      <3> QED
        BY <3>1
    <2>4. Client!ClientTypeOK'
      BY <2>3 DEF Client!ClientTypeOK
    <2>5. calls'[Writer] = IF Writer \in S THEN start ELSE "idle"
      BY <2>3
    <2>6. ~settings.logUrl => calls'[Writer] = "idle"
      BY <2>1, <2>5
    <2>7. JobInv'
      <3>1. UNCHANGED <<status, settings>>
        BY <2>2 DEF vars, machineVars
      <3> QED
        BY <2>1, <2>2, <2>5, <2>6, <3>1 DEF JobInv
    <2>8. CodedTypeOK' /\ LogInv'
      BY <2>2, <2>4, <2>5, <1>b, QuietStep
    <2> QED
      BY <2>7, <2>8, <1>0 DEF CInv
  <1>5. ASSUME NEW c \in Readers \cup {Writer}, TokenArrives(c) PROVE CInv'
    <2>1. /\ UNCHANGED <<vars, settings, job, attempts, auditLog, report, reported, late>>
          /\ calls[c] = "auth" /\ calls' = [calls EXCEPT ![c] = "request"]
      BY <1>5 DEF TokenArrives, Client!TokenGranted
    <2>2. Client!ClientTypeOK'
      BY <2>1, <1>b DEF Client!ClientTypeOK
    <2>3. \A x \in DOMAIN calls : calls'[x] = IF x = c THEN "request" ELSE calls[x]
      BY <2>1
    <2>4. JobInv'
      <3>1. UNCHANGED <<status, settings>>
        BY <2>1 DEF vars, machineVars
      <3> QED
        BY <2>1, <2>3, <3>1, <1>a, <1>b DEF JobInv
    <2>5. calls'[Writer] = "answered" => calls[Writer] = "answered"
      BY <2>3, <1>b
    <2>6. CodedTypeOK' /\ LogInv'
      BY <2>1, <2>2, <2>5, <1>b, QuietStep
    <2> QED
      BY <2>4, <2>6, <1>0 DEF CInv
  <1>6. ASSUME NEW c \in Readers \cup {Writer}, RecordsArrive(c) PROVE CInv'
    <2>1. /\ UNCHANGED <<vars, settings, job, attempts, auditLog, report, reported, late>>
          /\ c \in Readers /\ calls[c] = "request"
          /\ calls' = [calls EXCEPT ![c] = "answered"]
      BY <1>6 DEF RecordsArrive, Client!Answered
    <2>2. Client!ClientTypeOK'
      BY <2>1, <1>b DEF Client!ClientTypeOK
    <2>3. \A x \in DOMAIN calls : calls'[x] = IF x = c THEN "answered" ELSE calls[x]
      BY <2>1
    <2>4. c # Writer
      BY <2>1, <1>e DEF Writer
    <2>5. JobInv'
      <3>1. UNCHANGED <<status, settings>>
        BY <2>1 DEF vars, machineVars
      <3> QED
        BY <2>1, <2>3, <2>4, <3>1, <1>a, <1>b DEF JobInv
    <2>6. calls'[Writer] = "answered" => calls[Writer] = "answered"
      BY <2>3, <2>4, <1>b
    <2>7. CodedTypeOK' /\ LogInv'
      BY <2>1, <2>2, <2>6, <1>b, QuietStep
    <2> QED
      BY <2>5, <2>7, <1>0 DEF CInv
  <1>7. ASSUME job' \in {"none", "manual"}, \A c \in Readers \cup {Writer} : calls'[c] = "idle"
        PROVE  JobInv'
    BY <1>7 DEF JobInv
  <1>8. ASSUME Client!Dropped
        PROVE  /\ Client!ClientTypeOK'
               /\ \A c \in Readers \cup {Writer} : calls'[c] = "idle"
    BY <1>8, IdleCalls DEF Client!Dropped, Client!ClientTypeOK
  <1>9. CASE JobFails
    <2>1. /\ UNCHANGED <<vars, settings, attempts, auditLog, report, reported, late>>
          /\ job' = "none" /\ Client!Dropped
      BY <1>9 DEF JobFails
    <2>2. CodedTypeOK' /\ LogInv'
      BY <2>1, <1>8, <1>b, QuietStep
    <2> QED
      BY <2>1, <2>2, <1>0, <1>7, <1>8 DEF CInv
  <1>10. CASE TimeOut
    <2>1. /\ UNCHANGED <<vars, settings, attempts, auditLog, report, reported>>
          /\ job = "write" /\ late' = late + 1 /\ job' = "none" /\ Client!Dropped
          /\ calls[Writer] \in {"auth", "request"}
      BY <1>10 DEF TimeOut, Client!Pending
    <2>2. status = "writing" /\ settings.logUrl
      BY <2>1, <1>a, <1>d DEF JobInv
    <2>3. CodedTypeOK' /\ LogInv'
      BY <2>1, <2>2, <1>8, <1>b, QuietStep
    <2> QED
      BY <2>1, <2>3, <1>0, <1>7, <1>8 DEF CInv
  <1>11. CASE GiveUp
    <2>1. /\ UNCHANGED <<vars, settings, attempts, calls, auditLog, report, reported, late>>
          /\ job = "none" /\ job' = "manual"
      BY <1>11 DEF GiveUp
    <2>2. Client!ClientTypeOK'
      BY <2>1, <1>b DEF Client!ClientTypeOK
    <2>3. CodedTypeOK' /\ LogInv'
      BY <2>1, <2>2, <1>b, QuietStep
    <2> QED
      BY <2>1, <2>3, <1>0, <1>7, <1>a DEF CInv, JobInv
  <1>12. CASE Gathered
    <2>1. /\ UNCHANGED <<vars, settings, attempts, calls, auditLog, report, reported, late>>
          /\ job = "load" /\ job' = "retrieve"
      BY <1>12 DEF Gathered
    <2>2. Client!ClientTypeOK'
      BY <2>1, <1>b DEF Client!ClientTypeOK
    <2>3. CodedTypeOK' /\ LogInv'
      BY <2>1, <2>2, <1>b, QuietStep
    <2>4. JobInv'
      BY <2>1, <1>a DEF JobInv, vars, machineVars
    <2> QED
      BY <2>3, <2>4, <1>0 DEF CInv
  <1>13. CASE Investigated
    <2>1. /\ job' = "none" /\ attempts' = 0 /\ Client!Dropped
          /\ UNCHANGED <<settings, auditLog, report, reported, late>>
      BY <1>13 DEF Investigated
    <2>2. status = "executing"
      BY <1>13, <1>d DEF Investigated
    <2>3. late = 0 /\ auditLog = <<>> /\ reported = FALSE
      BY <2>2, <1>a, <1>b DEF LogInv, CodedTypeOK
    <2>4. CodedTypeOK'
      BY <2>1, <1>0, <1>8, <1>a, CodedAssumption DEF CodedTypeOK, IInv
    <2>5. LogInv'
      BY <2>1, <2>3 DEF LogInv
    <2> QED
      BY <2>1, <2>4, <2>5, <1>0, <1>7, <1>8 DEF CInv
  <1>14. CASE Write
    <2>1. /\ AppendRow /\ calls[Writer] = "request" /\ UNCHANGED <<settings, late, job>>
          /\ calls' = [calls EXCEPT ![Writer] = "answered"]
      BY <1>14 DEF Write, AppendRow, Client!Answered
    <2>2. job = "write" /\ settings.logUrl
      BY <2>1, <1>a, <1>b DEF JobInv
    <2>3. Client!ClientTypeOK' /\ calls'[Writer] = "answered"
      BY <2>1, <1>b DEF Client!ClientTypeOK
    <2>4. CodedTypeOK' /\ LogInv'
      BY <2>1, <2>2, <2>3, <1>b, <1>c, <1>d, AppendStep
    <2>5. UNCHANGED <<status, settings>>
      BY <2>1 DEF AppendRow, vars, machineVars
    <2>6. JobInv'
      BY <2>1, <2>2, <2>3, <2>5, <1>d DEF JobInv
    <2> QED
      BY <2>4, <2>6, <1>0 DEF CInv
  <1>15. CASE LateWrite
    <2>1. /\ AppendRow /\ UNCHANGED <<settings, calls, job>>
          /\ late > 0 /\ late' = late - 1 /\ late' \in Nat
      BY <1>15, <1>b DEF LateWrite, AppendRow
    <2>2. Client!ClientTypeOK'
      BY <2>1, <1>b DEF Client!ClientTypeOK
    <2>3. /\ status \in {"writing", "done"} /\ granted = {"plan", "action"}
          /\ settings.logUrl
      BY <2>1, <1>a DEF LogInv
    <2>4. CodedTypeOK' /\ LogInv'
      BY <2>1, <2>2, <2>3, AppendStep
    <2>5. UNCHANGED <<status, settings>>
      BY <2>1 DEF AppendRow, vars, machineVars
    <2>6. JobInv'
      BY <2>1, <2>5, <1>a DEF JobInv
    <2> QED
      BY <2>4, <2>6, <1>0 DEF CInv
  <1>16. CASE Finalized
    <2>1. /\ job = "write" /\ calls[Writer] \notin {"auth", "request"} /\ Client!Dropped
          /\ status = "writing" /\ status' = "done" /\ job' = "none" /\ attempts' = 0
          /\ report' = ApprovedItems /\ reported' = TRUE
          /\ UNCHANGED <<settings, plan, proposedItems, approvedIds, granted, auditLog, late>>
      BY <1>16 DEF Finalized, Complete, Client!Pending
    <2>2. ApprovedItems \in SUBSET Ids /\ UNCHANGED ApprovedItems
      BY <2>1, <1>a DEF CodedTypeOK, TypeOK, ApprovedItems
    <2>3. settings.logUrl => auditLog # <<>>
      <3>1. calls[Writer] \in {"idle", "answered"}
        BY <2>1, <1>b DEF Client!ClientTypeOK
      <3> QED
        BY <3>1, <2>1, <1>a DEF JobInv, LogInv
    <2>4. CodedTypeOK'
      BY <2>1, <2>2, <1>0, <1>8, <1>a, CodedAssumption DEF CodedTypeOK, IInv
    <2>5. LogInv'
      BY <2>1, <2>2, <2>3, <1>a, <1>c DEF LogInv
    <2> QED
      BY <2>1, <2>4, <2>5, <1>0, <1>7, <1>8 DEF CInv
  <1>17. CASE UNCHANGED codedVars
    <2>1. UNCHANGED <<vars, settings, job, attempts, calls, auditLog, report, reported, late>>
      BY <1>17 DEF codedVars, jobVars
    <2>2. Client!ClientTypeOK'
      BY <2>1, <1>b DEF Client!ClientTypeOK
    <2>3. CodedTypeOK' /\ LogInv'
      BY <2>1, <2>2, <1>b, QuietStep
    <2>4. JobInv'
      BY <2>1, <1>a DEF JobInv, vars, machineVars
    <2> QED
      BY <2>3, <2>4, <1>0 DEF CInv
  <1> QED
    BY <1>1, <1>2, <1>3, <1>4, <1>5, <1>6, <1>9, <1>10, <1>11, <1>12, <1>13, <1>14, <1>15,
       <1>16, <1>17 DEF CodedNext

THEOREM CodedInvariance == CodedSpec => []CInv
  BY CodedInitInv, CodedStepInv, PTL DEF CodedSpec

\* Every variable of the case keeps its type, however jobs fail and return.
THEOREM CodedTypeCorrect == CodedSpec => []CodedTypeOK
  <1>1. CInv => CodedTypeOK
    BY DEF CInv
  <1> QED
    BY <1>1, CodedInvariance, PTL

\* Rows appended by repeated jobs, and by jobs given up, hold ids that were
\* proposed and approved.
THEOREM LogWasReviewed == CodedSpec => []LoggedWasReviewed
  <1>1. CInv => LoggedWasReviewed
    <2> SUFFICES ASSUME CInv, NEW i \in 1 .. Len(auditLog)
                 PROVE  /\ granted = {"plan", "action"}
                        /\ auditLog[i] \subseteq proposedItems \cap approvedIds
      BY DEF LoggedWasReviewed
    <2>1. auditLog # <<>>
      OBVIOUS
    <2> QED
      BY <2>1 DEF CInv, LogInv, ApprovedItems
  <1> QED
    BY <1>1, CodedInvariance, PTL

\* With a URL for the log a report comes with a row, and agrees with every row there
\* is, however many; without one there is no row.
THEOREM ReportAgreesWithLog == CodedSpec => []ReportMatchesRows
  <1>1. CInv => ReportMatchesRows
    <2> SUFFICES ASSUME CInv PROVE ReportMatchesRows
      OBVIOUS
    <2>1. /\ reported => report = ApprovedItems
          /\ reported /\ settings.logUrl => auditLog # <<>>
          /\ ~settings.logUrl => auditLog = <<>>
      BY DEF CInv, LogInv
    <2>2. ASSUME NEW i \in 1 .. Len(auditLog)
          PROVE  auditLog[i] = ApprovedItems /\ auditLog[1] = ApprovedItems
      <3>1. 1 \in 1 .. Len(auditLog)
        BY DEF CInv, CodedTypeOK
      <3> QED
        BY <3>1 DEF CInv, LogInv
    <2> QED
      BY <2>1, <2>2 DEF ReportMatchesRows
  <1> QED
    BY <1>1, CodedInvariance, PTL

-------------------------------------------------------------------------------
(* Triage: originals and copies *)

\* A set of numbers has a least one.
LEMMA LeastOf == ASSUME NEW S, S \subseteq Nat, S # {} PROVE \E m \in S : \A k \in S : m <= k
  <1> DEFINE T == {0 .. m : m \in S}
             R == StrictSubsetOrdering(Nat)
  <1>1. IsWellFoundedOn(R, FiniteSubsetsOf(Nat))
    BY FS_StrictSubsetOrderingWellFounded
  <1>2. T \subseteq FiniteSubsetsOf(Nat) /\ T # {}
    <2>1. \A m \in S : IsFiniteSet(0 .. m) /\ 0 .. m \subseteq Nat
      BY FS_Interval
    <2> QED
      BY <2>1 DEF FiniteSubsetsOf
  <1> HIDE DEF R
  <1>3. \E x \in T : \A y \in T : <<y, x>> \notin R
    BY <1>1, <1>2, WFMin
  <1>4. PICK m \in S : \A k \in S : <<0 .. k, 0 .. m>> \notin R
    BY <1>3
  <1>5. ASSUME NEW k \in S, k < m PROVE FALSE
    <2>1. 0 .. k \in SUBSET Nat /\ 0 .. m \in SUBSET Nat /\ 0 .. k \subseteq 0 .. m
      BY <1>5
    <2>2. 0 .. k # 0 .. m
      BY <1>5
    <2>3. <<0 .. k, 0 .. m>> \in (SUBSET Nat) \X (SUBSET Nat)
      BY <2>1
    <2> QED
      BY <1>4, <2>1, <2>2, <2>3 DEF R, StrictSubsetOrdering
  <1> QED
    BY <1>4, <1>5

\* The lexicographic order of pairs and triples, spelt out.
LEMMA BeforePair ==
    ASSUME NEW a1 \in Int, NEW a2 \in Int, NEW b1 \in Int, NEW b2 \in Int
    PROVE  Before(<<a1, a2>>, <<b1, b2>>) <=> a1 < b1 \/ (a1 = b1 /\ a2 < b2)
  <1> DEFINE a == <<a1, a2>>
             b == <<b1, b2>>
  <1>1. DOMAIN a = {1, 2}
    OBVIOUS
  <1>2. /\ a[1] = a1 /\ a[2] = a2
        /\ b[1] = b1 /\ b[2] = b2
    OBVIOUS
  <1>3. 1 .. 1 - 1 = {} /\ 1 .. 2 - 1 = {1}
    OBVIOUS
  <1> HIDE DEF a, b
  <1>4. Before(a, b) <=> \/ a[1] < b[1]
                         \/ a[2] < b[2] /\ a[1] = b[1]
    BY <1>1, <1>3 DEF Before
  <1> QED
    BY <1>2, <1>4 DEF a, b

LEMMA BeforeTriple ==
    ASSUME NEW p \in Int \X Int \X Int, NEW q \in Int \X Int \X Int
    PROVE  Before(p, q) <=> \/ p[1] < q[1]
                            \/ p[1] = q[1] /\ p[2] < q[2]
                            \/ p[1] = q[1] /\ p[2] = q[2] /\ p[3] < q[3]
  <1>1. DOMAIN p = {1, 2, 3}
    OBVIOUS
  <1>2. 1 .. 1 - 1 = {} /\ 1 .. 2 - 1 = {1} /\ 1 .. 3 - 1 = {1, 2}
    OBVIOUS
  <1> QED
    BY <1>1, <1>2 DEF Before

\* Earlier is the order of dates, then of positions.
LEMMA EarlierIsOrder ==
    ASSUME NEW ds, IsDataSet(ds), NEW i \in DOMAIN ds.invoices, NEW j \in DOMAIN ds.invoices
    PROVE  Earlier(ds.invoices, i, j) <=>
              \/ ds.invoices[i].date < ds.invoices[j].date
              \/ ds.invoices[i].date = ds.invoices[j].date /\ i < j
  BY BeforePair DEF Earlier, IsDataSet

\* Among equals there is one that comes before all others.
LEMMA GroupHasOriginal ==
    ASSUME NEW ds, IsDataSet(ds), NEW i \in DOMAIN ds.invoices
    PROVE  \E o \in Group(ds.invoices, i) : \A j \in Group(ds.invoices, i) \ {o} :
              Earlier(ds.invoices, o, j) /\ ~Earlier(ds.invoices, j, o)
  <1> DEFINE invs == ds.invoices
             G == Group(invs, i)
             D == {invs[j].date : j \in G}
  <1>1. G \subseteq DOMAIN invs /\ i \in G /\ DOMAIN invs \subseteq Nat
    BY DEF Group, IsDataSet
  <1>2. PICK d \in D : \A e \in D : d <= e
    <2>1. D \subseteq Nat /\ D # {}
      BY <1>1 DEF IsDataSet
    <2> QED
      BY <2>1, LeastOf
  <1> DEFINE P == {j \in G : invs[j].date = d}
  <1>3. PICK o \in P : \A j \in P : o <= j
    <2>1. P \subseteq Nat /\ P # {}
      BY <1>1, <1>2
    <2> QED
      BY <2>1, LeastOf
  <1>4. ASSUME NEW j \in G \ {o}
        PROVE  Earlier(invs, o, j) /\ ~Earlier(invs, j, o)
    <2>1. d <= invs[j].date /\ invs[o].date = d /\ d \in Nat
      BY <1>1, <1>2, <1>3 DEF IsDataSet
    <2>2. invs[j].date \in Nat /\ o \in Nat /\ j \in Nat
      BY <1>1 DEF IsDataSet
    <2>3. invs[j].date = d => o < j
      BY <1>3, <2>2
    <2>4. o \in DOMAIN ds.invoices /\ j \in DOMAIN ds.invoices
      BY <1>1
    <2> HIDE DEF D, P, G
    <2> QED
      BY <2>1, <2>2, <2>3, <2>4, EarlierIsOrder
  <1> QED
    BY <1>3, <1>4

LEMMA MarkedIsCopy ==
    ASSUME NEW ds, NEW hits, NEW i
    PROVE  "duplicate" \in Reasons(ds, hits, i) <=> i \in Copies(ds.invoices)
  <1>1. "duplicate" \notin LocalReasons(ds, i)
    BY DEF LocalReasons
  <1> QED
    BY <1>1 DEF Reasons

LEMMA OneOriginal ==
    ASSUME NEW ds, IsDataSet(ds), NEW hits, NEW i \in DOMAIN ds.invoices
    PROVE  \E o \in Group(ds.invoices, i) :
                /\ "duplicate" \notin Reasons(ds, hits, o)
                /\ \A j \in Group(ds.invoices, i) \ {o} :
                      /\ "duplicate" \in Reasons(ds, hits, j)
                      /\ ds.invoices[o].date <= ds.invoices[j].date
  <1> DEFINE invs == ds.invoices
             G == Group(invs, i)
  <1>1. PICK o \in G : \A j \in G \ {o} : Earlier(invs, o, j) /\ ~Earlier(invs, j, o)
    BY GroupHasOriginal
  <1>2. \A j \in G : j \in DOMAIN invs /\ Group(invs, j) = G
    BY DEF Group
  <1>3. o \in DOMAIN ds.invoices /\ ds.invoices[o].date \in Nat /\ o \in Nat
    BY <1>2 DEF IsDataSet
  <1>4. ~Earlier(ds.invoices, o, o)
    BY <1>3, EarlierIsOrder
  <1>5. o \notin Copies(invs)
    BY <1>1, <1>2, <1>4 DEF Copies
  <1>6. ASSUME NEW j \in G \ {o} PROVE j \in Copies(invs) /\ invs[o].date <= invs[j].date
    <2>1. Earlier(ds.invoices, o, j) /\ j \in DOMAIN ds.invoices
      BY <1>1, <1>2
    <2>2. ds.invoices[j].date \in Nat
      BY <2>1 DEF IsDataSet
    <2>3. ds.invoices[o].date <= ds.invoices[j].date
      BY <1>3, <2>1, <2>2, EarlierIsOrder
    <2> QED
      BY <1>2, <2>1, <2>3 DEF Copies
  <1> QED
    BY <1>1, <1>5, <1>6, MarkedIsCopy

-------------------------------------------------------------------------------
(* Triage: the order of the list and its cut *)

\* The members of S that an order R puts before i.
Below(S, R, i) == {k \in S : <<k, i>> \in R}

IsStrictOrder(S, R) ==
    /\ \A i \in S : <<i, i>> \notin R
    /\ \A i, j, k \in S : <<i, j>> \in R /\ <<j, k>> \in R => <<i, k>> \in R
    /\ \A i, j \in S : i # j => <<i, j>> \in R \/ <<j, i>> \in R

\* In a finite order fewer members come before the smaller of two.
LEMMA SmallerHasLess ==
    ASSUME NEW S, IsFiniteSet(S), NEW R, IsStrictOrder(S, R),
           NEW i \in S, NEW j \in S, <<i, j>> \in R
    PROVE  Cardinality(Below(S, R, i)) < Cardinality(Below(S, R, j))
  <1>1. Below(S, R, i) \subseteq Below(S, R, j) /\ Below(S, R, j) \subseteq S
    BY DEF Below, IsStrictOrder
  <1>2. i \in Below(S, R, j) /\ i \notin Below(S, R, i)
    BY DEF Below, IsStrictOrder
  <1>3. IsFiniteSet(Below(S, R, j)) /\ IsFiniteSet(Below(S, R, i))
    BY <1>1, FS_Subset
  <1>4. /\ Cardinality(Below(S, R, i)) \in Nat /\ Cardinality(Below(S, R, j)) \in Nat
        /\ Cardinality(Below(S, R, i)) <= Cardinality(Below(S, R, j))
        /\ Cardinality(Below(S, R, i)) # Cardinality(Below(S, R, j))
    BY <1>1, <1>2, <1>3, FS_Subset, FS_CardinalityType
  <1> QED
    BY <1>4

\* A cut of a finite order at M leaves M members, if it leaves one out.
LEMMA CutIsFull ==
    ASSUME NEW S, IsFiniteSet(S), NEW R, IsStrictOrder(S, R), NEW M \in Nat,
           NEW x \in S, ~(Cardinality(Below(S, R, x)) < M)
    PROVE  /\ IsFiniteSet({i \in S : Cardinality(Below(S, R, i)) < M})
           /\ Cardinality({i \in S : Cardinality(Below(S, R, i)) < M}) = M
  <1> DEFINE n == Cardinality(S)
             rank == [i \in S |-> Cardinality(Below(S, R, i))]
             Kept == {i \in S : Cardinality(Below(S, R, i)) < M}
             kept == [i \in Kept |-> Cardinality(Below(S, R, i))]
  <1>1. n \in Nat
    BY FS_CardinalityType
  <1>2. ASSUME NEW i \in S
        PROVE  Cardinality(Below(S, R, i)) \in 0 .. n - 1
    <2>1. Below(S, R, i) \subseteq S /\ i \notin Below(S, R, i)
      BY DEF Below, IsStrictOrder
    <2>2. Cardinality(Below(S, R, i)) <= n /\ Cardinality(Below(S, R, i)) # n
      BY <2>1, FS_Subset
    <2>3. Cardinality(Below(S, R, i)) \in Nat
      BY <2>1, FS_Subset, FS_CardinalityType
    <2> HIDE DEF n
    <2> QED
      BY <1>1, <2>2, <2>3
  <1>3. ASSUME NEW i \in S, NEW j \in S, i # j
        PROVE  Cardinality(Below(S, R, i)) # Cardinality(Below(S, R, j))
    <2>1. CASE <<i, j>> \in R
      BY <2>1, <1>2, SmallerHasLess
    <2>2. CASE <<j, i>> \in R
      BY <2>2, <1>2, SmallerHasLess
    <2> QED
      BY <1>3, <2>1, <2>2 DEF IsStrictOrder
  <1>4. IsFiniteSet(0 .. n - 1) /\ Cardinality(0 .. n - 1) = n
    <2> HIDE DEF n
    <2>1. 0 \in Int /\ n - 1 \in Int /\ (IF 0 > n - 1 THEN 0 ELSE n - 1 - 0 + 1) = n
      BY <1>1
    <2> QED
      BY <2>1, FS_Interval
  <1>5. rank \in Injection(S, 0 .. n - 1)
    BY <1>2, <1>3 DEF Injection, IsInjective
  <1>6. rank \in Surjection(S, 0 .. n - 1)
    <2> HIDE DEF rank
    <2> QED
      BY <1>4, <1>5, FS_Injection
  <1>7. \A r \in 0 .. n - 1 : \E i \in S : Cardinality(Below(S, R, i)) = r
    BY <1>6 DEF Surjection
  <1>8. M <= n - 1
    BY <1>1, <1>2
  <1>9. kept \in [Kept -> 0 .. M - 1]
    BY <1>2
  <1>10. kept \in Bijection(Kept, 0 .. M - 1)
    <2>1. \A r \in 0 .. M - 1 : \E i \in Kept : kept[i] = r
      <3> SUFFICES ASSUME NEW r \in 0 .. M - 1
                   PROVE  \E i \in Kept : kept[i] = r
        OBVIOUS
      <3>1. PICK i \in S : Cardinality(Below(S, R, i)) = r
        BY <1>1, <1>7, <1>8
      <3>2. i \in Kept
        BY <3>1
      <3> QED
        BY <3>1, <3>2
    <2>2. kept \in Surjection(Kept, 0 .. M - 1)
      BY <1>9, <2>1 DEF Surjection
    <2>3. kept \in Injection(Kept, 0 .. M - 1)
      BY <1>3, <1>9 DEF Injection, IsInjective
    <2> QED
      BY <2>2, <2>3 DEF Bijection
  <1>11. IsFiniteSet(Kept)
    BY FS_Subset
  <1>12. Cardinality(0 .. M - 1) = M
    <2>1. 0 \in Int /\ M - 1 \in Int /\ (IF 0 > M - 1 THEN 0 ELSE M - 1 - 0 + 1) = M
      OBVIOUS
    <2> QED
      BY <2>1, FS_Interval
  <1>13. Cardinality(Kept) = Cardinality(0 .. M - 1)
    <2> HIDE DEF Kept, kept
    <2> QED
      BY <1>10, <1>11, FS_Bijection DEF ExistsBijection
  <1> QED
    BY <1>11, <1>12, <1>13

\* The lexicographic order of triples is a strict order.
LEMMA TriplesAreOrdered ==
    ASSUME NEW p \in Int \X Int \X Int, NEW q \in Int \X Int \X Int, NEW r \in Int \X Int \X Int
    PROVE  /\ ~Before(p, p)
           /\ Before(p, q) /\ Before(q, r) => Before(p, r)
           /\ p # q => Before(p, q) \/ Before(q, p)
  <1>1. /\ p[1] \in Int /\ p[2] \in Int /\ p[3] \in Int
        /\ q[1] \in Int /\ q[2] \in Int /\ q[3] \in Int
        /\ r[1] \in Int /\ r[2] \in Int /\ r[3] \in Int
    OBVIOUS
  <1>2. p # q => p[1] # q[1] \/ p[2] # q[2] \/ p[3] # q[3]
    OBVIOUS
  <1>3. ~Before(p, p)
    BY <1>1, BeforeTriple
  <1>4. Before(p, q) /\ Before(q, r) => Before(p, r)
    BY <1>1, BeforeTriple
  <1>5. p # q => Before(p, q) \/ Before(q, p)
    BY <1>1, <1>2, BeforeTriple
  <1> QED
    BY <1>3, <1>4, <1>5

LEMMA ReasonsAreFinite ==
    ASSUME NEW ds, NEW hits, NEW i
    PROVE  /\ Reasons(ds, hits, i) \subseteq FlaggedReason
           /\ IsFiniteSet(Reasons(ds, hits, i))
           /\ Cardinality(Reasons(ds, hits, i)) \in Nat
           /\ Cardinality(Reasons(ds, hits, i) \cap HighSignal) \in Nat
  <1>1. IsFiniteSet(FlaggedReason)
    <2>1. FlaggedReason = {"policy_violation"} \cup {"ghost_vendor"} \cup {"off_hours"}
                             \cup {"duplicate"} \cup {"vector_similar"}
      BY DEF FlaggedReason
    <2> QED
      BY <2>1, FS_Singleton, FS_Union
  <1>2. Reasons(ds, hits, i) \subseteq FlaggedReason
    <2>1. LocalReasons(ds, i) \subseteq FlaggedReason
      BY DEF LocalReasons
    <2> QED
      BY <2>1 DEF Reasons, FlaggedReason
  <1>3. IsFiniteSet(Reasons(ds, hits, i))
    BY <1>1, <1>2, FS_Subset
  <1>4. IsFiniteSet(Reasons(ds, hits, i) \cap HighSignal)
    BY <1>3, FS_Subset
  <1> QED
    BY <1>2, <1>3, <1>4, FS_CardinalityType

LEMMA PriorityType ==
    ASSUME NEW ds, IsDataSet(ds), NEW hits, NEW i \in DOMAIN ds.invoices
    PROVE  Priority(ds, hits, i) \in Int \X Int \X Int
  BY ReasonsAreFinite DEF Priority, IsDataSet

\* What is found by a hit, or as a copy, has a first hit, or a group with a first member.
LEMMA FirstIsLeast ==
    ASSUME NEW S, S \subseteq Nat, S # {}
    PROVE  LET f == CHOOSE j \in S : \A k \in S : j <= k IN f \in S /\ f \in Nat
  BY LeastOf

\* A data set is finite.
LEMMA InvoicesAreFinite ==
    ASSUME NEW ds, IsDataSet(ds), NEW S \in SUBSET DOMAIN ds.invoices
    PROVE  IsFiniteSet(S) /\ Cardinality(S) \in Nat
  <1> DEFINE n == Len(ds.invoices)
  <1>1. n \in Int /\ 1 \in Int /\ DOMAIN ds.invoices = 1 .. n
    BY DEF IsDataSet
  <1>2. IsFiniteSet(DOMAIN ds.invoices)
    BY <1>1, FS_Interval
  <1> QED
    BY <1>2, FS_Subset, FS_CardinalityType

\* The members of a group that come before a copy.
LEMMA EarlierAreCounted ==
    ASSUME NEW ds, IsDataSet(ds), NEW i \in DOMAIN ds.invoices, NEW j \in DOMAIN ds.invoices,
           i # j, Group(ds.invoices, i) = Group(ds.invoices, j)
    PROVE  LET Count(k) == Cardinality({e \in Group(ds.invoices, k) : Earlier(ds.invoices, e, k)})
           IN  Count(i) \in Nat /\ Count(i) # Count(j)
  <1> DEFINE invs == ds.invoices
             G == Group(invs, i)
             R == {p \in G \X G : Earlier(invs, p[1], p[2])}
  <1>1. G \subseteq DOMAIN invs /\ i \in G /\ j \in G /\ DOMAIN invs = 1 .. Len(invs)
        /\ Len(invs) \in Nat
    BY DEF Group, IsDataSet
  <1>2. IsFiniteSet(G)
    BY <1>1, InvoicesAreFinite
  <1>3. IsStrictOrder(G, R)
    <2>1. \A a, b \in G : <<a, b>> \in R <=>
              invs[a].date < invs[b].date \/ (invs[a].date = invs[b].date /\ a < b)
      BY <1>1, EarlierIsOrder
    <2>2. \A a \in G : invs[a].date \in Nat /\ a \in Nat
      BY <1>1 DEF IsDataSet
    <2> HIDE DEF R, invs, G
    <2> QED
      BY <2>1, <2>2 DEF IsStrictOrder
  <1>4. \A k \in G : {e \in Group(invs, k) : Earlier(invs, e, k)} = Below(G, R, k)
    <2>1. \A k \in G : Group(invs, k) = G
      BY DEF Group
    <2> QED
      BY <2>1 DEF Below
  <1>5. /\ Cardinality(Below(G, R, i)) \in Nat /\ Cardinality(Below(G, R, j)) \in Nat
        /\ Cardinality(Below(G, R, i)) # Cardinality(Below(G, R, j))
    <2>1. <<i, j>> \in R \/ <<j, i>> \in R
      BY <1>1, <1>3 DEF IsStrictOrder
    <2>2. Below(G, R, i) \subseteq G /\ Below(G, R, j) \subseteq G
      BY DEF Below
    <2>3. Cardinality(Below(G, R, i)) \in Nat /\ Cardinality(Below(G, R, j)) \in Nat
      BY <1>2, <2>2, FS_Subset, FS_CardinalityType
    <2> HIDE DEF G, R
    <2> QED
      BY <1>1, <1>2, <1>3, <2>1, <2>3, SmallerHasLess
  <1> QED
    BY <1>1, <1>4, <1>5

\* No two flagged invoices are found at the same point.
LEMMA FoundAtDiffers ==
    ASSUME NEW ds, IsDataSet(ds), NEW hits, DOMAIN hits \subseteq Nat,
           NEW i \in Flagged(ds, hits), NEW j \in Flagged(ds, hits)
    PROVE  /\ FoundAt(ds, hits, i) \in Int \X Int \X Int
           /\ i # j => FoundAt(ds, hits, i) # FoundAt(ds, hits, j)
  <1> DEFINE invs == ds.invoices
             First(S) == CHOOSE m \in S : \A k \in S : m <= k
             Count(k) == Cardinality({e \in Group(invs, k) : Earlier(invs, e, k)})
  <1>1. /\ i \in DOMAIN invs /\ j \in DOMAIN invs /\ DOMAIN invs \subseteq Nat
    BY DEF Flagged, IsDataSet
  <1>2. \A k \in {i, j} : LET S == Group(invs, k) IN S # {} /\ S \subseteq Nat /\ First(S) \in S
    BY <1>1, FirstIsLeast DEF Group
  <1>3. \A k \in {i, j} : LET S == HitsFor(ds, hits, k)
                            IN  LocalReasons(ds, k) = {} /\ k \notin Copies(invs) =>
                                   S # {} /\ S \subseteq Nat /\ First(S) \in S
    <2> SUFFICES ASSUME NEW k \in {i, j}, LocalReasons(ds, k) = {}, k \notin Copies(invs)
                 PROVE  LET S == HitsFor(ds, hits, k)
                        IN  S # {} /\ S \subseteq Nat /\ First(S) \in S
      OBVIOUS
    <2>1. HitsFor(ds, hits, k) # {}
      BY DEF Flagged, Reasons
    <2>2. HitsFor(ds, hits, k) \subseteq Nat
      BY DEF HitsFor
    <2> QED
      BY <2>1, <2>2, FirstIsLeast
  <1>4. \A k \in {i, j} : Count(k) \in Nat
    <2> SUFFICES ASSUME NEW k \in {i, j} PROVE Count(k) \in Nat
      OBVIOUS
    <2>1. {e \in Group(invs, k) : Earlier(invs, e, k)} \subseteq DOMAIN ds.invoices
      BY DEF Group
    <2> QED
      BY <2>1, InvoicesAreFinite
  <1>5. i # j /\ Group(invs, i) = Group(invs, j) => Count(i) # Count(j)
    BY <1>1, EarlierAreCounted
  <1>6. First(Group(invs, i)) = First(Group(invs, j)) => Group(invs, i) = Group(invs, j)
    <2>1. ASSUME NEW m \in Group(invs, i), m \in Group(invs, j)
          PROVE  Group(invs, i) = Group(invs, j)
      BY <2>1 DEF Group
    <2> HIDE DEF First
    <2> QED
      BY <1>2, <2>1
  <1>7. i # j => HitsFor(ds, hits, i) \cap HitsFor(ds, hits, j) = {}
    BY <1>1 DEF HitsFor, IsDataSet
  <1>8. \A k \in {i, j} :
            FoundAt(ds, hits, k) =
                IF LocalReasons(ds, k) # {} THEN <<1, k, 0>>
                ELSE IF k \in Copies(invs) THEN <<2, First(Group(invs, k)), Count(k)>>
                ELSE <<3, First(HitsFor(ds, hits, k)), 0>>
    BY DEF FoundAt
  <1> HIDE DEF invs, First, Count
  <1> QED
    BY <1>1, <1>2, <1>3, <1>4, <1>5, <1>6, <1>7, <1>8

\* Ahead orders what is flagged.
LEMMA AheadIsOrder ==
    ASSUME NEW ds, IsDataSet(ds), NEW hits, DOMAIN hits \subseteq Nat
    PROVE  LET all == Flagged(ds, hits)
           IN  IsStrictOrder(all, {p \in all \X all : Ahead(ds, hits, p[1], p[2])})
  <1> DEFINE all == Flagged(ds, hits)
             R == {p \in all \X all : Ahead(ds, hits, p[1], p[2])}
             P(i) == Priority(ds, hits, i)
             F(i) == FoundAt(ds, hits, i)
  <1>1. \A i \in all : P(i) \in Int \X Int \X Int
    BY PriorityType DEF Flagged
  <1>2. \A i \in all : F(i) \in Int \X Int \X Int
    BY FoundAtDiffers
  <1>3. \A i, j \in all : i # j => F(i) # F(j)
    BY FoundAtDiffers
  <1>4. \A i, j \in all : <<i, j>> \in R <=>
            Before(P(j), P(i)) \/ (P(i) = P(j) /\ Before(F(i), F(j)))
    BY DEF Ahead
  <1> HIDE DEF all, P, F, R
  <1>5. \A i \in all : <<i, i>> \notin R
    BY <1>1, <1>2, <1>4, TriplesAreOrdered
  <1>6. \A i, j \in all : i # j => <<i, j>> \in R \/ <<j, i>> \in R
    BY <1>1, <1>2, <1>3, <1>4, TriplesAreOrdered
  <1>7. ASSUME NEW i \in all, NEW j \in all, NEW k \in all, <<i, j>> \in R, <<j, k>> \in R
        PROVE  <<i, k>> \in R
    <2>1. CASE Before(P(j), P(i)) /\ Before(P(k), P(j))
      BY <1>1, <1>4, <2>1, TriplesAreOrdered
    <2>2. CASE Before(P(j), P(i)) /\ P(j) = P(k)
      BY <1>4, <2>2
    <2>3. CASE P(i) = P(j) /\ Before(P(k), P(j))
      BY <1>4, <2>3
    <2>4. CASE P(i) = P(j) /\ P(j) = P(k) /\ Before(F(i), F(j)) /\ Before(F(j), F(k))
      BY <1>2, <1>4, <2>4, TriplesAreOrdered
    <2> QED
      BY <1>4, <1>7, <2>1, <2>2, <2>3, <2>4
  <1>8. IsStrictOrder(all, R)
    BY <1>5, <1>6, <1>7 DEF IsStrictOrder
  <1> QED
    BY <1>8 DEF all, R

\* What is shown, and how many: all of it, or max of it.
LEMMA ShownIsCut ==
    ASSUME NEW ds, IsDataSet(ds), NEW hits, DOMAIN hits \subseteq Nat, NEW max \in Nat,
           NEW x \in Flagged(ds, hits), ds.invoices[x].id \notin Shown(ds, hits, max)
    PROVE  Cardinality(Shown(ds, hits, max)) = max
  <1> DEFINE all == Flagged(ds, hits)
             R == {p \in all \X all : Ahead(ds, hits, p[1], p[2])}
             Kept == {i \in all : Cardinality(Below(all, R, i)) < max}
             name == [i \in Kept |-> ds.invoices[i].id]
  <1>1. all \subseteq DOMAIN ds.invoices /\ IsFiniteSet(all)
    BY InvoicesAreFinite DEF Flagged
  <1>2. \A i \in all : {j \in all : Ahead(ds, hits, j, i)} = Below(all, R, i)
    BY DEF Below
  <1>3. Shown(ds, hits, max) = {ds.invoices[i].id : i \in Kept}
    <2>1. Kept = {i \in all : Cardinality({j \in all : Ahead(ds, hits, j, i)}) < max}
      BY <1>2
    <2> HIDE DEF Kept
    <2> QED
      BY <2>1 DEF Shown
  <1>4. x \notin Kept
    BY <1>3
  <1>5. IsFiniteSet(Kept) /\ Cardinality(Kept) = max
    <2>1. IsStrictOrder(all, R)
      BY AheadIsOrder
    <2>2. ~(Cardinality(Below(all, R, x)) < max)
      BY <1>4
    <2> HIDE DEF R, all
    <2> QED
      BY <1>1, <2>1, <2>2, CutIsFull DEF all
  <1>6. name \in Bijection(Kept, Shown(ds, hits, max))
    <2>1. \A i, j \in Kept : ds.invoices[i].id = ds.invoices[j].id => i = j
      BY <1>1 DEF IsDataSet
    <2> HIDE DEF Kept
    <2> QED
      BY <1>3, <2>1 DEF Bijection, Injection, Surjection, IsInjective
  <1> HIDE DEF Kept, name
  <1> QED
    BY <1>5, <1>6, FS_Bijection DEF ExistsBijection

\* Nothing that is cut has more high-signal reasons than what is shown.
LEMMA CutIsWeaker ==
    ASSUME NEW ds, IsDataSet(ds), NEW hits, DOMAIN hits \subseteq Nat, NEW max \in Nat,
           NEW i \in Flagged(ds, hits), ds.invoices[i].id \notin Shown(ds, hits, max),
           NEW j \in Flagged(ds, hits), ds.invoices[j].id \in Shown(ds, hits, max)
    PROVE  Cardinality(Reasons(ds, hits, i) \cap HighSignal)
              <= Cardinality(Reasons(ds, hits, j) \cap HighSignal)
  <1> DEFINE all == Flagged(ds, hits)
             R == {p \in all \X all : Ahead(ds, hits, p[1], p[2])}
             Count(k) == Cardinality({m \in all : Ahead(ds, hits, m, k)})
  <1>1. all \subseteq DOMAIN ds.invoices /\ IsFiniteSet(all)
    BY InvoicesAreFinite DEF Flagged
  <1>2. ~(Count(i) < max) /\ Count(j) < max
    BY <1>1 DEF Shown, IsDataSet
  <1>3. ~Ahead(ds, hits, i, j)
    <2> SUFFICES ASSUME Ahead(ds, hits, i, j) PROVE FALSE
      OBVIOUS
    <2>1. <<i, j>> \in R /\ IsStrictOrder(all, R)
      BY AheadIsOrder
    <2>2. /\ {m \in all : Ahead(ds, hits, m, i)} = Below(all, R, i)
          /\ {m \in all : Ahead(ds, hits, m, j)} = Below(all, R, j)
      BY DEF Below
    <2>3. Count(i) < Count(j)
      <3> HIDE DEF R, all
      <3> QED
        BY <1>1, <2>1, <2>2, SmallerHasLess DEF all
    <2>4. Count(i) \in Nat /\ Count(j) \in Nat
      BY <1>1, InvoicesAreFinite
    <2> HIDE DEF Count
    <2> QED
      BY <1>2, <2>3, <2>4
  <1>4. Before(Priority(ds, hits, i), Priority(ds, hits, j)) \/ i = j
        \/ Priority(ds, hits, i) = Priority(ds, hits, j)
    BY <1>1, <1>3, PriorityType, TriplesAreOrdered DEF Ahead
  <1>5. Priority(ds, hits, i)[1] <= Priority(ds, hits, j)[1]
    BY <1>1, <1>4, PriorityType, BeforeTriple
  <1> QED
    BY <1>5 DEF Priority

\* Of a case triage looks at the records only, not at what else is kept with them.
LEMMA OnlyRecordsMatter ==
    ASSUME NEW ds, NEW e, NEW hits, NEW max,
           e.invoices = ds.invoices, e.ghosts = ds.ghosts, e.policies = ds.policies
    PROVE  Shown(e, hits, max) = Shown(ds, hits, max)
  <1>1. \A i : LocalReasons(e, i) = LocalReasons(ds, i)
    BY DEF LocalReasons
  <1>2. \A i : HitsFor(e, hits, i) = HitsFor(ds, hits, i)
    BY DEF HitsFor
  <1>3. \A i : Reasons(e, hits, i) = Reasons(ds, hits, i)
    BY <1>1, <1>2 DEF Reasons
  <1>4. Flagged(e, hits) = Flagged(ds, hits)
    BY <1>3 DEF Flagged
  <1>5. \A i : Priority(e, hits, i) = Priority(ds, hits, i)
    BY <1>3 DEF Priority
  <1>6. \A i : FoundAt(e, hits, i) = FoundAt(ds, hits, i)
    <2> DEFINE First(S) == CHOOSE j \in S : \A k \in S : j <= k
               Point(i, invs, found, its) ==
                   IF found # {} THEN <<1, i, 0>>
                   ELSE IF i \in Copies(invs)
                        THEN <<2, First(Group(invs, i)),
                               Cardinality({j \in Group(invs, i) : Earlier(invs, j, i)})>>
                   ELSE <<3, First(its), 0>>
    <2>1. \A i : /\ FoundAt(e, hits, i) = Point(i, e.invoices, LocalReasons(e, i), HitsFor(e, hits, i))
                 /\ FoundAt(ds, hits, i) = Point(i, ds.invoices, LocalReasons(ds, i), HitsFor(ds, hits, i))
      BY DEF FoundAt
    <2> HIDE DEF Point
    <2> QED
      BY <1>1, <1>2, <2>1
  <1>7. \A i, j : Ahead(e, hits, i, j) = Ahead(ds, hits, i, j)
    BY <1>5, <1>6 DEF Ahead
  <1> QED
    BY <1>4, <1>7 DEF Shown

\* What Gate 2 shows is what triage made of the records that are kept as evidence.
EvidenceInv ==
    \/ evidence = NoEvidence
    \/ /\ IsDataSet(evidence) /\ DOMAIN evidence.hits \subseteq Nat
       /\ proposedItems = Shown(evidence, evidence.hits, MaxFlagged)

LEMMA EvidenceInvariance == CodedSpec => []EvidenceInv
  <1>1. CodedInit => EvidenceInv
    BY DEF CodedInit, EvidenceInv
  <1>2. EvidenceInv /\ [CodedNext]_codedVars => EvidenceInv'
    <2> SUFFICES ASSUME EvidenceInv, [CodedNext]_codedVars PROVE EvidenceInv'
      OBVIOUS
    <2>1. CASE UNCHANGED <<proposedItems, evidence>>
      BY <2>1 DEF EvidenceInv
    <2>2. CASE Investigated
      <3>1. PICK ds \in Datasets, results \in Results \cup {<<>>} :
              /\ proposedItems' = Shown(ds, Normalize(results), MaxFlagged)
              /\ evidence' = [invoices |-> ds.invoices, ghosts |-> ds.ghosts,
                              policies |-> ds.policies, hits |-> Normalize(results)]
        BY <2>2 DEF Investigated, Propose
      <3>2. DOMAIN Normalize(results) \subseteq Nat
        <4>1. DOMAIN results \subseteq Nat
          BY CodedAssumption
        <4> QED
          BY <4>1 DEF Normalize
      <3>3. /\ evidence'.invoices = ds.invoices /\ evidence'.ghosts = ds.ghosts
            /\ evidence'.policies = ds.policies /\ evidence'.hits = Normalize(results)
        BY <3>1
      <3>4. IsDataSet(evidence')
        BY <3>3, CodedAssumption DEF IsDataSet
      <3>5. proposedItems' = Shown(evidence', evidence'.hits, MaxFlagged)
        BY <3>1, <3>3, OnlyRecordsMatter
      <3> QED
        BY <3>2, <3>3, <3>4, <3>5 DEF EvidenceInv
    <2>3. CASE DecideAction
      BY <2>3 DEF DecideAction, EvidenceInv
    <2>4. CASE RunPlan \/ DecidePlan
      BY <2>1, <2>4 DEF RunPlan, DecidePlan, SubmitPlan, ApprovePlan
    <2>5. CASE StartInvestigate \/ StartFinalize
      BY <2>1, <2>5 DEF StartInvestigate, StartFinalize, Start, vars, machineVars
    <2>6. CASE \E c \in Readers \cup {Writer} : TokenArrives(c) \/ RecordsArrive(c)
      BY <2>1, <2>6 DEF TokenArrives, RecordsArrive, vars, machineVars
    <2>7. CASE Gathered \/ JobFails \/ TimeOut \/ GiveUp
      BY <2>1, <2>7 DEF Gathered, JobFails, TimeOut, GiveUp, vars, machineVars
    <2>8. CASE Write \/ LateWrite \/ Finalized
      BY <2>1, <2>8 DEF Write, LateWrite, AppendRow, Finalized, Complete, vars, machineVars
    <2>9. CASE UNCHANGED codedVars
      BY <2>1, <2>9 DEF codedVars, vars, machineVars
    <2> QED
      BY <2>2, <2>3, <2>4, <2>5, <2>6, <2>7, <2>8, <2>9 DEF CodedNext
  <1> QED
    BY <1>1, <1>2, PTL DEF CodedSpec

\* While Gate 2 waits, of equal invoices all but one are marked as duplicates, and
\* the one that is not is dated no later than the others.
THEOREM OneOriginalIsKept == CodedSpec => []OneOriginalPerGroup
  <1>1. EvidenceInv => OneOriginalPerGroup
    <2> SUFFICES ASSUME EvidenceInv PROVE OneOriginalPerGroup
      OBVIOUS
    <2>1. CASE evidence = NoEvidence
      BY <2>1 DEF NoEvidence, OneOriginalPerGroup
    <2>2. CASE IsDataSet(evidence)
      BY <2>2, OneOriginal DEF OneOriginalPerGroup
    <2> QED
      BY <2>1, <2>2 DEF EvidenceInv
  <1> QED
    BY <1>1, EvidenceInvariance, PTL

\* While Gate 2 waits, the cut at MAX_FLAGGED hides nothing with more high-signal
\* reasons than what is shown, and hides something only when the list is full.
THEOREM CutDiscipline == CodedSpec => []StrongestAreShown
  <1>1. EvidenceInv => StrongestAreShown
    <2> SUFFICES ASSUME EvidenceInv PROVE StrongestAreShown
      OBVIOUS
    <2>1. CASE evidence = NoEvidence
      BY <2>1 DEF NoEvidence, StrongestAreShown, Flagged
    <2>2. CASE /\ IsDataSet(evidence) /\ DOMAIN evidence.hits \subseteq Nat
               /\ proposedItems = Shown(evidence, evidence.hits, MaxFlagged)
      BY <2>2, ShownIsCut, CutIsWeaker, CodedAssumption DEF StrongestAreShown
    <2> QED
      BY <2>1, <2>2 DEF EvidenceInv
  <1> QED
    BY <1>1, EvidenceInvariance, PTL
===============================================================================
