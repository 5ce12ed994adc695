-------------------------- MODULE LiveSession_proofs --------------------------
(***************************************************************************)
(* The page and the streams of LiveSession ask of the case nothing that    *)
(* UiPathRunner does not allow; and a report on the page is the report in  *)
(* the log, for any number of streams, faults and invoices.  While nothing *)
(* is lost a pending gate can be answered, and the log and the statuses on *)
(* the page hold what the reviewer submitted.                              *)
(***************************************************************************)
EXTENDS LiveSession, UiPathRunner_proofs

\* What may be relied on about an event long after it was put on the queue.
HistoryInv ==
    /\ \A i \in 1 .. Len(queue) :
          queue[i].type = "report_ready" => report # None \/ i = Len(queue)
    /\ \A i \in 1 .. Len(queue) :
          queue[i].type = "awaiting_approval" => queue[i].gate \in Gates

CaseInv == IInv /\ StreamInv /\ HistoryInv

\* The report exists once the event that announces it is on its way.
WireInv ==
    \A s \in Streams :
        wire[s] # 0 /\ queue[wire[s]].type = "report_ready" => report # None

ReportCallInv ==
    \A r \in calls :
        r.kind = "report" =>
            /\ r.state = "sent" => report # None
            /\ r.state = "answered" => report # None /\ r.items = report

ShownInv == shownReport # None => shownReport = report

PageInv == WireInv /\ ReportCallInv /\ ShownInv

LInv == CaseInv /\ LiveTypeOK /\ PageInv

-------------------------------------------------------------------------------
(* The case, as the page sees it *)

\* Events and the report stay for ever once they are there: told by the protocol
\* the case implements.
LEMMA CaseHistory ==
    ASSUME CaseInv, [Next]_vars
    PROVE  /\ CaseInv'
           /\ Len(queue') >= Len(queue)
           /\ \A i \in 1 .. Len(queue) : queue'[i] = queue[i]
           /\ report # None => report' = report
  <1>1. IInv'
    BY StepInv DEF CaseInv
  <1>2. StreamInv' /\ [Protocol!Next]_Protocol!vars
    BY TaskImplements, ClientImplements DEF Next, CaseInv
  <1>3. queue \in Seq(AgentEvent(Ids)) /\ queue' \in Seq(AgentEvent(Ids))
    BY <1>1 DEF CaseInv, IInv, TypeOK, ServerTypeOK
  <1>4. CASE Protocol!Emit
    <2> DEFINE e == queue'[Len(queue')]
    <2>1. /\ queue' = Append(queue, e) /\ Len(queue') = Len(queue) + 1 /\ report' = report
          /\ queue # <<>> /\ queue[Len(queue)].type = "report_ready" => report # None
          /\ e.type = "awaiting_approval" => e.gate \in Gates
      BY <1>4 DEF Protocol!Emit, Protocol!GateMatches, Protocol!Last, Gates
    <2>2. \A i \in 1 .. Len(queue) : queue'[i] = queue[i]
      BY <1>3, <2>1, AppendProperties
    <2>3. Len(queue) \in Nat /\ (Len(queue) > 0 => queue # <<>>)
      BY <1>3
    <2>4. HistoryInv'
      BY <2>1, <2>2, <2>3 DEF CaseInv, HistoryInv
    <2> QED
      BY <1>1, <1>2, <2>1, <2>2, <2>3, <2>4 DEF CaseInv
  <1>5. CASE Protocol!Publish
    <2>1. queue' = queue /\ report = None
      BY <1>5 DEF Protocol!Publish
    <2>2. queue # <<>> /\ report' = queue[Len(queue)].items
      BY <1>5 DEF Protocol!Publish, Protocol!Last
    <2>3. Len(queue) \in Nat /\ queue[Len(queue)] \in AgentEvent(Ids)
      BY <1>3, <2>2
    <2>4. report' # None
      BY <2>2, <2>3, ConstantsAssumption DEF AgentEvent
    <2> QED
      BY <1>1, <1>2, <2>1, <2>3, <2>4 DEF CaseInv, HistoryInv
  <1>6. CASE Protocol!Answer \/ Protocol!End \/ UNCHANGED Protocol!vars
    <2>1. queue' = queue /\ report' = report
      BY <1>6 DEF Protocol!Answer, Protocol!End, Protocol!vars
    <2>2. Len(queue) \in Nat
      BY <1>3
    <2> QED
      BY <1>1, <1>2, <2>1, <2>2 DEF CaseInv, HistoryInv
  <1> QED
    BY <1>2, <1>4, <1>5, <1>6 DEF Protocol!Next

\* Where a stream may take from the queue, an announced report has been cached.
LEMMA AnnouncedIsCached ==
    ASSUME CaseInv, pc \in Suspensions,
           NEW i \in 1 .. Len(queue), queue[i].type = "report_ready"
    PROVE  report # None
  <1>1. CASE i = Len(queue)
    <2>1. LastEvent.type = "report_ready"
      BY <1>1 DEF LastEvent
    <2>2. queue # <<>> /\ pc \in Points
      BY <1>1 DEF CaseInv, IInv, TypeOK, ServerTypeOK
    <2>3. ~(pc \in {"absent", "created", "plan_wait", "action_wait", "loading", "querying",
                    "writing", "finished"})
      BY <2>1, <2>2 DEF CaseInv, StreamInv
    <2> QED
      BY <2>3 DEF Suspensions
  <1>2. CASE i # Len(queue)
    BY <1>2 DEF CaseInv, HistoryInv
  <1> QED
    BY <1>1, <1>2

-------------------------------------------------------------------------------
(* The session is a session of the case *)

\* What the page posts is a decision the service accepts.
LEMMA PostedDecision ==
    ASSUME UI!UITypeOK, NEW r \in calls
    PROVE  UI!DecisionOf(r) \in Decisions
  <1>1. r.approvedIds \in SUBSET Ids /\ r.rejectedIds \in SUBSET Ids
    BY DEF UI!UITypeOK, UI!Call
  <1>2. UI!DecisionOf(r) \in Decision
    BY <1>1 DEF UI!DecisionOf, Decision, Gates
  <1> QED
    BY <1>2, LiveAssumption

\* A step of the session is a step of the case or leaves the case alone.
LEMMA StepRefinesCase ==
    ASSUME LiveTypeOK, [LiveNext]_liveVars
    PROVE  [Next]_vars
  <1>1. CASE CaseStep \/ TokenStep
    BY <1>1 DEF CaseStep, TokenStep, Next
  <1>2. CASE StreamStep \/ PageStep \/ Click
    BY <1>2 DEF StreamStep, PageStep, Click, GoOn, OpenStream, ReadEvent, Disconnected
  <1>3. ASSUME NEW r \in calls, NEW state, Handle(r, state) PROVE [Next]_vars
    <2>1. CASE StartAuditCase /\ Keep
      BY <2>1 DEF Next
    <2>2. CASE PushApproval(UI!DecisionOf(r)) /\ Keep
      BY <2>2, PostedDecision DEF LiveTypeOK, Approve, Next
    <2> QED
      BY <1>3, <2>1, <2>2 DEF Handle
  <1>4. CASE ReceiveStep
    BY <1>3, <1>4 DEF ReceiveStep, Receive
  <1>5. CASE FaultStep
    BY <1>3, <1>5 DEF FaultStep, BreakStream, LoseReply, LoseRequest
  <1>6. CASE UNCHANGED liveVars
    BY <1>6 DEF liveVars
  <1> QED
    BY <1>1, <1>2, <1>4, <1>5, <1>6 DEF LiveNext

\* What a step of the session may assume of the case.
LEMMA CaseFacts ==
    ASSUME LInv, [LiveNext]_liveVars
    PROVE  /\ CaseInv'
           /\ Len(queue) \in Nat /\ Len(queue') \in Nat /\ Len(queue') >= Len(queue)
           /\ \A i \in 1 .. Len(queue) : queue[i] \in AgentEvent(Ids) /\ queue'[i] = queue[i]
           /\ report # None => report' = report
           /\ report = None \/ report \in SUBSET Ids
  <1>1. [Next]_vars
    BY StepRefinesCase DEF LInv
  <1>2. CaseInv' /\ queue \in Seq(AgentEvent(Ids)) /\ queue' \in Seq(AgentEvent(Ids))
    BY <1>1, CaseHistory DEF LInv, CaseInv, IInv, TypeOK, ServerTypeOK
  <1>3. report = None \/ report \in SUBSET Ids
    BY DEF LInv, CaseInv, IInv, TypeOK, ServerTypeOK
  <1> QED
    BY <1>1, <1>2, <1>3, CaseHistory DEF LInv

-------------------------------------------------------------------------------
(* The streams *)

\* A stream's event is one that has left the queue, and if it announces the
\* report, the report is there.
LEMMA StreamInvariance ==
    ASSUME LInv, [LiveNext]_liveVars
    PROVE  StreamTypeOK' /\ conn' \in 0 .. opened' /\ WireInv'
  <1> USE StreamAssumption
  <1>0. /\ StreamTypeOK /\ WireInv /\ conn \in 0 .. opened /\ CaseInv
        /\ opened \in Nat /\ taken \in Nat /\ 0 \in 0 .. taken
        /\ wire \in [Streams -> 0 .. taken]
        /\ streams \in [Streams -> {"off", "open", "gone", "ended"}]
    BY DEF LInv, PageInv, LiveTypeOK, StreamTypeOK
  <1>1. CASE UNCHANGED <<streamVars, conn>>
    BY <1>0, <1>1, CaseFacts DEF streamVars, StreamTypeOK, WireInv
  <1>2. CASE UNCHANGED <<vars, conn>> /\ \E s \in Streams : SendEvent(s)
    <2>1. PICK s \in Streams : SendEvent(s)
      BY <1>2
    <2>2. queue' = queue /\ report' = report
      BY <1>2 DEF vars, serverVars, recordVars
    <2>3. taken + 1 \in 1 .. Len(queue)
      BY <1>0, <2>1, CaseFacts DEF SendEvent
    <2>4. wire'[s] # 0 /\ queue[wire'[s]].type = "report_ready" => report # None
      BY <1>0, <2>1, <2>3, AnnouncedIsCached DEF SendEvent, Running, StreamTypeOK
    <2>5. WireInv'
      BY <1>0, <2>1, <2>2, <2>4 DEF SendEvent, WireInv, StreamTypeOK
    <2> QED
      BY <1>0, <1>2, <2>1, <2>2, <2>3, <2>5 DEF SendEvent, StreamTypeOK
  <1>3. CASE /\ UNCHANGED <<vars, conn>>
             /\ \E s \in Streams : SendEnd(s) \/ Notice(s) \/ Break(s)
    <2>1. queue' = queue /\ report' = report
      BY <1>3 DEF vars, serverVars, recordVars
    <2>2. UNCHANGED <<opened, taken>> /\ sentinelTaken' \in BOOLEAN
      BY <1>0, <1>3 DEF SendEnd, Notice, Break, StreamTypeOK
    <2>3. streams' \in [Streams -> {"off", "open", "gone", "ended"}]
      BY <1>0, <1>3 DEF SendEnd, Notice, Break
    <2>4. /\ wire' \in [Streams -> 0 .. taken]
          /\ \A s \in Streams : wire'[s] = 0 \/ wire'[s] = wire[s]
      BY <1>0, <1>3 DEF SendEnd, Notice, Break
    <2>5. WireInv'
      BY <1>0, <2>1, <2>4 DEF WireInv
    <2> QED
      BY <1>0, <1>3, <2>1, <2>2, <2>3, <2>4, <2>5 DEF StreamTypeOK
  <1>4. CASE OpenStream
    <2>1. queue' = queue /\ report' = report
      BY <1>4 DEF OpenStream, vars, serverVars, recordVars
    <2>2. /\ opened < MaxStreams /\ opened' = opened + 1 /\ conn' = opened + 1
          /\ streams' = [streams EXCEPT ![opened + 1] = "open"]
          /\ UNCHANGED <<wire, taken, sentinelTaken>>
      BY <1>4 DEF OpenStream, Connect
    <2>3. opened' \in 0 .. MaxStreams /\ conn' \in 0 .. opened'
      BY <1>0, <2>2
    <2>4. streams' \in [Streams -> {"off", "open", "gone", "ended"}]
      BY <1>0, <2>2 DEF StreamTypeOK
    <2> QED
      BY <1>0, <2>1, <2>2, <2>3, <2>4 DEF StreamTypeOK, WireInv
  <1>5. CASE ReadEvent
    <2>1. queue' = queue /\ report' = report
      BY <1>5 DEF ReadEvent, vars, serverVars, recordVars
    <2>2. /\ conn' = 0 \/ conn' = conn
          /\ wire' = [wire EXCEPT ![conn] = 0]
          /\ UNCHANGED <<opened, streams, taken, sentinelTaken>>
      BY <1>5 DEF ReadEvent
    <2>3. wire' \in [Streams -> 0 .. taken]
      BY <1>0, <2>2
    <2>4. \A s \in Streams : wire'[s] = 0 \/ wire'[s] = wire[s]
      BY <1>0, <2>2
    <2>5. WireInv'
      BY <1>0, <2>1, <2>4 DEF WireInv
    <2> QED
      BY <1>0, <2>1, <2>2, <2>3, <2>5 DEF StreamTypeOK
  <1>6. CASE Disconnected
    <2>1. queue' = queue /\ report' = report
      BY <1>6 DEF Disconnected, vars, serverVars, recordVars
    <2>2. UNCHANGED <<opened, streams, wire, taken, sentinelTaken>> /\ conn' = 0
      BY <1>6 DEF Disconnected, streamVars
    <2> QED
      BY <1>0, <2>1, <2>2 DEF StreamTypeOK, WireInv
  <1>7. ASSUME NEW r, NEW state, Handle(r, state) PROVE UNCHANGED <<streamVars, conn>>
    BY <1>7 DEF Handle
  <1> QED
    <2>1. CASE CaseStep \/ TokenStep \/ Click \/ ReceiveStep \/ UNCHANGED liveVars
      BY <1>1, <1>7, <2>1 DEF CaseStep, TokenStep, Click, ReceiveStep, Receive, liveVars, pageVars
    <2>2. CASE StreamStep
      BY <1>2, <1>3, <2>2 DEF StreamStep, Serve, pageVars
    <2>3. CASE PageStep
      <3>1. CASE \E r \in calls : GoOn(r)
        BY <1>1, <3>1 DEF GoOn
      <3> QED
        BY <1>4, <1>5, <1>6, <2>3, <3>1 DEF PageStep
    <2>4. CASE FaultStep
      <3>1. CASE BreakStream
        <4>1. conn \in Streams
          BY <1>0, <3>1 DEF BreakStream, StreamTypeOK, Streams
        <4> QED
          BY <1>3, <3>1, <4>1 DEF BreakStream, pageVars
      <3> QED
        BY <1>1, <1>7, <2>4, <3>1 DEF FaultStep, LoseReply, LoseRequest
    <2> QED
      BY <2>1, <2>2, <2>3, <2>4 DEF LiveNext

-------------------------------------------------------------------------------
(* The page *)

\* A fetch the page sends is a fetch, of its kind and not yet answered.
LEMMA RequestFacts ==
    ASSUME UI!UITypeOK, NEW kind \in UI!Kinds, NEW yes \in SUBSET Ids, NEW no \in SUBSET Ids
    PROVE  /\ UI!Request(kind, yes, no) \in UI!Call
           /\ [UI!Request(kind, yes, no) EXCEPT !.case = None] \in UI!Call
           /\ UI!Request(kind, yes, no).kind = kind
           /\ [UI!Request(kind, yes, no) EXCEPT !.case = None].kind = kind
           /\ UI!Request(kind, yes, no).state = "sent"
  BY DEF UI!UITypeOK, UI!Call, UI!Request

\* A reply changes one fetch and not its kind.
LEMMA ReplyFacts ==
    ASSUME UI!UITypeOK, NEW r \in calls, NEW items \in SUBSET Ids,
           NEW state \in {"answered", "failed"}, Reply(r, state, items)
    PROVE  /\ calls' \subseteq UI!Call
           /\ \A c \in calls' :
                 \/ c \in calls
                 \/ c.kind = r.kind /\ c.state = state /\ c.items = items
  <1> DEFINE c == [r EXCEPT !.state = state, !.case = TheCase, !.items = items]
  <1>1. c \in UI!Call /\ c.kind = r.kind /\ c.state = state /\ c.items = items
    BY DEF UI!UITypeOK, UI!Call
  <1>2. calls' = (calls \ {r}) \cup {c}
    BY DEF Reply
  <1> QED
    BY <1>1, <1>2 DEF UI!UITypeOK

\* What the tables of a page hold.
Tables(r, s) ==
    /\ \A i \in DOMAIN r : i \in Ids /\ r[i] \in {"approve", "reject"}
    /\ DOMAIN s = DOMAIN r

\* The buttons keep the types of the page, and ask for no report.
LEMMA ClickFacts ==
    ASSUME LiveTypeOK, Click
    PROVE  /\ UI!UITypeOK'
           /\ planClicks' \subseteq {"approve", "reject"}
           /\ submitted' = None \/ submitted' \in SUBSET Ids
           /\ edited' \subseteq Ids
           /\ \A c \in calls' : c \in calls \/ c.kind # "report"
           /\ shownReport' = shownReport \/ shownReport' = None
  <1>0. UI!UITypeOK /\ Tables(rows, statuses)
    BY DEF LiveTypeOK, UI!UITypeOK, Tables
  <1>1. CASE ClickLaunch
    <2> DEFINE r == [UI!Request("launch", {}, {}) EXCEPT !.case = None]
    <2>1. r \in UI!Call /\ r.kind = "launch"
      BY <1>0, RequestFacts DEF UI!Kinds
    <2>2. /\ launchable' = FALSE /\ caseId' = None /\ source' = None /\ panels' = {}
          /\ rows' = UI!NoRows /\ statuses' = UI!NoRows /\ underReview' = None
          /\ shownReport' = None /\ calls' = calls \cup {r} /\ UNCHANGED history
      BY <1>1 DEF ClickLaunch, UI!Launch, UI!Fetch
    <2> HIDE DEF r
    <2> QED
      BY <1>0, <2>1, <2>2 DEF UI!UITypeOK, UI!NoRows, history, LiveTypeOK
  <1>2. CASE ClickPlan
    <2>1. PICK kind \in {"approve_plan", "reject_plan"} :
              calls' = calls \cup {UI!Request(kind, {}, {})}
      BY <1>2 DEF ClickPlan, UI!ApprovePlan, UI!RejectPlan, UI!Fetch
    <2>2. UI!Request(kind, {}, {}) \in UI!Call /\ UI!Request(kind, {}, {}).kind # "report"
      BY <1>0, <2>1, RequestFacts DEF UI!Kinds
    <2>3. /\ panels' \subseteq panels
          /\ UNCHANGED <<caseId, source, launchable, rows, statuses, underReview, shownReport,
                         submitted, edited>>
          /\ planClicks' \subseteq planClicks \cup {"approve", "reject"}
      BY <1>2 DEF ClickPlan, UI!ApprovePlan, UI!RejectPlan
    <2> QED
      BY <1>0, <2>1, <2>2, <2>3 DEF UI!UITypeOK, LiveTypeOK
  <1>3. CASE ClickRow
    BY <1>0, <1>3 DEF ClickRow, UI!SetRow, UI!UITypeOK, LiveTypeOK
  <1>4. CASE ClickReview
    BY <1>0, <1>4 DEF ClickReview, UI!CloseReview, UI!OpenReview, UI!UITypeOK, history, LiveTypeOK
  <1>5. CASE ClickSubmit
    <2>1. PICK table : UI!SubmitRows(table) /\ Tables(table, statuses)
      BY <1>0, <1>5
         DEF ClickSubmit, UI!Submit, UI!ApproveAll, UI!RejectAllAction, Tables
    <2>2. UI!RowsWith(table, "approve") \in SUBSET Ids /\ UI!RowsWith(table, "reject") \in SUBSET Ids
      BY <2>1 DEF UI!RowsWith, Tables
    <2>3. /\ rows' = table /\ panels' = panels \ {"action"}
          /\ calls' = calls \cup {UI!Request("submit", UI!RowsWith(table, "approve"),
                                             UI!RowsWith(table, "reject"))}
          /\ UNCHANGED <<caseId, source, launchable, statuses, underReview, shownReport>>
      BY <2>1 DEF UI!SubmitRows, UI!Fetch
    <2>4. submitted' \in SUBSET Ids /\ UNCHANGED <<planClicks, edited>>
      BY <1>5, <2>2, <2>3 DEF ClickSubmit
    <2> DEFINE r == UI!Request("submit", UI!RowsWith(table, "approve"),
                               UI!RowsWith(table, "reject"))
    <2>5. r \in UI!Call /\ r.kind = "submit"
      <3>1. "submit" \in UI!Kinds
        BY DEF UI!Kinds
      <3> QED
        BY <1>0, <2>2, <3>1, RequestFacts
    <2> HIDE DEF r
    <2>6. UI!UITypeOK'
      BY <1>0, <2>1, <2>3, <2>5 DEF UI!UITypeOK, Tables, r
    <2> QED
      BY <2>3, <2>4, <2>5, <2>6 DEF LiveTypeOK, r
  <1> QED
    BY <1>1, <1>2, <1>3, <1>4, <1>5 DEF Click

\* What stands behind an await keeps the types, asks for no report, and shows only a
\* report that was the answer to a fetch.
LEMMA ContinueFacts ==
    ASSUME UI!UITypeOK, NEW r \in calls, UI!Continue(r)
    PROVE  /\ UI!UITypeOK'
           /\ calls' \subseteq calls
           /\ \/ shownReport' = shownReport
              \/ r.kind = "report" /\ r.state = "answered" /\ shownReport' = r.items
  <1>1. r \in UI!Call
    BY DEF UI!UITypeOK
  <1>2. CASE UI!ContinueLaunch(r)
    BY <1>1, <1>2 DEF UI!ContinueLaunch, UI!Settle, UI!UITypeOK, UI!Call
  <1>3. CASE UI!ContinueReject(r)
    BY <1>1, <1>3 DEF UI!ContinueReject, UI!Settle, UI!UITypeOK
  <1>4. CASE UI!ContinueReport(r)
    BY <1>1, <1>4 DEF UI!ContinueReport, UI!Settle, UI!UITypeOK, UI!Call
  <1>5. CASE UI!Forget(r)
    BY <1>1, <1>5 DEF UI!Forget, UI!Settle, UI!UITypeOK
  <1> QED
    BY <1>2, <1>3, <1>4, <1>5 DEF UI!Continue

\* An event handler keeps the types, and asks for the report only when told of it.
LEMMA HandlerFacts ==
    ASSUME UI!UITypeOK, NEW e \in AgentEvent(Ids), UI!Handle(e),
           e.type = "awaiting_approval" => e.gate \in Gates
    PROVE  /\ UI!UITypeOK'
           /\ shownReport' = shownReport
           /\ \A c \in calls' :
                 c \in calls \/ (e.type = "report_ready" /\ c.kind = "report" /\ c.state = "sent")
  <1>0. e.items \in SUBSET Ids
    BY DEF AgentEvent
  <1>1. CASE UI!HandleProposal(e)
    BY <1>0, <1>1 DEF UI!HandleProposal, UI!UITypeOK
  <1>2. CASE UI!HandleAwaitingApproval(e)
    BY <1>2 DEF UI!HandleAwaitingApproval, UI!UITypeOK, UI!Gates, Gates
  <1>3. CASE UI!HandleWritten(e)
    BY <1>3 DEF UI!HandleWritten, UI!UITypeOK
  <1>4. CASE UI!HandleReportReady(e)
    <2>1. /\ UI!Request("report", {}, {}) \in UI!Call
          /\ UI!Request("report", {}, {}).kind = "report"
          /\ UI!Request("report", {}, {}).state = "sent"
      <3>1. "report" \in UI!Kinds /\ {} \in SUBSET Ids
        BY DEF UI!Kinds
      <3> QED
        BY <3>1, RequestFacts
    <2>2. /\ e.type = "report_ready" /\ calls' = calls \cup {UI!Request("report", {}, {})}
          /\ UNCHANGED <<caseId, source, launchable, panels, rows, statuses, underReview,
                         shownReport>>
      BY <1>4 DEF UI!HandleReportReady
    <2> QED
      BY <2>1, <2>2 DEF UI!UITypeOK
  <1>5. CASE UI!HandleError(e) \/ UI!HandleDone(e) \/ UI!HandleOther(e)
    BY <1>5 DEF UI!HandleError, UI!HandleDone, UI!HandleOther, UI!UITypeOK
  <1> QED
    BY <1>1, <1>2, <1>3, <1>4, <1>5 DEF UI!Handle

\* The service answers a fetch for the report with the report or not at all.
LEMMA ServiceFacts ==
    ASSUME LInv, NEW r \in calls, NEW state \in {"answered", "failed"}, Handle(r, state)
    PROVE  /\ UI!UITypeOK'
           /\ UNCHANGED <<shownReport, history>>
           /\ \A c \in calls' :
                 \/ c \in calls
                 \/ c.kind # "report"
                 \/ c.state = "answered" /\ report # None /\ c.items = report
                 \/ c.state = "failed"
  <1>0. UI!UITypeOK /\ (report = None \/ report \in SUBSET Ids)
    BY DEF LInv, LiveTypeOK, CaseInv, IInv, TypeOK, ServerTypeOK
  <1>1. UNCHANGED <<caseId, source, launchable, panels, rows, statuses, underReview,
                    shownReport, history>>
    BY DEF Handle
  <1>2. PICK s \in {"answered", "failed"}, items \in SUBSET Ids :
           /\ Reply(r, s, items)
           /\ r.kind = "report" /\ s = "answered" => report # None /\ items = report
    <2>1. CASE r.kind = "report"
      BY <1>0, <2>1 DEF Handle, UI!Posts
    <2>2. CASE r.kind # "report"
      BY <2>2 DEF Handle
    <2> QED
      BY <2>1, <2>2
  <1>3. /\ calls' \subseteq UI!Call
        /\ \A c \in calls' :
              c \in calls \/ (c.kind = r.kind /\ c.state = s /\ c.items = items)
    BY <1>0, <1>2, ReplyFacts
  <1> QED
    BY <1>0, <1>1, <1>2, <1>3 DEF UI!UITypeOK

-------------------------------------------------------------------------------

\* Every step of the session keeps its invariant.
LEMMA SessionStep == LInv /\ [LiveNext]_liveVars => LInv'
  <1> SUFFICES ASSUME LInv, [LiveNext]_liveVars PROVE LInv'
    OBVIOUS
  <1> DEFINE HistoryOK == /\ planClicks \subseteq {"approve", "reject"}
                          /\ submitted = None \/ submitted \in SUBSET Ids
                          /\ edited \subseteq Ids
             Goal == /\ UI!UITypeOK' /\ HistoryOK'
                     /\ faults' \in 0 .. MaxFaults
                     /\ ReportCallInv' /\ ShownInv'
  <1>0. /\ UI!UITypeOK /\ HistoryOK /\ faults \in 0 .. MaxFaults
        /\ ReportCallInv /\ ShownInv /\ WireInv /\ LiveTypeOK
    BY DEF LInv, LiveTypeOK, PageInv
  <1>1. /\ CaseInv' /\ StreamTypeOK' /\ conn' \in 0 .. opened' /\ WireInv'
        /\ report # None => report' = report
    BY CaseFacts, StreamInvariance
  <1>2. ASSUME UNCHANGED <<page, faults, history>> PROVE Goal
    BY <1>0, <1>1, <1>2 DEF page, history, UI!UITypeOK, ReportCallInv, ShownInv
  <1>3. ASSUME Click PROVE Goal
    <2>1. UNCHANGED faults
      BY <1>3 DEF Click
    <2> QED
      BY <1>0, <1>1, <1>3, <2>1, ClickFacts DEF ReportCallInv, ShownInv
  <1>4. ASSUME NEW r \in calls, GoOn(r) PROVE Goal
    <2>1. UNCHANGED <<faults, history>> /\ UI!Continue(r)
      BY <1>4 DEF GoOn
    <2>2. r.kind = "report" /\ r.state = "answered" => report # None /\ r.items = report
      BY <1>0 DEF ReportCallInv
    <2> QED
      BY <1>0, <1>1, <2>1, <2>2, ContinueFacts DEF ReportCallInv, ShownInv, history
  <1>5. ASSUME ReadEvent PROVE Goal
    <2> DEFINE e == queue[wire[conn]]
    <2>1. wire[conn] # 0 /\ conn # 0 /\ UI!Handle(e) /\ UNCHANGED <<faults, history>>
      BY <1>5 DEF ReadEvent
    <2>2. conn \in Streams /\ wire[conn] \in 1 .. Len(queue)
      BY <1>0, <2>1, CaseFacts, StreamAssumption DEF LiveTypeOK, StreamTypeOK, Streams
    <2>3. /\ e \in AgentEvent(Ids)
          /\ e.type = "awaiting_approval" => e.gate \in Gates
          /\ e.type = "report_ready" => report # None
      BY <1>0, <2>1, <2>2, CaseFacts DEF LInv, CaseInv, HistoryInv, WireInv
    <2> HIDE DEF e
    <2> QED
      BY <1>0, <1>1, <2>1, <2>3, HandlerFacts DEF ReportCallInv, ShownInv, history
  <1>6. ASSUME NEW r \in calls, NEW state \in {"answered", "failed"}, Handle(r, state),
               faults' \in 0 .. MaxFaults
        PROVE  Goal
    BY <1>0, <1>1, <1>6, ServiceFacts DEF ReportCallInv, ShownInv, history
  <1>7. ASSUME ReceiveStep PROVE Goal
    BY <1>0, <1>6, <1>7 DEF ReceiveStep, Receive
  <1>8. ASSUME FaultStep PROVE Goal
    <2>1. faults' \in 0 .. MaxFaults
      BY <1>0, <1>8, LiveAssumption DEF FaultStep, BreakStream, LoseReply, LoseRequest, Fault
    <2>2. ASSUME NEW r \in calls, LoseRequest(r) PROVE Goal
      <3>1. UNCHANGED <<caseId, source, launchable, panels, rows, statuses, underReview,
                        shownReport, history>> /\ Reply(r, "failed", {})
        BY <2>2 DEF LoseRequest
      <3> QED
        BY <1>0, <1>1, <2>1, <3>1, ReplyFacts
           DEF ReportCallInv, ShownInv, history, UI!UITypeOK
    <2>3. CASE BreakStream
      BY <1>0, <1>1, <2>1, <2>3
         DEF BreakStream, pageVars, page, history, UI!UITypeOK, ReportCallInv, ShownInv
    <2> QED
      BY <1>6, <1>8, <2>1, <2>2, <2>3 DEF FaultStep, LoseReply
  <1>9. Goal
    <2>1. CASE CaseStep \/ TokenStep \/ StreamStep \/ UNCHANGED liveVars
      BY <1>2, <2>1 DEF CaseStep, TokenStep, StreamStep, liveVars, pageVars
    <2>2. CASE PageStep
      BY <1>2, <1>4, <1>5, <2>2 DEF PageStep, OpenStream, Disconnected
    <2> QED
      BY <1>3, <1>7, <1>8, <2>1, <2>2 DEF LiveNext
  <1> QED
    BY <1>1, <1>9 DEF LInv, LiveTypeOK, PageInv

\* The initial state satisfies it.
LEMMA SessionInit == LiveInit => LInv
  <1> SUFFICES ASSUME LiveInit PROVE LInv
    OBVIOUS
  <1>1. IInv
    BY InitInv DEF LiveInit
  <1>2. StreamInv /\ queue = <<>>
    BY DEF LiveInit, Init, ServerInit, StreamInv
  <1>3. HistoryInv
    BY <1>2 DEF HistoryInv
  <1>4. StreamTypeOK /\ WireInv /\ opened = 0
    <2>1. Len(queue) = 0 /\ 0 \in 0 .. 0
      BY <1>2
    <2>2. /\ opened = 0 /\ taken = 0 /\ sentinelTaken = FALSE
          /\ streams = [s \in Streams |-> "off"] /\ wire = [s \in Streams |-> 0]
      BY DEF LiveInit, StreamInit
    <2>3. opened \in 0 .. MaxStreams /\ taken \in 0 .. Len(queue)
      BY <2>1, <2>2, StreamAssumption
    <2>4. wire \in [Streams -> 0 .. taken]
      BY <2>1, <2>2
    <2>5. streams \in [Streams -> {"off", "open", "gone", "ended"}] /\ WireInv
      BY <2>2 DEF WireInv
    <2> QED
      BY <2>2, <2>3, <2>4, <2>5 DEF StreamTypeOK
  <1>5. UI!UITypeOK /\ ReportCallInv /\ ShownInv
    BY DEF LiveInit, UI!UIInit, UI!UITypeOK, UI!NoRows, ReportCallInv, ShownInv
  <1> QED
    BY <1>1, <1>2, <1>3, <1>4, <1>5, LiveAssumption
       DEF LiveInit, LInv, CaseInv, LiveTypeOK, PageInv

\* The invariant is inductive, hence it always holds.
THEOREM LiveInvariance == LiveSpec => []LInv
  BY SessionInit, SessionStep, PTL DEF LiveSpec

\* Every state of the page, its streams and its fetches is well typed.
THEOREM LiveTypeCorrect == LiveSpec => []LiveTypeOK
  <1>1. LInv => LiveTypeOK
    BY DEF LInv
  <1> QED
    BY <1>1, LiveInvariance, PTL

\* With the page as its client a case is a case of UiPathRunner: whatever is clicked,
\* lost or repeated, what is proved there holds here.
THEOREM LiveImplementsCase == LiveSpec => Spec
  <1>1. LInv /\ [LiveNext]_liveVars => [Next]_vars
    BY StepRefinesCase DEF LInv
  <1>2. LiveInit => Init
    BY DEF LiveInit
  <1> QED
    BY <1>1, <1>2, LiveInvariance, PTL DEF LiveSpec, Spec

\* When the page asks for a report, the service has it, however many streams and
\* faults there were: _process_case stores it before any reader can take the event.
THEOREM ReportFetchable == LiveSpec => []ReportReadyIsFetchable
  <1>1. LInv => ReportReadyIsFetchable
    BY DEF LInv, PageInv, ReportCallInv, ReportReadyIsFetchable
  <1> QED
    BY <1>1, LiveInvariance, PTL

\* The report on the page is the one row of the audit log, whatever was lost; if no URL
\* for the log is set it is in no log.
THEOREM ShownIsLogged == LiveSpec => []ShownReportIsLogged
  <1>1. LInv => ShownReportIsLogged
    BY DEF LInv, PageInv, ShownInv, CaseInv, IInv, ProgressInv, Rows, ShownReportIsLogged
  <1> QED
    BY <1>1, LiveInvariance, PTL

-------------------------------------------------------------------------------
(* A session in which nothing is lost *)

\* What the page has learned from its stream.
GateSeen(g) == \E i \in AwaitedAt(g) : ~Unread(i)
ProposalSeen == \E i \in EventsOf("proposal") : ~Unread(i)

\* One stream at a time is open, the one the page listens to, and what is on its
\* way is the last event taken.
WireOrder ==
    \A s \in Streams :
        /\ streams[s] # "gone"
        /\ streams[s] = "open" => s = conn
        /\ wire[s] # 0 => s = conn /\ wire[s] = taken
        /\ wire[s] # 0 /\ queue[wire[s]].type = "done" => streams[s] # "open"

\* A panel is shown, and a button in it clicked, only after its gate was announced;
\* a click on Approve or Submit hides it for good.
PanelInv ==
    /\ \A g \in panels : GateSeen(g)
    /\ planClicks # {} => GateSeen("plan")
    /\ submitted # None => GateSeen("action")
    /\ "approve" \in planClicks => "plan" \notin panels
    /\ submitted # None => "action" \notin panels

\* The pending gate can be answered, or has been.
Answerable ==
    pendingGate # NoGate =>
        \/ pendingGate \in panels
        \/ \E i \in AwaitedAt(pendingGate) : Unread(i)
        \/ \E r \in UI!Posts : r.state = "sent"

\* A decision that answers Gate 2 with what the reviewer submitted, row by row.
Submission(d) ==
    /\ submitted # None /\ submitted \subseteq shown
    /\ d.approvedIds = submitted
    /\ d.rejectedIds = shown \ submitted

\* Every post is a click of the reviewer, and one that was answered was delivered.
PostInv ==
    /\ \A r \in calls :
          /\ r.kind = "approve_plan" => "approve" \in planClicks
          /\ r.kind = "reject_plan" => "reject" \in planClicks
          /\ r.kind = "submit" => Submission(UI!DecisionOf(r))
          /\ r.state = "failed" => r.kind = "report"
          /\ r.kind = "reject_plan" /\ r.state = "answered" => pendingGate # "plan"
    /\ \A r, q \in calls :
          /\ r.kind = "approve_plan" /\ r.state = "sent"
          /\ q.kind = "approve_plan" /\ q.state = "sent"
          => r = q

\* Whose answer is in the mailbox, or was consumed: as long as Gate 1 was answered
\* one way only, no answer to Gate 1 is left when Gate 2 opens.
AnswerInv ==
    /\ planClicks = {} => mailbox = None /\ consumed["plan"] = None
    /\ "approve" \notin planClicks =>
          /\ ~PlanApproved
          /\ mailbox # None /\ consumed["plan"] = None => ~mailbox.decision.approved
    /\ "reject" \notin planClicks =>
          /\ \A r \in calls : r.kind = "approve_plan" /\ r.state = "sent" =>
                                 mailbox = None /\ consumed["plan"] = None
          /\ mailbox # None /\ consumed["plan"] # None => Submission(mailbox.decision)
          /\ consumed["action"] # None => Submission(consumed["action"].decision)

\* The tables of the page against the proposal, the submission and the log.
TableInv ==
    /\ ProposalSeen => DOMAIN rows = shown
    /\ submitted # None =>
          \A i \in DOMAIN rows \ edited : rows[i] = "approve" <=> i \in submitted
    /\ planClicks # {"approve", "reject"} =>
          \A i \in DOMAIN statuses \ edited :
              statuses[i] # "pending" =>
                  /\ submitted # None
                  /\ settings.logUrl => auditLog # <<>>
                  /\ statuses[i] = "approved" <=> i \in submitted

FaultlessInv == WireOrder /\ PanelInv /\ Answerable /\ PostInv /\ AnswerInv /\ TableInv

SInv == LInv /\ GateInv /\ (faults = 0 => FaultlessInv)

\* What the gates of a case tell of its past.
LEMMA SeenFacts ==
    ASSUME LInv, GateInv, WireOrder
    PROVE  /\ GateSeen("action") => PlanApproved /\ ProposalSeen /\ pc \notin BeforeReview
           /\ GateSeen("plan") => pc \notin {"absent", "created", "plan"}
           /\ ProposalSeen => pc \notin BeforeProposal
  <1>1. ASSUME NEW j \in AwaitedAt("action"), ~Unread(j)
        PROVE  PlanApproved /\ ProposalSeen /\ pc \notin BeforeReview
    <2>1. PICK i \in EventsOf("proposal") : i < j
      BY <1>1 DEF GateInv
    <2>2. i \in Nat /\ j \in Nat /\ taken \in Nat /\ j <= taken
      BY <1>1, <2>1, CaseFacts
         DEF EventsOf, AwaitedAt, Unread, LInv, LiveTypeOK, StreamTypeOK
    <2>3. ASSUME NEW s \in Streams, wire[s] = i PROVE FALSE
      <3>1. i # 0
        BY <2>1 DEF EventsOf
      <3> QED
        BY <2>1, <2>2, <2>3, <3>1 DEF WireOrder
    <2>4. ~Unread(i)
      BY <2>1, <2>2, <2>3 DEF Unread
    <2> QED
      BY <1>1, <2>1, <2>4 DEF GateInv, ProposalSeen
  <1>2. GateSeen("plan") => pc \notin {"absent", "created", "plan"}
    BY DEF GateSeen, GateInv, AwaitedAt
  <1>3. ProposalSeen => pc \notin BeforeProposal
    BY DEF ProposalSeen, GateInv
  <1> QED
    BY <1>1, <1>2, <1>3 DEF GateSeen

\* Unless an event is taken or read, the page learns nothing; and an event that is
\* new is not read yet.
LEMMA NothingLearned ==
    ASSUME LInv, [LiveNext]_liveVars, UNCHANGED <<streamVars, conn>>
    PROVE  /\ WireOrder => WireOrder'
           /\ \A i : Unread(i)' <=> Unread(i)
           /\ \A g : GateSeen(g)' <=> GateSeen(g)
           /\ ProposalSeen' <=> ProposalSeen
           /\ \A g : AwaitedAt(g) \subseteq AwaitedAt(g)'
           /\ EventsOf("proposal") \subseteq EventsOf("proposal")'
  <1>1. \A i : Unread(i)' <=> Unread(i)
    BY DEF Unread, streamVars
  <1>2. /\ Len(queue) \in Nat /\ Len(queue') \in Nat /\ Len(queue) <= Len(queue')
        /\ \A i \in 1 .. Len(queue) : queue'[i] = queue[i]
        /\ taken \in 0 .. Len(queue) /\ wire \in [Streams -> 0 .. taken]
    BY CaseFacts DEF LInv, LiveTypeOK, StreamTypeOK
  <1>3. \A type : /\ EventsOf(type) \subseteq EventsOf(type)'
                  /\ \A i \in EventsOf(type)' \ EventsOf(type) : i > taken
    BY <1>2 DEF EventsOf
  <1>4. \A g : /\ AwaitedAt(g) \subseteq AwaitedAt(g)'
               /\ \A i \in AwaitedAt(g)' \ AwaitedAt(g) : i > taken
    <2>1. \A i \in EventsOf("awaiting_approval") : queue'[i] = queue[i]
      BY <1>2 DEF EventsOf
    <2> QED
      BY <1>3, <2>1 DEF AwaitedAt
  <1>5. \A i : i > taken => Unread(i)
    BY DEF Unread
  <1>6. \A g : GateSeen(g)' <=> GateSeen(g)
    BY <1>1, <1>4, <1>5 DEF GateSeen
  <1>7. ProposalSeen' <=> ProposalSeen
    BY <1>1, <1>3, <1>5 DEF ProposalSeen
  <1>8. WireOrder => WireOrder'
    <2>1. \A s \in Streams : wire[s] # 0 => queue'[wire[s]] = queue[wire[s]]
      BY <1>2
    <2> QED
      BY <2>1 DEF WireOrder, streamVars
  <1> QED
    BY <1>1, <1>3, <1>4, <1>6, <1>7, <1>8

\* What the network does by itself tells the page nothing either.
LEMMA NetworkFacts ==
    ASSUME LInv, WireOrder, StreamStep \/ OpenStream \/ Disconnected
    PROVE  /\ WireOrder'
           /\ \A i \in 1 .. Len(queue) : Unread(i)' <=> Unread(i)
           /\ UNCHANGED <<vars, page, history>>
  <1> USE StreamAssumption
  <1>0. /\ conn \in 0 .. opened /\ opened \in 0 .. MaxStreams
        /\ Len(queue) \in Nat /\ taken \in 0 .. Len(queue)
        /\ wire \in [Streams -> 0 .. taken]
        /\ streams \in [Streams -> {"off", "open", "gone", "ended"}]
    BY DEF LInv, LiveTypeOK, StreamTypeOK, CaseInv, IInv, TypeOK, ServerTypeOK
  <1>1. UNCHANGED <<vars, page, history>>
    BY DEF StreamStep, OpenStream, Disconnected, pageVars
  <1>2. queue' = queue
    BY <1>1 DEF vars, serverVars
  <1>3. ASSUME NEW s \in Streams, SendEvent(s), UNCHANGED conn
        PROVE  WireOrder' /\ \A i \in 1 .. Len(queue) : Unread(i)' <=> Unread(i)
    <2>1. streams[s] = "open" /\ s = conn /\ wire[s] = 0
      BY <1>3 DEF SendEvent, Running, WireOrder
    <2>2. taken' = taken + 1 /\ wire' = [wire EXCEPT ![s] = taken + 1]
      BY <1>3, <2>1 DEF SendEvent
    <2>3. streams' = IF queue[taken + 1].type = "done"
                     THEN [streams EXCEPT ![s] = "ended"] ELSE streams
      BY <1>3 DEF SendEvent
    <2>4. \A t \in Streams : t # s => wire'[t] = 0 /\ wire[t] = 0
      BY <1>0, <2>1, <2>2 DEF WireOrder
    <2>5. wire'[s] = taken + 1
      BY <1>0, <2>2
    <2>6. \A i \in 1 .. Len(queue) : Unread(i)' <=> Unread(i)
      BY <1>0, <2>1, <2>2, <2>4, <2>5 DEF Unread
    <2>7. WireOrder'
      BY <1>0, <1>2, <1>3, <2>1, <2>2, <2>3, <2>4, <2>5 DEF WireOrder
    <2> QED
      BY <2>6, <2>7
  <1>4. ASSUME NEW s \in Streams, SendEnd(s), UNCHANGED conn
        PROVE  WireOrder' /\ UNCHANGED <<taken, wire>>
    <2>1. streams' = [streams EXCEPT ![s] = "ended"] /\ UNCHANGED <<taken, wire>>
      BY <1>4 DEF SendEnd
    <2> QED
      BY <1>0, <1>2, <1>4, <2>1 DEF WireOrder
  <1>5. ASSUME NEW s \in Streams PROVE ~Notice(s)
    BY DEF Notice, WireOrder
  <1>6. CASE OpenStream
    <2>1. /\ conn = 0 /\ opened < MaxStreams /\ conn' = opened + 1
          /\ streams' = [streams EXCEPT ![opened + 1] = "open"]
          /\ UNCHANGED <<wire, taken>>
      BY <1>6 DEF OpenStream, Connect
    <2>2. \A s \in Streams : streams[s] # "open" /\ wire[s] = 0
      BY <2>1 DEF WireOrder, Streams
    <2> QED
      BY <1>0, <1>1, <1>2, <2>1, <2>2 DEF WireOrder, Unread
  <1>7. CASE Disconnected
    <2>1. /\ conn # 0 /\ wire[conn] = 0 /\ streams[conn] # "open" /\ conn' = 0
          /\ UNCHANGED <<streams, wire, taken>>
      BY <1>7 DEF Disconnected, streamVars
    <2> QED
      BY <1>0, <1>1, <1>2, <2>1 DEF WireOrder, Unread
  <1>8. CASE StreamStep
    <2>1. UNCHANGED conn
      BY <1>8 DEF StreamStep, pageVars
    <2>2. CASE \E s \in Streams : SendEvent(s)
      BY <1>1, <1>3, <2>1, <2>2
    <2>3. CASE \E s \in Streams : SendEnd(s)
      BY <1>1, <1>4, <2>1, <2>3 DEF Unread
    <2> QED
      BY <1>5, <1>8, <2>2, <2>3 DEF StreamStep, Serve
  <1> QED
    BY <1>6, <1>7, <1>8

\* An event that is read is read once, and it was the last one taken.
LEMMA ReadFacts ==
    ASSUME LInv, WireOrder, ReadEvent
    PROVE  /\ WireOrder'
           /\ wire[conn] \in 1 .. Len(queue) /\ Unread(wire[conn])
           /\ \A i \in 1 .. Len(queue) : Unread(i)' <=> Unread(i) /\ i # wire[conn]
           /\ UI!Handle(queue[wire[conn]])
           /\ UNCHANGED <<vars, history>>
  <1> USE StreamAssumption
  <1>0. /\ conn \in 0 .. opened /\ opened \in 0 .. MaxStreams
        /\ Len(queue) \in Nat /\ taken \in 0 .. Len(queue)
        /\ wire \in [Streams -> 0 .. taken]
    BY DEF LInv, LiveTypeOK, StreamTypeOK, CaseInv, IInv, TypeOK, ServerTypeOK
  <1>1. /\ conn # 0 /\ wire[conn] # 0 /\ UI!Handle(queue[wire[conn]])
        /\ conn' = IF queue[wire[conn]].type = "done" THEN 0 ELSE conn
        /\ wire' = [wire EXCEPT ![conn] = 0]
        /\ UNCHANGED <<vars, history, streams, taken>>
    BY DEF ReadEvent
  <1>2. conn \in Streams /\ wire[conn] \in 1 .. Len(queue)
    BY <1>0, <1>1 DEF Streams
  <1>3. \A s \in Streams : wire'[s] = 0 /\ (s # conn => wire[s] = 0)
    BY <1>0, <1>1, <1>2 DEF WireOrder
  <1>4. wire[conn] = taken
    BY <1>1, <1>2 DEF WireOrder
  <1>5. ASSUME NEW i \in 1 .. Len(queue) PROVE Unread(i)' <=> (Unread(i) /\ i # wire[conn])
    <2>1. Unread(i) <=> (i > taken \/ i = taken)
      BY <1>0, <1>2, <1>3, <1>4 DEF Unread
    <2>2. Unread(i)' <=> i > taken
      BY <1>0, <1>1, <1>2, <1>3 DEF Unread
    <2>3. i \in Nat /\ taken \in Nat
      BY <1>0
    <2> QED
      BY <1>4, <2>1, <2>2, <2>3
  <1>6. queue' = queue
    BY <1>1 DEF vars, serverVars
  <1>7. WireOrder'
    BY <1>1, <1>2, <1>3, <1>6 DEF WireOrder
  <1> QED
    BY <1>0, <1>1, <1>2, <1>4, <1>5, <1>7 DEF Unread

\* The log is never emptied, and the settings are read once.
LEMMA LogStays ==
    ASSUME IInv, TaskStep
    PROVE  UNCHANGED settings /\ (auditLog # <<>> => auditLog' # <<>>)
  <1> DEFINE Goal == UNCHANGED settings /\ (auditLog # <<>> => auditLog' # <<>>)
  <1>1. auditLog \in Seq(SUBSET Ids) /\ approvedItems \in SUBSET Ids
    BY DEF IInv, TypeOK
  <1>2. Append(auditLog, approvedItems) # <<>>
    BY <1>1
  <1>3. CASE WriteSucceeds \/ WriteReplyLost
    BY <1>2, <1>3 DEF WriteSucceeds, WriteReplyLost
  <1>4. CASE Propose \/ ResumeAction
    BY <1>4 DEF Propose, ResumeAction, client
  <1>5. ASSUME Keep PROVE Goal
    BY <1>5 DEF Keep, locals, client
  <1>6. CASE LoadDataset \/ LoadFails \/ WriteRefused
    BY <1>6 DEF LoadDataset, LoadFails, WriteRefused
  <1> QED
    BY <1>3, <1>4, <1>5, <1>6
       DEF TaskStep, EmitPlan, AwaitPlan, ResumePlan, RejectPlan, CallRead, CallQuery,
           QueryAnswers, QueryFails, QueryResult, CallAggregate, AggregateResult, RecordsFail,
           AwaitAction, WriteSkipped, ReportReady, Done, AnnounceError, AnnounceDone

\* Network steps keep a faultless session faultless.
LEMMA NetworkInv ==
    ASSUME LInv, FaultlessInv, StreamStep \/ OpenStream \/ Disconnected
    PROVE  FaultlessInv'
  <1>1. /\ WireOrder'
        /\ \A i \in 1 .. Len(queue) : Unread(i)' <=> Unread(i)
        /\ UNCHANGED <<vars, page, history>>
    BY NetworkFacts DEF FaultlessInv
  <1>2. UNCHANGED <<queue, pendingGate, mailbox, consumed, shown, settings, auditLog, panels, rows,
                    statuses, calls, planClicks, submitted, edited>>
    BY <1>1 DEF vars, serverVars, recordVars, mailVars, locals, client, page, history
  <1>3. /\ \A g : AwaitedAt(g)' = AwaitedAt(g) /\ AwaitedAt(g) \subseteq 1 .. Len(queue)
        /\ EventsOf("proposal")' = EventsOf("proposal")
        /\ EventsOf("proposal") \subseteq 1 .. Len(queue)
    BY <1>2 DEF AwaitedAt, EventsOf
  <1>4. (\A g : GateSeen(g)' <=> GateSeen(g)) /\ (ProposalSeen' <=> ProposalSeen)
    BY <1>1, <1>3 DEF GateSeen, ProposalSeen
  <1>5. PanelInv'
    BY <1>2, <1>4 DEF FaultlessInv, PanelInv
  <1>6. Answerable'
    <2>1. \A g : (\E i \in AwaitedAt(g) : Unread(i)) => (\E i \in AwaitedAt(g) : Unread(i))'
      BY <1>1, <1>3
    <2> QED
      BY <1>2, <2>1 DEF FaultlessInv, Answerable, UI!Posts
  <1>7. PostInv' /\ AnswerInv'
    BY <1>2 DEF FaultlessInv, PostInv, AnswerInv, Submission, PlanApproved, UI!DecisionOf
  <1>8. TableInv'
    BY <1>2, <1>4 DEF FaultlessInv, TableInv
  <1> QED
    BY <1>1, <1>5, <1>6, <1>7, <1>8 DEF FaultlessInv

\* So do the steps of the case.
LEMMA TaskInv ==
    ASSUME LInv, GateInv, FaultlessInv, CaseStep
    PROVE  FaultlessInv'
  <1>0. /\ IInv /\ MailInv /\ ProgressInv /\ ServerTypeOK /\ TaskStep
        /\ WireOrder /\ PanelInv /\ Answerable /\ PostInv /\ AnswerInv /\ TableInv
    BY DEF LInv, CaseInv, IInv, TypeOK, CaseStep, FaultlessInv
  <1>1. /\ WireOrder'
        /\ \A i : Unread(i)' <=> Unread(i)
        /\ \A g : GateSeen(g)' <=> GateSeen(g)
        /\ ProposalSeen' <=> ProposalSeen
        /\ \A g : AwaitedAt(g) \subseteq AwaitedAt(g)'
    BY <1>0, NothingLearned DEF CaseStep, LiveNext, pageVars
  <1>2. /\ UNCHANGED <<panels, rows, statuses, calls, planClicks, submitted, edited, taken>>
        /\ UNCHANGED settings
        /\ auditLog # <<>> => auditLog' # <<>>
    BY <1>0, LogStays DEF CaseStep, pageVars, page, history, streamVars
  <1>3. PanelInv'
    BY <1>0, <1>1, <1>2 DEF PanelInv
  <1>4. /\ GateSeen("action") => PlanApproved /\ ProposalSeen /\ pc \notin BeforeReview
        /\ GateSeen("plan") => pc \notin {"absent", "created", "plan"}
        /\ ProposalSeen => pc \notin BeforeProposal
    BY <1>0, SeenFacts
  <1>5. ASSUME pendingGate' \in {pendingGate, NoGate} PROVE Answerable'
    BY <1>0, <1>1, <1>2, <1>5 DEF Answerable, UI!Posts
  <1>6. ASSUME UNCHANGED shown PROVE TableInv'
    BY <1>0, <1>1, <1>2, <1>6 DEF TableInv
  <1>7. ASSUME UNCHANGED shown, pendingGate' # "plan" \/ pendingGate' = pendingGate
        PROVE  PostInv'
    BY <1>0, <1>2, <1>7 DEF PostInv, Submission, UI!DecisionOf
  <1>8. ASSUME UNCHANGED <<mailbox, consumed, shown>> PROVE AnswerInv'
    BY <1>0, <1>2, <1>8 DEF AnswerInv, PlanApproved, Submission
  <1>9. CASE Quiet
    BY <1>1, <1>3, <1>5, <1>6, <1>7, <1>8, <1>9 DEF Quiet, mailVars, FaultlessInv, NoGate
  <1>10. CASE AwaitPlan \/ AwaitAction
    <2>1. PICK g \in Gates : /\ OpenGate(g, g) /\ Keep
                             /\ g = "plan" => pc = "plan"
      BY <1>10 DEF AwaitPlan, AwaitAction, OpenGate, Gates
    <2>2. /\ pendingGate' = g /\ UNCHANGED <<mailbox, consumed, shown>>
          /\ queue' = Append(queue, Awaiting(g))
      <3>1. Awaiting(g).type = "awaiting_approval" /\ Awaiting(g).gate = g
        BY <2>1, EventTypes_Awaiting
      <3> QED
        BY <2>1, <3>1 DEF OpenGate, Relay, ApplyEvent, Keep, locals, client
    <2>3. Len(queue) + 1 \in AwaitedAt(g)' /\ Unread(Len(queue) + 1)
      <3>1. /\ Awaiting(g) \in AgentEvent(Ids)
            /\ Awaiting(g).type = "awaiting_approval" /\ Awaiting(g).gate = g
        BY <2>1, EventTypes_Awaiting
      <3>2. Len(queue) + 1 \in AwaitedAt(g)'
        BY <1>0, <2>2, <3>1, AppendedEvents
      <3>3. Len(queue) + 1 > taken
        BY <1>0 DEF LInv, LiveTypeOK, StreamTypeOK, ServerTypeOK
      <3> QED
        BY <3>2, <3>3 DEF Unread
    <2>4. Answerable'
      BY <1>1, <2>2, <2>3 DEF Answerable
    <2>5. PostInv'
      <3>1. CASE g = "plan"
        <4>1. planClicks = {}
          BY <1>0, <1>4, <2>1, <3>1 DEF PanelInv
        <4> QED
          BY <1>0, <1>2, <2>2, <4>1 DEF PostInv, Submission, UI!DecisionOf
      <3>2. CASE g # "plan"
        BY <1>7, <2>2, <3>2
      <3> QED
        BY <3>1, <3>2
    <2> QED
      BY <1>1, <1>3, <1>6, <1>8, <2>2, <2>4, <2>5 DEF FaultlessInv
  <1>11. CASE Propose
    <2>1. pc = "propose" /\ UNCHANGED <<mailbox, consumed, pendingGate>>
      <3>1. PICK total \in Nat, items \in SUBSET Ids :
                Yield("propose", Evt("proposal", items, total), "action")
        BY <1>11, ProposeYields
      <3>2. Evt("proposal", items, total).type = "proposal"
        BY DEF Evt
      <3> QED
        BY <3>1, <3>2 DEF Yield, Relay, ApplyEvent, mailVars
    <2>2. submitted = None /\ ~ProposalSeen
      BY <1>0, <1>4, <2>1 DEF PanelInv, BeforeReview, BeforeProposal
    <2>3. PostInv'
      BY <1>0, <1>2, <2>1, <2>2 DEF PostInv, Submission
    <2>4. AnswerInv'
      BY <1>0, <1>2, <2>1, <2>2 DEF AnswerInv, PlanApproved, Submission
    <2>5. TableInv'
      BY <1>0, <1>1, <1>2, <2>2 DEF TableInv
    <2> QED
      BY <1>1, <1>3, <1>5, <2>1, <2>3, <2>4, <2>5 DEF FaultlessInv
  <1>12. CASE ResumePlan \/ ResumeAction
    <2>1. PICK g \in Gates : TakeDecision(g) /\ UNCHANGED shown
      BY <1>12 DEF ResumePlan, ResumeAction, Keep, locals, client, Gates
    <2>2. /\ pc = WaitPoint(g) /\ mailbox # None /\ mailbox' = None
          /\ consumed' = [consumed EXCEPT ![g] = mailbox]
          /\ pendingGate' = pendingGate
      BY <1>0, <2>1 DEF TakeDecision, recordVars, MailInv, WokenWithDecision
    <2>3. /\ consumed \in [Gates -> Mail \cup {None}]
          /\ g = "plan" => consumed["plan"] = None
          /\ g = "action" => PlanApproved
      BY <1>0, <2>2
         DEF ServerTypeOK, GateInv, ProgressInv, PastPlan, WaitPoint, BeforeWork
    <2>4. AnswerInv'
      <3>1. CASE g = "plan"
        <4>1. consumed'["plan"] = mailbox /\ consumed'["action"] = consumed["action"]
          BY <2>2, <2>3, <3>1 DEF Gates
        <4> QED
          BY <1>0, <1>2, <2>1, <2>2, <2>3, <3>1, <4>1 DEF AnswerInv, PlanApproved, Submission
      <3>2. CASE g = "action"
        <4>1. consumed'["action"] = mailbox /\ consumed'["plan"] = consumed["plan"]
          BY <2>2, <2>3, <3>2 DEF Gates
        <4> QED
          BY <1>0, <1>2, <2>1, <2>2, <2>3, <3>2, <4>1 DEF AnswerInv, PlanApproved, Submission
      <3> QED
        BY <3>1, <3>2 DEF Gates
    <2> QED
      BY <1>1, <1>3, <1>5, <1>6, <1>7, <2>1, <2>2, <2>4 DEF FaultlessInv
  <1> QED
    BY <1>0, <1>9, <1>10, <1>11, <1>12, QuietSteps

\* A token that arrives or expires is seen by nobody here.
LEMMA TokenStepInv ==
    ASSUME LInv, FaultlessInv, TokenStep
    PROVE  FaultlessInv'
  <1>1. UNCHANGED <<conn, taken, wire, streams, queue, pendingGate, mailbox, consumed, shown,
                    settings, auditLog, panels, rows, statuses, calls, planClicks, submitted,
                    edited, pc>>
    BY DEF TokenStep, TokenChanges, serverVars, recordVars, mailVars, streamVars, pageVars,
           page, history
  <1>2. /\ \A i : Unread(i)' <=> Unread(i)
        /\ \A g : AwaitedAt(g)' = AwaitedAt(g)
        /\ EventsOf("proposal")' = EventsOf("proposal")
    BY <1>1 DEF Unread, AwaitedAt, EventsOf
  <1>3. (\A g : GateSeen(g)' <=> GateSeen(g)) /\ (ProposalSeen' <=> ProposalSeen)
    BY <1>2 DEF GateSeen, ProposalSeen
  <1>4. WireOrder' /\ PanelInv' /\ Answerable' /\ TableInv'
    BY <1>1, <1>2, <1>3 DEF FaultlessInv, WireOrder, PanelInv, Answerable, TableInv, UI!Posts
  <1>5. PostInv' /\ AnswerInv'
    BY <1>1 DEF FaultlessInv, PostInv, AnswerInv, Submission, PlanApproved, UI!DecisionOf
  <1> QED
    BY <1>4, <1>5 DEF FaultlessInv

\* The decision in a post is what its fetch carries.
LEMMA PostedFields ==
    ASSUME NEW r
    PROVE  /\ UI!DecisionOf(r).approvedIds = r.approvedIds
           /\ UI!DecisionOf(r).rejectedIds = r.rejectedIds
           /\ UI!DecisionOf(r).approved = (r.kind # "reject_plan")
  BY DEF UI!DecisionOf

\* A fetch carries what it was made from.
LEMMA RequestFields ==
    ASSUME NEW kind, NEW yes, NEW no
    PROVE  /\ UI!Request(kind, yes, no).kind = kind
           /\ UI!Request(kind, yes, no).state = "sent"
           /\ UI!Request(kind, yes, no).approvedIds = yes
           /\ UI!Request(kind, yes, no).rejectedIds = no
  BY DEF UI!Request

\* So does every button.
LEMMA ClickInv ==
    ASSUME LInv, GateInv, FaultlessInv, Click
    PROVE  FaultlessInv'
  <1>0. /\ IInv /\ MailInv /\ LiveTypeOK
        /\ WireOrder /\ PanelInv /\ Answerable /\ PostInv /\ AnswerInv /\ TableInv
        /\ DOMAIN statuses = DOMAIN rows
    BY DEF LInv, CaseInv, IInv, LiveTypeOK, UI!UITypeOK, FaultlessInv
  <1>1. /\ WireOrder'
        /\ \A i : Unread(i)' <=> Unread(i)
        /\ \A g : GateSeen(g)' <=> GateSeen(g)
        /\ ProposalSeen' <=> ProposalSeen
        /\ \A g : AwaitedAt(g) \subseteq AwaitedAt(g)'
    BY <1>0, NothingLearned DEF Click, LiveNext
  <1>2. UNCHANGED <<pc, pendingGate, mailbox, consumed, shown, settings, auditLog, queue>>
    BY DEF Click, vars, serverVars, recordVars, mailVars, locals, client
  <1>3. /\ GateSeen("action") => PlanApproved /\ ProposalSeen /\ pc \notin BeforeReview
        /\ GateSeen("plan") => pc \notin {"absent", "created", "plan"}
        /\ ProposalSeen => pc \notin BeforeProposal
    BY <1>0, SeenFacts
  <1>4. CASE ClickLaunch
    <2> DEFINE r == [UI!Request("launch", {}, {}) EXCEPT !.case = None]
    <2>1. r.kind = "launch" /\ r.state = "sent"
      BY DEF UI!Request
    <2>2. /\ pc = "absent" /\ panels' = {} /\ rows' = UI!NoRows /\ statuses' = UI!NoRows
          /\ calls' = calls \cup {r} /\ UNCHANGED <<planClicks, submitted, edited>>
      BY <1>4 DEF ClickLaunch, UI!Launch, UI!Fetch, history
    <2>3. DOMAIN rows' = {} /\ DOMAIN statuses' = {}
      BY <2>2 DEF UI!NoRows
    <2> HIDE DEF r
    <2>4. planClicks = {} /\ submitted = None /\ ~ProposalSeen /\ pendingGate = NoGate
      BY <1>0, <1>3, <2>2
         DEF PanelInv, MailInv, PendingGateIsBlockedGate, WaitPoint, BeforeReview,
             BeforeProposal, BeforeWork
    <2>5. PanelInv' /\ Answerable' /\ TableInv'
      BY <1>0, <1>1, <1>2, <2>2, <2>3, <2>4 DEF PanelInv, Answerable, TableInv
    <2>6. PostInv' /\ AnswerInv'
      BY <1>0, <1>2, <2>1, <2>2, <2>4 DEF PostInv, AnswerInv, PlanApproved, Submission
    <2> QED
      BY <1>1, <2>5, <2>6 DEF FaultlessInv
  <1>5. CASE ClickPlan
    <2>1. PICK kind \in {"approve_plan", "reject_plan"} :
             /\ "plan" \in panels
             /\ calls' = calls \cup {UI!Request(kind, {}, {})}
             /\ panels' = IF kind = "approve_plan" THEN panels \ {"plan"} ELSE panels
             /\ planClicks' = planClicks \cup
                    {IF kind = "approve_plan" THEN "approve" ELSE "reject"}
             /\ UNCHANGED <<rows, statuses, submitted, edited>>
      <3>1. CASE /\ UI!ApprovePlan /\ UNCHANGED <<submitted, edited>>
                 /\ planClicks' = planClicks \cup {"approve"}
        BY <3>1 DEF UI!ApprovePlan, UI!Fetch
      <3>2. CASE /\ UI!RejectPlan /\ UNCHANGED <<submitted, edited>>
                 /\ planClicks' = planClicks \cup {"reject"}
        BY <3>2 DEF UI!RejectPlan, UI!Fetch
      <3> QED
        BY <1>5, <3>1, <3>2 DEF ClickPlan
    <2> DEFINE r == UI!Request(kind, {}, {})
    <2>2. r.kind = kind /\ r.state = "sent"
      BY RequestFields
    <2>3. calls' = calls \cup {r}
      BY <2>1
    <2> HIDE DEF r
    <2>4. GateSeen("plan") /\ "approve" \notin planClicks
      BY <1>0, <2>1 DEF PanelInv
    <2>5. PanelInv'
      BY <1>0, <1>1, <2>1, <2>4 DEF PanelInv
    <2>6. Answerable'
      <3>1. r \in UI!Posts'
        BY <2>1, <2>2, <2>3 DEF UI!Posts
      <3> QED
        BY <2>2, <3>1 DEF Answerable
    <2>7. planClicks = {} \/ "reject" \in planClicks
      BY <1>0, <2>4 DEF LiveTypeOK
    <2>8. PostInv'
      BY <1>0, <1>2, <2>1, <2>2, <2>3, <2>4 DEF PostInv, Submission
    <2>9. AnswerInv'
      BY <1>0, <1>2, <2>1, <2>2, <2>3, <2>4, <2>7 DEF AnswerInv, Submission, PlanApproved
    <2>10. TableInv'
      <3>1. planClicks' # {"approve", "reject"} => planClicks # {"approve", "reject"}
        BY <2>4
      <3> QED
        BY <1>0, <1>1, <1>2, <2>1, <3>1 DEF TableInv
    <2> QED
      BY <1>1, <2>5, <2>6, <2>8, <2>9, <2>10 DEF FaultlessInv
  <1>6. ASSUME UNCHANGED <<panels, calls, planClicks, submitted>>
        PROVE  PanelInv' /\ Answerable' /\ PostInv' /\ AnswerInv'
    <2>1. PanelInv' /\ Answerable'
      BY <1>0, <1>1, <1>2, <1>6 DEF PanelInv, Answerable, UI!Posts
    <2>2. PostInv' /\ AnswerInv'
      BY <1>0, <1>2, <1>6 DEF PostInv, AnswerInv, Submission, PlanApproved, UI!DecisionOf
    <2> QED
      BY <2>1, <2>2
  <1>7. CASE ClickRow
    <2>1. PICK i \in DOMAIN rows, choice \in {"approve", "reject"} :
             /\ rows' = [rows EXCEPT ![i] = choice]
             /\ edited' = IF submitted = None THEN edited ELSE edited \cup {i}
             /\ UNCHANGED <<panels, calls, statuses, planClicks, submitted>>
      BY <1>7 DEF ClickRow, UI!SetRow
    <2>2. DOMAIN rows' = DOMAIN rows /\ \A k \in DOMAIN rows : k # i => rows'[k] = rows[k]
      BY <2>1
    <2>3. TableInv'
      BY <1>0, <1>1, <1>2, <2>1, <2>2 DEF TableInv
    <2> QED
      BY <1>1, <1>6, <2>1, <2>3 DEF FaultlessInv
  <1>8. CASE ClickReview
    <2>1. UNCHANGED <<panels, calls, rows, statuses, planClicks, submitted, edited>>
      BY <1>8 DEF ClickReview, UI!CloseReview, UI!OpenReview, history
    <2>2. TableInv'
      BY <1>0, <1>1, <1>2, <2>1 DEF TableInv
    <2> QED
      BY <1>1, <1>6, <2>1, <2>2 DEF FaultlessInv
  <1>9. CASE ClickSubmit
    <2>1. PICK table : UI!SubmitRows(table) /\ Tables(table, statuses)
      BY <1>0, <1>9
         DEF ClickSubmit, UI!Submit, UI!ApproveAll, UI!RejectAllAction, Tables, LiveTypeOK,
             UI!UITypeOK
    <2> DEFINE yes == UI!RowsWith(table, "approve")
               no == UI!RowsWith(table, "reject")
    <2>2. /\ "action" \in panels /\ panels' = panels \ {"action"} /\ rows' = table
          /\ calls' = calls \cup {UI!Request("submit", yes, no)}
          /\ submitted' = yes /\ UNCHANGED <<statuses, planClicks, edited>>
      BY <1>9, <2>1 DEF ClickSubmit, UI!SubmitRows, UI!Fetch
    <2>3. /\ GateSeen("action") /\ PlanApproved /\ ProposalSeen /\ submitted = None
          /\ DOMAIN table = shown
      BY <1>0, <1>3, <2>1, <2>2 DEF PanelInv, TableInv, Tables
    <2>4. PICK r : /\ calls' = calls \cup {r}
                   /\ r.kind = "submit" /\ r.state = "sent"
                   /\ r.approvedIds = yes /\ r.rejectedIds = no
      BY <2>2, RequestFields
    <2>5. yes \subseteq shown /\ no = shown \ yes /\ yes # None
          /\ \A i \in shown : table[i] = "approve" <=> i \in yes
      <3>1. yes \in SUBSET Ids
        BY <2>1 DEF UI!RowsWith, Tables
      <3> QED
        BY <2>1, <2>3, <3>1, ConstantsAssumption DEF UI!RowsWith, Tables
    <2> HIDE DEF yes, no
    <2>6. PanelInv'
      BY <1>0, <1>1, <2>2, <2>3 DEF PanelInv
    <2>7. Answerable'
      <3>1. r \in UI!Posts'
        BY <2>2, <2>4 DEF UI!Posts
      <3> QED
        BY <2>4, <3>1 DEF Answerable
    <2>8. PostInv'
      <3>1. Submission(UI!DecisionOf(r))'
        BY <1>2, <2>2, <2>4, <2>5, PostedFields DEF Submission, UI!DecisionOf
      <3>2. \A c \in calls : c.kind # "submit"
        BY <1>0, <2>3 DEF PostInv, Submission
      <3> QED
        BY <1>0, <1>2, <2>2, <2>4, <3>1, <3>2 DEF PostInv
    <2>9. AnswerInv'
      BY <1>0, <1>2, <2>2, <2>3, <2>4 DEF AnswerInv, Submission, PlanApproved
    <2>10. TableInv'
      <3>1. DOMAIN statuses = shown
        BY <2>1, <2>3 DEF Tables
      <3> QED
        BY <1>0, <1>1, <1>2, <2>2, <2>3, <2>5, <3>1 DEF TableInv
    <2> QED
      BY <1>1, <2>6, <2>7, <2>8, <2>9, <2>10 DEF FaultlessInv
  <1> QED
    BY <1>4, <1>5, <1>7, <1>8, <1>9 DEF Click

\* So does what stands behind the await of a fetch.
LEMMA ContinueInv ==
    ASSUME LInv, GateInv, FaultlessInv, Settled, NEW r \in calls, GoOn(r)
    PROVE  FaultlessInv'
  <1>0. WireOrder /\ PanelInv /\ Answerable /\ PostInv /\ AnswerInv /\ TableInv
    BY DEF FaultlessInv
  <1>1. /\ WireOrder'
        /\ \A i : Unread(i)' <=> Unread(i)
        /\ \A g : GateSeen(g)' <=> GateSeen(g)
        /\ ProposalSeen' <=> ProposalSeen
        /\ \A g : AwaitedAt(g) \subseteq AwaitedAt(g)'
    BY <1>0, NothingLearned DEF GoOn, LiveNext, PageStep
  <1>2. UNCHANGED <<pendingGate, mailbox, consumed, shown, settings, auditLog, planClicks, submitted,
                    edited>>
    BY DEF GoOn, vars, serverVars, recordVars, mailVars, locals, client, history
  <1>3. /\ calls' = calls \ {r} /\ r.state # "sent" /\ UNCHANGED <<rows, statuses>>
        /\ \/ panels' = panels
           \/ panels' = panels \ {"plan"} /\ r.kind = "reject_plan"
    BY DEF GoOn, UI!Continue, UI!ContinueLaunch, UI!ContinueReject, UI!ContinueReport, UI!Forget,
           UI!Settle
  <1>4. PanelInv' /\ TableInv'
    BY <1>0, <1>1, <1>2, <1>3 DEF PanelInv, TableInv
  <1>5. Answerable'
    <2>1. pendingGate \in panels => pendingGate' \in panels'
      <3>1. CASE r.kind = "reject_plan"
        <4>1. r.state = "answered"
          BY <1>0, <1>3, <3>1 DEF PostInv, LInv, LiveTypeOK, UI!UITypeOK, UI!Call
        <4> QED
          BY <1>0, <1>2, <1>3, <3>1, <4>1 DEF PostInv
      <3> QED
        BY <1>2, <1>3, <3>1
    <2> QED
      BY <1>0, <1>1, <1>2, <1>3, <2>1 DEF Answerable, UI!Posts
  <1>6. PostInv' /\ AnswerInv'
    BY <1>0, <1>2, <1>3 DEF PostInv, AnswerInv, Submission, PlanApproved, UI!DecisionOf
  <1> QED
    BY <1>1, <1>4, <1>5, <1>6 DEF FaultlessInv

\* So does the service when it handles a fetch and its reply arrives.
LEMMA ReceiveInv ==
    ASSUME LInv, GateInv, FaultlessInv, Settled, NEW r \in calls, Receive(r)
    PROVE  FaultlessInv'
  <1>0. /\ UI!UITypeOK
        /\ WireOrder /\ PanelInv /\ Answerable /\ PostInv /\ AnswerInv /\ TableInv
    BY DEF LInv, LiveTypeOK, FaultlessInv
  <1>1. /\ WireOrder'
        /\ \A i : Unread(i)' <=> Unread(i)
        /\ \A g : GateSeen(g)' <=> GateSeen(g)
        /\ ProposalSeen' <=> ProposalSeen
        /\ \A g : AwaitedAt(g) \subseteq AwaitedAt(g)'
    <2>1. UNCHANGED <<streamVars, conn>>
      BY DEF Receive, Handle
    <2> QED
      BY <1>0, <2>1, NothingLearned DEF LiveNext, ReceiveStep
  <1>2. /\ UNCHANGED <<panels, rows, statuses, planClicks, submitted, edited, shown, settings, auditLog,
                       consumed>>
        /\ r.state = "sent"
    BY DEF Receive, Handle, history, StartAuditCase, PushApproval, DeliverDecision, Keep, locals, client,
           vars, serverVars, mailVars
  <1>3. PICK c : /\ calls' = (calls \ {r}) \cup {c}
                 /\ c.kind = r.kind /\ c.state \in {"answered", "failed"}
                 /\ c.state = "failed" => c.kind = "report"
                 /\ c.approvedIds = r.approvedIds /\ c.rejectedIds = r.rejectedIds
    <2>1. PICK s \in {"answered", "failed"}, items \in SUBSET Ids :
             Reply(r, s, items) /\ (s = "failed" => r.kind = "report")
      BY CaseFacts, <1>0 DEF Receive, Handle, LiveNext, ReceiveStep
    <2>2. r \in UI!Call
      BY <1>0 DEF UI!UITypeOK
    <2> DEFINE d == [r EXCEPT !.state = s, !.case = TheCase, !.items = items]
    <2>3. /\ d.kind = r.kind /\ d.state = s
          /\ d.approvedIds = r.approvedIds /\ d.rejectedIds = r.rejectedIds
      BY <2>2 DEF UI!Call
    <2>4. calls' = (calls \ {r}) \cup {d}
      BY <2>1 DEF Reply
    <2> QED
      BY <2>1, <2>3, <2>4
  <1>4. PanelInv' /\ TableInv'
    BY <1>0, <1>1, <1>2 DEF PanelInv, TableInv
  <1>5. UI!DecisionOf(c).approvedIds = UI!DecisionOf(r).approvedIds
        /\ UI!DecisionOf(c).rejectedIds = UI!DecisionOf(r).rejectedIds
    BY <1>3, PostedFields
  <1>6. CASE r \in UI!Posts
    <2> DEFINE d == UI!DecisionOf(r)
    <2>1. pendingGate' = NoGate /\ mailbox' = [decision |-> d, postedAt |-> pc]
      BY <1>6 DEF Receive, Handle, UI!Posts, PushApproval, DeliverDecision
    <2>2. mailbox'.decision = d /\ d.approved = (r.kind # "reject_plan")
      BY <2>1, PostedFields
    <2>3. /\ r.kind \in {"approve_plan", "reject_plan", "submit"}
          /\ r.kind = "approve_plan" => "approve" \in planClicks
          /\ r.kind = "reject_plan" => "reject" \in planClicks
          /\ r.kind = "submit" => Submission(d) /\ submitted # None
      BY <1>0, <1>6 DEF PostInv, UI!Posts, Submission
    <2>4. submitted # None => PlanApproved
      BY <1>0, SeenFacts DEF PanelInv
    <2> HIDE DEF d
    <2>5. Submission(d) => Submission(d)'
      BY <1>2 DEF Submission, d, UI!DecisionOf
    <2>6. Answerable'
      BY <2>1 DEF Answerable
    <2>7. PostInv'
      BY <1>0, <1>2, <1>3, <1>5, <2>1 DEF PostInv, Submission, NoGate
    <2>8. AnswerInv'
      <3>1. planClicks # {}
        BY <1>0, <2>3, <2>4 DEF AnswerInv, PlanApproved
      <3>2. CASE r.kind = "approve_plan"
        <4>1. \A q \in calls' : ~(q.kind = "approve_plan" /\ q.state = "sent")
          BY <1>0, <1>2, <1>3, <3>2 DEF PostInv
        <4>2. "reject" \notin planClicks => consumed["plan"] = None
          BY <1>0, <1>2, <3>2 DEF AnswerInv
        <4> QED
          BY <1>0, <1>2, <2>3, <3>1, <3>2, <4>1, <4>2 DEF AnswerInv, PlanApproved, Submission
      <3>3. CASE r.kind = "reject_plan"
        BY <1>0, <1>2, <2>2, <2>3, <3>1, <3>3 DEF AnswerInv, PlanApproved
      <3>4. CASE r.kind = "submit"
        <4>1. PlanApproved /\ consumed["plan"] # None /\ "approve" \in planClicks
          BY <1>0, <2>3, <2>4, <3>4 DEF PlanApproved, AnswerInv
        <4>2. Submission(mailbox.decision)'
          BY <1>2, <2>2, <2>3, <3>4 DEF Submission
        <4>3. \A q \in calls' : q.kind = "approve_plan" => q \in calls
          BY <1>3, <3>4
        <4> QED
          BY <1>0, <1>2, <3>1, <4>1, <4>2, <4>3 DEF AnswerInv, PlanApproved, Submission
      <3> QED
        BY <2>3, <3>2, <3>3, <3>4
    <2> QED
      BY <1>1, <1>4, <2>6, <2>7, <2>8 DEF FaultlessInv
  <1>7. CASE r \notin UI!Posts
    <2>1. UNCHANGED <<pendingGate, mailbox>>
      BY <1>7 DEF Receive, Handle, StartAuditCase, recordVars, mailVars, vars, serverVars
    <2>2. r.kind \notin {"approve_plan", "reject_plan", "submit"}
      BY <1>7 DEF UI!Posts
    <2>3. Answerable'
      BY <1>0, <1>1, <1>2, <1>3, <2>1, <2>2 DEF Answerable, UI!Posts
    <2>4. PostInv' /\ AnswerInv'
      BY <1>0, <1>2, <1>3, <2>1, <2>2
         DEF PostInv, AnswerInv, Submission, PlanApproved, UI!DecisionOf
    <2> QED
      BY <1>1, <1>4, <2>3, <2>4 DEF FaultlessInv
  <1> QED
    BY <1>6, <1>7

\* So does the page when it reads an event.
LEMMA ReadInv ==
    ASSUME LInv, GateInv, FaultlessInv, ReadEvent
    PROVE  FaultlessInv'
  <1> DEFINE j == wire[conn]
             e == queue[j]
  <1>0. /\ IInv /\ MailInv /\ ProgressInv /\ UI!UITypeOK /\ LiveTypeOK
        /\ WireOrder /\ PanelInv /\ Answerable /\ PostInv /\ AnswerInv /\ TableInv
    BY DEF LInv, CaseInv, IInv, LiveTypeOK, FaultlessInv
  <1>1. /\ WireOrder'
        /\ j \in 1 .. Len(queue) /\ Unread(j)
        /\ \A i \in 1 .. Len(queue) : Unread(i)' <=> Unread(i) /\ i # j
        /\ UI!Handle(e)
        /\ UNCHANGED <<vars, history>>
    BY <1>0, ReadFacts
  <1>2. UNCHANGED <<pc, queue, pendingGate, mailbox, consumed, shown, settings, auditLog, planClicks,
                    submitted, edited>>
    BY <1>1 DEF vars, serverVars, recordVars, mailVars, locals, client, history
  <1> HIDE DEF j
  <1>3. /\ \A g : AwaitedAt(g)' = AwaitedAt(g) /\ AwaitedAt(g) \subseteq 1 .. Len(queue)
        /\ EventsOf("proposal")' = EventsOf("proposal")
        /\ EventsOf("proposal") \subseteq 1 .. Len(queue)
        /\ \A g : j \in AwaitedAt(g) <=> e.type = "awaiting_approval" /\ e.gate = g
        /\ j \in EventsOf("proposal") <=> e.type = "proposal"
        /\ j \in EventsOf("written") <=> e.type = "written"
    BY <1>1, <1>2 DEF AwaitedAt, EventsOf
  <1>4. /\ \A g : GateSeen(g) => GateSeen(g)'
        /\ e.type # "proposal" => (ProposalSeen' => ProposalSeen)
        /\ \A g : e.type = "awaiting_approval" /\ e.gate = g => GateSeen(g)'
    BY <1>1, <1>3 DEF GateSeen, ProposalSeen
  <1>5. /\ e.type = "awaiting_approval" => e.gate \in Gates
        /\ \A g \in Gates : \A i, k \in AwaitedAt(g) : i = k
    BY <1>1 DEF LInv, CaseInv, HistoryInv, GateInv
  <1>6. /\ GateSeen("action") => PlanApproved /\ ProposalSeen /\ pc \notin BeforeReview
        /\ GateSeen("plan") => pc \notin {"absent", "created", "plan"}
    BY <1>0, SeenFacts
  <1>7. /\ e.type = "awaiting_approval" => ~GateSeen(e.gate)
        /\ e.type = "proposal" => ~ProposalSeen
    BY <1>1, <1>3, <1>5 DEF GateSeen, ProposalSeen, GateInv
  <1>8. /\ e.type = "awaiting_approval" => panels' = panels \cup {e.gate}
        /\ e.type = "written" => panels' = panels \ {"action"}
        /\ e.type \notin {"awaiting_approval", "written"} => panels' = panels
    BY <1>1 DEF UI!Handle, UI!HandleProposal, UI!HandleAwaitingApproval, UI!HandleWritten,
                UI!HandleReportReady, UI!HandleError, UI!HandleDone, UI!HandleOther
  <1>9. \A c \in calls' : c \in calls \/ (c.kind = "report" /\ c.state = "sent")
    <2>1. e \in AgentEvent(Ids)
      BY <1>0, <1>1 DEF IInv, TypeOK, ServerTypeOK
    <2> QED
      BY <1>0, <1>1, <1>5, <2>1, HandlerFacts
  <1>10. calls \subseteq calls'
    BY <1>1 DEF UI!Handle, UI!HandleProposal, UI!HandleAwaitingApproval, UI!HandleWritten,
                UI!HandleReportReady, UI!HandleError, UI!HandleDone, UI!HandleOther
  <1>11. PanelInv'
    <2>1. \A g \in panels' : GateSeen(g)'
      BY <1>0, <1>4, <1>8 DEF PanelInv
    <2>2. "approve" \in planClicks => "plan" \notin panels'
      BY <1>0, <1>7, <1>8 DEF PanelInv
    <2>3. submitted # None => "action" \notin panels'
      BY <1>0, <1>7, <1>8 DEF PanelInv
    <2> QED
      BY <1>0, <1>2, <1>4, <2>1, <2>2, <2>3 DEF PanelInv
  <1>12. Answerable'
    <2> SUFFICES ASSUME pendingGate # NoGate
                 PROVE  \/ pendingGate \in panels'
                        \/ \E i \in AwaitedAt(pendingGate) : Unread(i)'
                        \/ \E r \in UI!Posts' : r.state = "sent"
      BY <1>2, <1>3 DEF Answerable
    <2>1. CASE pendingGate \in panels
      <3>1. e.type = "written" => pendingGate # "action"
        <4>1. e.type = "written" => pc # "action_wait"
          BY <1>0, <1>3 DEF ProgressInv, NothingLogged, Written, Failing, Ending
        <4> QED
          BY <1>0, <4>1 DEF MailInv, PendingGateIsBlockedGate, WaitPoint, NoGate
      <3> QED
        BY <1>8, <2>1, <3>1
    <2>2. CASE \E i \in AwaitedAt(pendingGate) : Unread(i)
      <3>1. CASE j \in AwaitedAt(pendingGate)
        BY <1>3, <1>8, <3>1
      <3>2. CASE j \notin AwaitedAt(pendingGate)
        BY <1>1, <1>3, <2>2, <3>2
      <3> QED
        BY <3>1, <3>2
    <2>3. CASE \E r \in UI!Posts : r.state = "sent"
      BY <1>10, <2>3 DEF UI!Posts
    <2> QED
      BY <1>0, <2>1, <2>2, <2>3 DEF Answerable
  <1>13. PostInv' /\ AnswerInv'
    BY <1>0, <1>2, <1>9 DEF PostInv, AnswerInv, Submission, PlanApproved, UI!DecisionOf
  <1>14. TableInv'
    <2>1. CASE e.type = "proposal"
      <3>1. rows' = [i \in e.items |-> "approve"] /\ statuses' = [i \in e.items |-> "pending"]
        BY <1>1, <2>1
           DEF UI!Handle, UI!HandleProposal, UI!HandleAwaitingApproval, UI!HandleWritten,
               UI!HandleReportReady, UI!HandleError, UI!HandleDone, UI!HandleOther
      <3>2. e.items = shown /\ submitted = None
        BY <1>0, <1>3, <1>6, <1>7, <2>1 DEF GateInv, PanelInv
      <3> QED
        BY <1>2, <3>1, <3>2 DEF TableInv
    <2>2. CASE e.type = "written"
      <3>1. /\ rows' = rows
            /\ statuses' = [i \in DOMAIN rows |->
                                IF rows[i] = "approve" THEN "approved" ELSE "rejected"]
        BY <1>1, <2>2
           DEF UI!Handle, UI!HandleProposal, UI!HandleAwaitingApproval, UI!HandleWritten,
               UI!HandleReportReady, UI!HandleError, UI!HandleDone, UI!HandleOther
      <3>2. /\ settings.logUrl => auditLog # <<>>
            /\ PlanApproved /\ ActionConsumed
        BY <1>0, <1>3, <2>2 DEF ProgressInv, NothingLogged, Logged, Rows, Chosen, IInv, TypeOK
      <3>3. planClicks # {"approve", "reject"} => submitted # None
        BY <1>0, <3>2 DEF AnswerInv, ActionConsumed, Submission, LiveTypeOK
      <3> QED
        BY <1>0, <1>2, <1>4, <2>2, <3>1, <3>2, <3>3 DEF TableInv
    <2>3. CASE e.type \notin {"proposal", "written"}
      <3>1. UNCHANGED <<rows, statuses>>
        BY <1>1, <2>3
           DEF UI!Handle, UI!HandleProposal, UI!HandleAwaitingApproval, UI!HandleWritten,
               UI!HandleReportReady, UI!HandleError, UI!HandleDone, UI!HandleOther
      <3> QED
        BY <1>0, <1>2, <1>4, <2>3, <3>1 DEF TableInv
    <2> QED
      BY <2>1, <2>2, <2>3
  <1> QED
    BY <1>1, <1>11, <1>12, <1>13, <1>14 DEF FaultlessInv

\* Every step of the session keeps the invariant; a fault ends what it promises.
LEMMA FaultlessStep == SInv /\ [LiveNext]_liveVars => SInv'
  <1> SUFFICES ASSUME SInv, [LiveNext]_liveVars PROVE SInv'
    OBVIOUS
  <1>1. LInv'
    BY SessionStep DEF SInv
  <1>2. GateInv'
    <2>1. [Next]_vars
      BY StepRefinesCase DEF SInv, LInv
    <2> QED
      BY <2>1, GateStep DEF SInv, LInv, CaseInv
  <1>3. ASSUME faults' = 0 PROVE FaultlessInv'
    <2>1. faults \in Nat
      BY LiveAssumption DEF SInv, LInv, LiveTypeOK
    <2>2. ~FaultStep
      BY <1>3, <2>1 DEF FaultStep, BreakStream, LoseReply, LoseRequest, Fault
    <2>3. faults = 0
      BY <1>3, <2>2
         DEF LiveNext, CaseStep, TokenStep, StreamStep, PageStep, GoOn, OpenStream, ReadEvent,
             Disconnected, Click, ReceiveStep, Receive, liveVars
    <2>4. LInv /\ GateInv /\ FaultlessInv
      BY <2>3 DEF SInv
    <2>5. CASE CaseStep
      BY <2>4, <2>5, TaskInv
    <2>6. CASE StreamStep
      BY <2>4, <2>6, NetworkInv
    <2>7. CASE PageStep
      BY <2>4, <2>7, NetworkInv, ContinueInv, ReadInv DEF PageStep
    <2>8. CASE Click
      BY <2>4, <2>8, ClickInv
    <2>9. CASE ReceiveStep
      BY <2>4, <2>9, ReceiveInv DEF ReceiveStep
    <2>10. CASE UNCHANGED liveVars
      <3>1. UNCHANGED <<conn, taken, wire, streams, queue, pendingGate, mailbox, consumed, shown,
                        settings, auditLog, panels, rows, statuses, calls, planClicks, submitted, edited>>
        BY <2>10 DEF liveVars, vars, serverVars, recordVars, mailVars, locals, client, streamVars,
                     pageVars, page, history
      <3>2. /\ \A i : Unread(i)' <=> Unread(i)
            /\ \A g : GateSeen(g)' <=> GateSeen(g)
            /\ ProposalSeen' <=> ProposalSeen
            /\ \A g : AwaitedAt(g) \subseteq AwaitedAt(g)'
        BY <3>1, <2>4, <2>10, NothingLearned DEF streamVars, liveVars, pageVars
      <3>3. WireOrder' /\ PanelInv' /\ Answerable' /\ TableInv'
        BY <2>4, <3>1, <3>2 DEF FaultlessInv, WireOrder, PanelInv, Answerable, TableInv, UI!Posts
      <3>4. PostInv' /\ AnswerInv'
        BY <2>4, <3>1
           DEF FaultlessInv, PostInv, AnswerInv, Submission, PlanApproved, UI!DecisionOf
      <3> QED
        BY <3>3, <3>4 DEF FaultlessInv
    <2>11. CASE TokenStep
      BY <2>4, <2>11, TokenStepInv
    <2> QED
      BY <2>2, <2>5, <2>6, <2>7, <2>8, <2>9, <2>10, <2>11 DEF LiveNext
  <1> QED
    BY <1>1, <1>2, <1>3 DEF SInv

\* The initial state satisfies it.
LEMMA FaultlessInit == LiveInit => SInv
  <1> SUFFICES ASSUME LiveInit PROVE SInv
    OBVIOUS
  <1>1. LInv /\ GateInv
    BY SessionInit, GateInit DEF LiveInit
  <1>2. /\ queue = <<>> /\ pendingGate = NoGate /\ mailbox = None
        /\ consumed["plan"] = None /\ consumed["action"] = None
        /\ panels = {} /\ calls = {} /\ rows = UI!NoRows /\ statuses = UI!NoRows
        /\ planClicks = {} /\ submitted = None
    BY DEF LiveInit, Init, ServerInit, UI!UIInit, Gates
  <1>3. \A s \in Streams : streams[s] = "off" /\ wire[s] = 0
    BY DEF LiveInit, StreamInit
  <1>4. WireOrder
    BY <1>3 DEF WireOrder
  <1>5. ~ProposalSeen /\ DOMAIN statuses = {}
    BY <1>2 DEF ProposalSeen, EventsOf, UI!NoRows
  <1>6. PanelInv /\ Answerable /\ TableInv
    BY <1>2, <1>5 DEF PanelInv, Answerable, TableInv
  <1>7. PostInv /\ AnswerInv
    BY <1>2 DEF PostInv, AnswerInv, PlanApproved
  <1> QED
    BY <1>1, <1>4, <1>6, <1>7 DEF SInv, FaultlessInv

\* The invariant is inductive, hence it always holds.
THEOREM FaultlessInvariance == LiveSpec => []SInv
  BY FaultlessInit, FaultlessStep, PTL DEF LiveSpec

\* As long as nothing was lost, the gate a case waits at can be answered from the
\* page, or its announcement is on the way, or an answer is: no order of clicks,
\* streamed events and replies hides the panel of a pending gate.
THEOREM PendingGateAnswerable == LiveSpec => []PendingGateIsShown
  <1>1. SInv => PendingGateIsShown
    BY DEF SInv, FaultlessInv, Answerable, PendingGateIsShown, AwaitedAt, EventsOf
  <1> QED
    BY <1>1, FaultlessInvariance, PTL

\* What the log of a faultless session holds, if Gate 1 was answered one way only.
LEMMA LoggedSubmission ==
    ASSUME SInv, faults = 0, planClicks # {"approve", "reject"}, auditLog # <<>>
    PROVE  submitted # None /\ auditLog[1] = submitted
  <1>1. auditLog = <<approvedItems>> /\ Logged
    BY DEF SInv, LInv, CaseInv, IInv, ProgressInv, NothingLogged, Rows
  <1>2. "approve" \in planClicks /\ planClicks \subseteq {"approve", "reject"}
    BY <1>1 DEF SInv, LInv, LiveTypeOK, FaultlessInv, AnswerInv, Logged
  <1>3. Submission(consumed["action"].decision)
    BY <1>1, <1>2 DEF SInv, FaultlessInv, AnswerInv, Logged, Chosen, ActionConsumed
  <1>4. Selected(consumed["action"].decision, shown) = submitted
    BY <1>3 DEF Selected, Submission
  <1> QED
    BY <1>1, <1>3, <1>4 DEF Logged, Chosen, Submission

\* What is logged is what the reviewer submitted, finding by finding, through rows,
\* post, mailbox, selection and write, for any number of findings.
THEOREM SubmissionIsLogged == LiveSpec => []LogIsSubmission
  <1>1. SInv => LogIsSubmission
    BY LoggedSubmission DEF LogIsSubmission
  <1> QED
    BY <1>1, FaultlessInvariance, PTL

\* If there is a log, the page says approved of what was logged and rejected of what was
\* not, although it takes that from its own rows and never asks the log; but of the rows
\* edited after the submission nothing is said, whose statuses may be wrong.
THEOREM StatusesFollowLog == LiveSpec => []StatusesMatchLog
  <1>1. SInv => StatusesMatchLog
    BY LoggedSubmission DEF StatusesMatchLog, SInv, FaultlessInv, TableInv
  <1> QED
    BY <1>1, FaultlessInvariance, PTL

\* What the blueprint says of approved findings holds for the page as long as
\* nothing is lost: only a reader that misses the proposal submits two empty lists.
THEOREM ApprovedAreLogged == LiveSpec => [](faults = 0 => OnlyApprovedLogged)
  <1>1. SInv => (faults = 0 => OnlyApprovedLogged)
    BY LoggedSubmission DEF OnlyApprovedLogged
  <1> QED
    BY <1>1, FaultlessInvariance, PTL
===============================================================================
