------------------------------ MODULE CaseStream ------------------------------
(***************************************************************************)
(* The event streams of a live case (GET /api/events, _sse_generator in    *)
(* fraudcase_ai/server/app.py).  All streams of a case take from its one   *)
(* asyncio queue, so an event goes to one of them and to nobody else: not  *)
(* to a second reader, and not again to a reader that comes back.          *)
(*                                                                         *)
(* A generator runs on the loop of the task, so it takes only where the    *)
(* task is suspended.  The server learns late that a connection is gone.   *)
(***************************************************************************)
EXTENDS UiPathRunner

CONSTANT MaxStreams     \* bound: requests of GET /api/events for the case

ASSUME StreamAssumption == MaxStreams \in Nat

Streams == 1 .. MaxStreams

VARIABLES opened,       \* requests made so far; the next one gets the next number
          streams,      \* per request: not made, open, gone unnoticed, ended
          wire,         \* per request: the event under way, by index, or 0
          taken,        \* how many events have left the queue
          sentinelTaken \* so has the None that follows them

streamVars == <<opened, streams, wire, taken, sentinelTaken>>

StreamTypeOK ==
    /\ opened \in 0 .. MaxStreams
    /\ streams \in [Streams -> {"off", "open", "gone", "ended"}]
    /\ taken \in 0 .. Len(queue)
    /\ wire \in [Streams -> 0 .. taken]
    /\ sentinelTaken \in BOOLEAN

StreamInit ==
    /\ opened = 0 /\ taken = 0 /\ sentinelTaken = FALSE
    /\ streams = [s \in Streams |-> "off"]
    /\ wire = [s \in Streams |-> 0]

\* stream_events: 404 before the case exists.
Connect ==
    /\ pc \in Suspensions
    /\ opened < MaxStreams
    /\ opened' = opened + 1
    /\ streams' = [streams EXCEPT ![opened + 1] = "open"]
    /\ UNCHANGED <<wire, taken, sentinelTaken>>

\* Mutant: put suspends, as it would on a bounded queue.
RunningAnywhere(s) == streams[s] \in {"open", "gone"}

Running(s) == pc \in Suspensions /\ streams[s] \in {"open", "gone"}

\* queue.get() and yield, one event on the wire at a time; what is sent on a
\* connection that is gone is lost.  DONE is the last event of a stream.
SendEvent(s) ==
    /\ Running(s)
    /\ taken < Len(queue)
    /\ wire[s] = 0
    /\ taken' = taken + 1
    /\ wire' = [wire EXCEPT ![s] = IF streams[s] = "open" THEN taken + 1 ELSE 0]
    /\ streams' = IF queue[taken + 1].type = "done"
                  THEN [streams EXCEPT ![s] = "ended"] ELSE streams
    /\ UNCHANGED <<opened, sentinelTaken>>

\* queue.get() returns None.
SendEnd(s) ==
    /\ Running(s)
    /\ taken = Len(queue) /\ ended /\ ~sentinelTaken
    /\ sentinelTaken' = TRUE
    /\ streams' = [streams EXCEPT ![s] = "ended"]
    /\ UNCHANGED <<opened, wire, taken>>

Serve == \E s \in Streams : SendEvent(s) \/ SendEnd(s)

\* The connection breaks with what is on it; the server does not know yet.
Break(s) ==
    /\ streams[s] = "open"
    /\ streams' = [streams EXCEPT ![s] = "gone"]
    /\ wire' = [wire EXCEPT ![s] = 0]
    /\ UNCHANGED <<opened, taken, sentinelTaken>>

\* The server closes the response of a client that is gone.
Notice(s) ==
    /\ streams[s] = "gone"
    /\ streams' = [streams EXCEPT ![s] = "ended"]
    /\ UNCHANGED <<opened, wire, taken, sentinelTaken>>
===============================================================================
