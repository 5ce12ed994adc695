----------------------------- MODULE UiPathClients -----------------------------
(***************************************************************************)
(* One DataServiceStore with its UiPathAuth (fraudcase_ai/uipath/          *)
(* clients.py) for the time of one job: coroutines that each wait for a    *)
(* token and then for the answer to their request.  All of them ask before *)
(* any token has arrived, so that each fetches one, and which of them is   *)
(* kept matters to nobody here.  How a token ages in a client that         *)
(* outlives a human decision is in UiPathRunner.                           *)
(***************************************************************************)
CONSTANT Callers    \* the coroutines a client may run

VARIABLE calls      \* per caller: where it is

Idle == [c \in Callers |-> "idle"]

ClientTypeOK == calls \in [Callers -> {"idle", "auth", "request", "answered"}]

\* Callers S run up to their first await: the POST for a token, or the request if no
\* OAuth settings are there.
Ask(S, oauth) ==
    calls' = [c \in Callers |->
                 IF c \notin S THEN "idle" ELSE IF oauth THEN "auth" ELSE "request"]

TokenGranted(c) ==
    /\ calls[c] = "auth"
    /\ calls' = [calls EXCEPT ![c] = "request"]

Answered(c) ==
    /\ calls[c] = "request"
    /\ calls' = [calls EXCEPT ![c] = "answered"]

Pending(c) == calls[c] \in {"auth", "request"}

\* The job is over; nobody uses its client again.
Dropped == calls' = Idle
===============================================================================
