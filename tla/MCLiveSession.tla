----------------------------- MODULE MCLiveSession -----------------------------
(* Two invoices and every decision about them. *)
EXTENDS LiveSession

CONSTANTS inv1, inv2

MCIds == {inv1, inv2}
AllDecisions == Decision

Deployment(data, log, auth) == [dataUrls |-> data, logUrl |-> log, oauth |-> auth]

\* With and without an audit log.
WithAndWithoutLog == {Deployment(TRUE, TRUE, FALSE), Deployment(TRUE, FALSE, FALSE)}

\* Everything configured, nothing.
AllAndNothing == {Deployment(TRUE, TRUE, TRUE), Deployment(FALSE, FALSE, FALSE)}
===============================================================================
