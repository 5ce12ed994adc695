----------------------------- MODULE MCReviewerSession -----------------------------
(* ReviewerSession with the values of MCCase for its constants. *)
EXTENDS ReviewerSession, MCCase

\* Everything configured, nothing.
MCDeployments == {[dataUrls |-> on, logUrl |-> on, oauth |-> on] : on \in BOOLEAN}
===============================================================================
