----------------------------- MODULE MCUiPathRunner -----------------------------
(* UiPathRunner with the values of MCCase for its constants. *)
EXTENDS UiPathRunner, MCCase

Deployment(data, log, auth) == [dataUrls |-> data, logUrl |-> log, oauth |-> auth]

\* Everything configured, no read URLs, nothing.
MCDeployments ==
    {Deployment(TRUE, TRUE, TRUE), Deployment(FALSE, TRUE, TRUE),
     Deployment(FALSE, FALSE, FALSE)}
===============================================================================
