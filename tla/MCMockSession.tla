----------------------------- MODULE MCMockSession -----------------------------
(* Two cases, as the page launches them one after the other. *)
EXTENDS MockSession

CONSTANT inv1

MCCases == 1 .. 2
MCIds == {inv1}
===============================================================================
