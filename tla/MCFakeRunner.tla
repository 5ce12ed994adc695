----------------------------- MODULE MCFakeRunner -----------------------------
(* FakeRunner with the values of MCCase for its constants. *)
EXTENDS FakeRunner, MCCase
===============================================================================
