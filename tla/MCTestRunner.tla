---------------------------- MODULE MCTestRunner ----------------------------
(* One link in two tabs; a reload is the second one.                       *)
EXTENDS TestRunner
=============================================================================
