-------------------------- MODULE MCStackLifecycle --------------------------
(* Small instances of StackLifecycle. *)
EXTENDS StackLifecycle, TLC
CONSTANTS prd, e1, e2, c1, c2, c3
=============================================================================
