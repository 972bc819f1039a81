----------------------------- MODULE MCAppHost -----------------------------
(* Small instances of AppHost. *)
EXTENDS AppHost, TLC
CONSTANTS s1, s2, s3, s4, r1, r2

(* Build times: the order SHAs were built in, not the order they are released *)
BuiltInOrder == [s \in Bundles |-> CASE s = s1 -> 1 [] s = s2 -> 2 [] s = s3 -> 3 [] s = s4 -> 4]
=============================================================================
