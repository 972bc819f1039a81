----------------------------- MODULE MCMeshTrust -----------------------------
(* Small instances of MeshTrust. *)
EXTENDS MeshTrust, TLC
CONSTANTS eu, us, m1, m2, m3, r1

GlobalAndTwoRegions == m1 :> Global @@ m2 :> eu @@ m3 :> us
(* The regions, each with its member, are interchangeable *)
Symmetry == {eu :> us @@ us :> eu @@ m2 :> m3 @@ m3 :> m2}
=============================================================================
