--------------------------- MODULE MCReleaseStore ---------------------------
(***************************************************************************)
(* Small instances of ReleaseStore and of its refinement.                  *)
(***************************************************************************)
EXTENDS ReleaseStoreRefinement, TLC
CONSTANTS h1, h2, h3, e1, e2, o1, o2, amd64, arm64, NoArch

(* Several operators: two hosts of one environment share a manifest, and a
   sweep has two to read. *)
Pairwise == h1 :> e1 @@ h2 :> e1 @@ h3 :> e2
OneArch == [h \in Hosts |-> NoArch]
Symmetry == Permutations({o1, o2}) \cup Permutations({h1, h2})
(* No guard reads `live`: states that differ in it alone go on alike. *)
AllButLive == <<artifacts, clock, manifest, up, pc, job, sweep, cas, held>>

(* One operator. *)
OneEnv == [h \in Hosts |-> e1]
TwoArchs == h1 :> amd64 @@ h2 :> arm64
Sequential == {o1}

=============================================================================
