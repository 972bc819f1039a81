----------------------- MODULE ReleaseStoreRefinement -----------------------
(***************************************************************************)
(* The conditional-PUT protocol of ReleaseStore implements the atomic      *)
(* per-host registers of ManifestRegister.                                 *)
(***************************************************************************)
EXTENDS ReleaseStore
CONSTANT NoRequest

(* What the manifests show at the level of the promise *)
Deployed == [e \in Envs |-> IF manifest[e] = NoManifest THEN Empty ELSE manifest[e]]
Pending == [o \in Operators |->
    IF pc[o] \in {"load", "put"}
    THEN [env |-> job[o].env, host |-> job[o].host, sha |-> job[o].sha] ELSE NoRequest]

Register == INSTANCE ManifestRegister WITH deployed <- Deployed, pending <- Pending

ASSUME NoRequestAssumption == NoRequest \notin Register!Requests

(* A manifest update is atomic per host: it takes effect once or not at all,
   and no concurrent writer clobbers another host's entry
   (manifest.go:98-101). *)
ImplementsRegister == Register!Spec
=============================================================================
