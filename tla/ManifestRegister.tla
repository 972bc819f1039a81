-------------------------- MODULE ManifestRegister --------------------------
(***************************************************************************)
(* What the manifests promise their callers (release.Store.SetDeployment,  *)
(* DeleteEnvManifests): per environment, one register per host.  A request *)
(* to set one host's register either takes effect at one instant, touching *)
(* no other host's, or fails with no effect; an environment is cleared as  *)
(* a whole.  ReleaseStore implements this with GETs and conditional PUTs.  *)
(***************************************************************************)
CONSTANTS Shas, Hosts, Envs, Operators, NoSHA, NoRequest

VARIABLES
    deployed, \* env -> host -> the SHA recorded for it
    pending   \* operator -> the update it waits for

vars == <<deployed, pending>>

Requests == [env : Envs, host : Hosts, sha : Shas]

Init ==
    /\ deployed = [e \in Envs |-> [h \in Hosts |-> NoSHA]]
    /\ pending = [o \in Operators |-> NoRequest]

Request(o) ==
    /\ pending[o] = NoRequest
    /\ \E r \in Requests : pending' = [pending EXCEPT ![o] = r]
    /\ UNCHANGED deployed

Commit(o) ==
    /\ pending[o] # NoRequest
    /\ deployed' = [deployed EXCEPT ![pending[o].env][pending[o].host] = pending[o].sha]
    /\ pending' = [pending EXCEPT ![o] = NoRequest]

Fail(o) ==
    /\ pending[o] # NoRequest
    /\ pending' = [pending EXCEPT ![o] = NoRequest]
    /\ UNCHANGED deployed

Clear(e) ==
    /\ deployed' = [deployed EXCEPT ![e] = [h \in Hosts |-> NoSHA]]
    /\ UNCHANGED pending

Next == (\E o \in Operators : Request(o) \/ Commit(o) \/ Fail(o)) \/ (\E e \in Envs : Clear(e))
Spec == Init /\ [][Next]_vars
=============================================================================
