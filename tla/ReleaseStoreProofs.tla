------------------------- MODULE ReleaseStoreProofs -------------------------
(***************************************************************************)
(* What holds of ReleaseStore, and below of AppHost, for every value of    *)
(* their constants.                                                        *)
(***************************************************************************)
EXTENDS ReleaseStoreRefinement, AppHost, FiniteSetTheorems, WellFoundedInduction, TLAPS

(* A command past its start knows what it delivers and where. *)
JobOK ==
    \A o \in Operators :
        /\ pc[o] \in {"download", "deliver", "load", "put", "apply"} =>
              job[o].env \in Envs /\ job[o].sha \in Shas
        /\ pc[o] \in {"load", "put", "apply"} => job[o].host \in Hosts
        /\ pc[o] = "unpin" => job[o].env \in Envs

LEMMA Blanks == NoJob \in Jobs /\ NoSweep \in Sweeps /\ NoCAS \in Updates
  BY DEF NoJob, Jobs, NoSweep, Sweeps, NoCAS, Updates

LEMMA SmallUpdates ==
    ASSUME NEW c \in Updates, NEW m \in Manifest \cup {NoManifest}
    PROVE  [c EXCEPT !.seen = m, !.stale = FALSE] \in Updates
  BY DEF Updates

LEMMA TypeInitial == Init => TypeOK /\ JobOK
  BY Blanks, ConstantsAssumption, NoManifestAssumption DEF Init, TypeOK, JobOK, Labels

LEMMA TypeStep == TypeOK /\ JobOK /\ [Next]_vars => TypeOK' /\ JobOK'
<1>2. TypeOK /\ JobOK /\ [Next]_vars => TypeOK' /\ JobOK'
  <2> SUFFICES ASSUME TypeOK, JobOK, [Next]_vars PROVE TypeOK' /\ JobOK'
    OBVIOUS
  <2> USE ConstantsAssumption DEF JobOK, Labels, Goto, storeVars, hostVars
  <2>0. ASSUME NEW o \in Operators, End(o), UNCHANGED <<storeVars, manifest, up>>,
               live' \in [Hosts -> Shas \cup {NoSHA}]
        PROVE  TypeOK' /\ JobOK'
    BY Blanks, <2>0 DEF TypeOK, End
  <2>a. ASSUME NEW o \in Operators, NEW e, NEW m \in Manifest \cup {NoManifest}, Store(o, e, m)
        PROVE  /\ manifest' \in [Envs -> Manifest \cup {NoManifest}]
               /\ cas' \in [Operators -> Updates]
               /\ held' \in [Operators -> SUBSET (Hosts \X Shas)]
    <3>1. \A p \in Operators : [cas[p] EXCEPT !.stale = TRUE, !.rivals = IF @ < MaxAttempts THEN @ + 1 ELSE @] \in Updates
      <4> SUFFICES ASSUME NEW p \in Operators
                   PROVE [cas[p] EXCEPT !.stale = TRUE, !.rivals = IF @ < MaxAttempts THEN @ + 1 ELSE @] \in Updates
        OBVIOUS
      <4>1. cas[p] \in Updates /\ (IF cas[p].rivals < MaxAttempts THEN cas[p].rivals + 1 ELSE cas[p].rivals) \in Nat
        BY DEF TypeOK, Updates
      <4> QED BY <4>1 DEF Updates
    <3> QED BY Blanks, <2>a, <3>1 DEF TypeOK, Store
  <2>1. ASSUME NEW o \in Operators, Push(o) PROVE TypeOK' /\ JobOK'
    BY <2>1 DEF TypeOK, Push, Keys
  <2>2. ASSUME NEW o \in Operators, Sweeping(o) PROVE TypeOK' /\ JobOK'
    <3>0. ASSUME sweep' \in [Operators -> Sweeps], UNCHANGED <<clock, manifest, up, live, job, cas>>,
                 artifacts' \in [Keys -> Nat], held' \in [Operators -> SUBSET (Hosts \X Shas)],
                 \/ UNCHANGED pc
                 \/ \E l \in {"listPins", "readPins", "delete"} : pc' = [pc EXCEPT ![o] = l]
          PROVE  TypeOK' /\ JobOK'
      BY <3>0 DEF TypeOK
    <3> DEFINE w == sweep[o]
    <3>w. w \in Sweeps
      BY DEF TypeOK
    <3>1. CASE ListArtifacts(o)
      <4>1. [w EXCEPT !.listed = artifacts] \in Sweeps
        BY <3>w DEF TypeOK, Sweeps
      <4> QED BY <3>1, <3>0, <4>1 DEF TypeOK, ListArtifacts
    <3>2. CASE ListManifests(o)
      <4>1. [w EXCEPT !.unread = {e \in Envs : manifest[e] # NoManifest}, !.pinned = {}] \in Sweeps
        BY <3>w DEF Sweeps
      <4> QED BY <3>2, <3>0, <4>1 DEF TypeOK, ListManifests, Pins
    <3>3. CASE ReadManifest(o)
      <4>1. CASE End(o)
        BY <4>1, <3>3, <2>0 DEF TypeOK, ReadManifest
      <4>2. ASSUME NEW e \in Envs, manifest[e] # NoManifest
            PROVE  [w EXCEPT !.unread = w.unread \ {e}, !.pinned = w.pinned \cup ShasOf(manifest[e])] \in Sweeps
        <5>1. ShasOf(manifest[e]) \subseteq Shas
          BY DEF ShasOf, TypeOK, Manifest
        <5> QED BY <3>w, <5>1 DEF Sweeps
      <4> HIDE DEF w
      <4>3. sweep[o].unread \subseteq Envs
        BY <3>w DEF w, Sweeps
      <4>4. CASE ~End(o)
        <5>0. PICK e \in sweep[o].unread :
                 /\ manifest[e] # NoManifest
                 /\ sweep' = [sweep EXCEPT ![o] = [sweep[o] EXCEPT
                          !.unread = sweep[o].unread \ {e}, !.pinned = sweep[o].pinned \cup ShasOf(manifest[e])]]
          BY <3>3, <4>4 DEF ReadManifest
        <5>1. sweep' \in [Operators -> Sweeps]
          <6>1. sweep \in [Operators -> Sweeps]
            BY DEF TypeOK
          <6>2. \E x \in Sweeps : sweep' = [sweep EXCEPT ![o] = x]
            BY <5>0, <4>2, <4>3 DEF w
          <6> QED BY <6>1, <6>2
        <5> QED BY <3>3, <4>4, <3>0, <5>1 DEF TypeOK, ReadManifest
      <4> QED BY <4>1, <4>4
    <3>4. CASE SelectVictims(o)
      <4>1. \A D \in SUBSET Keys : [w EXCEPT !.doomed = D, !.gone = {}] \in Sweeps
        BY <3>w DEF Sweeps
      <4> QED BY <3>4, <3>0, <4>1 DEF TypeOK, SelectVictims
    <3>5. CASE DeleteVariant(o)
      <4>1. \A k \in Keys : /\ [w EXCEPT !.doomed = w.doomed \ {k}, !.gone = w.gone \cup {k}] \in Sweeps
                            /\ [w EXCEPT !.doomed = w.doomed \ {k}] \in Sweeps
        BY <3>w DEF Sweeps
      <4>2. sweep[o].doomed \subseteq Keys
        BY <3>w DEF Sweeps
      <4>3. \A k \in Keys : [artifacts EXCEPT ![k] = 0] \in [Keys -> Nat]
        BY DEF TypeOK
      <4>0. PICK k \in sweep[o].doomed :
               /\ sweep' \in {[sweep EXCEPT ![o] = [sweep[o] EXCEPT !.doomed = sweep[o].doomed \ {k}, !.gone = sweep[o].gone \cup {k}]],
                              [sweep EXCEPT ![o] = [sweep[o] EXCEPT !.doomed = sweep[o].doomed \ {k}]]}
               /\ artifacts' \in {artifacts, [artifacts EXCEPT ![k] = 0]}
        BY <3>5 DEF DeleteVariant
      <4>4. sweep' \in [Operators -> Sweeps]
        <5>1. sweep \in [Operators -> Sweeps] /\ k \in Keys
          BY <4>2 DEF TypeOK
        <5>2. \E x \in Sweeps : sweep' = [sweep EXCEPT ![o] = x]
          BY <4>0, <4>1, <5>1
        <5> QED BY <5>1, <5>2
      <4>5. artifacts' \in [Keys -> Nat]
        BY <4>0, <4>2, <4>3 DEF TypeOK
      <4> QED BY <3>5, <3>0, <4>4, <4>5 DEF TypeOK, DeleteVariant
    <3>6. CASE FinishSweep(o)
      BY <3>6, <2>0 DEF TypeOK, FinishSweep
    <3> QED BY <2>2, <3>1, <3>2, <3>3, <3>4, <3>5, <3>6 DEF Sweeping
  <2>o. ASSUME NEW o \in Operators, NEW s \in Shas \cup {NoSHA}, NEW e \in Envs, Order(o, s, e)
        PROVE  job' \in [Operators -> Jobs] /\ job'[o].env = e /\ job'[o].sha = s
               /\ \A p \in Operators : p # o => job'[p] = job[p]
    <3>1. [sha |-> s, env |-> e, todo |-> TargetsOf(e), host |-> NoSHA] \in Jobs
      BY DEF Jobs, TargetsOf
    <3> QED BY <2>o, <3>1 DEF Order, TypeOK
  <2>3. ASSUME NEW o \in Operators, StartDeploy(o) \/ StartRollback(o) PROVE TypeOK' /\ JobOK'
    <3>1. PICK s \in Shas, e \in Envs : Order(o, s, e)
      BY <2>3 DEF StartDeploy, StartRollback
    <3> QED BY <2>3, <3>1, <2>o DEF TypeOK, StartDeploy, StartRollback
  <2>4. ASSUME NEW o \in Operators, Delivering(o) PROVE TypeOK' /\ JobOK'
    <3>1. CASE Download(o)
      BY <3>1, <2>0 DEF TypeOK, Download
    <3>2. CASE NextHost(o)
      <4>1. PICK h \in job[o].todo : job' = [job EXCEPT ![o] = [job[o] EXCEPT !.host = h, !.todo = job[o].todo \ {h}]]
        BY <3>2 DEF NextHost
      <4>2. /\ h \in Hosts
            /\ [job[o] EXCEPT !.host = h, !.todo = job[o].todo \ {h}] \in Jobs
            /\ [job[o] EXCEPT !.host = h, !.todo = job[o].todo \ {h}].env = job[o].env
            /\ [job[o] EXCEPT !.host = h, !.todo = job[o].todo \ {h}].sha = job[o].sha
            /\ [job[o] EXCEPT !.host = h, !.todo = job[o].todo \ {h}].host = h
        <5>1. job[o] \in Jobs
          BY DEF TypeOK
        <5> QED BY <5>1 DEF Jobs
      <4> DEFINE j == [job[o] EXCEPT !.host = h, !.todo = job[o].todo \ {h}]
      <4>3. job' \in [Operators -> Jobs] /\ job'[o] = j /\ \A p \in Operators : p # o => job'[p] = job[p]
        <5>1. job \in [Operators -> Jobs]
          BY DEF TypeOK
        <5>2. job' = [job EXCEPT ![o] = j] /\ j \in Jobs
          BY <4>1, <4>2
        <5> HIDE DEF j
        <5> QED BY <5>1, <5>2
      <4>4. /\ pc[o] = "deliver" /\ pc' = [pc EXCEPT ![o] = "load"]
            /\ UNCHANGED <<artifacts, clock, manifest, up, live, sweep, cas, held>>
        BY <3>2 DEF NextHost
      <4>5. TypeOK'
        BY <4>3, <4>4 DEF TypeOK
      <4>6. j.env \in Envs /\ j.sha \in Shas /\ j.host \in Hosts
        BY <4>2, <4>4 DEF TypeOK
      <4> HIDE DEF j
      <4> QED BY <4>3, <4>4, <4>5, <4>6 DEF TypeOK
    <3>3. CASE LoadManifest(o)
      <4>1. pc[o] = "load" /\ job[o].env \in Envs
        BY <3>3 DEF LoadManifest
      <4>2. cas[o] \in Updates /\ manifest[job[o].env] \in Manifest \cup {NoManifest}
        BY <4>1 DEF TypeOK
      <4>3. [cas[o] EXCEPT !.seen = manifest[job[o].env], !.stale = FALSE] \in Updates
        BY <4>2, SmallUpdates
      <4>4. cas' \in [Operators -> Updates]
        <5>1. cas \in [Operators -> Updates]
          BY DEF TypeOK
        <5>2. \E x \in Updates : cas' = [cas EXCEPT ![o] = x]
          BY <3>3, <4>3 DEF LoadManifest
        <5> QED BY <5>1, <5>2
      <4> QED BY <3>3, <4>4 DEF TypeOK, LoadManifest
    <3>4. CASE PutManifest(o)
      <4> DEFINE m == IF cas[o].seen = NoManifest THEN Empty ELSE cas[o].seen
      <4>1. [m EXCEPT ![job[o].host] = job[o].sha] \in Manifest
        BY <3>4 DEF TypeOK, Updates, Manifest, Empty, PutManifest
      <4> HIDE DEF m
      <4>2. Store(o, job[o].env, [m EXCEPT ![job[o].host] = job[o].sha])
        BY <3>4 DEF PutManifest, m
      <4>3. /\ manifest' \in [Envs -> Manifest \cup {NoManifest}]
            /\ cas' \in [Operators -> Updates]
            /\ held' \in [Operators -> SUBSET (Hosts \X Shas)]
        BY <4>1, <4>2, <2>a
      <4> QED BY <3>4, <4>3 DEF TypeOK, PutManifest
    <3>5. CASE PutRefused(o)
      <4>0. NoCAS.seen = NoManifest /\ NoCAS.stale = FALSE
        BY DEF NoCAS
      <4>1. [NoCAS EXCEPT !.tries = cas[o].tries + 1, !.rivals = cas[o].rivals] \in Updates
        <5>1. cas[o].tries + 1 \in Nat /\ cas[o].rivals \in Nat
          BY DEF TypeOK, Updates
        <5> QED BY Blanks, <5>1 DEF Updates
      <4> QED BY <3>5, <2>0, <4>1 DEF TypeOK, PutRefused
    <3>6. CASE Apply(o)
      BY <3>6, <2>0 DEF TypeOK, Apply
    <3>7. CASE FinishDeploy(o)
      BY <3>7, <2>0 DEF TypeOK, FinishDeploy
    <3> QED BY <2>4, <3>1, <3>2, <3>3, <3>4, <3>5, <3>6, <3>7 DEF Delivering
  <2>5. ASSUME NEW o \in Operators, Destroy(o) PROVE TypeOK' /\ JobOK'
    <3>1. PICK e \in Envs : Order(o, NoSHA, e) /\ up' = [up EXCEPT ![e] = FALSE]
                              /\ live' = [h \in Hosts |-> IF EnvOf[h] = e THEN NoSHA ELSE live[h]]
      BY <2>5 DEF Destroy
    <3>2. live' \in [Hosts -> Shas \cup {NoSHA}] /\ up' \in [Envs -> BOOLEAN]
      BY <3>1 DEF TypeOK
    <3>3. job' \in [Operators -> Jobs] /\ job'[o].env = e /\ \A p \in Operators : p # o => job'[p] = job[p]
      BY <3>1, <2>o
    <3>4. pc' = [pc EXCEPT ![o] = "unpin"] /\ UNCHANGED <<artifacts, clock, manifest, sweep, cas, held>>
      BY <2>5 DEF Destroy
    <3> QED BY <3>2, <3>3, <3>4 DEF TypeOK
  <2>6. ASSUME NEW o \in Operators, DeleteEnvManifests(o) PROVE TypeOK' /\ JobOK'
    BY <2>6, Blanks, <2>a DEF TypeOK, DeleteEnvManifests
  <2>7. ASSUME NEW o \in Operators, Abort(o) PROVE TypeOK' /\ JobOK'
    BY <2>7, <2>0 DEF TypeOK, Abort
  <2>8. ASSUME NEW e \in Envs, BringUp(e) PROVE TypeOK' /\ JobOK'
    BY <2>8 DEF TypeOK, BringUp
  <2>9. CASE UNCHANGED vars
    BY <2>9 DEF TypeOK, vars
  <2> QED BY <2>1, <2>2, <2>3, <2>4, <2>5, <2>6, <2>7, <2>8, <2>9 DEF Next, Step
<1> QED BY <1>2

(* Every reachable state has the declared shape. *)
THEOREM TypeCorrect == Spec => []TypeOK
<1>1. Spec => [](TypeOK /\ JobOK)
  BY TypeInitial, TypeStep, PTL DEF Spec
<1> QED BY <1>1, PTL

-----------------------------------------------------------------------------
(* The compare-and-swap: an update whose ETag is not stale has read the
   manifest as it is now. *)
FreshOK ==
    \A o \in Operators : pc[o] = "put" /\ ~cas[o].stale => manifest[job[o].env] = cas[o].seen

(* At a conditional PUT that is accepted the object is the one that was read. *)
AcceptedIsCurrent ==
    \A o \in Operators : pc[o] = "put" /\ Matches(o) => manifest[job[o].env] = cas[o].seen

LEMMA FreshInitial == Init => FreshOK
  BY DEF Init, FreshOK

(* A step of o disturbs FreshOK of another operator only by storing that
   operator's manifest, which marks it stale. *)
LEMMA FreshStep ==
    ASSUME TypeOK, JobOK, FreshOK, [Next]_vars
    PROVE  FreshOK'
<1> USE DEF FreshOK, Goto, storeVars, hostVars
<1>0. ASSUME NEW o \in Operators, UNCHANGED manifest,
             \A p \in Operators \ {o} : /\ pc'[p] = pc[p] /\ job'[p] = job[p]
                                        /\ cas'[p] = cas[p],
             pc'[o] # "put"
      PROVE  FreshOK'
  BY <1>0
<1>e. ASSUME NEW o \in Operators, End(o), UNCHANGED manifest PROVE FreshOK'
  BY <1>e, <1>0 DEF End, TypeOK
<1>s. ASSUME NEW o \in Operators, NEW e, NEW m, Store(o, e, m), JobOK', pc'[o] # "put",
             \A p \in Operators \ {o} : pc'[p] = pc[p] /\ job'[p] = job[p]
      PROVE  FreshOK'
  <2> SUFFICES ASSUME NEW p \in Operators, pc'[p] = "put", ~cas'[p].stale
               PROVE manifest'[job'[p].env] = cas'[p].seen
    OBVIOUS
  <2>1. p # o
    BY <1>s
  <2>2. pc[p] = "put" /\ job'[p] = job[p]
    BY <1>s, <2>1
  <2>3. job[p].env # e
    <3> SUFFICES ASSUME job[p].env = e PROVE FALSE
      OBVIOUS
    <3>1. cas'[p] = [cas[p] EXCEPT !.stale = TRUE, !.rivals = IF @ < MaxAttempts THEN @ + 1 ELSE @]
      BY <1>s, <2>1, <2>2 DEF Store
    <3>2. cas[p] \in Updates
      BY DEF TypeOK
    <3>3. cas'[p].stale
      BY <3>1, <3>2 DEF Updates
    <3> QED BY <3>3
  <2>4. cas'[p] = cas[p]
    BY <1>s, <2>1, <2>3 DEF Store
  <2>5. manifest'[job[p].env] = manifest[job[p].env]
    BY <1>s, <2>2, <2>3 DEF Store, TypeOK, JobOK
  <2> QED BY <2>2, <2>4, <2>5
<1>1. ASSUME NEW o \in Operators, Push(o) \/ StartDeploy(o) \/ StartRollback(o) \/ Destroy(o)
      PROVE  FreshOK'
  BY <1>1, <1>0 DEF Push, StartDeploy, StartRollback, Destroy, Order, TypeOK
<1>2. ASSUME NEW o \in Operators, Sweeping(o) PROVE FreshOK'
  BY <1>2, <1>0, <1>e DEF Sweeping, ListArtifacts, ListManifests, ReadManifest, SelectVictims,
                          DeleteVariant, FinishSweep, TypeOK
<1>3. ASSUME NEW o \in Operators, LoadManifest(o) PROVE FreshOK'
  <2>1. cas'[o].seen = manifest[job[o].env]
    BY <1>3 DEF LoadManifest, TypeOK, Updates
  <2> QED BY <1>3, <2>1 DEF LoadManifest, TypeOK
<1>4. ASSUME NEW o \in Operators, PutManifest(o) PROVE FreshOK'
  BY <1>4, <1>s, TypeStep DEF PutManifest, TypeOK
<1>5. ASSUME NEW o \in Operators, DeleteEnvManifests(o) PROVE FreshOK'
  BY <1>5, <1>s, TypeStep DEF DeleteEnvManifests, TypeOK
<1>6. ASSUME NEW o \in Operators,
             Download(o) \/ NextHost(o) \/ PutRefused(o) \/ Apply(o) \/ FinishDeploy(o) \/ Abort(o)
      PROVE  FreshOK'
  BY <1>6, <1>0, <1>e DEF Download, NextHost, PutRefused, Apply, FinishDeploy, Abort, TypeOK
<1>7. ASSUME NEW e \in Envs, BringUp(e) PROVE FreshOK'
  BY <1>7 DEF BringUp
<1>8. CASE UNCHANGED vars
  BY <1>8 DEF vars
<1> QED BY <1>1, <1>2, <1>3, <1>4, <1>5, <1>6, <1>7, <1>8 DEF Next, Step, Delivering

LEMMA FreshAccepts == ASSUME TypeOK, FreshOK PROVE AcceptedIsCurrent
  BY DEF FreshOK, AcceptedIsCurrent, Matches

(* No conditional PUT is accepted against a manifest other than the one its
   writer read, so none can drop an entry written in between
   (manifest.go:98-101). *)
THEOREM NoLostUpdate == Spec => []AcceptedIsCurrent
<1>1. Spec => [](TypeOK /\ JobOK /\ FreshOK)
  <2>1. TypeOK /\ JobOK /\ FreshOK /\ [Next]_vars => TypeOK' /\ JobOK' /\ FreshOK'
    BY TypeStep, FreshStep
  <2> QED BY TypeInitial, FreshInitial, <2>1, PTL DEF Spec
<1> QED BY <1>1, FreshAccepts, PTL

-----------------------------------------------------------------------------
(* The sweep: what the pin read has covered so far. *)
SweepOK ==
    \A o \in Operators :
        /\ held[o] \subseteq Pins(manifest)
        /\ pc[o] = "readPins" =>
              \A p \in held[o] : EnvOf[p[1]] \in sweep[o].unread \/ p[2] \in sweep[o].pinned
        /\ pc[o] = "delete" =>
              \A k \in sweep[o].doomed, p \in held[o] : k[1] # p[2]

LEMMA SweepInitial == Init => SweepOK
  BY DEF Init, SweepOK

(* A manifest written under a sweep only shrinks what is held; the read of a
   manifest covers the pins held in it; the victims avoid every pin read. *)
LEMMA SweepStep ==
    ASSUME TypeOK, JobOK, SweepOK, [Next]_vars
    PROVE  SweepOK'
<1> USE ConstantsAssumption DEF SweepOK, Goto, storeVars, hostVars
<1>0. ASSUME NEW o \in Operators, UNCHANGED <<manifest, sweep, held>>,
             \A p \in Operators \ {o} : pc'[p] = pc[p], pc'[o] \notin {"readPins", "delete"}
      PROVE  SweepOK'
  BY <1>0 DEF Pins
<1>e. ASSUME NEW o \in Operators, End(o), UNCHANGED manifest PROVE SweepOK'
  BY <1>e DEF End, TypeOK, Pins
<1>s. ASSUME NEW o \in Operators, NEW e, NEW m, Store(o, e, m), UNCHANGED sweep,
             pc'[o] \notin {"readPins", "delete"}, \A p \in Operators \ {o} : pc'[p] = pc[p]
      PROVE  SweepOK'
  <2>1. \A p \in Operators : held'[p] = held[p] \cap Pins(manifest')
    BY <1>s DEF Store
  <2>2. Pins(manifest)' = Pins(manifest')
    BY DEF Pins
  <2> QED BY <1>s, <2>1, <2>2
<1>1. ASSUME NEW o \in Operators, Push(o) \/ StartDeploy(o) \/ StartRollback(o) \/ Destroy(o)
      PROVE  SweepOK'
  BY <1>1, <1>0 DEF Push, StartDeploy, StartRollback, Destroy, TypeOK
<1>2. ASSUME NEW o \in Operators, ListArtifacts(o) PROVE SweepOK'
  <2>1. \A p \in Operators \ {o} : sweep'[p] = sweep[p] /\ pc'[p] = pc[p]
    BY <1>2 DEF ListArtifacts, TypeOK
  <2> QED BY <1>2, <2>1 DEF ListArtifacts, TypeOK, Pins
<1>3. ASSUME NEW o \in Operators, ListManifests(o) PROVE SweepOK'
  <2>1. /\ sweep'[o].unread = {e \in Envs : manifest[e] # NoManifest}
        /\ held'[o] = Pins(manifest)
        /\ pc'[o] = "readPins"
    BY <1>3 DEF ListManifests, TypeOK, Sweeps
  <2>2. \A p \in Operators \ {o} : sweep'[p] = sweep[p] /\ pc'[p] = pc[p] /\ held'[p] = held[p]
    BY <1>3 DEF ListManifests, TypeOK
  <2>3. UNCHANGED manifest
    BY <1>3 DEF ListManifests
  <2>4. \A p \in Pins(manifest) : EnvOf[p[1]] \in sweep'[o].unread
    BY <2>1 DEF Pins
  <2> QED BY <2>1, <2>2, <2>3, <2>4 DEF Pins
<1>4. ASSUME NEW o \in Operators, ReadManifest(o) PROVE SweepOK'
  <2>1. CASE End(o)
    BY <1>4, <2>1, <1>e DEF ReadManifest
  <2>2. CASE ~End(o)
    <3>1. PICK e \in sweep[o].unread :
             /\ manifest[e] # NoManifest
             /\ sweep' = [sweep EXCEPT ![o] = [sweep[o] EXCEPT
                   !.unread = sweep[o].unread \ {e}, !.pinned = sweep[o].pinned \cup ShasOf(manifest[e])]]
      BY <1>4, <2>2 DEF ReadManifest
    <3>2. UNCHANGED <<pc, held, manifest>> /\ pc[o] = "readPins"
      BY <1>4, <2>2 DEF ReadManifest
    <3>3. /\ sweep'[o].unread = sweep[o].unread \ {e}
          /\ sweep'[o].pinned = sweep[o].pinned \cup ShasOf(manifest[e])
          /\ \A p \in Operators \ {o} : sweep'[p] = sweep[p]
      BY <3>1 DEF TypeOK, Sweeps
    <3>4. ASSUME NEW p \in held[o]
          PROVE  EnvOf[p[1]] \in sweep'[o].unread \/ p[2] \in sweep'[o].pinned
      <4>1. CASE EnvOf[p[1]] = e
        <5>1. p \in Pins(manifest) /\ p \in Hosts \X Shas
          BY DEF TypeOK
        <5>2. p[2] = manifest[e][p[1]] /\ p[2] # NoSHA
          BY <5>1, <4>1 DEF Pins
        <5> QED BY <5>1, <5>2, <3>1, <3>3 DEF ShasOf
      <4> QED BY <3>2, <3>3, <4>1
    <3> QED BY <3>2, <3>3, <3>4 DEF Pins
  <2> QED BY <2>1, <2>2
<1>5. ASSUME NEW o \in Operators, SelectVictims(o) PROVE SweepOK'
  <2> DEFINE D == {k \in Keys : sweep[o].listed[k] > 0 /\ k[1] \in Victims(sweep[o].listed, sweep[o].pinned)}
  <2>1. /\ sweep'[o].doomed = D
        /\ \A p \in Operators \ {o} : sweep'[p] = sweep[p] /\ pc'[p] = pc[p]
        /\ pc'[o] = "delete"
    BY <1>5 DEF SelectVictims, TypeOK, Sweeps
  <2>2. \A p \in held[o] : p[2] \in sweep[o].pinned
    BY <1>5 DEF SelectVictims
  <2>3. \A k \in D : k[1] \notin sweep[o].pinned
    BY DEF Victims
  <2>4. UNCHANGED <<held, manifest>>
    BY <1>5 DEF SelectVictims
  <2> QED BY <2>1, <2>2, <2>3, <2>4 DEF Pins
<1>6. ASSUME NEW o \in Operators, DeleteVariant(o) PROVE SweepOK'
  <2>1. PICK k \in sweep[o].doomed :
           sweep' \in {[sweep EXCEPT ![o] = [sweep[o] EXCEPT !.doomed = sweep[o].doomed \ {k},
                                                             !.gone = sweep[o].gone \cup {k}]],
                       [sweep EXCEPT ![o] = [sweep[o] EXCEPT !.doomed = sweep[o].doomed \ {k}]]}
    BY <1>6 DEF DeleteVariant
  <2>2. /\ sweep'[o].doomed \subseteq sweep[o].doomed
        /\ \A p \in Operators \ {o} : sweep'[p] = sweep[p]
    <3>1. sweep \in [Operators -> Sweeps] /\ sweep[o] \in Sweeps
      BY DEF TypeOK
    <3>2. /\ [sweep[o] EXCEPT !.doomed = sweep[o].doomed \ {k}].doomed = sweep[o].doomed \ {k}
          /\ [sweep[o] EXCEPT !.doomed = sweep[o].doomed \ {k}, !.gone = sweep[o].gone \cup {k}].doomed
               = sweep[o].doomed \ {k}
      BY <3>1 DEF Sweeps
    <3> QED BY <2>1, <3>1, <3>2
  <2>3. UNCHANGED <<held, manifest, pc>> /\ pc[o] = "delete"
    BY <1>6 DEF DeleteVariant
  <2> QED BY <2>2, <2>3 DEF Pins
<1>7. ASSUME NEW o \in Operators, PutManifest(o) \/ DeleteEnvManifests(o) PROVE SweepOK'
  BY <1>7, <1>s DEF PutManifest, DeleteEnvManifests, TypeOK
<1>8. ASSUME NEW o \in Operators,
             \/ FinishSweep(o) \/ Download(o) \/ NextHost(o) \/ LoadManifest(o)
             \/ PutRefused(o) \/ Apply(o) \/ FinishDeploy(o) \/ Abort(o)
      PROVE  SweepOK'
  <2>1. CASE End(o)
    BY <1>8, <2>1, <1>e DEF FinishSweep, Download, NextHost, LoadManifest, PutRefused, Apply,
                            FinishDeploy, Abort
  <2>2. CASE ~End(o)
    <3>1. /\ UNCHANGED <<manifest, sweep, held>>
          /\ \E l \in {"deliver", "load", "put"} : pc' = [pc EXCEPT ![o] = l]
      BY <1>8, <2>2 DEF FinishSweep, Download, NextHost, LoadManifest, PutRefused, Apply,
                        FinishDeploy, Abort
    <3> QED BY <3>1, <1>0 DEF TypeOK
  <2> QED BY <2>1, <2>2
<1>9. ASSUME NEW e \in Envs, BringUp(e) PROVE SweepOK'
  BY <1>9 DEF BringUp, Pins
<1>10. CASE UNCHANGED vars
  BY <1>10 DEF vars, Pins
<1> QED BY <1>1, <1>2, <1>3, <1>4, <1>5, <1>6, <1>7, <1>8, <1>9, <1>10
        DEF Next, Step, Sweeping, Delivering

(* A host entry that stands during a sweep's whole pin read keeps its
   artifact, for any number of operators, environments and SHAs, and any
   interleaving of their calls. *)
THEOREM HeldPinsAreSpared == Spec => []HeldPinsSpared
<1>1. TypeOK /\ JobOK /\ SweepOK /\ [Next]_vars => TypeOK' /\ JobOK' /\ SweepOK'
  BY TypeStep, SweepStep
<1>2. Spec => []SweepOK
  BY TypeInitial, SweepInitial, <1>1, PTL DEF Spec
<1>3. SweepOK => HeldPinsSpared
  BY DEF SweepOK, HeldPinsSpared
<1> QED BY <1>2, <1>3, PTL

-----------------------------------------------------------------------------
(* The retry loop: as long as it runs it has been refused fewer times than
   its bound, a stale ETag has a rival of its own, and every refusal had one. *)
RivalsOK ==
    \A o \in Operators :
        /\ pc[o] \in {"load", "put"} => cas[o].tries < MaxAttempts /\ cas[o].tries <= cas[o].rivals
        /\ pc[o] = "put" /\ cas[o].stale => cas[o].tries < cas[o].rivals
        /\ pc[o] \notin {"load", "put"} => cas[o] = NoCAS

LEMMA RivalsInitial == Init => RivalsOK
  BY DEF Init, RivalsOK

LEMMA RivalsStep ==
    ASSUME TypeOK, JobOK, FreshOK, RivalsOK, [Next]_vars
    PROVE  RivalsOK'
<1> USE ConstantsAssumption DEF RivalsOK, Goto, storeVars, hostVars
<1>b. NoCAS.tries = 0 /\ NoCAS.rivals = 0 /\ NoCAS.stale = FALSE
  BY DEF NoCAS
<1>0. ASSUME NEW o \in Operators, \A p \in Operators : cas'[p] = cas[p],
             \A p \in Operators \ {o} : pc'[p] = pc[p],
             pc[o] \notin {"load", "put"}, pc'[o] # "put"
      PROVE  RivalsOK'
  BY <1>0, <1>b
<1>e. ASSUME NEW o \in Operators, End(o) PROVE RivalsOK'
  BY <1>e DEF End, TypeOK
<1>s. ASSUME NEW o \in Operators, NEW e, NEW m, Store(o, e, m), pc'[o] \notin {"load", "put"},
             \A p \in Operators \ {o} : pc'[p] = pc[p]
      PROVE  RivalsOK'
  <2> SUFFICES ASSUME NEW p \in Operators, p # o
               PROVE  /\ pc[p] \in {"load", "put"} =>
                            cas'[p].tries < MaxAttempts /\ cas'[p].tries <= cas'[p].rivals
                      /\ pc[p] = "put" /\ cas'[p].stale => cas'[p].tries < cas'[p].rivals
                      /\ pc[p] \notin {"load", "put"} => cas'[p] = NoCAS
    BY <1>s DEF Store
  <2>1. CASE job[p].env = e /\ pc[p] \in {"load", "put"}
    <3>1. cas'[p] = [cas[p] EXCEPT !.stale = TRUE, !.rivals = IF @ < MaxAttempts THEN @ + 1 ELSE @]
      BY <1>s, <2>1 DEF Store
    <3>2. cas[p] \in Updates
      BY DEF TypeOK
    <3>3. /\ cas'[p].tries = cas[p].tries
          /\ cas'[p].rivals = IF cas[p].rivals < MaxAttempts THEN cas[p].rivals + 1 ELSE cas[p].rivals
          /\ cas[p].tries \in Nat /\ cas[p].rivals \in Nat
      BY <3>1, <3>2 DEF Updates
    <3> QED BY <2>1, <3>3
  <2>2. CASE ~(job[p].env = e /\ pc[p] \in {"load", "put"})
    BY <1>s, <2>2 DEF Store
  <2> QED BY <2>1, <2>2
<1>1. ASSUME NEW o \in Operators,
             Push(o) \/ StartDeploy(o) \/ StartRollback(o) \/ Destroy(o)
      PROVE  RivalsOK'
  BY <1>1, <1>0 DEF Push, StartDeploy, StartRollback, Destroy, TypeOK
<1>2. ASSUME NEW o \in Operators, Sweeping(o) PROVE RivalsOK'
  BY <1>2, <1>0, <1>e DEF Sweeping, ListArtifacts, ListManifests, ReadManifest, SelectVictims,
                          DeleteVariant, FinishSweep, TypeOK
<1>3. ASSUME NEW o \in Operators, NextHost(o) PROVE RivalsOK'
  BY <1>3, <1>b DEF NextHost, TypeOK
<1>4. ASSUME NEW o \in Operators, LoadManifest(o) PROVE RivalsOK'
  <2>1. /\ cas'[o].tries = cas[o].tries /\ cas'[o].rivals = cas[o].rivals
        /\ cas'[o].stale = FALSE
        /\ \A p \in Operators \ {o} : cas'[p] = cas[p]
    BY <1>4 DEF LoadManifest, TypeOK, Updates
  <2>2. pc[o] = "load" /\ pc' = [pc EXCEPT ![o] = "put"]
    BY <1>4 DEF LoadManifest
  <2> QED BY <2>1, <2>2 DEF TypeOK
<1>5. ASSUME NEW o \in Operators, PutManifest(o) \/ DeleteEnvManifests(o) PROVE RivalsOK'
  BY <1>5, <1>s DEF PutManifest, DeleteEnvManifests, TypeOK
<1>6. ASSUME NEW o \in Operators, PutRefused(o) PROVE RivalsOK'
  <2>1. CASE End(o)
    BY <2>1, <1>e
  <2>2. CASE ~End(o)
    <3>1. /\ cas[o].tries + 1 < MaxAttempts
          /\ cas' = [cas EXCEPT ![o] = [NoCAS EXCEPT !.tries = cas[o].tries + 1, !.rivals = cas[o].rivals]]
          /\ pc' = [pc EXCEPT ![o] = "load"] /\ pc[o] = "put"
      BY <1>6, <2>2 DEF PutRefused
    <3>2. cas[o].stale
      BY <1>6 DEF PutRefused, Matches, FreshOK
    <3>3. cas[o].tries < cas[o].rivals /\ cas[o].tries \in Nat /\ cas[o].rivals \in Nat
      BY <3>1, <3>2 DEF TypeOK, Updates
    <3>4. /\ cas'[o].tries = cas[o].tries + 1 /\ cas'[o].rivals = cas[o].rivals
          /\ \A p \in Operators \ {o} : cas'[p] = cas[p]
      BY <3>1 DEF TypeOK, NoCAS
    <3> QED BY <3>1, <3>3, <3>4 DEF TypeOK
  <2> QED BY <2>1, <2>2
<1>7. ASSUME NEW o \in Operators, Download(o) \/ Apply(o) \/ FinishDeploy(o) \/ Abort(o)
      PROVE  RivalsOK'
  BY <1>7, <1>0, <1>e DEF Download, Apply, FinishDeploy, Abort, TypeOK
<1>8. ASSUME NEW e \in Envs, BringUp(e) PROVE RivalsOK'
  BY <1>8 DEF BringUp
<1>9. CASE UNCHANGED vars
  BY <1>9 DEF vars
<1> QED BY <1>1, <1>2, <1>3, <1>4, <1>5, <1>6, <1>7, <1>8, <1>9 DEF Next, Step, Delivering

Inv == TypeOK /\ JobOK /\ FreshOK /\ RivalsOK

LEMMA Invariance == Spec => []Inv
<1>1. Init => Inv
  BY TypeInitial, FreshInitial, RivalsInitial DEF Inv
<1>2. Inv /\ [Next]_vars => Inv'
  BY TypeStep, FreshStep, RivalsStep DEF Inv
<1> QED BY <1>1, <1>2, PTL DEF Spec

(* A refused update always met another writer: SetDeployment never gives up
   on its own account. *)
THEOREM RefusalsAreOwed == Spec => []RefusalsHaveRivals
<1>1. Inv => RefusalsHaveRivals
  BY DEF Inv, RivalsOK, RefusalsHaveRivals
<1> QED BY <1>1, Invariance, PTL

-----------------------------------------------------------------------------
(* Refinement: the effects of a step on what ManifestRegister sees.         *)
Unseen == UNCHANGED <<Deployed, Pending>>

LEMMA Stutters ==
    ASSUME UNCHANGED <<manifest, job>>, NEW o \in Operators, pc \in [Operators -> Labels],
           NEW l \in Labels, pc' = [pc EXCEPT ![o] = l],
           pc[o] \in {"load", "put"} <=> l \in {"load", "put"}
    PROVE  Unseen
  BY DEF Unseen, Deployed, Pending

LEMMA EndOutside ==
    ASSUME TypeOK, UNCHANGED manifest, NEW o \in Operators, End(o), pc[o] \notin {"load", "put"}
    PROVE  Unseen
  BY DEF Unseen, Deployed, Pending, End, Goto, TypeOK

LEMMA EndInside ==
    ASSUME TypeOK, JobOK, UNCHANGED manifest, NEW o \in Operators, End(o), pc[o] \in {"load", "put"}
    PROVE  Register!Fail(o)
<1>1. Pending[o] \in Register!Requests
  BY DEF Pending, JobOK, Register!Requests
<1>2. UNCHANGED Deployed
  BY DEF Deployed
<1>3. Pending' = [Pending EXCEPT ![o] = NoRequest]
  BY DEF Pending, End, Goto, TypeOK
<1> QED BY <1>1, <1>2, <1>3, NoRequestAssumption DEF Register!Fail

LEMMA PutCommits ==
    ASSUME TypeOK, JobOK, FreshOK, NEW o \in Operators, PutManifest(o)
    PROVE  Register!Commit(o)
<1> DEFINE e == job[o].env
           m == IF cas[o].seen = NoManifest THEN Empty ELSE cas[o].seen
<1>1. e \in Envs /\ job[o].host \in Hosts /\ job[o].sha \in Shas /\ pc[o] = "put"
  BY DEF PutManifest, JobOK
<1>2. Pending[o] = [env |-> e, host |-> job[o].host, sha |-> job[o].sha]
  BY <1>1 DEF Pending
<1>3. Pending[o] # NoRequest
  BY <1>1, <1>2, NoRequestAssumption DEF Register!Requests
<1>4. Pending' = [Pending EXCEPT ![o] = NoRequest]
  BY DEF Pending, PutManifest, Goto, TypeOK
<1>5. m = Deployed[e] /\ m \in Manifest
  <2>1. manifest[e] = cas[o].seen
    BY FreshAccepts, <1>1 DEF AcceptedIsCurrent, PutManifest
  <2>2. Empty \in Manifest
    BY DEF Empty, Manifest
  <2> QED BY <1>1, <2>1, <2>2 DEF Deployed, TypeOK
<1>6. manifest' = [manifest EXCEPT ![e] = [m EXCEPT ![job[o].host] = job[o].sha]]
  BY DEF PutManifest, Store
<1> DEFINE n == [m EXCEPT ![job[o].host] = job[o].sha]
<1>7. n \in Manifest /\ n # NoManifest
  BY <1>1, <1>5, NoManifestAssumption DEF Manifest
<1>8. Deployed' = [Deployed EXCEPT ![e] = n]
  <2> HIDE DEF n, m, e
  <2>1. manifest' = [manifest EXCEPT ![e] = n]
    BY <1>6 DEF n
  <2> QED BY <1>1, <1>7, <2>1 DEF Deployed, TypeOK
<1>9. Deployed' = [Deployed EXCEPT ![e][job[o].host] = job[o].sha]
  <2> HIDE DEF m, e
  <2> QED BY <1>5, <1>8
<1> QED BY <1>2, <1>3, <1>4, <1>9 DEF Register!Commit

LEMMA RefinesStep ==
    ASSUME TypeOK, JobOK, FreshOK, [Next]_vars
    PROVE  [Register!Next]_<<Deployed, Pending>>
<1> USE DEF Goto, storeVars, hostVars
<1>e. ASSUME NEW o \in Operators, UNCHANGED manifest, End(o)
      PROVE  Unseen \/ Register!Fail(o)
  BY <1>e, EndInside, EndOutside
<1>1. ASSUME NEW o \in Operators, Push(o) PROVE Unseen
  BY <1>1, Stutters DEF Push, Labels, TypeOK
<1>2. ASSUME NEW o \in Operators, Sweeping(o) PROVE Unseen \/ Register!Fail(o)
  <2>1. CASE ListArtifacts(o)
    BY <2>1, Stutters DEF ListArtifacts, Labels, TypeOK
  <2>2. CASE ListManifests(o)
    BY <2>2, Stutters DEF ListManifests, Labels, TypeOK
  <2>3. CASE ReadManifest(o)
    BY <2>3, <1>e DEF ReadManifest, Unseen, Deployed, Pending
  <2>4. CASE SelectVictims(o)
    BY <2>4, Stutters DEF SelectVictims, Labels, TypeOK
  <2>5. CASE DeleteVariant(o)
    BY <2>5 DEF DeleteVariant, Unseen, Deployed, Pending
  <2>6. CASE FinishSweep(o)
    BY <2>6, <1>e DEF FinishSweep
  <2> QED BY <1>2, <2>1, <2>2, <2>3, <2>4, <2>5, <2>6 DEF Sweeping
<1>3. ASSUME NEW o \in Operators, StartDeploy(o) \/ StartRollback(o) \/ Destroy(o) PROVE Unseen
  <2>1. /\ UNCHANGED manifest /\ pc[o] = "idle"
        /\ \E l \in {"download", "deliver", "unpin"} : pc' = [pc EXCEPT ![o] = l]
        /\ \A p \in Operators \ {o} : job'[p] = job[p]
    BY <1>3 DEF StartDeploy, StartRollback, Destroy, Order, TypeOK
  <2> QED BY <2>1 DEF Unseen, Deployed, Pending, TypeOK
<1>4. ASSUME NEW o \in Operators, Download(o) \/ LoadManifest(o) \/ Apply(o) \/ FinishDeploy(o)
      PROVE  Unseen \/ Register!Fail(o)
  <2>1. CASE End(o)
    BY <1>4, <2>1, <1>e DEF Download, LoadManifest, Apply, FinishDeploy
  <2>2. CASE ~End(o)
    <3>1. /\ UNCHANGED <<manifest, job>>
          /\ \/ pc[o] = "load" /\ pc' = [pc EXCEPT ![o] = "put"]
             \/ pc[o] \in {"download", "apply"} /\ pc' = [pc EXCEPT ![o] = "deliver"]
      BY <1>4, <2>2 DEF Download, LoadManifest, Apply, FinishDeploy
    <3> QED BY <3>1, Stutters DEF Labels, TypeOK
  <2> QED BY <2>1, <2>2
<1>5. ASSUME NEW o \in Operators, NextHost(o) PROVE Register!Request(o)
  <2>1. PICK h \in job[o].todo :
           job' = [job EXCEPT ![o] = [job[o] EXCEPT !.host = h, !.todo = job[o].todo \ {h}]]
    BY <1>5 DEF NextHost
  <2>2. /\ pc[o] = "deliver" /\ pc' = [pc EXCEPT ![o] = "load"]
        /\ UNCHANGED manifest
    BY <1>5 DEF NextHost
  <2>3. /\ job[o] \in Jobs /\ h \in Hosts
        /\ job[o].env \in Envs /\ job[o].sha \in Shas
    BY <2>2 DEF TypeOK, JobOK, Jobs
  <2> DEFINE r == [env |-> job[o].env, host |-> h, sha |-> job[o].sha]
  <2>4. r \in Register!Requests
    BY <2>3 DEF Register!Requests
  <2>5. job'[o].env = job[o].env /\ job'[o].host = h /\ job'[o].sha = job[o].sha
    BY <2>1, <2>3 DEF Jobs, TypeOK
  <2>6. \A p \in Operators \ {o} : job'[p] = job[p]
    BY <2>1 DEF TypeOK
  <2>7. Pending' = [Pending EXCEPT ![o] = r]
    BY <2>2, <2>5, <2>6 DEF Pending, TypeOK
  <2>8. Pending[o] = NoRequest /\ UNCHANGED Deployed
    BY <2>2 DEF Pending, Deployed
  <2> QED BY <2>4, <2>7, <2>8 DEF Register!Request
<1>6. ASSUME NEW o \in Operators, PutRefused(o) PROVE Unseen \/ Register!Fail(o)
  <2>1. CASE End(o)
    BY <1>6, <2>1, <1>e DEF PutRefused
  <2>2. CASE ~End(o)
    BY <1>6, <2>2, Stutters DEF PutRefused, Labels, TypeOK
  <2> QED BY <2>1, <2>2
<1>7. ASSUME NEW o \in Operators, DeleteEnvManifests(o) PROVE \E e \in Envs : Register!Clear(e)
  <2>1. /\ job[o].env \in Envs /\ pc[o] = "unpin" /\ pc' = [pc EXCEPT ![o] = "idle"]
        /\ manifest' = [manifest EXCEPT ![job[o].env] = NoManifest]
        /\ \A p \in Operators \ {o} : job'[p] = job[p]
    BY <1>7 DEF DeleteEnvManifests, JobOK, Store, TypeOK
  <2>2. Deployed' = [Deployed EXCEPT ![job[o].env] = Empty]
    BY <2>1 DEF Deployed, TypeOK
  <2>3. UNCHANGED Pending
    BY <2>1 DEF Pending, TypeOK
  <2> QED BY <2>1, <2>2, <2>3 DEF Register!Clear, Empty
<1>8. ASSUME NEW o \in Operators, Abort(o) PROVE Unseen \/ Register!Fail(o)
  BY <1>8, <1>e DEF Abort
<1>9. ASSUME NEW e \in Envs, BringUp(e) PROVE Unseen
  BY <1>9 DEF BringUp, Unseen, Deployed, Pending
<1>10. CASE UNCHANGED vars
  BY <1>10 DEF vars, Unseen, Deployed, Pending
<1> QED BY <1>1, <1>2, <1>3, <1>4, <1>5, <1>6, <1>7, <1>8, <1>9, <1>10, PutCommits
        DEF Next, Step, Delivering, Register!Next, Unseen

(* The GETs and conditional PUTs implement atomic registers, one per host. *)
THEOREM Refinement == Spec => ImplementsRegister
<1>1. Init => Register!Init
  BY DEF Init, Register!Init, Deployed, Pending, Empty
<1>2. Inv /\ [Next]_vars => [Register!Next]_<<Deployed, Pending>>
  BY RefinesStep DEF Inv
<1> QED BY <1>1, <1>2, Invariance, PTL DEF Spec, ImplementsRegister, Register!Spec, Register!vars

-----------------------------------------------------------------------------
(* Retention, for any listing: a sweep that has a victim spares Keep SHAs    *)
(* that are not pinned.                                                      *)

(* A set of numbers that is not empty has a least one. *)
LEMMA LeastOf ==
    ASSUME NEW S \in SUBSET Nat, S # {}
    PROVE  \E m \in S : \A n \in S : m <= n
<1>1. PICK m \in S : \A n \in S : ~(<<n, m>> \in OpToRel(<, Nat))
  BY NatLessThanWellFounded, WFMin
<1>2. \A n \in S : ~(n < m)
  BY <1>1, Zenon DEF OpToRel
<1>. QED BY <1>2

(* A SHA's recency is the date of one of its variants. *)
LEMMA RecencyDates ==
    ASSUME NEW listed \in [Keys -> 0..MaxTime], NEW s \in Shas, Archs # {}
    PROVE  /\ Recency(listed, s) \in Nat
           /\ \E a \in Archs : Recency(listed, s) = listed[<<s, a>>]
           /\ \A a \in Archs : listed[<<s, a>>] <= Recency(listed, s)
<1>. DEFINE T == {listed[<<s, a>>] : a \in Archs}
            G == {n \in Nat : \E t \in T : n = MaxTime - t}
<1>0. MaxTime \in Nat
  BY ConstantsAssumption
<1>1. T \subseteq 0..MaxTime /\ T # {}
  <2>1. \A a \in Archs : <<s, a>> \in Keys
    BY DEF Keys
  <2>. QED BY <2>1
<1>2. \E m \in G : \A n \in G : m <= n
  <2>1. PICK t \in T : t \in 0..MaxTime
    <3>. HIDE DEF T
    <3>. QED BY <1>1
  <2>2. MaxTime - t \in Nat
    BY <1>0, <2>1
  <2>3. MaxTime - t \in G
    BY <2>1, <2>2
  <2>4. G # {} /\ G \in SUBSET Nat
    BY <2>3
  <2>. HIDE DEF G
  <2>. QED BY <2>4, LeastOf
<1>3. \E t \in T : \A a \in Archs : listed[<<s, a>>] <= t
  <2>1. PICK m \in G : \A n \in G : m <= n
    BY <1>2
  <2>2. PICK t \in T : m = MaxTime - t
    BY <2>1
  <2>3. ASSUME NEW a \in Archs PROVE listed[<<s, a>>] <= t
    <3>1. listed[<<s, a>>] \in T
      OBVIOUS
    <3>2. listed[<<s, a>>] \in 0..MaxTime /\ t \in 0..MaxTime
      BY <1>1, <2>2, <3>1
    <3>3. MaxTime - listed[<<s, a>>] \in Nat
      BY <1>0, <3>2
    <3>4. MaxTime - listed[<<s, a>>] \in G
      BY <3>1, <3>3
    <3>5. MaxTime - t <= MaxTime - listed[<<s, a>>]
      <4>. HIDE DEF G
      <4>. QED BY <2>1, <2>2, <3>4
    <3>. QED BY <1>0, <3>2, <3>5
  <2>. QED BY <2>2, <2>3
<1>4. Recency(listed, s) \in T /\ \A a \in Archs : listed[<<s, a>>] <= Recency(listed, s)
  BY <1>3 DEF Recency
<1>5. Recency(listed, s) \in Nat
  <2>1. Recency(listed, s) \in T
    BY <1>4
  <2>. HIDE DEF T
  <2>2. Recency(listed, s) \in 0..MaxTime
    BY <1>1, <2>1
  <2>. QED BY <1>0, <2>2
<1>. QED BY <1>4, <1>5

Unpinning(listed, pinned) == {t \in Shas : Recency(listed, t) > 0} \ pinned
NewerOnes(listed, pinned, s) == {t \in Unpinning(listed, pinned) : Newer(listed, t, s)}
Spared(listed, pinned) == Unpinning(listed, pinned) \ Victims(listed, pinned)

(* The newest victim has Keep newer ones, and they are all spared. *)
LEMMA SparedAreEnough ==
    ASSUME NEW listed \in [Keys -> 0..MaxTime], NEW pinned, Archs # {},
           Victims(listed, pinned) # {}
    PROVE  IsFiniteSet(Spared(listed, pinned)) /\ Cardinality(Spared(listed, pinned)) >= Keep
<1>. DEFINE U == Unpinning(listed, pinned)
            V == Victims(listed, pinned)
            N(s) == NewerOnes(listed, pinned, s)
            C == {Cardinality(N(s)) : s \in V}
<1>1. U \subseteq Shas /\ IsFiniteSet(U)
  <2>1. IsFiniteSet(Shas) /\ U \in SUBSET Shas
    BY ConstantsAssumption DEF Unpinning
  <2>. QED BY <2>1, FS_Subset
<1>2. \A s \in Shas : N(s) \in SUBSET U /\ IsFiniteSet(N(s)) /\ Cardinality(N(s)) \in Nat
  <2>1. SUFFICES ASSUME NEW s \in Shas
                 PROVE  N(s) \in SUBSET U /\ IsFiniteSet(N(s)) /\ Cardinality(N(s)) \in Nat
    OBVIOUS
  <2>2. N(s) \in SUBSET U
    BY DEF NewerOnes
  <2>3. IsFiniteSet(N(s))
    BY <1>1, <2>2, FS_Subset
  <2>. QED BY <2>2, <2>3, FS_CardinalityType
<1>3. V \subseteq U /\ \A s \in U : s \in V <=> Keep > 0 /\ Cardinality(N(s)) >= Keep
  BY DEF Victims, Unpinning, NewerOnes
<1>4. PICK v \in V : \A s \in V : Cardinality(N(v)) <= Cardinality(N(s))
  <2>1. C # {} /\ C \in SUBSET Nat
    BY <1>1, <1>2, <1>3
  <2>2. PICK c \in C : \A n \in C : c <= n
    BY <2>1, LeastOf
  <2>. QED BY <2>2
<1>5. ASSUME NEW t \in N(v) PROVE t \notin V
  <2>0. t \in U /\ t \in Shas /\ v \in Shas /\ v \in U /\ Newer(listed, t, v)
    BY <1>1, <1>3 DEF NewerOnes
  <2>1. \A s \in Shas : Recency(listed, s) \in Nat /\ s \in Nat
    BY RecencyDates, ConstantsAssumption
  <2>2. N(t) \subseteq N(v)
    BY <2>0, <2>1, <1>1 DEF NewerOnes, Newer
  <2>3. t \in N(v) \ N(t)
    BY <2>0, <2>1 DEF NewerOnes, Newer
  <2>4. Cardinality(N(t)) < Cardinality(N(v))
    <3>1. IsFiniteSet(N(v)) /\ N(t) \in SUBSET N(v) /\ N(t) # N(v)
      BY <1>2, <2>0, <2>2, <2>3
    <3>2. Cardinality(N(t)) <= Cardinality(N(v)) /\ Cardinality(N(t)) # Cardinality(N(v))
      BY <3>1, FS_Subset
    <3>3. Cardinality(N(t)) \in Nat /\ Cardinality(N(v)) \in Nat
      BY <1>2, <2>0
    <3>. QED BY <3>2, <3>3
  <2>5. Cardinality(N(t)) \in Nat /\ Cardinality(N(v)) \in Nat
    BY <1>2, <2>0
  <2>. QED BY <1>4, <2>4, <2>5
<1>6. N(v) \in SUBSET Spared(listed, pinned)
  BY <1>5, <1>2, <1>1, <1>3 DEF Spared
<1>7. IsFiniteSet(Spared(listed, pinned))
  <2>1. Spared(listed, pinned) \in SUBSET U
    BY DEF Spared
  <2>. QED BY <1>1, <2>1, FS_Subset
<1>8. Cardinality(N(v)) <= Cardinality(Spared(listed, pinned))
  BY <1>6, <1>7, FS_Subset
<1>9. Cardinality(Spared(listed, pinned)) \in Nat
  BY <1>7, FS_CardinalityType
<1>10. Cardinality(N(v)) >= Keep /\ Cardinality(N(v)) \in Nat /\ Keep \in Nat
  BY <1>1, <1>2, <1>3, <1>4, ConstantsAssumption
<1>. HIDE DEF N, U, V
<1>. QED BY <1>7, <1>8, <1>9, <1>10

-----------------------------------------------------------------------------
(* One command at a time.  What its sweep has listed is what the store      *)
(* holds but for its own deletes, what it has read is what is pinned, and   *)
(* what it delivers is there.                                               *)
Listing == {"listPins", "readPins", "delete"}
Shipping == {"download", "deliver", "load", "put", "apply"}
Dated == [Keys -> 0..MaxTime]

AsListed(o) ==
    pc[o] \in Listing =>
        \A k \in Keys : artifacts[k] = IF pc[o] = "delete" /\ k \in sweep[o].gone
                                       THEN 0 ELSE sweep[o].listed[k]
AsRead(o) ==
    /\ pc[o] \in {"readPins", "delete"} => held[o] = Pins(manifest)
    /\ pc[o] = "delete" => \A p \in held[o] : p[2] \in sweep[o].pinned
AsSelected(o) ==
    pc[o] = "delete" =>
        \A k \in sweep[o].doomed \cup sweep[o].gone : k[1] \in Victims(sweep[o].listed, sweep[o].pinned)
AsVerified(o) ==
    ~IsApp /\ pc[o] \in Shipping =>
        /\ Present(job[o].sha, job[o].env)
        /\ job[o].todo \subseteq TargetsOf(job[o].env)
        /\ pc[o] \in {"load", "put", "apply"} => job[o].host \in TargetsOf(job[o].env)

Alone(o) ==
    /\ artifacts \in Dated /\ sweep[o].listed \in Dated
    /\ AsListed(o) /\ AsRead(o) /\ AsSelected(o) /\ AsVerified(o)

LEMMA AloneInitial == ASSUME NEW o \in Operators, Init PROVE Alone(o)
<1>1. 0 \in 0..MaxTime
  BY ConstantsAssumption
<1>2. [k \in Keys |-> 0] \in Dated
  BY <1>1 DEF Dated
<1>. QED BY <1>2 DEF Init, Alone, AsListed, AsRead, AsSelected, AsVerified, Listing, Shipping, NoSweep

LEMMA AloneEnds ==
    ASSUME NEW o \in Operators, TypeOK, Alone(o), End(o), UNCHANGED artifacts
    PROVE  Alone(o)'
<1>1. 0 \in 0..MaxTime
  BY ConstantsAssumption
<1>2. [k \in Keys |-> 0] \in Dated
  BY <1>1 DEF Dated
<1>3. pc'[o] = "idle" /\ sweep'[o] = NoSweep
  BY DEF End, Goto, TypeOK
<1>4. artifacts' \in Dated /\ sweep'[o].listed \in Dated
  BY <1>2, <1>3 DEF Alone, NoSweep
<1>. QED BY <1>3, <1>4 DEF Alone, AsListed, AsRead, AsSelected, AsVerified, Listing, Shipping

(* A command that is neither sweeping nor delivering has nothing to keep. *)
LEMMA AloneIdles ==
    ASSUME NEW o \in Operators, Alone(o), artifacts' \in Dated, UNCHANGED sweep,
           pc'[o] \in {"idle", "list", "unpin"}
    PROVE  Alone(o)'
  BY DEF Alone, AsListed, AsRead, AsSelected, AsVerified, Listing, Shipping

LEMMA PushAlone ==
    ASSUME NEW o \in Operators, TypeOK, Alone(o), Push(o)
    PROVE  Alone(o)'
<1>1. PICK k \in Keys, t \in 1..MaxTime : artifacts' = [artifacts EXCEPT ![k] = t]
  BY DEF Push
<1>2. t \in 0..MaxTime
  BY <1>1, ConstantsAssumption
<1>3. artifacts' \in Dated
  BY <1>1, <1>2 DEF Alone, Dated
<1>4. pc'[o] = "list" /\ UNCHANGED sweep
  BY DEF Push, Goto, TypeOK
<1>. QED BY <1>3, <1>4, AloneIdles

LEMMA ListArtifactsAlone ==
    ASSUME NEW o \in Operators, TypeOK, Alone(o), ListArtifacts(o)
    PROVE  Alone(o)'
<1>1. sweep'[o].listed = artifacts /\ pc'[o] = "listPins" /\ UNCHANGED artifacts
  BY DEF ListArtifacts, TypeOK, Sweeps, Goto, storeVars
<1>. QED BY <1>1 DEF Alone, AsListed, AsRead, AsSelected, AsVerified, Listing, Shipping

LEMMA ListManifestsAlone ==
    ASSUME NEW o \in Operators, TypeOK, Alone(o), ListManifests(o)
    PROVE  Alone(o)'
<1>1. /\ sweep'[o].listed = sweep[o].listed
      /\ held'[o] = Pins(manifest)
      /\ pc[o] = "listPins" /\ pc'[o] = "readPins"
      /\ UNCHANGED <<artifacts, manifest>>
  BY DEF ListManifests, TypeOK, Sweeps, Goto, storeVars
<1>2. Pins(manifest)' = Pins(manifest)
  BY <1>1 DEF Pins
<1>. QED BY <1>1, <1>2 DEF Alone, AsListed, AsRead, AsSelected, AsVerified, Listing, Shipping

LEMMA ReadManifestAlone ==
    ASSUME NEW o \in Operators, TypeOK, Alone(o), ReadManifest(o)
    PROVE  Alone(o)'
<1>1. CASE End(o)
  BY <1>1, AloneEnds DEF ReadManifest, storeVars
<1>2. CASE ~End(o)
  <2>1. PICK e \in sweep[o].unread :
           sweep' = [sweep EXCEPT ![o] = [sweep[o] EXCEPT
                       !.unread = sweep[o].unread \ {e}, !.pinned = sweep[o].pinned \cup ShasOf(manifest[e])]]
    BY <1>2 DEF ReadManifest
  <2>2. sweep'[o].listed = sweep[o].listed
    BY <2>1 DEF TypeOK, Sweeps
  <2>3. pc[o] = "readPins" /\ UNCHANGED <<artifacts, manifest, pc, held>>
    BY <1>2 DEF ReadManifest, storeVars
  <2>4. Pins(manifest)' = Pins(manifest)
    BY <2>3 DEF Pins
  <2>. QED BY <2>2, <2>3, <2>4 DEF Alone, AsListed, AsRead, AsSelected, AsVerified, Listing, Shipping
<1>. QED BY <1>1, <1>2

LEMMA SelectVictimsAlone ==
    ASSUME NEW o \in Operators, TypeOK, SweepOK, Alone(o), SelectVictims(o)
    PROVE  Alone(o)'
<1>. DEFINE D == {k \in Keys : sweep[o].listed[k] > 0 /\ k[1] \in Victims(sweep[o].listed, sweep[o].pinned)}
<1>1. /\ sweep'[o].listed = sweep[o].listed /\ sweep'[o].pinned = sweep[o].pinned
      /\ sweep'[o].doomed = D /\ sweep'[o].gone = {}
  BY DEF SelectVictims, TypeOK, Sweeps
<1>2. /\ pc[o] = "readPins" /\ pc'[o] = "delete" /\ sweep[o].unread = {}
      /\ UNCHANGED <<artifacts, manifest, held>>
  BY DEF SelectVictims, TypeOK, Goto, storeVars
<1>3. Pins(manifest)' = Pins(manifest)
  BY <1>2 DEF Pins
<1>4. \A p \in held[o] : p[2] \in sweep[o].pinned
  BY <1>2 DEF SweepOK
<1>5. AsListed(o)'
  BY <1>1, <1>2 DEF Alone, AsListed, Listing
<1>6. AsRead(o)'
  BY <1>1, <1>2, <1>3, <1>4 DEF Alone, AsRead
<1>7. AsSelected(o)'
  BY <1>1 DEF AsSelected
<1>. QED BY <1>1, <1>2, <1>5, <1>6, <1>7 DEF Alone, AsVerified, Shipping

LEMMA DeleteVariantAlone ==
    ASSUME NEW o \in Operators, TypeOK, Alone(o), DeleteVariant(o)
    PROVE  Alone(o)'
<1>0. pc[o] = "delete" /\ UNCHANGED <<manifest, pc, held>>
  BY DEF DeleteVariant
<1>1. PICK k \in sweep[o].doomed :
        \/ /\ artifacts' = [artifacts EXCEPT ![k] = 0]
           /\ sweep' = [sweep EXCEPT ![o] = [sweep[o] EXCEPT !.doomed = sweep[o].doomed \ {k}, !.gone = sweep[o].gone \cup {k}]]
        \/ /\ sweep' = [sweep EXCEPT ![o] = [sweep[o] EXCEPT !.doomed = sweep[o].doomed \ {k}]]
           /\ UNCHANGED artifacts
  BY DEF DeleteVariant
<1>2. sweep[o] \in Sweeps /\ sweep \in [Operators -> Sweeps] /\ k \in Keys
  BY <1>1 DEF TypeOK, Sweeps
<1>3. /\ sweep'[o].listed = sweep[o].listed /\ sweep'[o].pinned = sweep[o].pinned
      /\ sweep'[o].doomed = sweep[o].doomed \ {k}
      /\ \/ artifacts' = [artifacts EXCEPT ![k] = 0] /\ sweep'[o].gone = sweep[o].gone \cup {k}
         \/ UNCHANGED artifacts /\ sweep'[o].gone = sweep[o].gone
  <2>1. CASE UNCHANGED artifacts /\
             sweep' = [sweep EXCEPT ![o] = [sweep[o] EXCEPT !.doomed = sweep[o].doomed \ {k}]]
    BY <1>2, <2>1 DEF Sweeps
  <2>2. CASE /\ artifacts' = [artifacts EXCEPT ![k] = 0]
             /\ sweep' = [sweep EXCEPT ![o] = [sweep[o] EXCEPT !.doomed = sweep[o].doomed \ {k},
                                                              !.gone = sweep[o].gone \cup {k}]]
    <3>1. sweep'[o] = [sweep[o] EXCEPT !.doomed = sweep[o].doomed \ {k}, !.gone = sweep[o].gone \cup {k}]
      BY <1>2, <2>2
    <3>. QED BY <1>2, <2>2, <3>1 DEF Sweeps
  <2>. QED BY <1>1, <2>1, <2>2
<1>4. 0 \in 0..MaxTime
  BY ConstantsAssumption
<1>5. artifacts' \in Dated
  BY <1>2, <1>3, <1>4 DEF Alone, Dated
<1>6. Pins(manifest)' = Pins(manifest)
  BY <1>0 DEF Pins
<1>7. AsListed(o)'
  <2>1. artifacts \in Dated /\ \A l \in Keys : artifacts[l] = IF l \in sweep[o].gone THEN 0 ELSE sweep[o].listed[l]
    BY <1>0 DEF Alone, AsListed, Listing
  <2>. QED BY <1>0, <1>2, <1>3, <2>1 DEF AsListed, Dated
<1>8. AsRead(o)'
  BY <1>0, <1>3, <1>6 DEF Alone, AsRead
<1>9. AsSelected(o)'
  BY <1>0, <1>1, <1>3 DEF Alone, AsSelected
<1>. QED BY <1>0, <1>3, <1>5, <1>7, <1>8, <1>9 DEF Alone, AsVerified, Shipping

(* What a command delivers is what it verified, on the hosts it probed. *)
LEMMA StartAlone ==
    ASSUME NEW o \in Operators, TypeOK, Alone(o), StartDeploy(o) \/ StartRollback(o)
    PROVE  Alone(o)'
<1>1. PICK s \in Shas, e \in Envs : (IsApp \/ Present(s, e)) /\ Order(o, s, e)
  BY DEF StartDeploy, StartRollback
<1>2. job'[o].sha = s /\ job'[o].env = e /\ job'[o].todo = TargetsOf(e)
  BY <1>1 DEF Order, TypeOK
<1>3. pc'[o] \in {"download", "deliver"} /\ UNCHANGED <<artifacts, sweep>>
  BY DEF StartDeploy, StartRollback, Goto, TypeOK, storeVars
<1>4. AsVerified(o)'
  BY <1>1, <1>2, <1>3 DEF AsVerified, Present
<1>. QED BY <1>3, <1>4 DEF Alone, AsListed, AsRead, AsSelected, Listing

(* A step of a delivery that leaves the store as it is keeps its order. *)
LEMMA ShippingAlone ==
    ASSUME NEW o \in Operators, TypeOK, Alone(o), UNCHANGED <<artifacts, sweep>>,
           pc[o] \in Shipping, pc'[o] \in Shipping,
           job'[o].sha = job[o].sha, job'[o].env = job[o].env, job'[o].todo \subseteq job[o].todo,
           pc'[o] \in {"load", "put", "apply"} =>
              \/ pc[o] \in {"load", "put", "apply"} /\ job'[o].host = job[o].host
              \/ job'[o].host \in job[o].todo
    PROVE  Alone(o)'
<1>1. AsVerified(o)'
  BY DEF Alone, AsVerified, Present
<1>. QED BY <1>1 DEF Alone, AsListed, AsRead, AsSelected, Listing, Shipping

LEMMA DeliveringAlone ==
    ASSUME NEW o \in Operators, TypeOK, Alone(o), Delivering(o)
    PROVE  Alone(o)'
<1>. USE DEF Goto, storeVars, hostVars
<1>1. CASE End(o) /\ UNCHANGED artifacts
  BY <1>1, AloneEnds
<1>2. CASE Download(o) /\ ~End(o)
  BY <1>2, ShippingAlone DEF Download, TypeOK, Shipping
<1>3. CASE NextHost(o)
  <2>1. PICK h \in job[o].todo : job' = [job EXCEPT ![o] = [job[o] EXCEPT !.host = h, !.todo = job[o].todo \ {h}]]
    BY <1>3 DEF NextHost
  <2>2. /\ job'[o].sha = job[o].sha /\ job'[o].env = job[o].env
        /\ job'[o].todo = job[o].todo \ {h} /\ job'[o].host = h
    <3>1. job[o] \in Jobs /\ job \in [Operators -> Jobs]
      BY DEF TypeOK
    <3>. QED BY <2>1, <3>1 DEF Jobs
  <2>3. pc[o] = "deliver" /\ pc'[o] = "load" /\ UNCHANGED <<artifacts, sweep>>
    BY <1>3 DEF NextHost, TypeOK
  <2>. QED BY <2>1, <2>2, <2>3, ShippingAlone DEF Shipping
<1>4. CASE LoadManifest(o)
  BY <1>4, ShippingAlone DEF LoadManifest, TypeOK, Shipping
<1>5. CASE PutManifest(o)
  BY <1>5, ShippingAlone DEF PutManifest, TypeOK, Shipping
<1>6. CASE PutRefused(o) /\ ~End(o)
  BY <1>6, ShippingAlone DEF PutRefused, TypeOK, Shipping
<1>7. CASE Apply(o) /\ ~End(o)
  BY <1>7, ShippingAlone DEF Apply, TypeOK, Shipping
<1>. QED BY <1>1, <1>2, <1>3, <1>4, <1>5, <1>6, <1>7
        DEF Delivering, Download, PutRefused, Apply, FinishDeploy

LEMMA TearingDownAlone ==
    ASSUME NEW o \in Operators, TypeOK, Alone(o), Destroy(o) \/ DeleteEnvManifests(o)
    PROVE  Alone(o)'
<1>1. pc'[o] \in {"idle", "unpin"} /\ UNCHANGED <<artifacts, sweep>>
  BY DEF Destroy, DeleteEnvManifests, Goto, TypeOK, storeVars
<1>. QED BY <1>1, AloneIdles DEF Alone

(* A step of no command changes neither the store nor a manifest. *)
LEMMA UnmovedAlone ==
    ASSUME NEW o \in Operators, Alone(o), UNCHANGED <<artifacts, manifest, pc, job, sweep, held>>
    PROVE  Alone(o)'
  BY DEF Alone, AsListed, AsRead, AsSelected, AsVerified, Pins, Present

LEMMA AloneStep ==
    ASSUME \A q, r \in Operators : q = r, NEW o \in Operators, TypeOK, SweepOK, Alone(o), [Next]_vars
    PROVE  Alone(o)'
<1>1. CASE Step(o)
  BY <1>1, PushAlone, ListArtifactsAlone, ListManifestsAlone, ReadManifestAlone, SelectVictimsAlone,
     DeleteVariantAlone, StartAlone, DeliveringAlone, TearingDownAlone, AloneEnds
     DEF Step, Sweeping, FinishSweep, Abort, storeVars
<1>2. ASSUME NEW e \in Envs, BringUp(e) PROVE Alone(o)'
  BY <1>2, UnmovedAlone DEF BringUp, storeVars
<1>3. CASE UNCHANGED vars
  BY <1>3, UnmovedAlone DEF vars
<1>4. ASSUME NEW p \in Operators, Step(p) PROVE Step(o)
  <2>1. p = o
    OBVIOUS
  <2>. QED BY <1>4, <2>1
<1>. QED BY <1>1, <1>2, <1>3, <1>4 DEF Next

(* A pin stored by a conditional PUT is the delivered one or was there. *)
LEMMA PutPins ==
    ASSUME NEW o \in Operators, TypeOK, JobOK, FreshOK, PutManifest(o), NEW p \in Pins(manifest')
    PROVE  p \in Pins(manifest) \/ p = <<job[o].host, job[o].sha>>
<1>. DEFINE e == job[o].env
            m == IF cas[o].seen = NoManifest THEN Empty ELSE cas[o].seen
<1>1. /\ manifest' = [manifest EXCEPT ![e] = [m EXCEPT ![job[o].host] = job[o].sha]]
      /\ pc[o] = "put" /\ Matches(o)
  BY DEF PutManifest, Store
<1>2. e \in Envs /\ job[o].host \in Hosts /\ manifest[e] = cas[o].seen
  BY <1>1, FreshAccepts DEF JobOK, AcceptedIsCurrent
<1>3. p \in Hosts \X Shas /\ manifest'[EnvOf[p[1]]] # NoManifest /\ manifest'[EnvOf[p[1]]][p[1]] = p[2]
  BY DEF Pins
<1>4. CASE EnvOf[p[1]] # e
  <2>1. manifest'[EnvOf[p[1]]] = manifest[EnvOf[p[1]]]
    BY <1>1, <1>4, <1>3, ConstantsAssumption DEF TypeOK
  <2>. QED BY <1>3, <2>1 DEF Pins
<1>5. CASE EnvOf[p[1]] = e
  <2>1. m \in Manifest
    BY <1>2 DEF TypeOK, Manifest, Empty
  <2>2. manifest'[e] = [m EXCEPT ![job[o].host] = job[o].sha]
    BY <1>1, <1>2 DEF TypeOK
  <2>3. CASE p[1] = job[o].host
    <3>1. p[2] = job[o].sha
      BY <1>3, <1>5, <1>2, <2>1, <2>2, <2>3 DEF Manifest
    <3>. QED BY <1>3, <2>3, <3>1
  <2>4. CASE p[1] # job[o].host
    <3>1. m[p[1]] = p[2]
      BY <1>3, <1>5, <2>1, <2>2, <2>4 DEF Manifest
    <3>2. p[2] # NoSHA
      BY <1>3, ConstantsAssumption
    <3>3. m = manifest[e] /\ manifest[e] # NoManifest
      BY <1>2, <1>3, <3>1, <3>2 DEF Empty
    <3>. QED BY <1>3, <1>5, <3>1, <3>3 DEF Pins
  <2>. QED BY <2>3, <2>4
<1>. QED BY <1>4, <1>5

LEMMA PinStep ==
    ASSUME ~IsApp, TypeOK, JobOK, FreshOK, SweepOK, \A o \in Operators : Alone(o),
           PinnedHasArtifact, [Next]_vars
    PROVE  PinnedHasArtifact'
<1>0. SUFFICES ASSUME NEW p \in Pins(manifest')
               PROVE  artifacts'[<<p[2], ArchOf[p[1]]>>] > 0
  BY DEF PinnedHasArtifact, Pins
<1>1. p \in Hosts \X Shas /\ <<p[2], ArchOf[p[1]]>> \in Keys
  BY ConstantsAssumption DEF Pins, Keys
<1>k. p \in Pins(manifest) => artifacts[<<p[2], ArchOf[p[1]]>>] > 0
  BY DEF PinnedHasArtifact
<1>2. CASE UNCHANGED <<artifacts, manifest>>
  BY <1>2, <1>k DEF Pins
<1>3. ASSUME NEW o \in Operators, Push(o)
      PROVE  artifacts'[<<p[2], ArchOf[p[1]]>>] > 0
  <2>1. PICK k \in Keys, t \in 1..MaxTime : artifacts' = [artifacts EXCEPT ![k] = t]
    BY <1>3 DEF Push
  <2>2. t > 0 /\ UNCHANGED manifest
    BY <1>3, ConstantsAssumption DEF Push
  <2>. QED BY <1>1, <1>k, <2>1, <2>2 DEF TypeOK, Pins
<1>4. ASSUME NEW o \in Operators, DeleteVariant(o)
      PROVE  artifacts'[<<p[2], ArchOf[p[1]]>>] > 0
  <2>1. PICK k \in sweep[o].doomed : artifacts' \in {artifacts, [artifacts EXCEPT ![k] = 0]}
    BY <1>4 DEF DeleteVariant
  <2>2. pc[o] = "delete" /\ UNCHANGED manifest
    BY <1>4 DEF DeleteVariant
  <2>3. p \in Pins(manifest)
    BY <2>2 DEF Pins
  <2>4. p \in held[o]
    BY <2>2, <2>3 DEF Alone, AsRead
  <2>5. k[1] # p[2]
    BY <2>2, <2>4 DEF SweepOK
  <2>6. k # <<p[2], ArchOf[p[1]]>>
    BY <2>5
  <2>. QED BY <1>1, <1>k, <2>1, <2>3, <2>6 DEF TypeOK
<1>5. ASSUME NEW o \in Operators, PutManifest(o)
      PROVE  artifacts'[<<p[2], ArchOf[p[1]]>>] > 0
  <2>1. pc[o] = "put" /\ UNCHANGED artifacts
    BY <1>5 DEF PutManifest, storeVars
  <2>2. Present(job[o].sha, job[o].env) /\ job[o].host \in TargetsOf(job[o].env)
    BY <2>1 DEF Alone, AsVerified, Shipping
  <2>3. artifacts[<<job[o].sha, ArchOf[job[o].host]>>] > 0
    BY <2>2 DEF Present
  <2>4. p \in Pins(manifest) \/ p = <<job[o].host, job[o].sha>>
    BY <1>5, PutPins
  <2>. QED BY <1>k, <2>1, <2>3, <2>4
<1>6. ASSUME NEW o \in Operators, DeleteEnvManifests(o)
      PROVE  artifacts'[<<p[2], ArchOf[p[1]]>>] > 0
  <2>1. manifest' = [manifest EXCEPT ![job[o].env] = NoManifest] /\ UNCHANGED artifacts
    BY <1>6 DEF DeleteEnvManifests, Store, storeVars
  <2>2. EnvOf[p[1]] \in Envs
    BY <1>1, ConstantsAssumption
  <2>3. p \in Pins(manifest)
    BY <2>1, <2>2 DEF Pins, TypeOK
  <2>. QED BY <1>k, <2>1, <2>3
<1>7. ASSUME NEW o \in Operators, Step(o)
      PROVE  \/ UNCHANGED <<artifacts, manifest>>
             \/ Push(o) \/ DeleteVariant(o) \/ PutManifest(o) \/ DeleteEnvManifests(o)
  BY <1>7 DEF Step, Sweeping, ListArtifacts, ListManifests, ReadManifest, SelectVictims, FinishSweep,
              StartDeploy, StartRollback, Delivering, Download, NextHost, LoadManifest, PutRefused,
              Apply, FinishDeploy, Destroy, Abort, storeVars
<1>8. ASSUME NEW e \in Envs, BringUp(e) PROVE UNCHANGED <<artifacts, manifest>>
  BY <1>8 DEF BringUp, storeVars
<1>. QED BY <1>2, <1>3, <1>4, <1>5, <1>6, <1>7, <1>8 DEF Next, vars

(* Everything above, together, while one command runs at a time. *)
OneCommand == TypeOK /\ JobOK /\ FreshOK /\ SweepOK /\ \A o \in Operators : Alone(o)

LEMMA OneCommandInvariance ==
    ASSUME \A q, r \in Operators : q = r
    PROVE  Spec => []OneCommand
<1>1. Init => OneCommand
  BY TypeInitial, FreshInitial, SweepInitial, AloneInitial DEF OneCommand
<1>2. OneCommand /\ [Next]_vars => OneCommand'
  <2>1. SUFFICES ASSUME OneCommand, [Next]_vars PROVE OneCommand'
    OBVIOUS
  <2>2. TypeOK' /\ JobOK' /\ FreshOK' /\ SweepOK'
    BY <2>1, TypeStep, FreshStep, SweepStep DEF OneCommand
  <2>3. \A o \in Operators : Alone(o)'
    BY <2>1, AloneStep DEF OneCommand
  <2>. QED BY <2>2, <2>3 DEF OneCommand
<1>. QED BY <1>1, <1>2, PTL DEF Spec

(* While one command runs at a time, whatever fails in it, every SHA a
   service's manifests pin can be fetched for the host it is pinned on
   (ADR-0016's pin invariant, store.go:275-276). *)
THEOREM PinsAreFetchable ==
    ASSUME ~IsApp, \A q, r \in Operators : q = r
    PROVE  Spec => []PinnedHasArtifact
<1>1. Init => PinnedHasArtifact
  BY ConstantsAssumption DEF Init, PinnedHasArtifact, Pins
<1>2. OneCommand /\ PinnedHasArtifact /\ [Next]_vars => PinnedHasArtifact'
  BY PinStep DEF OneCommand
<1>. QED BY <1>1, <1>2, OneCommandInvariance, PTL DEF Spec

(* A variant that a sweep deletes leaves what the sweep spares. *)
LEMMA DeleteKeeps ==
    ASSUME OneCommand, [Next]_vars, NEW k \in Keys, artifacts[k] > 0, artifacts'[k] = 0
    PROVE  Cardinality(Unpinned') >= Keep
<1>1. PICK o \in Operators : DeleteVariant(o)
  <2>1. ASSUME NEW o \in Operators, Push(o) PROVE FALSE
    <3>1. PICK l \in Keys, t \in 1..MaxTime : artifacts' = [artifacts EXCEPT ![l] = t]
      BY <2>1 DEF Push
    <3>2. t > 0
      BY ConstantsAssumption
    <3>. QED BY <3>1, <3>2 DEF OneCommand, TypeOK
  <2>2. ~UNCHANGED artifacts
    OBVIOUS
  <2>. QED BY <2>1, <2>2 DEF Next, Step, Sweeping, ListArtifacts, ListManifests, ReadManifest, SelectVictims,
              FinishSweep, StartDeploy, StartRollback, Delivering, Download, NextHost, LoadManifest, PutManifest,
              PutRefused, Apply, FinishDeploy, Destroy, DeleteEnvManifests, Abort, BringUp, storeVars, vars
<1>. DEFINE L == sweep[o].listed
            P == sweep[o].pinned
<1>2. pc[o] = "delete" /\ UNCHANGED manifest
  BY <1>1 DEF DeleteVariant
<1>3. PICK l \in sweep[o].doomed : artifacts' \in {artifacts, [artifacts EXCEPT ![l] = 0]}
  BY <1>1 DEF DeleteVariant
<1>4. l = k /\ k \in sweep[o].doomed
  BY <1>3 DEF OneCommand, TypeOK
<1>5. k[1] \in Victims(L, P) /\ L \in Dated /\ Archs # {}
  BY <1>2, <1>4 DEF OneCommand, Alone, AsSelected, Keys
<1>6. IsFiniteSet(Spared(L, P)) /\ Cardinality(Spared(L, P)) >= Keep
  BY <1>5, SparedAreEnough DEF Dated
<1>7. ASSUME NEW s \in Spared(L, P) PROVE s \in Unpinned'
  <2>1. s \in Shas /\ Recency(L, s) > 0 /\ s \notin P /\ s \notin Victims(L, P)
    BY DEF Spared, Unpinning
  <2>2. PICK a \in Archs : L[<<s, a>>] = Recency(L, s)
    BY <1>5, <2>1, RecencyDates DEF Dated
  <2>3. <<s, a>> \in Keys /\ <<s, a>> \notin sweep[o].gone /\ <<s, a>> # k
    BY <1>2, <1>5, <2>1 DEF OneCommand, Alone, AsSelected, Keys
  <2>4. artifacts[<<s, a>>] > 0
    BY <1>2, <2>1, <2>2, <2>3 DEF OneCommand, Alone, AsListed, Listing
  <2>5. artifacts'[<<s, a>>] > 0
    BY <1>3, <1>4, <2>3, <2>4 DEF OneCommand, TypeOK
  <2>6. s \notin PinnedNow
    BY <1>2, <2>1 DEF PinnedNow, OneCommand, Alone, AsRead
  <2>7. UNCHANGED PinnedNow
    BY <1>2 DEF PinnedNow, Pins
  <2>. QED BY <2>1, <2>5, <2>6, <2>7 DEF Unpinned
<1>8. IsFiniteSet(Unpinned')
  <2>1. Unpinned' \in SUBSET Shas /\ IsFiniteSet(Shas)
    BY ConstantsAssumption DEF Unpinned
  <2>. QED BY <2>1, FS_Subset
<1>9. Cardinality(Spared(L, P)) <= Cardinality(Unpinned')
  <2>1. Spared(L, P) \in SUBSET Unpinned'
    BY <1>7
  <2>. QED BY <2>1, <1>8, FS_Subset
<1>10. Cardinality(Spared(L, P)) \in Nat /\ Cardinality(Unpinned') \in Nat /\ Keep \in Nat
  BY <1>6, <1>8, FS_CardinalityType, ConstantsAssumption
<1>. QED BY <1>6, <1>9, <1>10

(* What a sweep reports has no variant left: each was absent from the listing
   or is deleted. *)
LEMMA ReportsTheGone == OneCommand => ReportedIsGone
<1>1. SUFFICES ASSUME OneCommand, NEW o \in Operators, pc[o] = "delete",
                      NEW s \in Reported(o), NEW a \in Archs
               PROVE  artifacts[<<s, a>>] = 0
  BY DEF ReportedIsGone
<1>2. s \in Shas /\ <<s, a>> \in Keys
  BY DEF Reported, Keys
<1>3. sweep[o].listed[<<s, a>>] > 0 => <<s, a>> \in sweep[o].gone
  BY <1>2 DEF Reported
<1>4. sweep[o].listed[<<s, a>>] \in Nat
  <2>1. sweep[o] \in Sweeps
    BY <1>1 DEF OneCommand, TypeOK
  <2>. QED BY <1>2, <2>1 DEF Sweeps
<1>5. artifacts[<<s, a>>] = IF <<s, a>> \in sweep[o].gone THEN 0 ELSE sweep[o].listed[<<s, a>>]
  BY <1>1, <1>2 DEF OneCommand, Alone, AsListed, Listing
<1>. QED BY <1>3, <1>4, <1>5

(* While one command runs at a time a sweep does what it says: a SHA is
   reported as deleted only once every variant of it is gone, and no delete
   leaves fewer than Keep unpinned SHAs (store.go:313-320, 352-356). *)
THEOREM SweepIsHonestAlways ==
    ASSUME \A q, r \in Operators : q = r
    PROVE  Spec => SweepIsHonest
<1>1. OneCommand /\ [Next]_vars =>
        [\A k \in Keys : artifacts[k] > 0 /\ artifacts'[k] = 0 => Cardinality(Unpinned') >= Keep]_vars
  BY DeleteKeeps
<1>. QED BY <1>1, ReportsTheGone, OneCommandInvariance, PTL DEF Spec, SweepIsHonest, SweepKeepsHistory

-----------------------------------------------------------------------------
(***************************************************************************)
(* The other end of a release.  A release of an app writes the manifest    *)
(* and then runs its script on the ingress host: what holds of AppHost for *)
(* every set of bundles and scripts and every retention, namely `current`  *)
(* under any overlap of scripts, and what is served while they run one at  *)
(* a time.                                                                 *)
(***************************************************************************)


ScriptPoints == {"idle", "extract", "extracting", "test", "nginx -t", "ln", "mv", "reload",
           "readlink", "ls", "rm", "done"}
LinkTargets == Bundles \cup {Nothing}
ScriptGCs == [spare : LinkTargets \cup {Placeholder}, doomed : SUBSET Bundles]

(* FolderOK of the state: a script under way knows its bundle. *)
FolderOK ==
    /\ bundle \in [Bundles -> {"absent", "partial", "complete"}]
    /\ current \in LinkTargets \cup {Placeholder} /\ tmp \in LinkTargets
    /\ seed \in {"idle", "link"}
    /\ at \in [Scripts -> ScriptPoints]
    /\ sha \in [Scripts -> LinkTargets]
    /\ kind \in [Scripts -> {"release", "rollback", Nothing}]
    /\ gc \in [Scripts -> ScriptGCs]
    /\ overlapped \in BOOLEAN
    /\ \A r \in Scripts : at[r] # "idle" => sha[r] \in Bundles

LEMMA FolderInitial == AppInit => FolderOK
<1>1. NoGC \in ScriptGCs
  BY DEF NoGC, ScriptGCs, LinkTargets
<1> QED BY <1>1 DEF AppInit, FolderOK, ScriptPoints, LinkTargets

LEMMA StartKeepsFolder ==
  ASSUME FolderOK, NEW r \in Scripts, NEW s \in Bundles, NEW k \in {"release", "rollback"},
         NEW c \in ScriptPoints, Start(r, k, s, c)
  PROVE  FolderOK'
  BY DEF FolderOK, Start, Continue, LinkTargets

LEMMA ResetKeepsFolder == ASSUME FolderOK, NEW r \in Scripts, Reset(r) PROVE FolderOK'
<1>1. NoGC \in ScriptGCs
  BY DEF NoGC, ScriptGCs, LinkTargets
<1> QED BY <1>1 DEF FolderOK, Reset, Continue, ScriptPoints, LinkTargets

LEMMA ListKeepsFolder == ASSUME FolderOK, NEW r \in Scripts, GCList(r) PROVE FolderOK'
<1>1. PICK d \in Surplus(Delivered \ {gc[r].spare}) :
         gc' = [gc EXCEPT ![r] = [spare |-> gc[r].spare, doomed |-> d]]
  BY DEF GCList, List
<1>2. d \subseteq Bundles
  BY DEF Surplus, Delivered
<1>3. [spare |-> gc[r].spare, doomed |-> d] \in ScriptGCs
  BY <1>2 DEF FolderOK, ScriptGCs
<1> QED BY <1>1, <1>3 DEF FolderOK, GCList, List, Continue, ScriptPoints

LEMMA RemoveKeepsFolder == ASSUME FolderOK, NEW r \in Scripts, GCRemove(r) PROVE FolderOK'
<1>1. PICK s \in gc[r].doomed :
         /\ bundle' = [bundle EXCEPT ![s] = "absent"]
         /\ gc' = [gc EXCEPT ![r] = [spare |-> gc[r].spare, doomed |-> gc[r].doomed \ {s}]]
  BY DEF GCRemove
<1>2. [spare |-> gc[r].spare, doomed |-> gc[r].doomed \ {s}] \in ScriptGCs
  BY DEF FolderOK, ScriptGCs
<1> QED BY <1>1, <1>2 DEF FolderOK, GCRemove

LEMMA FolderStep == FolderOK /\ [AppNext]_appVars => FolderOK'
<1> SUFFICES ASSUME FolderOK, [AppNext]_appVars PROVE FolderOK'
  OBVIOUS
<1>1. CASE SeedTest \/ SeedLink
  BY <1>1 DEF FolderOK, SeedTest, SeedLink, memory, LinkTargets
<1>2. ASSUME NEW r \in Scripts, Release(r) \/ Rollback(r) PROVE FolderOK'
  BY <1>2, StartKeepsFolder DEF Release, Rollback, ScriptPoints
<1>3. ASSUME NEW r \in Scripts, Extract(r) \/ Extracted(r) \/ TestDir(r) \/ NginxTest(r) PROVE FolderOK'
  BY <1>3 DEF FolderOK, Extract, Extracted, TestDir, NginxTest, Continue, memory, ScriptPoints
<1>4. ASSUME NEW r \in Scripts, StageLink(r) \/ PublishLink(r) \/ Reload(r) \/ GCDone(r) PROVE FolderOK'
  BY <1>4 DEF FolderOK, StageLink, PublishLink, Reload, GCDone, Continue, memory, ScriptPoints, LinkTargets
<1>5. ASSUME NEW r \in Scripts, GCReadlink(r) PROVE FolderOK'
  <2>1. [spare |-> current, doomed |-> {}] \in ScriptGCs
    BY DEF FolderOK, ScriptGCs
  <2> QED BY <1>5, <2>1 DEF FolderOK, GCReadlink, Continue, ScriptPoints
<1>6. ASSUME NEW r \in Scripts, Succeed(r) \/ Fail(r) PROVE FolderOK'
  BY <1>6, ResetKeepsFolder DEF Succeed, Fail
<1>7. CASE UNCHANGED appVars
  BY <1>7 DEF FolderOK, appVars
<1> QED BY <1>1, <1>2, <1>3, <1>4, <1>5, <1>6, <1>7, ListKeepsFolder, RemoveKeepsFolder DEF AppNext

(* What the scripts, overlapping and interrupted anywhere, leave of the folder
   and of themselves has this shape (app.go:61-91). *)
THEOREM FolderCorrect == AppSpec => []FolderOK
  BY FolderInitial, FolderStep, PTL DEF AppSpec

-----------------------------------------------------------------------------
(* Whatever runs beside it, no step takes the document root away, and        *)
(* provisioning creates `current` only where there is none.                  *)

LEMMA RootStep ==
  FolderOK /\ [AppNext]_appVars =>
    /\ current # Nothing => current' # Nothing
    /\ current' = Placeholder => current \in {Nothing, Placeholder}
<1> SUFFICES ASSUME FolderOK, AppNext, current' # current
             PROVE  current = Nothing \/ current' \in Bundles
  BY AppHostAssumption DEF appVars
<1>1. CASE SeedTest \/ SeedLink
  BY <1>1 DEF SeedTest, SeedLink
<1>2. ASSUME NEW r \in Scripts, PublishLink(r) PROVE current' \in Bundles
  BY <1>2 DEF PublishLink, FolderOK, LinkTargets
<1>3. ASSUME NEW r \in Scripts, ~PublishLink(r),
             \/ Release(r) \/ Rollback(r) \/ Extract(r) \/ Extracted(r) \/ TestDir(r)
             \/ NginxTest(r) \/ StageLink(r) \/ Reload(r)
             \/ GCReadlink(r) \/ GCList(r) \/ GCRemove(r) \/ GCDone(r)
             \/ Succeed(r) \/ Fail(r)
      PROVE  FALSE
  BY <1>3 DEF Release, Rollback, Start, Extract, Extracted, TestDir, NginxTest, StageLink, Reload,
       GCReadlink, GCList, List, GCRemove, GCDone, Succeed, Fail, Reset
<1> QED BY <1>1, <1>2, <1>3 DEF AppNext

(* The atomic swap of `current` (app.go:68-75, 57-58). *)
THEOREM RootNeverLost == AppSpec => CurrentNeverLost
<1>1. AppSpec => []FolderOK
  BY FolderCorrect
<1>2. FolderOK /\ [AppNext]_appVars =>
        [/\ current # Nothing => current' # Nothing
         /\ current' = Placeholder => current \in {Nothing, Placeholder}]_appVars
  BY RootStep
<1> QED BY <1>1, <1>2, PTL DEF AppSpec, CurrentNeverLost

-----------------------------------------------------------------------------
(* One script at a time.                                                     *)

(* Where a script is once it has found or made its bundle's directory, moved
   the link, and read the link for its GC. *)
InScriptGC == {"ls", "rm"}
HasPublished == {"reload", "readlink", "done"} \cup InScriptGC
HasBundle == {"nginx -t", "ln", "mv"} \cup HasPublished

(* What a script that is alone has staged, published and read is still so, and
   its GC spares what it published. *)
ScriptProgress(r) ==
    /\ at[r] \in HasBundle => bundle[sha[r]] # "absent"
    /\ at[r] = "mv" => tmp = sha[r]
    /\ at[r] \in HasPublished => current = sha[r]
    /\ at[r] \in InScriptGC => gc[r].spare = current
    /\ at[r] = "rm" => gc[r].spare \notin gc[r].doomed

CurrentBacked == current \in Bundles => bundle[current] # "absent"

AloneOnHost ==
    ~overlapped =>
        /\ \A q, r \in Scripts : at[q] # "idle" /\ at[r] # "idle" => q = r
        /\ CurrentBacked
        /\ \A r \in Scripts : ScriptProgress(r)

LEMMA AloneOnHostInitial == AppInit => AloneOnHost
  BY AppHostAssumption DEF AppInit, AloneOnHost, CurrentBacked, ScriptProgress, InScriptGC, HasPublished, HasBundle

(* The script that moves is the only one under way. *)
OthersIdle(r) == \A q \in Scripts \ {r} : at[q] = "idle"

LEMMA AloneOnHostMoves ==
  ASSUME FolderOK, FolderOK', NEW r \in Scripts, OthersIdle(r), UNCHANGED overlapped,
         \A q \in Scripts \ {r} : at'[q] = at[q], CurrentBacked', ScriptProgress(r)'
  PROVE  AloneOnHost'
<1>1. \A q \in Scripts \ {r} : ScriptProgress(q)'
  BY DEF OthersIdle, ScriptProgress, HasBundle, HasPublished, InScriptGC
<1> QED BY <1>1 DEF AloneOnHost, OthersIdle

LEMMA AloneOnHostStep == FolderOK /\ FolderOK' /\ AloneOnHost /\ [AppNext]_appVars => AloneOnHost'
<1> SUFFICES ASSUME FolderOK, FolderOK', AloneOnHost, [AppNext]_appVars PROVE AloneOnHost'
  OBVIOUS
<1>a. overlapped => overlapped'
  <2>1. ASSUME NEW r \in Scripts, Release(r) \/ Rollback(r) PROVE overlapped => overlapped'
    <3> DEFINE other == \E q \in Scripts : at[q] # "idle"
    <3>1. overlapped' = (overlapped \/ other)
      BY <2>1 DEF Release, Rollback, Start
    <3> HIDE DEF other
    <3> QED BY <3>1
  <2>2. (\E r \in Scripts : Release(r) \/ Rollback(r)) \/ UNCHANGED overlapped
    BY DEF AppNext, appVars, memory, SeedTest, SeedLink, Extract, Extracted, TestDir, NginxTest,
         StageLink, PublishLink, Reload, GCReadlink, GCList, List, GCRemove, GCDone, Succeed, Fail, Reset
  <2> QED BY <2>1, <2>2
<1> SUFFICES ASSUME ~overlapped' PROVE AloneOnHost'
  BY DEF AloneOnHost
<1>b. ~overlapped
  BY <1>a
<1>0. ASSUME NEW r \in Scripts, at[r] # "idle" PROVE OthersIdle(r) /\ CurrentBacked /\ ScriptProgress(r)
  BY <1>0, <1>b DEF AloneOnHost, OthersIdle
<1> USE <1>b DEF InScriptGC, HasPublished, HasBundle
<1>1. CASE SeedTest \/ SeedLink
  <2>1. UNCHANGED <<bundle, tmp, at, sha, gc>> /\ (current' # current => current = Nothing /\ current' = Placeholder)
    BY <1>1 DEF SeedTest, SeedLink, memory
  <2>2. \A r \in Scripts : at[r] \in HasPublished => current = sha[r] /\ sha[r] \in Bundles
    BY DEF FolderOK, AloneOnHost, ScriptProgress
  <2>3. CurrentBacked'
    BY <2>1, AppHostAssumption DEF AloneOnHost, CurrentBacked
  <2>4. ASSUME NEW r \in Scripts PROVE ScriptProgress(r)'
    <3>1. ScriptProgress(r) /\ (at[r] \in HasPublished => current' = current)
      BY <2>1, <2>2, AppHostAssumption DEF AloneOnHost
    <3> QED BY <2>1, <3>1 DEF ScriptProgress
  <2> QED BY <2>1, <2>3, <2>4 DEF AloneOnHost
<1>2. ASSUME NEW r \in Scripts, Release(r) \/ Rollback(r) PROVE AloneOnHost'
  <2>1. PICK c \in {"extract", "test"} : at' = [at EXCEPT ![r] = c]
    BY <1>2 DEF Release, Rollback, Start, Continue
  <2>2. at[r] = "idle" /\ (\A q \in Scripts : at[q] = "idle") /\ UNCHANGED <<bundle, current>>
    BY <1>2 DEF Release, Rollback, Start
  <2>3. \A q \in Scripts : at'[q] = IF q = r THEN c ELSE "idle"
    BY <2>1, <2>2 DEF FolderOK
  <2> QED BY <2>2, <2>3 DEF AloneOnHost, ScriptProgress, CurrentBacked
<1>3. ASSUME NEW r \in Scripts,
             Extract(r) \/ Extracted(r) \/ TestDir(r) \/ NginxTest(r) \/ StageLink(r) \/ PublishLink(r)
      PROVE  AloneOnHost'
  <2>1. at[r] # "idle" /\ sha[r] \in Bundles /\ UNCHANGED <<sha, gc, overlapped>>
    BY <1>3 DEF FolderOK, Extract, Extracted, TestDir, NginxTest, StageLink, PublishLink, memory
  <2>2. OthersIdle(r) /\ CurrentBacked /\ ScriptProgress(r)
    BY <1>0, <2>1
  <2>3. \A q \in Scripts \ {r} : at'[q] = at[q]
    BY <1>3 DEF FolderOK, Extract, Extracted, TestDir, NginxTest, StageLink, PublishLink, Continue
  <2>4. CurrentBacked' /\ ScriptProgress(r)'
    <3>1. CASE Extract(r) \/ Extracted(r)
      <4>1. PICK c \in {"partial", "complete"} : bundle' = [bundle EXCEPT ![sha[r]] = c]
        BY <3>1 DEF Extract, Extracted
      <4>2. \A t \in Bundles : bundle'[t] = IF t = sha[r] THEN c ELSE bundle[t]
        BY <4>1, <2>1 DEF FolderOK
      <4>3. at'[r] \in {"extracting", "nginx -t"} /\ current' = current /\ sha'[r] = sha[r]
        BY <2>1, <3>1 DEF FolderOK, Extract, Extracted, Continue, memory
      <4>4. CurrentBacked'
        BY <2>2, <4>2, <4>3 DEF CurrentBacked
      <4>5. ScriptProgress(r)'
        BY <2>1, <4>2, <4>3 DEF ScriptProgress
      <4> QED BY <4>4, <4>5
    <3>2. CASE TestDir(r) \/ NginxTest(r) \/ StageLink(r)
      BY <2>1, <2>2, <3>2 DEF FolderOK, TestDir, NginxTest, StageLink, Continue, CurrentBacked, ScriptProgress
    <3>3. CASE PublishLink(r)
      BY <2>1, <2>2, <3>3 DEF FolderOK, PublishLink, Continue, CurrentBacked, ScriptProgress
    <3> QED BY <1>3, <3>1, <3>2, <3>3
  <2> QED BY <2>1, <2>2, <2>3, <2>4, AloneOnHostMoves
<1>4. ASSUME NEW r \in Scripts, Reload(r) \/ GCReadlink(r) \/ GCList(r) \/ GCDone(r)
      PROVE  AloneOnHost'
  <2>1. at[r] # "idle" /\ UNCHANGED <<bundle, current, tmp, sha, overlapped>>
    BY <1>4 DEF Reload, GCReadlink, GCList, List, GCDone, memory
  <2>2. OthersIdle(r) /\ CurrentBacked /\ ScriptProgress(r)
    BY <1>0, <2>1
  <2>3. \A q \in Scripts \ {r} : at'[q] = at[q]
    BY <1>4 DEF FolderOK, Reload, GCReadlink, GCList, List, GCDone, Continue
  <2>4. ScriptProgress(r)'
    <3>1. CASE Reload(r) \/ GCDone(r)
      BY <2>1, <2>2, <3>1 DEF FolderOK, Reload, GCDone, Continue, ScriptProgress, memory
    <3>2. CASE GCReadlink(r)
      BY <2>1, <2>2, <3>2 DEF FolderOK, GCReadlink, Continue, ScriptProgress
    <3>3. CASE GCList(r)
      <4>1. PICK d \in Surplus(Delivered \ {gc[r].spare}) :
               gc' = [gc EXCEPT ![r] = [spare |-> gc[r].spare, doomed |-> d]]
        BY <3>3 DEF GCList, List
      <4>2. gc[r].spare \notin d
        BY DEF Surplus
      <4>3. gc'[r].spare = gc[r].spare /\ gc'[r].doomed = d
        BY <4>1 DEF FolderOK
      <4> QED BY <2>1, <2>2, <3>3, <4>2, <4>3 DEF FolderOK, GCList, List, Continue, ScriptProgress
    <3> QED BY <1>4, <3>1, <3>2, <3>3
  <2>5. CurrentBacked'
    BY <2>1, <2>2 DEF CurrentBacked
  <2> QED BY <2>1, <2>2, <2>3, <2>4, <2>5, AloneOnHostMoves
<1>5. ASSUME NEW r \in Scripts, GCRemove(r) PROVE AloneOnHost'
  <2>1. PICK s \in gc[r].doomed :
           /\ bundle' = [bundle EXCEPT ![s] = "absent"]
           /\ gc' = [gc EXCEPT ![r] = [spare |-> gc[r].spare, doomed |-> gc[r].doomed \ {s}]]
    BY <1>5 DEF GCRemove
  <2>2. UNCHANGED <<current, tmp, at, sha, overlapped>> /\ at[r] = "rm"
    BY <1>5 DEF GCRemove
  <2>3. OthersIdle(r) /\ CurrentBacked /\ ScriptProgress(r)
    BY <1>0, <2>2
  <2>4. s # current /\ current = sha[r] /\ gc[r].spare = current
    BY <2>2, <2>3 DEF ScriptProgress
  <2>5. bundle'[current] = bundle[current] /\ gc'[r].spare = gc[r].spare /\ gc'[r].doomed = gc[r].doomed \ {s}
    BY <2>1, <2>4 DEF FolderOK
  <2>6. CurrentBacked' /\ ScriptProgress(r)'
    BY <2>2, <2>3, <2>4, <2>5 DEF CurrentBacked, ScriptProgress
  <2> QED BY <2>2, <2>3, <2>6, AloneOnHostMoves
<1>6. ASSUME NEW r \in Scripts, Succeed(r) \/ Fail(r) PROVE AloneOnHost'
  <2>1. at[r] # "idle" /\ UNCHANGED <<bundle, current, overlapped>> /\ at' = [at EXCEPT ![r] = "idle"]
    BY <1>6 DEF Succeed, Fail, Reset, Continue
  <2>2. OthersIdle(r) /\ CurrentBacked /\ ScriptProgress(r)
    BY <1>0, <2>1
  <2>3. at'[r] = "idle" /\ \A q \in Scripts \ {r} : at'[q] = at[q]
    BY <2>1 DEF FolderOK
  <2> QED BY <2>1, <2>2, <2>3, AloneOnHostMoves DEF CurrentBacked, ScriptProgress
<1>7. CASE UNCHANGED appVars
  BY <1>7 DEF AloneOnHost, CurrentBacked, ScriptProgress, appVars
<1> QED BY <1>1, <1>2, <1>3, <1>4, <1>5, <1>6, <1>7 DEF AppNext

(* The served bundle exists and is the reported one (app.go:61-66, 82-87). *)
THEOREM AloneServes == AppSpec => []AloneIsServed
<1>1. AppInit => FolderOK /\ AloneOnHost
  BY FolderInitial, AloneOnHostInitial
<1>2. FolderOK /\ AloneOnHost /\ [AppNext]_appVars => FolderOK' /\ AloneOnHost'
  BY FolderStep, AloneOnHostStep
<1>3. AloneOnHost => AloneIsServed
  BY DEF AloneOnHost, CurrentBacked, ScriptProgress, AloneIsServed, HasPublished, InScriptGC
<1> QED BY <1>1, <1>2, <1>3, PTL DEF AppSpec
=============================================================================
