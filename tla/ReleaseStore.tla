---------------------------- MODULE ReleaseStore ----------------------------
(***************************************************************************)
(* The release store of one workload (a service or an app) and the CLI     *)
(* commands that share it: internal/release/{store,manifest}.go driven by  *)
(* cmd/inforge/{releases,release}.go and the ephemeral teardown.           *)
(*                                                                         *)
(* The store is an S3 bucket: artifacts keyed by (SHA, arch), and one      *)
(* manifest object per environment recording, per host, the SHA delivered  *)
(* to it.  Every command is a sequence of single S3/SSH calls, and the     *)
(* calls of several operators interleave: there is no lock and no          *)
(* snapshot.  A manifest is only ever written by compare-and-swap.         *)
(***************************************************************************)
EXTENDS Integers, FiniteSets

CONSTANTS
    Shas,        \* artifact SHAs; naturals, so that the tie-break order exists
    Archs,       \* the arch suffixes in use ({NoArch} for an app)
    Hosts,       \* the hosts the workload is delivered to
    Envs,        \* the environments
    EnvOf,       \* host -> its environment
    ArchOf,      \* host -> the arch its probe detects
    Ephemeral,   \* the environments that may be torn down
    Operators,   \* concurrent CLI invocations (laptops, CI jobs)
    IsApp,       \* an app can be rolled back, a service cannot
    Keep,        \* artifacts.keep: unpinned artifacts a sweep retains
    MaxAttempts, \* manifestCASAttempts
    MaxTime,     \* bound: seconds the bucket's LastModified clock advances
    NoSHA,       \* "no entry"
    NoManifest   \* "no such object"

ASSUME ConstantsAssumption ==
    /\ Shas \subseteq Nat /\ IsFiniteSet(Shas) /\ NoSHA \notin Shas
    /\ EnvOf \in [Hosts -> Envs] /\ ArchOf \in [Hosts -> Archs]
    /\ Ephemeral \subseteq Envs
    /\ IsApp \in BOOLEAN
    /\ Keep \in Nat /\ MaxTime \in Nat /\ MaxAttempts \in Nat \ {0}

Keys == Shas \X Archs
Manifest == [Hosts -> Shas \cup {NoSHA}]

ASSUME NoManifestAssumption == NoManifest \notin Manifest

VARIABLES
    artifacts, \* key -> LastModified second, 0 when the object is absent
    clock,     \* the bucket's clock, in seconds
    manifest,  \* env -> manifest object, or NoManifest
    up,        \* env -> its hosts exist
    live,      \* host -> the SHA it runs
    pc,        \* operator -> the call it makes next
    job,       \* operator -> what it delivers: sha, env, hosts left, host
    sweep,     \* operator -> its prune: listing, manifests to read, pins, keys to delete, deleted
    cas,       \* operator -> its manifest update: object read, whether that is stale, 412s
    held       \* history: operator -> host entries unchanged since its sweep began to read pins

vars == <<artifacts, clock, manifest, up, live, pc, job, sweep, cas, held>>
storeVars == <<artifacts, clock>>
hostVars == <<up, live>>

Empty == [h \in Hosts |-> NoSHA]
TargetsOf(e) == {h \in Hosts : EnvOf[h] = e}

(* Mutant: a host without an entry pins the blank SHA *)
ShasOfWithBlank(m) == IF m = NoManifest THEN {} ELSE {m[h] : h \in Hosts}

(* Manifest.SHAs: what one manifest pins *)
ShasOf(m) == IF m = NoManifest THEN {} ELSE {m[h] : h \in Hosts} \ {NoSHA}

(* One pin is one host's entry; PinnedNow is what an atomic read would see *)
Pins(mf) == {p \in Hosts \X Shas : mf[EnvOf[p[1]]] # NoManifest /\ mf[EnvOf[p[1]]][p[1]] = p[2]}
PinnedNow == {p[2] : p \in Pins(manifest)}

(* What a command holds in memory is gone when it ends *)
NoJob == [sha |-> NoSHA, env |-> NoSHA, todo |-> {}, host |-> NoSHA]
NoSweep == [listed |-> [k \in Keys |-> 0], unread |-> {}, pinned |-> {}, doomed |-> {}, gone |-> {}]
NoCAS == [seen |-> NoManifest, stale |-> FALSE, tries |-> 0, rivals |-> 0]

Init ==
    /\ artifacts = [k \in Keys |-> 0]
    /\ clock = 0
    /\ manifest = [e \in Envs |-> NoManifest]
    /\ up = [e \in Envs |-> TRUE]
    /\ live = [h \in Hosts |-> NoSHA]
    /\ pc = [o \in Operators |-> "idle"]
    /\ job = [o \in Operators |-> NoJob]
    /\ sweep = [o \in Operators |-> NoSweep]
    /\ cas = [o \in Operators |-> NoCAS]
    /\ held = [o \in Operators |-> {}]

-----------------------------------------------------------------------------
(* Retention policy (pure). *)

(* coalesceArtifacts: the newest variant dates the SHA; 0 when it has none *)
Recency(listed, s) ==
    CHOOSE t \in {listed[<<s, a>>] : a \in Archs} : \A a \in Archs : listed[<<s, a>>] <= t

(* selectForPrune: the SHAs with at least Keep newer unpinned ones; ties go
   to the smaller SHA; Keep = 0 disables pruning *)
Newer(listed, s, t) ==
    \/ Recency(listed, s) > Recency(listed, t)
    \/ Recency(listed, s) = Recency(listed, t) /\ s < t

(* Mutants: the pins are not excluded; one too many falls out of the window *)
VictimsPinned(listed, pinned) ==
    LET all == {s \in Shas : Recency(listed, s) > 0}
    IN  {s \in all : Keep > 0 /\ Cardinality({t \in all : Newer(listed, t, s)}) >= Keep}
VictimsOffByOne(listed, pinned) ==
    LET unpinned == {s \in Shas : Recency(listed, s) > 0} \ pinned
    IN  {s \in unpinned : Keep > 0 /\ Cardinality({t \in unpinned : Newer(listed, t, s)}) + 1 >= Keep}

Victims(listed, pinned) ==
    LET unpinned == {s \in Shas : Recency(listed, s) > 0} \ pinned
    IN  {s \in unpinned : Keep > 0 /\ Cardinality({t \in unpinned : Newer(listed, t, s)}) >= Keep}

-----------------------------------------------------------------------------
(* Push, then the best-effort sweep: releases push, pushAppBundle, Prune.   *)

Goto(o, label) == pc' = [pc EXCEPT ![o] = label]

(* The command of o ends: what it stored stays, its memory goes *)
End(o) ==
    /\ Goto(o, "idle")
    /\ job' = [job EXCEPT ![o] = NoJob]
    /\ sweep' = [sweep EXCEPT ![o] = NoSweep]
    /\ cas' = [cas EXCEPT ![o] = NoCAS]
    /\ held' = [held EXCEPT ![o] = {}]

(* PutArtifact overwrites: re-pushing a SHA refreshes its date.  Two puts
   may fall in one second, as LastModified is compared in seconds. *)
Push(o) ==
    /\ pc[o] = "idle"
    /\ \E k \in Keys, t \in {clock, clock + 1} :
         /\ t \in 1..MaxTime
         /\ artifacts' = [artifacts EXCEPT ![k] = t]
         /\ clock' = t
    /\ Goto(o, "list")
    /\ UNCHANGED <<manifest, hostVars, job, sweep, cas, held>>

(* Prune lists the artifacts first ... *)
ListArtifacts(o) ==
    /\ pc[o] = "list"
    /\ sweep' = [sweep EXCEPT ![o] = [sweep[o] EXCEPT !.listed = artifacts]]
    /\ Goto(o, "listPins")
    /\ UNCHANGED <<storeVars, manifest, hostVars, job, cas, held>>

(* ... then PinnedSHAs lists the manifests there are ... *)
ListManifests(o) ==
    /\ pc[o] = "listPins"
    /\ sweep' = [sweep EXCEPT ![o] = [sweep[o] EXCEPT
                  !.unread = {e \in Envs : manifest[e] # NoManifest}, !.pinned = {}]]
    /\ held' = [held EXCEPT ![o] = Pins(manifest)]
    /\ Goto(o, "readPins")
    /\ UNCHANGED <<storeVars, manifest, hostVars, job, cas>>

(* ... and GETs them one at a time; one that vanished meanwhile is an error
   that ends the sweep with nothing deleted *)
ReadManifest(o) ==
    /\ pc[o] = "readPins"
    /\ \E e \in sweep[o].unread :
         \/ /\ manifest[e] # NoManifest
            /\ sweep' = [sweep EXCEPT ![o] = [sweep[o] EXCEPT
                          !.unread = sweep[o].unread \ {e}, !.pinned = sweep[o].pinned \cup ShasOf(manifest[e])]]
            /\ UNCHANGED <<pc, job, cas, held>>
         \/ manifest[e] = NoManifest /\ End(o)
    /\ UNCHANGED <<storeVars, manifest, hostVars>>

SelectVictims(o) ==
    /\ pc[o] = "readPins"
    /\ sweep[o].unread = {}
    /\ LET victims == Victims(sweep[o].listed, sweep[o].pinned)
       IN  sweep' = [sweep EXCEPT ![o] = [sweep[o] EXCEPT
                        !.doomed = {k \in Keys : sweep[o].listed[k] > 0 /\ k[1] \in victims}, !.gone = {}]]
    /\ Goto(o, "delete")
    /\ UNCHANGED <<storeVars, manifest, hostVars, job, cas, held>>

(* Every listed variant of a victim is deleted; a failed DeleteObject is
   collected and does not stop the sweep *)
DeleteVariant(o) ==
    /\ pc[o] = "delete"
    /\ \E k \in sweep[o].doomed :
         \/ /\ artifacts' = [artifacts EXCEPT ![k] = 0]
            /\ sweep' = [sweep EXCEPT ![o] = [sweep[o] EXCEPT !.doomed = sweep[o].doomed \ {k}, !.gone = sweep[o].gone \cup {k}]]
         \/ /\ sweep' = [sweep EXCEPT ![o] = [sweep[o] EXCEPT !.doomed = sweep[o].doomed \ {k}]]
            /\ UNCHANGED artifacts
    /\ UNCHANGED <<clock, manifest, hostVars, pc, job, cas, held>>

FinishSweep(o) ==
    /\ pc[o] = "delete"
    /\ sweep[o].doomed = {}
    /\ End(o)
    /\ UNCHANGED <<storeVars, manifest, hostVars>>

-----------------------------------------------------------------------------
(* Deploy and rollback: verify, download, then per host pin and apply.      *)

(* Mutant: one arch is enough *)
PresentForOne(s, e) == \E h \in TargetsOf(e) : artifacts[<<s, ArchOf[h]>>] > 0
Present(s, e) == \A h \in TargetsOf(e) : artifacts[<<s, ArchOf[h]>>] > 0

Order(o, s, e) == job' = [job EXCEPT ![o] = [sha |-> s, env |-> e, todo |-> TargetsOf(e), host |-> NoSHA]]

(* verifyArchsPushed / ArtifactExists: nothing starts without every variant
   the probed hosts need *)
StartDeploy(o) ==
    /\ pc[o] = "idle"
    /\ \E s \in Shas, e \in Envs :
         /\ up[e] /\ TargetsOf(e) # {}
         /\ Present(s, e)
         /\ Order(o, s, e)
    /\ Goto(o, "download")
    /\ UNCHANGED <<storeVars, manifest, hostVars, sweep, cas, held>>

(* downloadArchPayloads: a GET that misses ends the command *)
Download(o) ==
    /\ pc[o] = "download"
    /\ IF Present(job[o].sha, job[o].env)
       THEN Goto(o, "deliver") /\ UNCHANGED <<job, sweep, cas, held>>
       ELSE End(o)
    /\ UNCHANGED <<storeVars, manifest, hostVars>>

(* release app --rollback never touches the store's artifacts *)
StartRollback(o) ==
    /\ IsApp
    /\ pc[o] = "idle"
    /\ \E s \in Shas, e \in Envs :
         /\ up[e] /\ TargetsOf(e) # {}
         /\ Order(o, s, e)
    /\ Goto(o, "deliver")
    /\ UNCHANGED <<storeVars, manifest, hostVars, sweep, cas, held>>

(* deliverReleaseTo: one host after the other *)
NextHost(o) ==
    /\ pc[o] = "deliver"
    /\ \E h \in job[o].todo :
         job' = [job EXCEPT ![o] = [job[o] EXCEPT !.host = h, !.todo = job[o].todo \ {h}]]
    /\ Goto(o, "load")
    /\ UNCHANGED <<storeVars, manifest, hostVars, sweep, cas, held>>

FinishDeploy(o) ==
    /\ pc[o] = "deliver"
    /\ job[o].todo = {}
    /\ End(o)
    /\ UNCHANGED <<storeVars, manifest, hostVars>>

LoadManifest(o) ==
    /\ pc[o] = "load"
    /\ cas' = [cas EXCEPT ![o] = [cas[o] EXCEPT !.seen = manifest[job[o].env], !.stale = FALSE]]
    /\ Goto(o, "put")
    /\ UNCHANGED <<storeVars, manifest, hostVars, job, sweep, held>>

(* The object of env e becomes m.  The ETag of every other update of it is
   now stale; history: that update has a rival, and a pin that is gone is no
   longer held.  Operator o's own update, if any, is over. *)
Store(o, e, m) ==
    /\ manifest' = [manifest EXCEPT ![e] = m]
    /\ held' = [p \in Operators |-> held[p] \cap Pins(manifest')]
    /\ cas' = [p \in Operators |->
                 IF p = o THEN NoCAS
                 ELSE IF job[p].env = e /\ pc[p] \in {"load", "put"}
                 THEN [cas[p] EXCEPT !.stale = TRUE, !.rivals = IF @ < MaxAttempts THEN @ + 1 ELSE @]
                 ELSE cas[p]]

(* Mutant: an unconditional PUT *)
MatchesAlways(o) == TRUE

(* The conditional PUT: If-Match with the ETag read, If-None-Match when
   there was no object *)
Matches(o) ==
    IF cas[o].seen = NoManifest THEN manifest[job[o].env] = NoManifest ELSE ~cas[o].stale

PutManifest(o) ==
    /\ pc[o] = "put"
    /\ Matches(o)
    /\ LET m == IF cas[o].seen = NoManifest THEN Empty ELSE cas[o].seen
       IN  Store(o, job[o].env, [m EXCEPT ![job[o].host] = job[o].sha])
    /\ Goto(o, "apply")
    /\ UNCHANGED <<storeVars, hostVars, job, sweep>>

(* Mutant: the retry does not refetch *)
PutRefusedNoRefetch(o) ==
    /\ pc[o] = "put"
    /\ ~Matches(o)
    /\ IF cas[o].tries + 1 < MaxAttempts
       THEN /\ cas' = [cas EXCEPT ![o] = [cas[o] EXCEPT !.tries = cas[o].tries + 1]]
            /\ UNCHANGED <<pc, job, sweep, held>>
       ELSE End(o)
    /\ UNCHANGED <<storeVars, manifest, hostVars>>
(* A 412 refetches; after MaxAttempts of them SetDeployment gives up *)
PutRefused(o) ==
    /\ pc[o] = "put"
    /\ ~Matches(o)
    /\ IF cas[o].tries + 1 < MaxAttempts
       THEN /\ cas' = [cas EXCEPT ![o] = [NoCAS EXCEPT !.tries = cas[o].tries + 1, !.rivals = cas[o].rivals]]
            /\ Goto(o, "load")
            /\ UNCHANGED <<job, sweep, held>>
       ELSE End(o)
    /\ UNCHANGED <<storeVars, manifest, hostVars>>

(* The apply script reaches only a host that is still there; an SSH error
   ends the command with the remaining hosts untouched *)
Apply(o) ==
    /\ pc[o] = "apply"
    /\ \/ /\ up[job[o].env]
          /\ live' = [live EXCEPT ![job[o].host] = job[o].sha]
          /\ Goto(o, "deliver")
          /\ UNCHANGED <<job, sweep, cas, held>>
       \/ ~up[job[o].env] /\ End(o) /\ UNCHANGED live
    /\ UNCHANGED <<storeVars, manifest, up>>

-----------------------------------------------------------------------------
(* Ephemeral environments come and go.                                      *)

(* destroyEphemeralStack: the hosts go first, then DeleteEnvManifests *)
Destroy(o) ==
    /\ pc[o] = "idle"
    /\ \E e \in Ephemeral :
         /\ up[e]
         /\ up' = [up EXCEPT ![e] = FALSE]
         /\ live' = [h \in Hosts |-> IF EnvOf[h] = e THEN NoSHA ELSE live[h]]
         /\ Order(o, NoSHA, e)
    /\ Goto(o, "unpin")
    /\ UNCHANGED <<storeVars, manifest, sweep, cas, held>>

DeleteEnvManifests(o) ==
    /\ pc[o] = "unpin"
    /\ Store(o, job[o].env, NoManifest)
    /\ Goto(o, "idle")
    /\ job' = [job EXCEPT ![o] = NoJob]
    /\ UNCHANGED <<storeVars, hostVars, sweep>>

(* ephemeral up under the same slug *)
BringUp(e) ==
    /\ e \in Ephemeral /\ ~up[e]
    /\ up' = [up EXCEPT ![e] = TRUE]
    /\ UNCHANGED <<storeVars, manifest, live, pc, job, sweep, cas, held>>

(* Any call may fail and end its command, and the CLI may be killed at any
   point: nothing done so far is undone *)
Abort(o) ==
    /\ pc[o] # "idle"
    /\ End(o)
    /\ UNCHANGED <<storeVars, manifest, hostVars>>

Sweeping(o) == ListArtifacts(o) \/ ListManifests(o) \/ ReadManifest(o)
                 \/ SelectVictims(o) \/ DeleteVariant(o) \/ FinishSweep(o)
Delivering(o) == Download(o) \/ NextHost(o) \/ LoadManifest(o) \/ PutManifest(o)
                   \/ PutRefused(o) \/ Apply(o) \/ FinishDeploy(o)
Step(o) == \/ Push(o) \/ Sweeping(o)
           \/ StartDeploy(o) \/ StartRollback(o) \/ Delivering(o)
           \/ Destroy(o) \/ DeleteEnvManifests(o)
           \/ Abort(o)

Next == (\E o \in Operators : Step(o)) \/ (\E e \in Envs : BringUp(e))
Spec == Init /\ [][Next]_vars

-----------------------------------------------------------------------------
(* Properties.                                                              *)

Labels == {"idle", "list", "listPins", "readPins", "delete", "download",
           "deliver", "load", "put", "apply", "unpin"}

Jobs == [sha : Shas \cup {NoSHA}, env : Envs \cup {NoSHA}, todo : SUBSET Hosts, host : Hosts \cup {NoSHA}]
Sweeps == [listed : [Keys -> Nat], unread : SUBSET Envs, pinned : SUBSET Shas,
           doomed : SUBSET Keys, gone : SUBSET Keys]
Updates == [seen : Manifest \cup {NoManifest}, stale : BOOLEAN, tries : Nat, rivals : Nat]

(* Shape of the state. *)
TypeOK ==
    /\ artifacts \in [Keys -> Nat]
    /\ clock \in Nat
    /\ manifest \in [Envs -> Manifest \cup {NoManifest}]
    /\ up \in [Envs -> BOOLEAN]
    /\ live \in [Hosts -> Shas \cup {NoSHA}]
    /\ pc \in [Operators -> Labels]
    /\ job \in [Operators -> Jobs]
    /\ sweep \in [Operators -> Sweeps]
    /\ cas \in [Operators -> Updates]
    /\ held \in [Operators -> SUBSET (Hosts \X Shas)]

(* A host's pin that stood during the whole of a sweep's pin read protects
   its artifact from that sweep, whatever was deployed elsewhere meanwhile
   (store.go:283-292: "a pin landing before it is seen and retained"). *)
HeldPinsSpared ==
    \A o \in Operators : pc[o] = "delete" =>
        \A k \in sweep[o].doomed, p \in held[o] : k[1] # p[2]

(* SetDeployment gives up only for contention: every one of its refused
   writes is owed to another writer of the same manifest during its loop
   (manifest.go:19-22, 127-135). *)
RefusalsHaveRivals == \A o \in Operators : pc[o] \in {"load", "put"} => cas[o].tries <= cas[o].rivals

(* With one command at a time, whatever fails in it, every SHA a service's
   manifests pin can be fetched for the host it is pinned on: a deploy never
   pins what the store lacks and no sweep removes what is pinned
   (ADR-0016's pin invariant, store.go:275-276). *)
PinnedHasArtifact == \A p \in Pins(manifest) : artifacts[<<p[2], ArchOf[p[1]]>>] > 0

(* With one command at a time a sweep never digs into the history it must
   keep: a delete leaves at least Keep unpinned SHAs in the store
   (store.go:352-356). *)
Unpinned == {s \in Shas : \E a \in Archs : artifacts[<<s, a>>] > 0} \ PinnedNow
SweepKeepsHistory ==
    [][\A k \in Keys : artifacts[k] > 0 /\ artifacts'[k] = 0 => Cardinality(Unpinned') >= Keep]_vars

(* With one command at a time a sweep reports a SHA as deleted only once every
   variant of it is gone (store.go:313-320). *)
Reported(o) ==
    {s \in Shas : \E k \in sweep[o].gone : k[1] = s} \ {k[1] : k \in {l \in Keys :
        sweep[o].listed[l] > 0 /\ l \notin sweep[o].gone}}
ReportedIsGone ==
    \A o \in Operators : pc[o] = "delete" /\ sweep[o].doomed = {} =>
        \A s \in Reported(o), a \in Archs : artifacts[<<s, a>>] = 0

(* With one command at a time a sweep does what it says, no less (ReportedIsGone)
   and no more (SweepKeepsHistory). *)
SweepIsHonest == SweepKeepsHistory /\ []ReportedIsGone

=============================================================================
