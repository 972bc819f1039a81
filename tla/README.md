# A verification development of inforge

inforge provisions hosts with Pulumi, delivers releases to them over SSH and
keeps the mesh PKI that lets them talk to each other. What is hard to test in it
is of two kinds. Operators, CI jobs, timers and systemd share a bucket, a state
backend, a database or a host without a common lock, runs are killed between two
calls, and custody changes reach a fleet host by host. And a YAML description is
turned into firewalls, proxies, mesh tables and records by separate functions that
must agree on every host. The modules here model both. TLC checks small instances,
and TLAPS proves the safety properties the passing runs check for every value of the
constants, under the hypotheses that stand in the theorems.

Contents: [Components](#components), [Modules](#the-modules-and-the-code),
[Runs](#what-the-runs-check), [Findings](#what-does-not-hold),
[Proofs](#what-is-proved), [Limits](#what-is-not-covered), [Plan](#plan).

## Components

| Component | State it keeps | Operations | Who shares it, and what is hard |
|---|---|---|---|
| Release store (`internal/release`, `cmd/inforge/release*.go`) | artifacts by service, SHA and arch; one manifest per service and environment with each host's SHA | push, deploy, rollback, prune, teardown of an environment's manifests | every operator, through S3 calls only; a prune deletes by a view of the pins it read object by object, and manifest updates are read-modify-write |
| App folder (`internal/app`, the app scripts of `release.go`, `appProvisionScript` in `program/program.go`) | bundle directories, `current`, `.current.tmp` on an ingress host | provisioning, release, rollback, GC, each a chain of shell commands | scripts of two operators on one host; a chain that stops half-way |
| Mesh PKI (`internal/pki`, `internal/meshcert`, `cmd/inforge/pki.go`, `sshpush.go`, `meshbaseline.go`) | committed store of roots and regional intermediates; `leaf.age` on each host; what each process loaded | add, rotate-root, rotate-intermediate, finalize, renew, the baseline of a deploy | custody changes while a renew that loaded an older store is still pushing |
| Ephemeral environments, stacks and locks (`cmd/inforge/ephemeral*.go`, `stack.go`, `statelock.go`, `deploy.go`) | stacks and their configuration, cloud resources, lock objects | up, down, reap, deploy, stack unlock | each is several calls; a kill leaves anything behind, and the reaper must find it |
| On-host agent (`internal/agent`, `hostsecrets`, `agehost`, `leaf`) | `secrets.age`, `leaf.age`, projected files in tmpfs | boot, project-leaf, mesh-project, seeding, reload, restart | files are renamed one by one while systemd, a push and a deploy start or reload their reader |
| Engine event stream (`deploy.go`, `internal/output`) | goroutines, event channel, error buffer, what the Printer recorded | relay, mute, drain, finish, dump | a channel that is never closed; two raw streams, the drain and main write to one terminal |
| Pulumi program (`program`, `providers/hetzner/mesh.go`) | the resource graph; what the engine recorded of each command; the host's files and units | readiness gates, mesh proxy, provision, delivery, removal | only what differs runs again, in any order the dependencies allow, and a failure leaves the rest for the next deploy |
| PostgreSQL (`internal/pgrole`, `dbbackup`, `backupstore`, `cmd/inforge/db.go`) | roles, memberships, privileges, owners; dump objects | mint ro/rw, drop, backup, prune, restore | statements without a transaction, tables created beside them, best-effort retention |
| Sources (`internal/loader`, `validate`, `types`) | none | normalise, validate | rules on one resource whose effect is on another host |
| Derivations (`pathglob`, `naming`, `registry`, `meshplan`, `nginx`, `meshnginx`, parts of `program`) | none | firewalls, proxies, mesh tables, records, placements | several functions read one description and must agree |
| Service units and their text (`internal/service`) | unit, descriptor | what systemd does with them | in `Deploy` and `LeafProjection` |
| git-branch backend (`stack.go`) | a branch with the whole state tree | not modelled | see [Limits](#what-is-not-covered) |
| Providers, observability, crowdsec, secret store, other commands, website, scripts | not modelled | | reasons in PROJECT.json |

Components meet in these places: `ephemeral up` pins releases for the new
environment and `ephemeral down` deletes those pins (stacks and release store);
a release of an app writes the manifest before it runs the host's script
(release store and app folder); a deploy and a release refresh the leaves of
the mesh (stacks, releases and PKI); the agent projects what the pushes and the
deploy left on the host (PKI, program and agent); what validation accepts is what
the program derives from and what the graph then brings to the hosts (sources,
derivations, program); the mints of a deploy meet the tables of running services
and the restores of an operator (program and PostgreSQL).

What makes each modelled component correct:

- **Release store.** A manifest update is atomic per host. A pin that stood while
  a sweep read the pins protects its artifact. With one command at a time, what
  is pinned can be fetched, a sweep keeps the last `keep` unpinned artifacts, and
  it reports as deleted only what is gone.
- **App folder.** Once there is a document root there always is one; scripts run
  one at a time leave `current` on what they reported, and it exists.
- **Mesh PKI.** Root rotations are invisible; regions stay apart; a renew that
  reports success leaves no leaf of an older key.
- **Agent.** What a push reported is served, a start repairs what a killed projection
  left, and a unit that has something to start with comes up again.
- **Event stream.** One writer at a time; the engine's errors appear once; the
  report is the run; main returns.
- **Program.** Green means that the hosts are what the sources say; a service is
  (re)started only when its peers admit it; deploys converge after failures.
- **PostgreSQL.** A role can do what its last mint declares, on tables old and new;
  a cleared role can be dropped; a good backup is never lost to a bad one.
- **Sources and derivations.** What validates derives without the errors that validation
  guards against, is told to bind no port twice that validation compares, opens every
  hop it dials, and answers every name and path it publishes.
- **Stacks.** Permanent environments are spared; what costs money can be found by
  the reaper, and is torn down in the end; pins die with their environment; one
  engine run per stack.

## The modules and the code

Actions are single S3, SSH, SQL, Pulumi, file or shell steps: whatever can come
between two of them in the code can come between them here. Commands can fail at
every call and be killed. PROJECT.json maps each definition to its lines.

**`ReleaseStore`** models the bucket for one workload. `artifacts` holds each
object's LastModified second, `manifest` each environment's object, `live` what
the hosts run; per operator, `pc` is the next call and `job`, `sweep` and `cas`
are the command's local variables. `Push` .. `FinishSweep` are `releases push`
and `Prune` (list the artifacts, list the manifests, read them one by one, select,
delete variant by variant). `StartDeploy` .. `FinishDeploy` are the delivery:
download, host by host pin (`LoadManifest`, `PutManifest`, `PutRefused` are the
loop of `SetDeployment`) and then apply. `Destroy`, `DeleteEnvManifests` and
`BringUp` are the life of an ephemeral environment. `held` is a history variable:
the pins that stood unchanged since the operator's sweep began to read pins.

**`ManifestRegister`** is the promise of `SetDeployment`: an atomic register per
host. **`ReleaseStoreRefinement`** maps `ReleaseStore` to it. The mapping shows a
missing manifest as an empty one; a command is pending while it is inside the
loop.

**`AppHost`** models one app's folder: `bundle` says what each SHA's directory
holds, `current` and `tmp` are the two links. A script's chain of `&&` commands is
`at[r]`, one step per command. `overlapped` records whether two scripts were ever
under way together: the code relies on operators not doing that, and the
properties say which promises need it.

**`MeshTrust`** abstracts a certificate to its issuer and the key it certifies,
which is all that chain building tells apart. `store` is the committed file,
`run[r].store` the copy a renew loaded when it started, `staged` the `leaf.age` on
a host, `loaded` what the running process serves. Custody commands load, check
and save in one step: they are interactive commands of an operator on a git
checkout. `reissued` records the scopes whose key was ever replaced, for which the
code promises less.

**`StackLifecycle`** models the stacks of an object-store backend. `stack` has
existence, the ephemeral mark and the deadline together: the code takes a stack's
configuration to be kept and removed with the stack, and readable wherever the
reaper runs (Pulumi's local workspace, opened with `auto.WorkDir(".")`, is external);
`resources` are the stacks with something in the cloud; `lock` holds lock objects
by key; `cmd` is each process's program counter and locals. `StartUp`, `Create`,
`Identify`, engine, `ReadOutputs`, `Pin` are `ephemeral up`; `StartDown` or
`StartReap`, `Classify`, `NextCandidate`, then `Reassert`, engine,
`DeleteManifests`, `Remove` are the teardown. The engine (`Lock`, `Engine`,
`EngineFails`, `Release`) is Pulumi's and therefore external. An engine run can
fail with part of its work done, and `Die` inside it leaves the lock. `crossed`
records the slugs that were brought up and torn down at the same time: nothing in
the code excludes that, and what remains afterwards is described under
[Limits](#what-is-not-covered).

**`LeafProjection`** is one unit on one host, a service with or without `reload:` or
the mesh proxy. A file's content is the generation of the blob it came from.
`ReadSecrets`, `ReadLeaf`, `Stage`, `Commit`, `EndProject`, `ProjectError` are one
projection (`agent/project.go`: decrypt, compare and stage, then rename one by one),
the same code whether a boot or a push runs it. `Start`, `NothingToProject`, `Seed`,
`TestConfig`, `ReadFile`, `Loaded` are systemd, the seed script, `nginx -t` and the
process reading its files one by one. `Push` and `Signal` are renew and the deploy's
baseline, `WriteSecrets` and `ApplySecrets` the deploy's delivery; `Exit`,
`ProjectFails`, `ProjectKilled` and `Reboot` are what goes wrong. `clean` is a history
variable: since the last start, nothing overlapped and nothing was hurt.

**`EngineStream`** has the five goroutines of `streamEngineRun`: the two raw streams
under the relay's mutex (`BeginWrite`, `EndWrite`, `BufferErrors`), the tailer
(`Send`, `Close`), the drain (`Receive`, `Mute`, `Handle`, `Drained`) and main
(`RunReturns` .. `Dump`). The engine (`StartStep`, `Diagnose`, `EndStep`, `EndRun`) is
external and may die before it has said anything, in which case the channel is
never closed.

**`Database`** is one logical database. `job` is the mint or drop psql is executing,
a list of statements that may stop anywhere; `minted` is what the engine recorded.
`CreateTable` is a service between two statements. `Dump`, `Prune`, `SkipPrune` are the
backup unit, `RestoreKey` and `RestoreForeign` `inforge db restore`. `dirty` is a
history variable: the services whose last whole mint a failure or a restore has
overtaken, of which the code promises nothing until the next mint.

**`ResourceTree`, `PathGlob`, `Validate`, `HostPlan`** are operators, no state:
the decoded description with its defaults; `pathglob.Matches` and `Overlaps`; the rules
of `validate` (one operator per rule, `Accepted` their conjunction); and what
`program`, `nginx`, `meshnginx` and `meshplan` derive for a host, with the conditions
under which they return an error (`EdgeConfig`, `MeshConfig`, `FirewallPlan`,
`DerivedRecords`, `ScopeDerives`). **`ScopePlan`** is the operator who edits the files: a
tree is checked after every edit, and every property says what follows for the
derived configuration from `accepted`. Names, ports and paths are members of small
sets; a path is a sequence of segments and a segment a sequence of letters, so that
globs are matched as the code matches them. `Matches` is the rendered regular
expression: each letter of a segment is taken by an element of the pattern. `Overlaps`
is the validator's own walk over two patterns: `Moves` are the states it pushes from
one, and `Seen` those it has been in after as many rounds as it can need. What a
manifest is before any rule is asked (`IsService`, `IsGlob`, `IsScope`, `IsTree`) is what
decoding gives.

**`Deploy`** is `inforge deploy` on the hosts. `design` is a version of the sources,
`todo` and `failed` the commands of the running deploy, `rec` what the engine
recorded of each at its last success; `host` and `svc` are what the scripts changed.
`Gate`, `MeshUnit`, `MeshConfig`, `MeshReload`, `Provision`, `Replace`, `Update` and `Delete`
are the commands, each of which can stop after any step of its script. `Begin`,
`End`, `Kill` are the engine's. `Edit`, `Release`, `Renew`, `Respawn`, `ProxyRespawn` and
`Reboot` go on beside it.

## What the runs check

| Run | Instance | Shows |
|---|---|---|
| `release_concurrent` | 2 SHAs, an ephemeral environment of 2 hosts and one of 1, 2 operators, keep = 1, 3 attempts | `TypeOK`, `ImplementsRegister`, `RefusalsHaveRivals`, and `HeldPinsSpared`, while deploys, rollbacks, prunes and teardowns interleave |
| `release_sequential` | 3 SHAs, 2 arches, 2 hosts, 1 operator | `PinnedHasArtifact` and `SweepIsHonest` (keeps the history, reports only what is gone), with failures anywhere |
| `app_scripts` | 3 bundles, 2 scripts, provisioning | `CurrentNeverLost` under any overlap; `AloneIsServed` without |
| `mesh_fleet` | a global member and one per region, 2 roots, 4 keys, 1 renewer | `TypeOK`, `RootRotationInvisible`, `OverlapServesBothRoots`, `RegionalBoundary`, `RenewedIsFresh` |
| `stack_shared` | 1 permanent environment, 1 slug used twice, 2 commands, 1 kill, 1 failed call, clock to 3 | `TypeOK`, `OneUp`, `BillableIsReapable`, `ManifestsDieWithEnv`, `OneEngineAtATime`, `PermanentSpared`, and `ExpiredIsReaped` under `FairSpec` |
| `leaf_host` | 1 pusher beside the boot, a certificate, its key and a granted secret, 2 generations, 1 failure, kill or reboot | `ReportedIsServed`, `BootRepairs`, and `ComesBack` under `FairSpec` |
| `engine_stream` | 2 resources, 2 error chunks, 1 diagnostic each, a channel of 1 | `OneWriter`, `ErrorsShownOnce`, `ReportIsTheRun`, and `MainReturns` under `FairSpec` |
| `database` | 2 services, 1 table, keep = 1, 4 events | `MintIsDeclarative`, `ClearedIsDroppable`, `BackupsSurvive` |
| `scope_plan` | any 2 edits of 4 layouts of a region with 3 hosts on 2 networks and a global host | `HopsAdmitted`, `BindsExclusive`, `DeriveCleanly`, `NamesServed`, `CallersRouted`, `OneOwnerPerPath` |
| `scope_listener` | the same | `HealthListenerKept` is violated: see below |
| `deploy_graph` | 3 versions of 3 services on 2 hosts, 1 failure or kill, 1 reboot | `GreenMeansDone`, `StartsInOrder`, and `Converges` under fairness |
| `deploy_certificates` | the same without failures and reboots | `CertificatesExist` is violated: see below |

**Bounds.** The races here are between two actors, so two operators, scripts or commands
suffice for each of them to be before, inside and after the other; the proofs remove the
bound for every safety property, where they do not restrict the instance themselves (one
operator, one renewer, as many sockets as a range has ports). In `release_concurrent`
two SHAs with keep = 1 make one a victim, two hosts share a manifest, a sweep has two
manifests to read, and the third attempt is the one that a retry without a fresh read
would spend on nobody's account. LastModified has one value there and two in
`release_sequential`, where ties and strict order both occur. The view of
`release_concurrent` leaves `live` out: no guard reads it. `mesh_fleet` needs the second
root for a rotation and the fourth key for a reissue of one scope beside the first
intermediates of three; one renewer is enough because every store it may have loaded is
in its local copy. The symmetry there swaps the regions with their members, in
`release_concurrent` the operators and the two hosts of one environment, and in
`database` the services; none of these runs has a liveness property. In `stack_shared`
the clock has the deadline, one tick past it and one more for the deadline of the second
environment; two ups are needed for a slug to be reused.

In `leaf_host` two generations make mixed files possible, and the pusher beside the
boot is the second projector; a failure before or after either is the one hurt. In
`engine_stream` a channel of one fills at the second event, and two chunks are what
it takes for one to be relayed and one not. In `database` four events allow a writer
that becomes a reader with a failure in between and a restore after it, or three
dumps with keep = 1; one delete call takes one key, so a prune meets its limit. In
`scope_plan` the layouts are the shapes the derivation distinguishes: a gateway on a
host of its own, one beside its ingress with a passthrough on the ingress port, a
service behind the ingress from another host, an ingress on the host of a database
cluster. Two edits suffice to break a rule between any two resources, and the ports
are the boundary ones: both health and HTTP defaults, the first of the Postgres, the
egress and the loopback ranges, the gateway's own and two free ones. Before the run,
TLC evaluates `NoFalseOverlap`: for every two segments of up to three elements the
walk over them finds an overlap only if a string has both. In
`deploy_graph` the second version adds a service to a host whose proxy runs, changes
callers across the scopes and takes the secrets from a service; the third removes
the service, brings the secrets back and changes the agent: each kind of difference
occurs, with one failure at every step of every script.

**Fairness.** `StackLifecycle!FairSpec`: weak fairness for the next step of every
command that can go on, and strong fairness for somebody starting a reap, because
the reaper is a scheduled job that runs again and again while a process slot may be
occupied in between. Without it nothing tears an expired environment down. It asks
neither for a kill nor for a failure, and the time an engine run takes is not
bounded. `LeafProjection!FairSpec`: systemd takes the next step of a start
(`Restart=always`), and the agent the next of a projection, which waits for nothing.
Nobody has to push. `EngineStream!FairSpec`: goroutines that can run do, writes to the
terminal return and the grace timer elapses; nothing is assumed of the engine or of
the tailer's close, which is the point of the grace. `Deploy!Spec`: the engine runs
what is ready, the pipeline deploys again until a deploy is green, and renewals are
scheduled (`pki renew` is a cron job and the last part of a deploy). Since failures
are bounded, this asks for the success of no particular command. The release and app
scripts and the database need no fairness.

Deadlock is checked wherever the system can always begin something. The
configurations of `engine_stream` (the run ends), the two of `ScopePlan` (the edits end) and the
two of `Deploy` (all versions may be deployed and nothing left to renew) turn it off.

## What does not hold

Two runs have a property that quotes the code and that TLC refutes. The first is
`deploy_certificates`: a service is added to a host whose mesh proxy runs. Its certificate would be seeded
by the unit's start, but `systemctl start` does nothing on a running unit; `nginx -t`
then meets a configuration that names a missing file, and the deploy stays red until
a renewal projects the leaf. `Converges` holds because renewals are scheduled.
`CertificatesExistUnlessJoined` shows that this is the only cause: where no service
joins a host that has some already, the certificates exist at every reload,
whatever fails, dies or reboots.

The other is `scope_listener`. `validate.go:301-309` says that a route's target, a health,
an exposed or a mesh port that lands on a port of the nginx on its host is rejected, and
names the health listener. The listener for services behind a gateway is registered on
the gateway's host (`validate.go:1185`) and rendered on that of the ingress in front
(`program.go:2436`). Where the two differ, one edit gives an accepted tree with a route's
target on the listener's port. `BindsExclusive` claims the comparisons that validation
does make: the listener where it is registered, an ingress's own and the gateway's
where the two hosts coincide, is among them. What the same comment says of health ports
does not hold either: they are compared with the routes and the listener of their own
ingress or gateway only, so a service on the gateway's host may answer probes on 8442.

The rest was met while modelling. The models have these behaviours; the properties
are stated so as not to claim what the code does not keep.

Releases and apps:

- A deploy pins before it applies (`release.go:105-107`: "Pinning first can only
  over-retain an artifact (harmless), never delete a live one."); if the apply fails,
  no manifest names the SHA the host still runs, and the next sweep may delete it.
  Hence `HeldPinsSpared` speaks of pins and not of what runs.
- A sweep deletes by key: an artifact pushed again under a listed key, or a
  variant added after the listing, is deleted or left with the SHA reported as
  gone. This is why `SweepIsHonest` is checked with one command at a time.
- The app GC reads `current`, then removes (`app.go:86-90`): a rollback in between has
  its bundle removed under nginx. A failed extraction leaves a directory that a
  rollback accepts as delivered (`release.go:411-416`). Retention ranks bundles by
  build time, so the bundle just replaced may be the one removed (`app.go:46-49`,
  `:91`). Hence `AloneIsServed` is about scripts that do not overlap.

Mesh, agent and program:

- Replacing a region's intermediate is visible to global members until they are
  renewed too (`pki.go:401`; `meshcert.go:141-145`); `reissued` excludes these scopes.
- A service with `reload:` whose granted PKI changed is only reloaded by the deploy,
  which projects nothing (`program.go:1405-1408`, `:1600`): it serves the old material
  until its next start. A `reload:` service also keeps its old `INFORGE_MESH_URL`.
- Services on one host share the agent's binary, and only the first provision script
  sees it change (`program.go:714-716`): the others keep running under the old agent.
- A provision that fails after installing the unit and before `try-restart` does not
  restart on the retry; hence `fails = 0 =>` in `Loaded`. The first provision of a unit,
  failed after its installation and then removed from the sources, leaves the unit.
- A delivery that loses its secrets and gets the same ones back keeps the recorded
  trigger and runs the script without secrets again (`program.go:1488-1493`); a delivery
  without secrets never restarts a running service. A failed deploy followed by a
  revert does not re-run a reload whose recorded trigger matches. The versions of
  `deploy_graph` return to no earlier content for this reason.
- nginx and the mesh commands have no Delete: a proxy outlives its last service.

Stacks:

- A reap acts on a classification that may be out of date (`ephemeral_reap.go:20-21`,
  `:105`) and destroys a fresh environment that took the slug.
- An `up` that still replicates releases while a `down` or a reap removes the
  environment leaves pins, or an environment without the mark, behind; `crossed`
  marks exactly these slugs.
- A command killed inside an engine run leaves its lock, and the reaper then
  waits until `stack unlock`: `ExpiredIsReaped` excludes it (`LeftLocked`),
  whereas the comment in `ephemeral.go:18-20` speaks of guaranteed teardown.
- An `up` killed between `createStack` and the write of its identity leaves a
  stack without resources that the reaper does not see and that keeps the slug
  taken.
- The comment of `classifyStack` (`ephemeral_reap.go`) says that a malformed
  `expires_at` is skipped with a warning; `reapDecision` below it reaps such a stack.

Databases:

- A deploy after a restore mints nothing, since the recorded grants have not changed
  (`db.go:265-266`, `dbcluster.go:311`); a grant reverted after a failed mint is not
  minted again either. `dirty` holds these services.
- A table created during a mint can miss the default privileges, or stay with a
  service that is a reader now; a restore of a dump from before the change gives the
  ownership back.
- A truncated dump stays the newest object and is what a restore without a key takes.
- More than 1000 keys to delete make every later `delete-objects` call fail.

Validation accepts, and a deploy then fails or misbehaves:

- ports: 8443 of the mesh on a host with another listener there; a mesh port in the
  loopback range of the terminators; a route that listens on 8442, in the Postgres range
  or on a port nginx binds implicitly; the health listener of a gateway behind another
  host's ingress, and a health port against nginx's other sockets (both above); TLS
  termination on port 80; more than 256 mesh services, whose last egress port is the
  gateway's. `BindsExclusive` names what it leaves out;
- names: two servers of one name, one name at two hosts, role names that are too long
  and region slugs that coincide are found by the program only, after the
  infrastructure exists; a literal vanity without the region's slug repeats in every
  region. `NamesServed` is therefore about distinct names;
- a network without subnets, and a host that needs no `deploy_user` by the rules and
  one by the program;
- more on a host than the ranges have ports: 64 mixed ports, which the program
  refuses, and 32 clusters, which it does not;
- a region of the name `global`, which the program uses for the scope without one.

## What is proved

All proofs are checked by TLAPS from the assumptions named in the modules: the
constants have their types and model values are distinct. A few say more, and the
code or the program's inputs give it. `Shas` is finite, since retention counts
(`ConstantsAssumption`). Names and commands are finite, so that a fresh lock key
exists (`StackAssumption`). The two files of a pair come from one blob
(`ProjectionAssumption`), service names are not those of the groups or the owner
(`DatabaseAssumption`), and a caller that a service lists is on its host or the
service is global (`DesignsAssumption`). What a theorem needs beyond that stands in
its statement: one operator or one renewer, `NothingReturns`, `NobodyJoins`, and what
validation does not count (`SubnetsDeclared`, `FewMixed`, `FewMeshed`, `FewClusters`).

Each of these modules has an inductive invariant, a lemma for every action or
group of actions that preserves it, and the theorems.

**`ReleaseStoreProofs`.** `TypeCorrect`; `NoLostUpdate`: what a conditional PUT
that is accepted was computed from is the manifest still stored; from it
`Refinement`, that every behaviour of the protocol is one of atomic registers;
`HeldPinsAreSpared`, whose invariant follows a held pin through the read: it is in a
manifest not yet read or already among the collected pins, so never among the
victims; `RefusalsAreOwed`, by counting a refused write against the rival
that made it stale. With one operator, what a command read stays true while it
runs: `Alone` says that the store is still as listed except for the sweep's own
deletes (`AsListed`), that the pins it holds are those of the manifests (`AsRead`),
that only victims are deleted (`AsSelected`), and that a delivery's SHA is present
for the hosts it still has to pin (`AsVerified`). `PinsAreFetchable` follows, for
services: the rollback of an app pins a bundle that the host has and the store may
have lost. `SweepIsHonestAlways` needs besides that a victim has `Keep` newer
unpinned SHAs and that the newest victim's are all spared (`SparedAreEnough`), which
is a count over finite sets.

The same module has the theorems of `AppHost`, whose state it shares nothing with.
`FolderCorrect` and `RootNeverLost` hold under any overlap: only a rename writes
`current`, and a script that renames has staged a link. `AloneServes` has as
invariant, while nothing has overlapped (`AloneOnHost`), how far the one script under
way has come (`ScriptProgress`: the directory exists, the link is staged, published,
and spared by the GC's list) and that what is published has a directory
(`CurrentBacked`).

**`MeshTrustProofs`.** The properties of the loaded material do not follow from one
another, since a renewer carries an old store for any length of time. The
invariant therefore states of *every copy* what is true of the store: every key
belongs to its scope (`Known`), every store that was ever loaded and all material
ever staged or loaded certifies, for a scope never reissued, the one key there is
by a root its holder has. From it come `RotationInvisible`, `BoundaryHolds` and
`OverlapServed`. `RenewalIsFresh`, for one renewer: until a run has failed somewhere,
the members it is done with hold a leaf of its store's key (`Staged`) and run with it
or will start with it (`Settled`), the one being reloaded excepted.

**`StackLifecycleProofs`.** `Inv` has five parts beside the types. `Shapes`: where a
command of each kind can be and that only slugs are doomed. `EnvsPermanent`.
`Locking`: an engine run's key is the lock's and no unlock under way remembers it,
which is what makes the deletion by key safe. `Owned`: two commands that own a
slug, or an owner and a destroyer, are in `crossed`, and otherwise the owner's
stack exists and, past `Identify`, is marked. `Accounted`: what is billable or
pinned has its stack, and a command about to remove a stack has deleted its
manifests. There is one lemma per action, on top of four that say what a step of a
command leaves alone. From `Invariance` follow `TypeCorrectness`,
`EnginesExclusive`, `SlugExclusive`, `NothingUnreapable`, `ManifestsNeverOrphaned`,
and the action property `PermanentUntouched`.

**`LeafProjectionProofs`.** While a start is alone (`clean`), `Calm` follows one
generation from the blob to the process: a projection is past a file once the file
is what its blob says (`OnTrack`), so a start is tested on such files (`Landed`) and
they match when somebody reads them (`Whole`, `Reading`); what is projected, on the
disk and served is never older than what was reported before it (`Newer`,
`Delivered`, `Current`).
`ReportedIsServedAlways` and `BootRepairsAlways` follow, for any files, pairs and
pushers.

**`EngineStreamProofs`.** `Turn`: who holds the mutex, and that main goes on only
behind the raw streams and the drain; `OneWriterAlways` follows. `Relay` counts the
chunks on the terminal against those written and those buffered, which gives
`ErrorsShownOnceAlways`. `Pipeline`: the channel holds the part of the engine's log
between what was sent and what was received; `Reported`: the Printer's record is the
report of the events it handled, a definition over the log alone. That handling the
next event keeps this true is the core of the module (`ReportNext` and the lemmas
before it), and `ReportIsTheRunAlways` is the case where everything was handled.

**`DatabaseProofs`.** `Settled` says what the last mint of a service still guarantees,
by the entries, memberships and default privileges that give it (the properties
speak of the access that results); `Midway` what the statements behind it have done
while `n` are to come. A statement for one service leaves another's guarantees alone
(`Confined`), except for the entries of a table that DROP OWNED takes away, and a new table keeps them because of the default privileges.
`ReadersRead`: the readers' group never gets a write, in the catalog or in a dump of
it, or a restore would bring it back. From these follow `MintIsDeclarativeAlways`
and `ClearedIsDroppableAlways`; `BackupsSurviveAlways` rests on `PruneFollowsWhole`: a
prune runs only behind a whole dump, which is then the newest object.

**`DeployProofs`.** The record of a command is that of some version deployed so far
(`RecordedAt`, `RecordedOf`), and where it is what the *present* version asks for, the
host has what the command makes: `Seeded` and `Wired` for the mesh proxy, `SetUp` for
a service, `Tidy` for its files without a unit and for what it runs. `Pending`: what
is left to do is what differs. A command that fails half-way changes the host and
keeps its old record. That is harmless as long as no version to come asks for the
old inputs again, and wrong when one does (the failed deploy followed by a revert in
[the list above](#what-does-not-hold)): `NothingReturns` excludes it, as a hypothesis
of `DeployInvariance`, `GreenMeansDoneAlways` and `StartsInOrderAlways`, and `MCDeploy`
checks it of its versions. It is a restriction: deployments that revert are outside
these theorems, and the code does not keep the properties there.
`CertificatesExistUnlessJoined` needs no such hypothesis but `NobodyJoins`; its
invariant is that what a proxy has loaded is complete (`Certified`).

**`ScopePlanProofs`.** The inductive invariant is small (`TreeInv`: the tree is one
that decoding makes, and `accepted` is its verdict; `TreeCorrect`) and the work is in
what the verdict implies, for any number of hosts, services, regions, names, ports
and paths. `EditsAssumption` says that edits start from decoded trees and write
decoded values. `ScopesSound` reads the verdict for a scope (`Sound`), and from there
each derivation is compared with the rules that guard it:

- `CallersAreRouted` and `HopsAreAdmitted`: an allow-list expands to members that
  exist (`AllowedCaller`), the callees of a name are where it is routed
  (`CalleesAre`), and a connection either stays on its network or meets a port its
  firewall opens to everyone (`LocalHop`, `MeshPortPublic`).
- `NamesAreServed`: the records, the servers and the public ports are unions over
  the same tuples of service, ingress and host (`RecordsAre`, `ServedNames`,
  `BehindIngress`); the proof does not use that names are distinct.
- `DeployDerives` adds that the health ports of a host agree (`PortsAgree`), that an
  nginx.conf renders (`EdgeRenders`) and that no name leaves the zone (`EndsInZone`,
  about sequences). The program's errors about equal names and records, the length of a
  role's name and `deploy_user` are not among those it excludes: validation does not.
  It needs `SubnetsDeclared`, and `FewMixed`: at most 64 public ports
  of a host both forward and terminate.
- `BindsAreExclusive`: the validator asks of each service's ports that they be free of
  every other's (`BindChecked`), and nginx, the mesh proxy and the postmasters bind
  what it took them to bind (`SocketIs`, `EgressPorts`, `PostmasterPorts`), the health
  listener included where it is registered on the host that renders it
  (`HealthListenerBound`). What the validator does not compare is left out of
  `BindsExclusive`: the listener on the host of another ingress, health ports
  against nginx's other sockets, mesh ports against its terminators, and 8443. The
  mesh proxy's and the postmasters' ports count positions on a host, so with more members or clusters than the range
  has ports they would leave it: `FewMeshed`, `FewClusters`.
- `PathsHaveOneOwner` rests on `OverlapIsComplete`: two globs that do not overlap have
  no path in common. A string both segments match gives the walk a place before
  each character (`Place`); it gets from one to the next with one character and at
  most a skip on either side (`PlaceSteps`), and the sum of both sides' places bounds
  the round it is seen in (`SeenMoves`). The recursion of `Seen` and the induction
  over the string are by least counterexample, on the well-foundedness of Nat. That
  the walk finds no overlap that is none costs an operator a rejection and nothing
  else; `NoFalseOverlap` checks it on short segments.

**Model-checked only.** Liveness (`ExpiredIsReaped`, `ComesBack`, `MainReturns`,
`Converges`), since TLAPS does not reason about fairness and ENABLED. `TypeOK` is in
the modules whose typing is a run's invariant; the others are typed by the first
part of their inductive invariants.

## What is not covered

- The Pulumi engine, its lock protocol, S3's consistency (taken as strong), systemd,
  nginx, PostgreSQL and OpenSSL's chain building are modelled from how the code uses
  them.
- Cloud resources are one bit per stack, a bundle has three states, and a
  certificate has no lifetime: expiry and clock skew are outside the models.
- The git-branch backend: fetch, extract, run, commit and push of the state tree by
  one CI job. The ephemeral commands refuse it, and its exclusion (one deploy at a
  time) is the pipeline's, outside the program; all that remains is git's refusal of
  a push that is not a fast-forward.
- An ephemeral stack whose `expires_at` is missing or unreadable is reaped at once
  (`reapDecision`); `up` writes the mark and the deadline in one call, so no modelled
  state has it. A deploy of an ephemeral slug, which the code allows, would upsert a
  stack that nobody marks. A permanent environment that is mistaken in the sources
  (the operator's files name the wrong slug) is not represented.
- What a manifest pins is `ReleaseStore`'s matter; `StackLifecycle` only knows that
  a slug has manifests. The two are not composed.
- `Deploy` has one region beside the global scope, and not the ingress chain with its
  certificates and app seeds (a linear chain per host), the reading of host keys, and
  the commands of databases, observability and crowdsec. Databases' own mints are in
  `Database`.
- Decoding, schema errors and wording in `validate`; the text of units, nginx
  directives, dashboards and scripts, as far as no socket, peer, name or step
  depends on it.
- The components with status `not_modelled` in PROJECT.json, each with its reason.

## Plan

Modelling follows the code as far as its control goes, and the safety properties of
every component are proved. What is left:

1. `Deploy`: the properties that survive a revert, with a record of the commands
   that failed under a version in place of `NothingReturns`.
2. `MeshTrust` with several renewers: which of the two keys a member ends with.
3. `PathGlob`: the other direction, that an overlap has a path, for every two globs.
