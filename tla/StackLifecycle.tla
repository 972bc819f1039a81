---------------------------- MODULE StackLifecycle ----------------------------
(***************************************************************************)
(* The stacks of the state backend and the commands that share them:       *)
(* deploy, ephemeral up, down and reap, stack unlock (cmd/inforge/deploy.go, *)
(* ephemeral_*.go, stack.go, statelock.go).                                *)
(*                                                                         *)
(* A stack has a configuration, which marks an ephemeral one and carries   *)
(* its deadline, cloud resources, and a lock object that an engine run     *)
(* (a Pulumi update or destroy, external to this code) holds; a command    *)
(* that is killed inside an engine run leaves the lock behind.             *)
(***************************************************************************)
EXTENDS Integers, FiniteSets

CONSTANTS
    Envs,        \* permanent environments: a resource tree of their own
    Slugs,       \* identities ephemeral environments may take
    Commands,    \* concurrent CLI processes
    Ttl,         \* lifetime of an ephemeral environment
    NoName,      \* no stack
    MaxTime,     \* bound: the clock
    MaxUps,      \* bound: ephemeral environments ever asked for
    MaxDeaths,   \* bound: commands killed
    MaxFailures  \* bound: calls that fail

Names == Envs \cup Slugs

ASSUME StackAssumption ==
    /\ Envs \cap Slugs = {} /\ NoName \notin Names
    /\ IsFiniteSet(Names) /\ IsFiniteSet(Commands)
    /\ {Ttl, MaxUps, MaxDeaths, MaxFailures} \subseteq Nat /\ MaxTime \in Nat \ {0}

VARIABLES
    stack,     \* name -> whether it exists, is marked ephemeral, and its deadline
    resources, \* the names that have cloud resources
    lock,      \* name -> key of its lock object, 0 when there is none
    manifests, \* the slugs that have release manifests
    clock,
    cmd,       \* command -> what it runs and its next call
    spent,     \* how much of each bound is used up
    crossed    \* history: slugs that were brought up and torn down at once

vars == <<stack, resources, lock, manifests, clock, cmd, spent, crossed>>
backend == <<stack, resources, manifests>>

NoStack == [exists |-> FALSE, ephemeral |-> FALSE, expires |-> 0]
Created == [NoStack EXCEPT !.exists = TRUE]
Job(kind, label, n) == [kind |-> kind, at |-> label, name |-> n, expires |-> 0, key |-> 0, ok |-> TRUE,
                        todo |-> {}, doomed |-> {}]
Idle == Job("none", "idle", NoName)

Init ==
    /\ stack = [n \in Names |-> NoStack]
    /\ resources = {} /\ manifests = {} /\ crossed = {}
    /\ lock = [n \in Names |-> 0]
    /\ clock = 1
    /\ cmd = [c \in Commands |-> Idle]
    /\ spent = [ups |-> 0, deaths |-> 0, failures |-> 0]

Begin(c, job) == cmd' = [cmd EXCEPT ![c] = job]
Goto(c, label) == cmd' = [cmd EXCEPT ![c].at = label]
At(c, label) == cmd[c].at = label
Name(c) == cmd[c].name
Teardown(c) == cmd[c].kind \in {"down", "reap"}

(* A command has no more calls to make on its stack: it ends, but a reap goes
   on with the next candidate, whatever became of this one *)
Done(c) == IF cmd[c].kind = "reap" THEN [cmd[c] EXCEPT !.at = "next", !.name = NoName, !.key = 0, !.ok = TRUE]
                                   ELSE Idle
End(c) == cmd' = [cmd EXCEPT ![c] = Done(c)]

Cross(n) == crossed' = IF (\E c \in Commands : Teardown(c) /\ Name(c) = n)
                          /\ (\E c \in Commands : cmd[c].kind = "up" /\ Name(c) = n)
                       THEN crossed \cup {n} ELSE crossed

-----------------------------------------------------------------------------
(* ephemeral up: validate, create, identify, provision, replicate.          *)

(* checkSlugFree: the slug names no defined environment *)
SlugFree(n) == n \notin Envs

(* The deadline is fixed before anything is created *)
StartUp(c) ==
    /\ At(c, "idle") /\ spent.ups < MaxUps
    /\ \E n \in Names :
         /\ SlugFree(n)
         /\ Begin(c, [Job("up", "create", n) EXCEPT !.expires = clock + Ttl])
    /\ spent' = [spent EXCEPT !.ups = @ + 1]
    /\ UNCHANGED <<backend, lock, clock, crossed>>

(* Mutant: an upsert *)
CreateUpsert(c) ==
    /\ At(c, "create")
    /\ stack' = [stack EXCEPT ![Name(c)] = IF @.exists THEN @ ELSE Created]
    /\ Goto(c, "identify")
    /\ Cross(Name(c))
    /\ UNCHANGED <<resources, lock, manifests, clock, spent>>

(* createStack: creation is the atomic guard *)
Create(c) ==
    /\ At(c, "create")
    /\ IF stack[Name(c)].exists
       THEN End(c) /\ UNCHANGED <<stack, crossed>>
       ELSE /\ stack' = [stack EXCEPT ![Name(c)] = Created]
            /\ Goto(c, "identify")
            /\ Cross(Name(c))
    /\ UNCHANGED <<resources, lock, manifests, clock, spent>>

(* Mutant: provision first, identify afterwards never *)
IdentifyLater(c) ==
    /\ At(c, "identify")
    /\ Goto(c, "engine")
    /\ UNCHANGED <<backend, lock, clock, spent, crossed>>

(* applyStackConfig, then one SetAllConfig with the identity and the deadline *)
Identify(c) ==
    /\ At(c, "identify")
    /\ IF stack[Name(c)].exists
       THEN /\ stack' = [stack EXCEPT ![Name(c)] = [exists |-> TRUE, ephemeral |-> TRUE, expires |-> cmd[c].expires]]
            /\ cmd' = [cmd EXCEPT ![c].at = "engine", ![c].expires = 0]
       ELSE End(c) /\ UNCHANGED stack
    /\ UNCHANGED <<resources, lock, manifests, clock, spent, crossed>>

-----------------------------------------------------------------------------
(* The engine: it takes the stack's lock, waits while another run has it,   *)
(* changes the cloud, and removes the lock.                                  *)

(* A lock object is named by a fresh uuid: any key nobody holds or remembers *)
Key == CHOOSE k \in 1 .. Cardinality(Names) + Cardinality(Commands) + 1 :
          k \notin {lock[n] : n \in Names} \cup {cmd[c].key : c \in Commands}

Lock(c) ==
    /\ At(c, "engine")
    /\ IF stack[Name(c)].exists
       THEN /\ lock[Name(c)] = 0
            /\ lock' = [lock EXCEPT ![Name(c)] = Key]
            /\ cmd' = [cmd EXCEPT ![c].at = "running", ![c].key = Key]
       ELSE End(c) /\ UNCHANGED lock
    /\ UNCHANGED <<backend, clock, spent, crossed>>

Affected(c) == IF Teardown(c) THEN resources \ {Name(c)} ELSE resources \cup {Name(c)}

Engine(c) ==
    /\ At(c, "running")
    /\ resources' = Affected(c)
    /\ Goto(c, "release")
    /\ UNCHANGED <<stack, lock, manifests, clock, spent, crossed>>

(* An update that fails may have created some resources, a destroy that fails
   leaves some *)
EngineFails(c) ==
    /\ At(c, "running") /\ spent.failures < MaxFailures
    /\ resources' \in {resources, resources \cup Affected(c)}
    /\ cmd' = [cmd EXCEPT ![c].at = "release", ![c].ok = FALSE]
    /\ spent' = [spent EXCEPT !.failures = @ + 1]
    /\ UNCHANGED <<stack, lock, manifests, clock, crossed>>

Release(c) ==
    /\ At(c, "release")
    /\ lock' = [lock EXCEPT ![Name(c)] = IF @ = cmd[c].key THEN 0 ELSE @]
    /\ IF ~cmd[c].ok \/ cmd[c].kind = "deploy" THEN End(c)
       ELSE cmd' = [cmd EXCEPT ![c].at = IF Teardown(c) THEN "manifests" ELSE "outputs", ![c].key = 0]
    /\ UNCHANGED <<backend, clock, spent, crossed>>

-----------------------------------------------------------------------------
(* ephemeral up, afterwards: replicateReleases reads the stack's outputs,   *)
(* then pins the source's SHAs host by host, for as long as that takes.      *)

ReadOutputs(c) ==
    /\ At(c, "outputs")
    /\ IF Name(c) \in resources THEN Goto(c, "pin") ELSE End(c)
    /\ UNCHANGED <<backend, lock, clock, spent, crossed>>

(* The pin precedes the delivery to the host, so it needs no host *)
Pin(c) ==
    /\ At(c, "pin")
    /\ manifests' = manifests \cup {Name(c)}
    /\ End(c)
    /\ UNCHANGED <<stack, resources, lock, clock, spent, crossed>>

-----------------------------------------------------------------------------
(* ephemeral down and reap.                                                 *)

(* down refuses a stack without the source mapping, which is written together
   with the identity *)
StartDown(c) ==
    /\ At(c, "idle")
    /\ \E n \in Names :
         /\ stack[n].ephemeral
         /\ Begin(c, Job("down", "reassert", n))
    /\ UNCHANGED <<backend, lock, clock, spent, crossed>>

(* ListStacks and the one `now` of the run *)
StartReap(c) ==
    /\ At(c, "idle")
    /\ Begin(c, [Job("reap", "classify", NoName) EXCEPT !.expires = clock, !.todo = {n \in Names : stack[n].exists}])
    /\ UNCHANGED <<backend, lock, clock, spent, crossed>>

(* reapDecision: marked ephemeral, and past the deadline *)
(* Mutants: the first signal is not read; the deadline is compared wrongly *)
ExpiredOnly(n, now) == now > stack[n].expires
ExpiredAt(n, now) == stack[n].ephemeral /\ now < stack[n].expires
Expired(n, now) == stack[n].ephemeral /\ now > stack[n].expires

(* A stack that vanished meanwhile, or that cannot be read, is skipped *)
SkipStack(c) ==
    /\ At(c, "classify") /\ spent.failures < MaxFailures
    /\ \E n \in cmd[c].todo : cmd' = [cmd EXCEPT ![c].todo = @ \ {n}]
    /\ spent' = [spent EXCEPT !.failures = @ + 1]
    /\ UNCHANGED <<backend, lock, clock, crossed>>
Classify(c) ==
    /\ At(c, "classify")
    /\ \E n \in cmd[c].todo :
         cmd' = [cmd EXCEPT ![c].todo = @ \ {n},
                            ![c].doomed = IF stack[n].exists /\ Expired(n, cmd[c].expires) THEN @ \cup {n} ELSE @]
    /\ UNCHANGED <<backend, lock, clock, spent, crossed>>

NextCandidate(c) ==
    /\ \/ At(c, "classify") /\ cmd[c].todo = {}
       \/ At(c, "next")
    /\ \/ \E n \in cmd[c].doomed :
            cmd' = [cmd EXCEPT ![c].at = "reassert", ![c].name = n, ![c].expires = 0, ![c].doomed = @ \ {n}]
       \/ cmd[c].doomed = {} /\ Begin(c, Idle)
    /\ UNCHANGED <<backend, lock, clock, spent, crossed>>

(* The identity is written again: that fails when the stack is gone *)
Reassert(c) ==
    /\ At(c, "reassert")
    /\ IF stack[Name(c)].exists THEN Goto(c, "engine") ELSE End(c)
    /\ Cross(Name(c))
    /\ UNCHANGED <<backend, lock, clock, spent>>

(* Mutant: they are left to the next prune *)
KeepManifests(c) ==
    /\ At(c, "manifests")
    /\ Goto(c, "remove")
    /\ UNCHANGED <<backend, lock, clock, spent, crossed>>

DeleteManifests(c) ==
    /\ At(c, "manifests")
    /\ manifests' = manifests \ {Name(c)}
    /\ Goto(c, "remove")
    /\ UNCHANGED <<stack, resources, lock, clock, spent, crossed>>

(* Mutant: the configuration outlives the stack *)
RemoveObject(c) ==
    /\ At(c, "remove")
    /\ stack' = IF Name(c) \in resources THEN stack ELSE [stack EXCEPT ![Name(c)].exists = FALSE]
    /\ End(c)
    /\ UNCHANGED <<resources, lock, manifests, clock, spent, crossed>>

(* The engine refuses to remove a stack that has resources *)
Remove(c) ==
    /\ At(c, "remove")
    /\ stack' = IF Name(c) \in resources THEN stack ELSE [stack EXCEPT ![Name(c)] = NoStack]
    /\ End(c)
    /\ UNCHANGED <<resources, lock, manifests, clock, spent, crossed>>

-----------------------------------------------------------------------------
(* deploy and unlock.                                                       *)

(* failOnStackLock is advisory: a failed listing lets the deploy go on *)
StartDeploy(c) ==
    /\ At(c, "idle")
    /\ \E n \in Envs :
         /\ lock[n] = 0 \/ spent.failures < MaxFailures
         /\ spent' = IF lock[n] = 0 THEN spent ELSE [spent EXCEPT !.failures = @ + 1]
         /\ stack' = [stack EXCEPT ![n].exists = TRUE]
         /\ Begin(c, Job("deploy", "engine", n))
    /\ UNCHANGED <<resources, lock, manifests, clock, crossed>>

Held(n) == \E c \in Commands : cmd[c].at \in {"running", "release"} /\ Name(c) = n

(* stack unlock, run as its message asks: when no other deploy is running *)
StartUnlock(c) ==
    /\ At(c, "idle")
    /\ \E n \in Names :
         /\ lock[n] # 0 /\ ~Held(n)
         /\ Begin(c, [Job("unlock", "delete", n) EXCEPT !.key = lock[n]])
    /\ UNCHANGED <<backend, lock, clock, spent, crossed>>

(* Mutant: whatever lock there is by now *)
DeleteAnyLock(c) ==
    /\ At(c, "delete")
    /\ lock' = [lock EXCEPT ![Name(c)] = 0]
    /\ End(c)
    /\ UNCHANGED <<backend, clock, spent, crossed>>

(* The listed objects are deleted by key, and no other *)
DeleteLock(c) ==
    /\ At(c, "delete")
    /\ lock' = [lock EXCEPT ![Name(c)] = IF @ = cmd[c].key THEN 0 ELSE @]
    /\ End(c)
    /\ UNCHANGED <<backend, clock, spent, crossed>>

-----------------------------------------------------------------------------
(* Failures.                                                                *)

(* A call outside the engine fails: the command gives up on the stack *)
FailCall(c) ==
    /\ cmd[c].at \notin {"idle", "classify", "next", "running", "release"}
    /\ spent.failures < MaxFailures
    /\ spent' = [spent EXCEPT !.failures = @ + 1]
    /\ End(c)
    /\ UNCHANGED <<backend, lock, clock, crossed>>

(* The process is killed; an engine run may have changed the cloud already *)
Die(c) ==
    /\ ~At(c, "idle")
    /\ spent.deaths < MaxDeaths
    /\ spent' = [spent EXCEPT !.deaths = @ + 1]
    /\ Begin(c, Idle)
    /\ resources' \in {resources} \cup IF At(c, "running") THEN {Affected(c)} ELSE {}
    /\ UNCHANGED <<stack, lock, manifests, clock, crossed>>

(* The engine retries a taken lock for ever, and in silence: the operator, or
   the time limit of a CI job, ends the wait *)
GiveUp(c) ==
    /\ At(c, "engine") /\ lock[Name(c)] # 0
    /\ Begin(c, Idle)
    /\ UNCHANGED <<backend, lock, clock, spent, crossed>>

Tick ==
    /\ clock < MaxTime
    /\ clock' = clock + 1
    /\ UNCHANGED <<backend, lock, cmd, spent, crossed>>

Bringing(c) == Create(c) \/ Identify(c) \/ ReadOutputs(c) \/ Pin(c)
Running(c) == Lock(c) \/ Engine(c) \/ Release(c)
Tearing(c) == Classify(c) \/ NextCandidate(c) \/ Reassert(c) \/ DeleteManifests(c) \/ Remove(c)
Progress(c) == Bringing(c) \/ Running(c) \/ Tearing(c) \/ DeleteLock(c)
Start(c) == StartUp(c) \/ StartDown(c) \/ StartReap(c) \/ StartDeploy(c) \/ StartUnlock(c)
Fail(c) == EngineFails(c) \/ SkipStack(c) \/ FailCall(c) \/ Die(c) \/ GiveUp(c)
Next == Tick \/ \E c \in Commands : Start(c) \/ Progress(c) \/ Fail(c)
Spec == Init /\ [][Next]_vars

(* A command that can go on does, and the reaper is run again and again (cron) *)
FairSpec ==
    /\ Spec
    /\ \A c \in Commands : WF_vars(Progress(c))
    /\ SF_vars(\E c \in Commands : StartReap(c))

-----------------------------------------------------------------------------
(* Properties.                                                              *)

States == {NoStack, Created} \cup [exists : {TRUE}, ephemeral : {TRUE}, expires : Nat]

Labels == {"idle", "create", "identify", "engine", "running", "release", "outputs", "pin",
           "classify", "next", "reassert", "manifests", "remove", "delete"}
Cmds == [kind : {"none", "up", "down", "reap", "deploy", "unlock"}, at : Labels, name : Names \cup {NoName},
         expires : Nat, key : Nat, ok : BOOLEAN, todo : SUBSET Names, doomed : SUBSET Names]

(* Types; a stack that is gone has no configuration left (RemoveStack) *)
TypeOK ==
    /\ stack \in [Names -> States]
    /\ resources \subseteq Names /\ manifests \subseteq Names /\ crossed \subseteq Names
    /\ lock \in [Names -> Nat]
    /\ clock \in 1 .. MaxTime
    /\ cmd \in [Commands -> Cmds]
    /\ spent \in [ups : 0 .. MaxUps, deaths : 0 .. MaxDeaths, failures : 0 .. MaxFailures]

(* Whatever the ephemeral commands do, a permanent environment is never marked
   for reaping, loses no resource and keeps its stack (checkSlugFree,
   createStack and reapDecision together: the three-signal guarantee) *)
Spared(n) == /\ ~stack'[n].ephemeral
             /\ (n \in resources => n \in resources')
             /\ (stack[n].exists => stack'[n].exists)
PermanentSpared == [][\A n \in Envs : Spared(n)]_vars

(* Of concurrent ups with one slug at most one gets past the creation of the
   stack (createStack), as long as nobody tears that slug down beside them *)
OneUp ==
    \A n \in Slugs \ crossed :
        Cardinality({c \in Commands : cmd[c].kind = "up" /\ Name(c) = n /\ ~At(c, "create")}) <= 1

(* Whatever fails or is killed, what a slug costs hangs on a stack the reaper
   will find (runEphemeralUp writes the identity before the engine runs, and
   destroyEphemeralStack removes the stack last) *)
BillableIsReapable == \A n \in Slugs \ crossed : n \in resources => stack[n].exists /\ stack[n].ephemeral

(* Release manifests of a slug never outlive its stack, unless it was brought up
   and torn down at the same time (deleteEphemeralManifests) *)
ManifestsDieWithEnv == \A n \in Slugs \ crossed : n \in manifests => stack[n].exists

(* Two engine runs never work on one stack, whoever clears locks
   (unlockStackLocks) *)
OneEngineAtATime ==
    \A c, d \in Commands :
        c # d /\ {cmd[c].at, cmd[d].at} \subseteq {"running", "release"} => Name(c) # Name(d)

(* An expired environment is torn down, unless a killed engine run has left a
   lock, on which the reaper waits (runEphemeralReap) *)
Overdue(n) == stack[n].ephemeral /\ clock > stack[n].expires
LeftLocked == \E n \in Names : lock[n] # 0 /\ ~Held(n)
ExpiredIsReaped == \A n \in Slugs : Overdue(n) ~> (~Overdue(n) \/ LeftLocked)
=============================================================================
