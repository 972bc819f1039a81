------------------------ MODULE StackLifecycleProofs ------------------------
(***************************************************************************)
(* What holds of StackLifecycle for any environments, slugs and commands.  *)
(* The inductive invariant says where each kind of command can be (Shape), *)
(* what an engine run knows of its lock, and what a command that brings a  *)
(* slug up may rely on while nobody tears that slug down beside it.        *)
(***************************************************************************)
EXTENDS StackLifecycle, FiniteSetTheorems, TLAPS

EngineLabels == {"engine", "running", "release"}

(* Which names a command works on, and where it can be *)
Shape(r) ==
    /\ r.doomed \cap Envs = {}
    /\ \/ r.kind = "none" /\ r.at = "idle" /\ r.key = 0
       \/ r.kind = "up" /\ r.at \in {"create", "identify", "outputs", "pin"} \cup EngineLabels /\ r.name \in Slugs
       \/ r.kind = "deploy" /\ r.at \in EngineLabels /\ r.name \in Envs
       \/ r.kind = "unlock" /\ r.at = "delete" /\ r.name \in Names
       \/ r.kind \in {"down", "reap"} /\ r.at \in {"reassert", "manifests", "remove"} \cup EngineLabels /\ r.name \in Slugs
       \/ r.kind = "reap" /\ r.at \in {"classify", "next"} /\ r.name = NoName
Shapes == \A c \in Commands : Shape(cmd[c])

EnvsPermanent == \A n \in Envs : ~stack[n].ephemeral

(* An engine run holds the lock of its stack, alone, and no unlock that is
   under way has seen that lock *)
Engaged(c) == cmd[c].at \in {"running", "release"}
Locking ==
    /\ \A c \in Commands : Engaged(c) => lock[Name(c)] = cmd[c].key /\ cmd[c].key # 0
    /\ \A c, d \in Commands : Engaged(c) /\ At(d, "delete") /\ Name(c) = Name(d) => cmd[c].key # cmd[d].key
    /\ OneEngineAtATime

(* A command has created the stack it brings up; or is past its decision to
   tear one down *)
Owning(c) == cmd[c].kind = "up" /\ ~At(c, "create")
Destroying(c) == Teardown(c) /\ cmd[c].at \in {"manifests", "remove"} \cup EngineLabels

Owned ==
    /\ \A c, d \in Commands : Owning(c) /\ Destroying(d) /\ Name(c) = Name(d) => Name(c) \in crossed
    /\ \A c, d \in Commands : c # d /\ Owning(c) /\ Owning(d) /\ Name(c) = Name(d) => Name(c) \in crossed
    /\ \A c \in Commands : Owning(c) /\ Name(c) \notin crossed =>
          stack[Name(c)].exists /\ (At(c, "identify") \/ stack[Name(c)].ephemeral)

(* What a slug leaves behind hangs on its stack, and a stack goes last *)
Accounted ==
    /\ BillableIsReapable
    /\ ManifestsDieWithEnv
    /\ \A c \in Commands : At(c, "remove") /\ Name(c) \notin crossed => Name(c) \notin manifests

Inv == TypeOK /\ Shapes /\ EnvsPermanent /\ Locking /\ Owned /\ Accounted

-----------------------------------------------------------------------------
(* The records the actions build. *)

LEMMA JobType ==
  ASSUME NEW k \in {"none", "up", "down", "reap", "deploy", "unlock"}, NEW label \in Labels, NEW n \in Names \cup {NoName}
  PROVE  Job(k, label, n) \in Cmds
  BY DEF Job, Cmds

LEMMA IdleType == Idle \in Cmds /\ Shape(Idle)
  BY JobType DEF Idle, Job, Labels, Shape

LEMMA DoneType ==
  ASSUME NEW c \in Commands, cmd[c] \in Cmds, Shape(cmd[c])
  PROVE  Done(c) \in Cmds /\ Shape(Done(c))
<1>1. CASE cmd[c].kind = "reap"
  <2>1. Done(c) = [cmd[c] EXCEPT !.at = "next", !.name = NoName, !.key = 0, !.ok = TRUE]
    BY <1>1 DEF Done
  <2>2. Done(c) \in Cmds
    <3>1. Done(c) = [kind |-> cmd[c].kind, at |-> "next", name |-> NoName, expires |-> cmd[c].expires, key |-> 0,
                     ok |-> TRUE, todo |-> cmd[c].todo, doomed |-> cmd[c].doomed]
      BY <2>1 DEF Cmds
    <3> QED BY <3>1 DEF Cmds, Labels
  <2>3. /\ Done(c).kind = "reap" /\ Done(c).at = "next" /\ Done(c).name = NoName
        /\ Done(c).doomed = cmd[c].doomed
    BY <1>1, <2>1 DEF Cmds
  <2> QED BY <2>2, <2>3 DEF Shape
<1>2. CASE cmd[c].kind # "reap"
  BY <1>2, IdleType DEF Done
<1> QED BY <1>1, <1>2

(* There is always a lock key nobody holds or remembers. *)
LEMMA FreshKey ==
  ASSUME TypeOK
  PROVE  Key \in Nat \ {0} /\ (\A n \in Names : Key # lock[n]) /\ (\A c \in Commands : Key # cmd[c].key)
<1> DEFINE N == Cardinality(Names)
<1> DEFINE M == Cardinality(Commands)
<1> DEFINE A == {lock[n] : n \in Names}
<1> DEFINE B == {cmd[c].key : c \in Commands}
<1> DEFINE K == 1 .. N + M + 1
<1>1. N \in Nat /\ M \in Nat
  BY StackAssumption, FS_CardinalityType
<1>2. IsFiniteSet(A) /\ Cardinality(A) <= N
  <2> DEFINE f == [n \in Names |-> lock[n]]
  <2>1. f \in Surjection(Names, A)
    BY DEF Surjection
  <2> QED BY <2>1, StackAssumption, FS_Surjection
<1>3. IsFiniteSet(B) /\ Cardinality(B) <= M
  <2> DEFINE f == [c \in Commands |-> cmd[c].key]
  <2>1. f \in Surjection(Commands, B)
    BY DEF Surjection
  <2> QED BY <2>1, StackAssumption, FS_Surjection
<1>4. IsFiniteSet(A \cup B) /\ Cardinality(A \cup B) <= N + M
  <2>1. IsFiniteSet(A \cap B) /\ Cardinality(A \cap B) \in Nat
    BY <1>2, FS_Subset, FS_CardinalityType
  <2>2. IsFiniteSet(A \cup B) /\ Cardinality(A \cup B) = Cardinality(A) + Cardinality(B) - Cardinality(A \cap B)
    BY <1>2, <1>3, FS_Union
  <2>3. Cardinality(A) \in Nat /\ Cardinality(B) \in Nat
    BY <1>2, <1>3, FS_CardinalityType
  <2> HIDE DEF N, M, A, B
  <2> QED BY <1>1, <1>2, <1>3, <2>1, <2>2, <2>3
<1>5. \E k \in K : k \notin A \cup B
  <2> SUFFICES ASSUME K \subseteq A \cup B PROVE FALSE
    OBVIOUS
  <2>1. Cardinality(K) = N + M + 1
    BY <1>1, FS_Interval
  <2>2. Cardinality(K) <= Cardinality(A \cup B)
    BY <1>4, FS_Subset
  <2>3. Cardinality(A \cup B) \in Nat
    BY <1>4, FS_CardinalityType
  <2> HIDE DEF N, M, A, B, K
  <2> QED BY <1>1, <1>4, <2>1, <2>2, <2>3
<1>6. Key \in K /\ Key \notin A \cup B
  BY <1>5 DEF Key
<1> QED BY <1>1, <1>6
-----------------------------------------------------------------------------
(* What each kind of step does to the commands. *)

(* Command c becomes r, and the others are left alone *)
Becomes(c, r) == r \in Cmds /\ cmd' = [cmd EXCEPT ![c] = r]

LEMMA BecomesType ==
  ASSUME TypeOK, Shapes, NEW c \in Commands, NEW r, Becomes(c, r), Shape(r)
  PROVE  cmd' \in [Commands -> Cmds] /\ Shapes' /\ cmd'[c] = r /\ \A d \in Commands \ {c} : cmd'[d] = cmd[d]
  BY DEF TypeOK, Shapes, Becomes, Shape

LEMMA GotoBecomes ==
  ASSUME TypeOK, NEW c \in Commands, NEW label \in Labels, Goto(c, label)
  PROVE  Becomes(c, [cmd[c] EXCEPT !.at = label])
<1>1. cmd' = [cmd EXCEPT ![c] = [cmd[c] EXCEPT !.at = label]]
  BY DEF Goto, TypeOK
<1>2. cmd[c] \in Cmds
  BY DEF TypeOK
<1> QED BY <1>1, <1>2 DEF Becomes, Cmds

LEMMA EndBecomes ==
  ASSUME TypeOK, Shapes, NEW c \in Commands, End(c)
  PROVE  Becomes(c, Done(c)) /\ Shape(Done(c))
  BY DoneType DEF End, Becomes, TypeOK, Shapes

-----------------------------------------------------------------------------
(* What a step that touches only a part of the state preserves. *)

Alone(c) == \A d \in Commands \ {c} : cmd'[d] = cmd[d]

(* Locks are unaffected by a command that is outside the engine afterwards. *)
LEMMA LockingKept ==
  ASSUME Inv, NEW c \in Commands, Alone(c), lock' = lock, cmd'[c].at \notin {"running", "release", "delete"}
  PROVE  Locking'
  BY DEF Inv, Alone, Locking, Engaged, OneEngineAtATime, At, Name

(* A command that neither starts owning nor starts destroying. *)
LEMMA OwnedKept ==
  ASSUME Inv, NEW c \in Commands, Alone(c), crossed \subseteq crossed',
         \A a \in Commands : Owning(a) /\ Name(a) \notin crossed => stack'[Name(a)] = stack[Name(a)],
         Owning(c)' => Owning(c) /\ cmd'[c].name = cmd[c].name /\ ~At(c, "identify"),
         Destroying(c)' => Destroying(c) /\ cmd'[c].name = cmd[c].name
  PROVE  Owned'
<1>1. \A d \in Commands :
          /\ Owning(d)' => Owning(d) /\ Name(d)' = Name(d)
          /\ Destroying(d)' => Destroying(d) /\ Name(d)' = Name(d)
          /\ Owning(d)' /\ At(d, "identify") => At(d, "identify")'
  BY DEF Alone, Owning, Destroying, Name, At, Teardown
<1>2. ASSUME NEW a \in Commands, NEW b \in Commands, Owning(a)', Destroying(b)', Name(a)' = Name(b)'
      PROVE  Name(a)' \in crossed'
  BY <1>1, <1>2 DEF Inv, Owned
<1>3. ASSUME NEW a \in Commands, NEW b \in Commands, a # b, Owning(a)', Owning(b)', Name(a)' = Name(b)'
      PROVE  Name(a)' \in crossed'
  BY <1>1, <1>3 DEF Inv, Owned
<1>4. ASSUME NEW a \in Commands, Owning(a)', Name(a)' \notin crossed'
      PROVE  stack'[Name(a)'].exists /\ (At(a, "identify")' \/ stack'[Name(a)'].ephemeral)
  <2>1. Owning(a) /\ Name(a)' = Name(a) /\ Name(a) \notin crossed /\ (At(a, "identify") => At(a, "identify")')
    BY <1>1, <1>4
  <2> QED BY <2>1 DEF Inv, Owned
<1> QED BY <1>2, <1>3, <1>4 DEF Owned

(* Resources, manifests and stacks stay, and c has none to remove. *)
LEMMA AccountedKept ==
  ASSUME Inv, NEW c \in Commands, Alone(c), UNCHANGED backend, crossed \subseteq crossed', cmd'[c].at # "remove"
  PROVE  Accounted'
  BY DEF Inv, Alone, backend, Accounted, BillableIsReapable, ManifestsDieWithEnv, At, Name

(* The parts of the invariant, put together after a step of c. *)
Spents == [ups : 0 .. MaxUps, deaths : 0 .. MaxDeaths, failures : 0 .. MaxFailures]
LEMMA Assemble ==
  ASSUME Inv, NEW c \in Commands, NEW r, Becomes(c, r), Shape(r), clock' = clock, spent' \in Spents,
         stack' \in [Names -> States], resources' \subseteq Names, manifests' \subseteq Names, crossed' \subseteq Names,
         lock' \in [Names -> Nat], EnvsPermanent', Locking', Owned', Accounted'
  PROVE  Inv'
  BY BecomesType DEF Inv, TypeOK, Spents

(* A step that touches at most the locks. *)
LEMMA MoveStep ==
  ASSUME Inv, NEW c \in Commands, NEW r, Becomes(c, r), Shape(r),
         UNCHANGED <<backend, clock, crossed>>, spent' \in Spents, lock' \in [Names -> Nat], Locking',
         r.at # "remove",
         r.kind = "up" /\ r.at # "create" => Owning(c) /\ r.name = Name(c) /\ ~At(c, "identify"),
         r.kind \in {"down", "reap"} /\ r.at \in {"manifests"} \cup EngineLabels => Destroying(c) /\ r.name = Name(c)
  PROVE  Inv'
<1>1. cmd'[c] = r /\ Alone(c)
  BY BecomesType DEF Inv, Alone
<1>2. stack' = stack /\ resources' = resources /\ manifests' = manifests
  BY DEF backend
<1>3. Owned'
  <2>1. Owning(c)' => Owning(c) /\ cmd'[c].name = cmd[c].name /\ ~At(c, "identify")
    BY <1>1 DEF Owning, At, Name
  <2>2. Destroying(c)' => Destroying(c) /\ cmd'[c].name = cmd[c].name
    BY <1>1 DEF Destroying, Teardown, Name, EngineLabels
  <2> QED BY <1>1, <1>2, <2>1, <2>2, OwnedKept
<1>4. Accounted'
  BY <1>1, AccountedKept
<1>5. EnvsPermanent'
  BY <1>2 DEF Inv, EnvsPermanent
<1> QED BY <1>2, <1>3, <1>4, <1>5, Assemble DEF Inv, TypeOK

(* A step that leaves stacks, resources, manifests and locks alone. *)
LEMMA QuietStep ==
  ASSUME Inv, NEW c \in Commands, NEW r, Becomes(c, r), Shape(r),
         UNCHANGED <<backend, lock, clock, crossed>>, spent' \in Spents,
         r.at \notin {"running", "release", "delete", "remove"},
         r.kind = "up" /\ r.at # "create" => Owning(c) /\ r.name = Name(c) /\ ~At(c, "identify"),
         r.kind \in {"down", "reap"} /\ r.at \in {"engine", "manifests"} => Destroying(c) /\ r.name = Name(c)
  PROVE  Inv'
<1>1. Locking'
  BY BecomesType, LockingKept DEF Inv, Alone
<1>2. lock' \in [Names -> Nat]
  BY DEF Inv, TypeOK
<1> QED BY <1>1, <1>2, MoveStep DEF EngineLabels

(* Failing or finished, a command is neither in the engine nor owns anything. *)
LEMMA DoneIsQuiet ==
  ASSUME NEW c \in Commands, cmd[c] \in Cmds
  PROVE  Done(c).at \in {"idle", "next"} /\ Done(c).kind \in {"none", "reap"}
  BY DEF Done, Idle, Job, Cmds

LEMMA EndStep ==
  ASSUME Inv, NEW c \in Commands, End(c), UNCHANGED <<backend, lock, clock, crossed>>, spent' \in Spents
  PROVE  Inv'
<1>1. Becomes(c, Done(c)) /\ Shape(Done(c))
  BY EndBecomes DEF Inv
<1>2. Done(c).at \in {"idle", "next"} /\ Done(c).kind \in {"none", "reap"}
  BY DoneIsQuiet DEF Inv, TypeOK
<1> QED BY <1>1, <1>2, QuietStep

LEMMA IdleStep ==
  ASSUME Inv, NEW c \in Commands, Begin(c, Idle),
         UNCHANGED <<backend, lock, clock, crossed>>, spent' \in Spents
  PROVE  Inv'
<1>1. Becomes(c, Idle) /\ Shape(Idle)
  BY IdleType DEF Becomes, Begin
<1>2. Idle.at = "idle" /\ Idle.kind = "none"
  BY DEF Idle, Job
<1> QED BY <1>1, <1>2, QuietStep

(* The counters stay typed. *)
LEMMA SpentType ==
  ASSUME Inv
  PROVE  /\ spent \in Spents
         /\ spent.failures < MaxFailures => [spent EXCEPT !.failures = @ + 1] \in Spents
         /\ spent.deaths < MaxDeaths => [spent EXCEPT !.deaths = @ + 1] \in Spents
         /\ spent.ups < MaxUps => [spent EXCEPT !.ups = @ + 1] \in Spents
  BY StackAssumption DEF Inv, TypeOK, Spents

-----------------------------------------------------------------------------
(* One lemma per action. *)

LEMMA StartUpStep == ASSUME Inv, NEW c \in Commands, StartUp(c) PROVE Inv'
<1>1. PICK n \in Names : SlugFree(n) /\ Begin(c, [Job("up", "create", n) EXCEPT !.expires = clock + Ttl])
  BY DEF StartUp
<1> DEFINE r == [Job("up", "create", n) EXCEPT !.expires = clock + Ttl]
<1>2. clock + Ttl \in Nat /\ n \in Slugs
  BY <1>1, StackAssumption DEF Inv, TypeOK, SlugFree, Names
<1>3. r \in Cmds
  BY <1>2, JobType DEF Cmds, Labels
<1>4. r.kind = "up" /\ r.at = "create" /\ r.name = n /\ r.doomed = {}
  BY DEF Job
<1>5. Becomes(c, r) /\ Shape(r)
  BY <1>1, <1>2, <1>3, <1>4 DEF Begin, Becomes, Shape
<1>6. UNCHANGED <<backend, lock, clock, crossed>> /\ spent' \in Spents
  BY SpentType DEF StartUp
<1> QED BY <1>4, <1>5, <1>6, QuietStep

LEMMA StartDownStep == ASSUME Inv, NEW c \in Commands, StartDown(c) PROVE Inv'
<1>1. PICK n \in Names : stack[n].ephemeral /\ Begin(c, Job("down", "reassert", n))
  BY DEF StartDown
<1> DEFINE r == Job("down", "reassert", n)
<1>2. n \in Slugs
  BY <1>1 DEF Inv, EnvsPermanent, Names
<1>3. r \in Cmds
  BY JobType DEF Labels
<1>4. r.kind = "down" /\ r.at = "reassert" /\ r.name = n /\ r.doomed = {}
  BY DEF Job
<1>5. Becomes(c, r) /\ Shape(r)
  BY <1>1, <1>2, <1>3, <1>4 DEF Begin, Becomes, Shape
<1>6. UNCHANGED <<backend, lock, clock, crossed>> /\ spent' \in Spents
  BY SpentType DEF StartDown
<1> QED BY <1>4, <1>5, <1>6, QuietStep

LEMMA StartReapStep == ASSUME Inv, NEW c \in Commands, StartReap(c) PROVE Inv'
<1> DEFINE todo == {n \in Names : stack[n].exists}
<1> DEFINE r == [Job("reap", "classify", NoName) EXCEPT !.expires = clock, !.todo = todo]
<1>1. Begin(c, r)
  BY DEF StartReap
<1>2. clock \in Nat /\ todo \subseteq Names
  BY DEF Inv, TypeOK
<1> HIDE DEF todo
<1>3. r \in Cmds
  <2> DEFINE job == Job("reap", "classify", NoName)
  <2>1. job \in Cmds
    BY JobType DEF Labels
  <2>2. [job EXCEPT !.expires = clock] \in Cmds
    BY <1>2, <2>1 DEF Cmds
  <2>3. r = [[job EXCEPT !.expires = clock] EXCEPT !.todo = todo]
    OBVIOUS
  <2> QED BY <1>2, <2>2, <2>3 DEF Cmds
<1>4. r.kind = "reap" /\ r.at = "classify" /\ r.name = NoName /\ r.doomed = {}
  BY DEF Job
<1>5. Becomes(c, r) /\ Shape(r)
  BY <1>1, <1>3, <1>4 DEF Begin, Becomes, Shape
<1>6. UNCHANGED <<backend, lock, clock, crossed>> /\ spent' \in Spents
  BY SpentType DEF StartReap
<1> QED BY <1>4, <1>5, <1>6, QuietStep

(* What is known of a command before it steps. *)
LEMMA Before ==
  ASSUME Inv, NEW c \in Commands
  PROVE  cmd[c] \in Cmds /\ Shape(cmd[c]) /\ cmd \in [Commands -> Cmds] /\ spent \in Spents
  BY SpentType DEF Inv, TypeOK, Shapes

(* A command that only moves to its next call. *)
LEMMA GotoShape ==
  ASSUME Inv, NEW c \in Commands, NEW label \in Labels, Goto(c, label),
         cmd[c].kind = "up" => label \in {"create", "identify", "outputs", "pin"} \cup EngineLabels,
         cmd[c].kind \in {"down", "reap"} => label \in {"reassert", "manifests", "remove"} \cup EngineLabels,
         cmd[c].kind = "deploy" => label \in EngineLabels,
         cmd[c].at \notin {"idle", "delete", "classify", "next"}
  PROVE  \E r \in Cmds : /\ Becomes(c, r) /\ Shape(r) /\ r.at = label
                         /\ r.kind = cmd[c].kind /\ r.name = cmd[c].name /\ r.key = cmd[c].key
<1> DEFINE r == [cmd[c] EXCEPT !.at = label]
<1>1. Becomes(c, r)
  BY GotoBecomes DEF Inv
<1>2. /\ r.at = label /\ r.kind = cmd[c].kind /\ r.name = cmd[c].name /\ r.key = cmd[c].key
      /\ r.doomed = cmd[c].doomed
  BY Before DEF Cmds
<1>3. Shape(r)
  BY <1>2, Before DEF Shape, EngineLabels
<1> QED BY <1>1, <1>2, <1>3 DEF Becomes

LEMMA SkipStackStep == ASSUME Inv, NEW c \in Commands, SkipStack(c) PROVE Inv'
<1>1. PICK n \in cmd[c].todo : cmd' = [cmd EXCEPT ![c].todo = @ \ {n}]
  BY DEF SkipStack
<1> DEFINE r == [cmd[c] EXCEPT !.todo = @ \ {n}]
<1>2. r \in Cmds /\ r.at = cmd[c].at /\ r.kind = cmd[c].kind /\ r.name = cmd[c].name /\ r.doomed = cmd[c].doomed
  BY Before DEF Cmds
<1>3. cmd' = [cmd EXCEPT ![c] = r]
  BY <1>1, Before
<1>4. cmd[c].at = "classify"
  BY DEF SkipStack, At
<1>5. Becomes(c, r) /\ Shape(r) /\ r.kind = "reap"
  BY <1>2, <1>3, <1>4, Before DEF Becomes, Shape, EngineLabels
<1>6. UNCHANGED <<backend, lock, clock, crossed>> /\ spent' \in Spents
  BY SpentType DEF SkipStack
<1> QED BY <1>2, <1>4, <1>5, <1>6, QuietStep

(* The reaper dooms only stacks that are marked ephemeral. *)
LEMMA ClassifyStep == ASSUME Inv, NEW c \in Commands, Classify(c) PROVE Inv'
<1> DEFINE doomed(n) == IF stack[n].exists /\ Expired(n, cmd[c].expires) THEN cmd[c].doomed \cup {n} ELSE cmd[c].doomed
<1>1. PICK n \in cmd[c].todo : cmd' = [cmd EXCEPT ![c].todo = @ \ {n}, ![c].doomed = doomed(n)]
  BY DEF Classify
<1> DEFINE new == doomed(n)
<1>2. n \in Names
  BY Before DEF Cmds
<1>3. new \subseteq Names /\ new \cap Envs = {}
  BY <1>2, Before DEF Expired, Inv, EnvsPermanent, Cmds, Shape
<1> DEFINE r == [[cmd[c] EXCEPT !.todo = @ \ {n}] EXCEPT !.doomed = new]
<1>4. cmd' = [cmd EXCEPT ![c] = r]
  BY <1>1, Before
<1> HIDE DEF new
<1>5. r \in Cmds /\ r.at = cmd[c].at /\ r.kind = cmd[c].kind /\ r.name = cmd[c].name /\ r.doomed = new
  <2>1. [cmd[c] EXCEPT !.todo = @ \ {n}] \in Cmds
    BY Before DEF Cmds
  <2> QED BY <1>3, <2>1 DEF Cmds
<1>6. cmd[c].at = "classify"
  BY DEF Classify, At
<1>7. Becomes(c, r) /\ Shape(r) /\ r.kind = "reap"
  BY <1>3, <1>4, <1>5, <1>6, Before DEF Becomes, Shape, EngineLabels
<1>8. UNCHANGED <<backend, lock, clock, crossed>> /\ spent' \in Spents
  BY SpentType DEF Classify
<1> QED BY <1>5, <1>6, <1>7, <1>8, QuietStep

LEMMA NextCandidateStep == ASSUME Inv, NEW c \in Commands, NextCandidate(c) PROVE Inv'
<1>1. UNCHANGED <<backend, lock, clock, crossed>> /\ spent' \in Spents
  BY SpentType DEF NextCandidate
<1>2. CASE Begin(c, Idle)
  BY <1>1, <1>2, IdleStep
<1>3. CASE \E n \in cmd[c].doomed :
              cmd' = [cmd EXCEPT ![c].at = "reassert", ![c].name = n, ![c].expires = 0, ![c].doomed = @ \ {n}]
  <2>1. PICK n \in cmd[c].doomed :
              cmd' = [cmd EXCEPT ![c].at = "reassert", ![c].name = n, ![c].expires = 0, ![c].doomed = @ \ {n}]
    BY <1>3
  <2>2. n \in Slugs /\ n \in Names
    BY Before DEF Shape, Cmds, Names
  <2>3. cmd[c].at \in {"classify", "next"} /\ cmd[c].kind = "reap"
    BY Before DEF NextCandidate, At, Shape, EngineLabels
  <2> DEFINE r1 == [cmd[c] EXCEPT !.at = "reassert"]
             r2 == [r1 EXCEPT !.name = n]
             r3 == [r2 EXCEPT !.expires = 0]
             r == [r3 EXCEPT !.doomed = @ \ {n}]
  <2>4. cmd' = [cmd EXCEPT ![c] = r]
    BY <2>1, Before
  <2>5. r1 \in Cmds /\ r1.at = "reassert" /\ r1.kind = "reap" /\ r1.doomed = cmd[c].doomed
    BY <2>3, Before DEF Cmds, Labels
  <2> HIDE DEF r1
  <2>6. r2 \in Cmds /\ r2.at = "reassert" /\ r2.kind = "reap" /\ r2.doomed = cmd[c].doomed /\ r2.name = n
    BY <2>2, <2>5 DEF Cmds
  <2> HIDE DEF r2
  <2>7. r3 \in Cmds /\ r3.at = "reassert" /\ r3.kind = "reap" /\ r3.doomed = cmd[c].doomed /\ r3.name = n
    BY <2>6 DEF Cmds
  <2> HIDE DEF r3
  <2>8. r \in Cmds /\ r.at = "reassert" /\ r.kind = "reap" /\ r.doomed = cmd[c].doomed \ {n} /\ r.name = n
    BY <2>7 DEF Cmds
  <2>9. Becomes(c, r) /\ Shape(r)
    BY <2>2, <2>4, <2>8, Before DEF Becomes, Shape
  <2> QED BY <1>1, <2>8, <2>9, QuietStep
<1> QED BY <1>2, <1>3 DEF NextCandidate

LEMMA ReadOutputsStep == ASSUME Inv, NEW c \in Commands, ReadOutputs(c) PROVE Inv'
<1>1. UNCHANGED <<backend, lock, clock, crossed>> /\ spent' \in Spents
  BY SpentType DEF ReadOutputs
<1>2. CASE End(c)
  BY <1>1, <1>2, EndStep
<1>3. CASE Goto(c, "pin")
  <2>1. cmd[c].at = "outputs" /\ cmd[c].kind = "up"
    BY Before DEF ReadOutputs, At, Shape, EngineLabels
  <2>2. PICK r \in Cmds : Becomes(c, r) /\ Shape(r) /\ r.at = "pin" /\ r.kind = "up" /\ r.name = cmd[c].name
    BY <1>3, <2>1, GotoShape DEF Labels
  <2>3. Owning(c) /\ ~At(c, "identify") /\ r.name = Name(c)
    BY <2>1, <2>2 DEF Owning, At, Name
  <2> QED BY <1>1, <2>2, <2>3, QuietStep
<1> QED BY <1>2, <1>3 DEF ReadOutputs

LEMMA FailCallStep == ASSUME Inv, NEW c \in Commands, FailCall(c) PROVE Inv'
  BY EndStep, SpentType DEF FailCall

LEMMA GiveUpStep == ASSUME Inv, NEW c \in Commands, GiveUp(c) PROVE Inv'
  BY IdleStep, SpentType DEF GiveUp

(* Creation is refused when somebody owns the slug, and meets every teardown. *)
LEMMA CreateStep == ASSUME Inv, NEW c \in Commands, Create(c) PROVE Inv'
<1>1. UNCHANGED <<resources, lock, manifests, clock>> /\ spent' \in Spents
  BY SpentType DEF Create
<1>2. cmd[c].at = "create" /\ cmd[c].kind = "up" /\ cmd[c].name \in Slugs
  BY Before DEF Create, At, Shape, EngineLabels
<1>3. CASE End(c) /\ UNCHANGED <<stack, crossed>>
  BY <1>1, <1>3, EndStep DEF backend
<1>4. CASE ~stack[Name(c)].exists /\ stack' = [stack EXCEPT ![Name(c)] = Created] /\ Goto(c, "identify") /\ Cross(Name(c))
  <2> DEFINE n == cmd[c].name
  <2>1. PICK r \in Cmds : Becomes(c, r) /\ Shape(r) /\ r.at = "identify" /\ r.kind = "up" /\ r.name = n
    BY <1>2, <1>4, GotoShape DEF Labels
  <2>2. cmd' \in [Commands -> Cmds] /\ Shapes' /\ cmd'[c] = r /\ Alone(c)
    BY <2>1, BecomesType DEF Inv, Alone
  <2>3. n \in Slugs /\ n \in Names /\ n \notin Envs
    BY <1>2, StackAssumption DEF Names
  <2>4. /\ ~stack[n].exists /\ stack'[n] = Created /\ Created.exists /\ Created \in States
        /\ \A x \in Names \ {n} : stack'[x] = stack[x]
    BY <1>4, <2>3 DEF Name, Inv, TypeOK, Created, NoStack, States
  <2>5. /\ crossed \subseteq crossed' /\ crossed' \subseteq Names
        /\ \A b \in Commands : Teardown(b) /\ Name(b) = n => n \in crossed'
    BY <1>2, <1>4, <2>3 DEF Cross, Name, Inv, TypeOK
  <2>6. TypeOK'
    BY <1>1, <1>4, <2>2, <2>4, <2>5 DEF Inv, TypeOK, Spents
  <2>7. EnvsPermanent'
    BY <2>3, <2>4 DEF Inv, EnvsPermanent, Names
  <2>8. Locking'
    BY <1>1, <2>1, <2>2, LockingKept
  <2>9. Owned'
    <3>1. Owning(c)' /\ ~Destroying(c)' /\ Name(c)' = n /\ At(c, "identify")'
      BY <2>1, <2>2 DEF Owning, Destroying, Teardown, Name, At
    <3>10. \A d \in Commands \ {c} :
               /\ Owning(d)' => Owning(d)
               /\ Destroying(d)' => Destroying(d)
               /\ Name(d)' = Name(d)
               /\ At(d, "identify") => At(d, "identify")'
      BY <2>2 DEF Owning, Destroying, Teardown, Name, At, Alone
    <3>2. ASSUME NEW a \in Commands \ {c}, Owning(a), Name(a) \notin crossed PROVE Name(a) # n
      BY <2>4, <3>2 DEF Inv, Owned
    <3>3. ASSUME NEW a \in Commands, NEW b \in Commands, Owning(a)', Destroying(b)', Name(a)' = Name(b)'
          PROVE  Name(a)' \in crossed'
      <4>1. Destroying(b) /\ Name(b)' = Name(b) /\ Teardown(b)
        BY <3>1, <3>10, <3>3 DEF Owning, Destroying, Teardown, Name, At
      <4> QED BY <2>5, <3>1, <3>10, <3>3, <4>1 DEF Owning, Destroying, Teardown, Name, At, Inv, Owned
    <3>4. ASSUME NEW a \in Commands, NEW b \in Commands, a # b, Owning(a)', Owning(b)', Name(a)' = Name(b)'
          PROVE  Name(a)' \in crossed'
      BY <2>5, <3>1, <3>10, <3>2, <3>4 DEF Owning, Destroying, Teardown, Name, At, Inv, Owned
    <3>5. ASSUME NEW a \in Commands, Owning(a)', Name(a)' \notin crossed'
          PROVE  stack'[Name(a)'].exists /\ (At(a, "identify")' \/ stack'[Name(a)'].ephemeral)
      <4>1. CASE a = c
        BY <2>4, <3>1, <4>1 DEF Owning, Destroying, Teardown, Name, At
      <4>2. CASE a # c
        <5>1. Owning(a) /\ Name(a) \notin crossed /\ Name(a)' = Name(a) /\ Name(a) # n
          BY <2>5, <3>1, <3>10, <3>2, <3>5, <4>2 DEF Owning, Destroying, Teardown, Name, At
        <5>2. Name(a) \in Names
          BY <5>1, Before DEF Owning, Name, Shape, Names
        <5> QED BY <2>4, <3>10, <4>2, <5>1, <5>2 DEF Inv, Owned
      <4> QED BY <4>1, <4>2
    <3> QED BY <3>3, <3>4, <3>5 DEF Owned
  <2>10. Accounted'
    <3>1. ASSUME NEW x \in Slugs, x \notin crossed', stack[x].exists
          PROVE  stack'[x] = stack[x]
      BY <2>4, <3>1 DEF Names
    <3>2. BillableIsReapable' /\ ManifestsDieWithEnv'
      BY <1>1, <2>5, <3>1 DEF Inv, Accounted, BillableIsReapable, ManifestsDieWithEnv
    <3>3. \A d \in Commands : At(d, "remove")' => At(d, "remove") /\ Name(d)' = Name(d)
      BY <2>1, <2>2 DEF Alone, At, Name
    <3> QED BY <1>1, <2>5, <3>2, <3>3 DEF Inv, Accounted
  <2> QED BY <2>2, <2>6, <2>7, <2>8, <2>9, <2>10 DEF Inv
<1> QED BY <1>3, <1>4 DEF Create

(* The identity is written to a stack that c owns, or that is nobody's. *)
LEMMA IdentifyStep == ASSUME Inv, NEW c \in Commands, Identify(c) PROVE Inv'
<1>1. UNCHANGED <<resources, lock, manifests, clock, crossed>> /\ spent' \in Spents
  BY SpentType DEF Identify
<1>2. cmd[c].at = "identify" /\ cmd[c].kind = "up" /\ cmd[c].name \in Slugs
  BY Before DEF Identify, At, Shape, EngineLabels
<1>3. CASE End(c) /\ UNCHANGED stack
  BY <1>1, <1>3, EndStep DEF backend
<1>4. CASE /\ stack' = [stack EXCEPT ![Name(c)] = [exists |-> TRUE, ephemeral |-> TRUE, expires |-> cmd[c].expires]]
           /\ cmd' = [cmd EXCEPT ![c].at = "engine", ![c].expires = 0]
  <2> DEFINE n == cmd[c].name
             r1 == [cmd[c] EXCEPT !.at = "engine"]
             r == [r1 EXCEPT !.expires = 0]
  <2>1. cmd' = [cmd EXCEPT ![c] = r]
    BY <1>4, Before
  <2>2. r1 \in Cmds /\ r1.at = "engine" /\ r1.kind = "up" /\ r1.name = n /\ r1.doomed = cmd[c].doomed
    BY <1>2, Before DEF Cmds, Labels
  <2> HIDE DEF r1
  <2>3. r \in Cmds /\ r.at = "engine" /\ r.kind = "up" /\ r.name = n /\ r.doomed = cmd[c].doomed
    BY <2>2 DEF Cmds
  <2>4. Becomes(c, r) /\ Shape(r)
    BY <1>2, <2>1, <2>3, Before DEF Becomes, Shape, EngineLabels
  <2> HIDE DEF r
  <2>5. cmd' \in [Commands -> Cmds] /\ Shapes' /\ cmd'[c] = r /\ Alone(c)
    BY <2>4, BecomesType DEF Inv, Alone
  <2>6. n \in Slugs /\ n \in Names /\ n \notin Envs
    BY <1>2, StackAssumption DEF Names
  <2>7. /\ stack'[n].exists /\ stack'[n].ephemeral
        /\ \A x \in Names \ {n} : stack'[x] = stack[x]
    BY <1>4, <2>6 DEF Name, Inv, TypeOK
  <2>8. Locking'
    BY <1>1, <2>3, <2>5, LockingKept
  <2>9. Owned'
    <3>1. /\ ~Destroying(c)'
          /\ \A d \in Commands : Owning(d)' => Owning(d)
          /\ \A d \in Commands : Destroying(d)' => Destroying(d)
          /\ \A d \in Commands : Name(d)' = Name(d)
          /\ \A d \in Commands \ {c} : At(d, "identify")' <=> At(d, "identify")
          /\ Name(c) = n
      BY <1>2, <2>3, <2>5 DEF Owning, Destroying, Teardown, Name, At, Alone
    <3>2. ASSUME NEW a \in Commands, Owning(a)', Name(a)' \notin crossed'
          PROVE  stack'[Name(a)'].exists /\ (At(a, "identify")' \/ stack'[Name(a)'].ephemeral)
      <4>1. CASE Name(a) = n
        BY <2>7, <3>1, <4>1
      <4>2. CASE Name(a) # n
        <5>1. Owning(a) /\ Name(a)' = Name(a) /\ Name(a) \notin crossed /\ a # c
          BY <1>1, <3>1, <3>2, <4>2
        <5>2. Name(a) \in Names
          BY <5>1, Before DEF Owning, Name, Shape, Names
        <5> QED BY <2>7, <3>1, <4>2, <5>1, <5>2 DEF Inv, Owned
      <4> QED BY <4>1, <4>2
    <3> QED BY <1>1, <3>1, <3>2 DEF Inv, Owned
  <2>10. Accounted'
    <3>1. \A d \in Commands : At(d, "remove")' => At(d, "remove") /\ Name(d)' = Name(d)
      BY <2>3, <2>5 DEF Alone, At, Name
    <3>2. \A x \in Slugs : x # n => stack'[x] = stack[x]
      BY <2>7 DEF Names
    <3>3. BillableIsReapable' /\ ManifestsDieWithEnv'
      BY <1>1, <2>7, <3>2 DEF Inv, Accounted, BillableIsReapable, ManifestsDieWithEnv
    <3> QED BY <1>1, <3>1, <3>3 DEF Inv, Accounted
  <2>11. EnvsPermanent'
    BY <2>6, <2>7 DEF Inv, EnvsPermanent, Names
  <2>12. TypeOK'
    <3>1. cmd[c].expires \in Nat
      BY Before DEF Cmds
    <3> QED BY <1>1, <1>4, <2>5, <2>6, <3>1 DEF Inv, TypeOK, States, Spents, Name
  <2> QED BY <2>5, <2>8, <2>9, <2>10, <2>11, <2>12 DEF Inv
<1> QED BY <1>3, <1>4 DEF Identify

-----------------------------------------------------------------------------
(* Locks. *)

LEMMA LockStep == ASSUME Inv, NEW c \in Commands, Lock(c) PROVE Inv'
<1>1. UNCHANGED <<backend, clock, crossed>> /\ spent' \in Spents /\ cmd[c].at = "engine"
  BY SpentType DEF Lock, At
<1>2. CASE End(c) /\ UNCHANGED lock
  BY <1>1, <1>2, EndStep
<1>3. CASE /\ lock[Name(c)] = 0 /\ lock' = [lock EXCEPT ![Name(c)] = Key]
           /\ cmd' = [cmd EXCEPT ![c].at = "running", ![c].key = Key]
  <2> DEFINE n == cmd[c].name
             r1 == [cmd[c] EXCEPT !.at = "running"]
             r == [r1 EXCEPT !.key = Key]
  <2>1. Key \in Nat \ {0} /\ (\A d \in Commands : Key # cmd[d].key)
    BY FreshKey DEF Inv
  <2>2. cmd' = [cmd EXCEPT ![c] = r]
    BY <1>3, Before
  <2>3. r1 \in Cmds /\ r1.at = "running" /\ r1.kind = cmd[c].kind /\ r1.name = n /\ r1.doomed = cmd[c].doomed
    BY Before DEF Cmds, Labels
  <2> HIDE DEF r1
  <2>4. r \in Cmds /\ r.at = "running" /\ r.kind = cmd[c].kind /\ r.name = n /\ r.doomed = cmd[c].doomed /\ r.key = Key
    BY <2>1, <2>3 DEF Cmds
  <2> HIDE DEF r
  <2>5. Becomes(c, r) /\ Shape(r) /\ n \in Names
    BY <1>1, <2>2, <2>4, Before DEF Becomes, Shape, EngineLabels, Names
  <2>6. cmd'[c] = r /\ Alone(c)
    BY <2>5, BecomesType DEF Inv, Alone
  <2>7. lock' \in [Names -> Nat] /\ lock'[n] = Key /\ lock[n] = 0 /\ \A x \in Names \ {n} : lock'[x] = lock[x]
    BY <1>3, <2>1, <2>5 DEF Name, Inv, TypeOK
  <2>8. \A d \in Commands \ {c} : cmd[d].at \in {"running", "release"} => cmd[d].name # n /\ cmd[d].name \in Names
    BY <2>7, Before DEF Inv, Locking, Engaged, Name, Shape, Names, EngineLabels
  <2>9. Locking'
    BY <2>1, <2>4, <2>6, <2>7, <2>8 DEF Inv, Locking, Engaged, OneEngineAtATime, At, Name, Alone
  <2>10. r.kind = "up" => Owning(c) /\ r.name = Name(c) /\ ~At(c, "identify")
    BY <1>1, <2>4 DEF Owning, Name, At
  <2>11. r.kind \in {"down", "reap"} => Destroying(c) /\ r.name = Name(c)
    BY <1>1, <2>4 DEF Destroying, Teardown, Name, EngineLabels
  <2> QED BY <1>1, <2>4, <2>5, <2>7, <2>9, <2>10, <2>11, MoveStep
<1> QED BY <1>2, <1>3 DEF Lock

(* A command that leaves the engine, or an unlock, clears no lock that another
   engine run holds. *)
LEMMA LockCleared ==
  ASSUME Inv, NEW c \in Commands, Alone(c), cmd'[c].at \notin {"running", "release", "delete"},
         \A d \in Commands \ {c} : Engaged(d) => lock'[Name(d)] = lock[Name(d)]
  PROVE  Locking'
  BY DEF Inv, Alone, Locking, Engaged, OneEngineAtATime, At, Name

LEMMA ReleaseStep == ASSUME Inv, NEW c \in Commands, Release(c) PROVE Inv'
<1> DEFINE n == cmd[c].name
<1>1. UNCHANGED <<backend, clock, crossed>> /\ spent' \in Spents /\ cmd[c].at = "release"
  BY SpentType DEF Release, At
<1>2. n \in Names
  BY <1>1, Before DEF Shape, Names, EngineLabels
<1>3. lock' \in [Names -> Nat] /\ \A x \in Names \ {n} : lock'[x] = lock[x]
  BY <1>2 DEF Release, Inv, TypeOK, Name
<1>4. \A d \in Commands \ {c} : Engaged(d) => lock'[Name(d)] = lock[Name(d)]
  <2>1. \A d \in Commands \ {c} : Engaged(d) => Name(d) # n /\ Name(d) \in Names
    BY <1>1, Before DEF Inv, Locking, OneEngineAtATime, Engaged, Name, Shape, Names, EngineLabels
  <2> QED BY <1>3, <2>1
<1>5. CASE End(c)
  <2>1. Becomes(c, Done(c)) /\ Shape(Done(c)) /\ cmd'[c] = Done(c) /\ Alone(c)
    BY <1>5, EndBecomes, BecomesType DEF Inv, Alone
  <2>2. Done(c).at \in {"idle", "next"} /\ Done(c).kind \in {"none", "reap"}
    BY DoneIsQuiet, Before
  <2>3. Locking'
    BY <1>4, <2>1, <2>2, LockCleared
  <2> QED BY <1>1, <1>3, <2>1, <2>2, <2>3, MoveStep DEF EngineLabels
<1>6. CASE /\ cmd[c].kind # "deploy"
           /\ cmd' = [cmd EXCEPT ![c].at = IF Teardown(c) THEN "manifests" ELSE "outputs", ![c].key = 0]
  <2> DEFINE label == IF Teardown(c) THEN "manifests" ELSE "outputs"
             r1 == [cmd[c] EXCEPT !.at = label]
             r == [r1 EXCEPT !.key = 0]
  <2>1. cmd' = [cmd EXCEPT ![c] = r]
    BY <1>6, Before
  <2>2. label \in Labels /\ label \in {"manifests", "outputs"}
    BY DEF Labels
  <2>3. Teardown(c) <=> label = "manifests"
    OBVIOUS
  <2> HIDE DEF label
  <2>4. r1 \in Cmds /\ r1.at = label /\ r1.kind = cmd[c].kind /\ r1.name = n /\ r1.doomed = cmd[c].doomed
    BY <2>2, Before DEF Cmds
  <2> HIDE DEF r1
  <2>5. r \in Cmds /\ r.at = label /\ r.kind = cmd[c].kind /\ r.name = n /\ r.doomed = cmd[c].doomed
    BY <2>4 DEF Cmds
  <2> HIDE DEF r
  <2>6. Becomes(c, r) /\ Shape(r)
    BY <1>1, <1>6, <2>1, <2>2, <2>3, <2>5, Before DEF Becomes, Shape, EngineLabels, Teardown
  <2>7. cmd'[c] = r /\ Alone(c)
    BY <2>6, BecomesType DEF Inv, Alone
  <2>8. Locking'
    BY <1>4, <2>2, <2>5, <2>7, LockCleared
  <2>9. r.kind = "up" => Owning(c) /\ r.name = Name(c) /\ ~At(c, "identify")
    BY <1>1, <2>5 DEF Owning, Name, At
  <2>10. r.kind \in {"down", "reap"} => Destroying(c) /\ r.name = Name(c)
    BY <1>1, <2>5 DEF Destroying, Teardown, Name, EngineLabels
  <2> QED BY <1>1, <1>3, <2>2, <2>5, <2>6, <2>8, <2>9, <2>10, MoveStep
<1> QED BY <1>5, <1>6 DEF Release

LEMMA DeleteLockStep == ASSUME Inv, NEW c \in Commands, DeleteLock(c) PROVE Inv'
<1> DEFINE n == cmd[c].name
<1>1. UNCHANGED <<backend, clock, crossed>> /\ spent' \in Spents /\ cmd[c].at = "delete" /\ End(c)
  BY SpentType DEF DeleteLock, At
<1>2. n \in Names
  BY <1>1, Before DEF Shape, EngineLabels
<1>3. /\ lock' \in [Names -> Nat]
      /\ \A x \in Names \ {n} : lock'[x] = lock[x]
      /\ lock[n] # cmd[c].key => lock'[n] = lock[n]
  BY <1>2 DEF DeleteLock, Inv, TypeOK, Name
<1>4. \A d \in Commands \ {c} : Engaged(d) => lock'[Name(d)] = lock[Name(d)]
  <2>1. ASSUME NEW d \in Commands, Engaged(d) PROVE lock'[Name(d)] = lock[Name(d)]
    <3>1. Name(d) \in Names /\ lock[Name(d)] = cmd[d].key
      BY <2>1, Before DEF Inv, Locking, Engaged, Name, Shape, Names, EngineLabels
    <3>2. Name(d) = n => cmd[d].key # cmd[c].key
      BY <1>1, <2>1 DEF Inv, Locking, At, Name
    <3> QED BY <1>3, <3>1, <3>2
  <2> QED BY <2>1
<1>5. Becomes(c, Done(c)) /\ Shape(Done(c)) /\ cmd'[c] = Done(c) /\ Alone(c)
  BY <1>1, EndBecomes, BecomesType DEF Inv, Alone
<1>6. Done(c).at \in {"idle", "next"} /\ Done(c).kind \in {"none", "reap"}
  BY DoneIsQuiet, Before
<1>7. Locking'
  BY <1>4, <1>5, <1>6, LockCleared
<1> QED BY <1>1, <1>3, <1>5, <1>6, <1>7, MoveStep DEF EngineLabels

(* An unlock starts on a lock that no engine run holds. *)
LEMMA StartUnlockStep == ASSUME Inv, NEW c \in Commands, StartUnlock(c) PROVE Inv'
<1>1. PICK n \in Names : ~Held(n) /\ Begin(c, [Job("unlock", "delete", n) EXCEPT !.key = lock[n]])
  BY DEF StartUnlock
<1> DEFINE r == [Job("unlock", "delete", n) EXCEPT !.key = lock[n]]
<1>2. r \in Cmds
  <2>1. Job("unlock", "delete", n) \in Cmds /\ lock[n] \in Nat
    BY JobType DEF Labels, Inv, TypeOK
  <2> QED BY <2>1 DEF Cmds
<1>3. r.kind = "unlock" /\ r.at = "delete" /\ r.name = n /\ r.doomed = {}
  BY DEF Job
<1>4. Becomes(c, r) /\ Shape(r)
  BY <1>1, <1>2, <1>3 DEF Begin, Becomes, Shape
<1> HIDE DEF r
<1>5. UNCHANGED <<backend, lock, clock, crossed>> /\ spent' \in Spents
  BY SpentType DEF StartUnlock
<1>6. cmd'[c] = r /\ Alone(c)
  BY <1>4, BecomesType DEF Inv, Alone
<1>7. \A d \in Commands : cmd[d].at \in {"running", "release"} => cmd[d].name # n
  BY <1>1 DEF Held, Name
<1>8. Locking'
  BY <1>3, <1>5, <1>6, <1>7 DEF Inv, Locking, Engaged, OneEngineAtATime, At, Name, Alone
<1>9. lock' \in [Names -> Nat]
  BY <1>5 DEF Inv, TypeOK
<1> QED BY <1>3, <1>4, <1>5, <1>8, <1>9, MoveStep

-----------------------------------------------------------------------------
(* The engine changes resources only of a stack the command owns or destroys. *)

LEMMA ResourcesStep ==
  ASSUME Inv, NEW c \in Commands, Alone(c), cmd[c].at = "running", cmd'[c].at # "remove",
         UNCHANGED <<stack, manifests, crossed>>, resources' \subseteq resources \cup Affected(c)
  PROVE  Accounted'
<1>1. ASSUME NEW x \in Slugs, x \notin crossed, x \in resources'
      PROVE  stack[x].exists /\ stack[x].ephemeral
  <2>1. CASE x \in resources
    BY <1>1, <2>1 DEF Inv, Accounted, BillableIsReapable
  <2>2. CASE x \notin resources
    <3>1. x = Name(c) /\ ~Teardown(c)
      BY <1>1, <2>2 DEF Affected
    <3>2. Owning(c) /\ ~At(c, "identify")
      BY <3>1, StackAssumption, Before DEF Shape, EngineLabels, Owning, At, Name, Teardown
    <3> QED BY <1>1, <3>1, <3>2 DEF Inv, Owned
  <2> QED BY <2>1, <2>2
<1>2. \A d \in Commands : At(d, "remove")' => At(d, "remove") /\ Name(d)' = Name(d)
  BY DEF Alone, At, Name
<1> QED BY <1>1, <1>2 DEF Inv, Accounted, BillableIsReapable, ManifestsDieWithEnv

(* Inside the engine a command keeps its lock. *)
LEMMA LockingEngaged ==
  ASSUME Inv, NEW c \in Commands, Alone(c), lock' = lock, Engaged(c), Engaged(c)',
         cmd'[c].name = cmd[c].name, cmd'[c].key = cmd[c].key
  PROVE  Locking'
  BY DEF Inv, Alone, Locking, Engaged, OneEngineAtATime, At, Name

LEMMA AffectedType ==
  ASSUME Inv, NEW c \in Commands, cmd[c].at = "running"
  PROVE  Affected(c) \subseteq Names
<1>1. Name(c) \in Names
  BY Before DEF Shape, EngineLabels, Name, Names
<1> QED BY <1>1 DEF Affected, Inv, TypeOK

(* A command that leaves the running engine for the release of its lock. *)
LEMMA EngineEnds ==
  ASSUME Inv, NEW c \in Commands, NEW r, Becomes(c, r), Shape(r), cmd[c].at = "running",
         r.at = "release", r.kind = cmd[c].kind, r.name = cmd[c].name, r.key = cmd[c].key,
         UNCHANGED <<stack, lock, manifests, clock, crossed>>, spent' \in Spents,
         resources' \subseteq resources \cup Affected(c)
  PROVE  Inv'
<1>1. cmd'[c] = r /\ Alone(c)
  BY BecomesType DEF Inv, Alone
<1>2. Locking'
  BY <1>1, LockingEngaged DEF Engaged
<1>3. Accounted'
  BY <1>1, ResourcesStep
<1>4. Owned'
  <2>1. Owning(c)' => Owning(c) /\ cmd'[c].name = cmd[c].name /\ ~At(c, "identify")
    BY <1>1 DEF Owning, At
  <2>2. Destroying(c)' => Destroying(c) /\ cmd'[c].name = cmd[c].name
    BY <1>1 DEF Destroying, Teardown, EngineLabels
  <2> QED BY <1>1, <2>1, <2>2, OwnedKept
<1>5. EnvsPermanent'
  BY DEF Inv, EnvsPermanent
<1> QED BY <1>2, <1>3, <1>4, <1>5, AffectedType, Assemble DEF Inv, TypeOK

LEMMA EngineStep == ASSUME Inv, NEW c \in Commands, Engine(c) PROVE Inv'
<1>1. cmd[c].at = "running" /\ Goto(c, "release") /\ resources' = Affected(c)
  BY DEF Engine, At
<1>2. PICK r \in Cmds : /\ Becomes(c, r) /\ Shape(r) /\ r.at = "release"
                        /\ r.kind = cmd[c].kind /\ r.name = cmd[c].name /\ r.key = cmd[c].key
  BY <1>1, GotoShape DEF Labels, EngineLabels
<1>3. UNCHANGED <<stack, lock, manifests, clock, crossed>> /\ spent' \in Spents
  BY SpentType DEF Engine
<1> QED BY <1>1, <1>2, <1>3, EngineEnds

LEMMA EngineFailsStep == ASSUME Inv, NEW c \in Commands, EngineFails(c) PROVE Inv'
<1>1. cmd[c].at = "running" /\ resources' \subseteq resources \cup Affected(c)
  BY DEF EngineFails, At
<1> DEFINE r1 == [cmd[c] EXCEPT !.at = "release"]
           r == [r1 EXCEPT !.ok = FALSE]
<1>2. cmd' = [cmd EXCEPT ![c] = r]
  BY Before DEF EngineFails
<1>3. /\ r1 \in Cmds /\ r1.at = "release" /\ r1.kind = cmd[c].kind /\ r1.name = cmd[c].name
      /\ r1.key = cmd[c].key /\ r1.doomed = cmd[c].doomed
  BY Before DEF Cmds, Labels
<1> HIDE DEF r1
<1>4. /\ r \in Cmds /\ r.at = "release" /\ r.kind = cmd[c].kind /\ r.name = cmd[c].name
      /\ r.key = cmd[c].key /\ r.doomed = cmd[c].doomed
  BY <1>3 DEF Cmds
<1> HIDE DEF r
<1>5. Becomes(c, r) /\ Shape(r)
  BY <1>1, <1>2, <1>4, Before DEF Becomes, Shape, EngineLabels
<1>6. UNCHANGED <<stack, lock, manifests, clock, crossed>> /\ spent' \in Spents
  BY SpentType DEF EngineFails
<1> QED BY <1>1, <1>4, <1>5, <1>6, EngineEnds

LEMMA DieStep == ASSUME Inv, NEW c \in Commands, Die(c) PROVE Inv'
<1>1. UNCHANGED <<stack, lock, manifests, clock, crossed>> /\ spent' \in Spents /\ Begin(c, Idle)
  BY SpentType DEF Die
<1>2. CASE resources' = resources
  BY <1>1, <1>2, IdleStep DEF backend
<1>3. CASE cmd[c].at = "running" /\ resources' = Affected(c)
  <2>1. Becomes(c, Idle) /\ Shape(Idle) /\ cmd'[c] = Idle /\ Alone(c)
    BY <1>1, IdleType, BecomesType DEF Begin, Becomes, Inv, Alone
  <2>2. Idle.at = "idle" /\ Idle.kind = "none"
    BY DEF Idle, Job
  <2>3. Locking'
    BY <1>1, <2>1, <2>2, LockingKept
  <2>4. Owned'
    <3>1. ~Owning(c)' /\ ~Destroying(c)'
      BY <2>1, <2>2 DEF Owning, Destroying, Teardown
    <3> QED BY <1>1, <2>1, <3>1, OwnedKept
  <2>5. Accounted'
    BY <1>1, <1>3, <2>1, <2>2, ResourcesStep
  <2>6. EnvsPermanent'
    BY <1>1 DEF Inv, EnvsPermanent
  <2> QED BY <1>1, <1>3, <2>1, <2>3, <2>4, <2>5, <2>6, AffectedType, Assemble DEF Inv, TypeOK
<1> QED BY <1>2, <1>3 DEF Die, At

-----------------------------------------------------------------------------
(* The calls around the engine that change the shared state. *)

(* A pin meets the stack it was made for, or a teardown beside it. *)
LEMMA PinStep == ASSUME Inv, NEW c \in Commands, Pin(c) PROVE Inv'
<1>1. UNCHANGED <<stack, resources, lock, clock, crossed>> /\ spent' \in Spents /\ End(c)
  BY SpentType DEF Pin
<1>2. cmd[c].at = "pin" /\ cmd[c].kind = "up" /\ Name(c) \in Slugs /\ manifests' = manifests \cup {Name(c)}
  BY Before DEF Pin, At, Shape, EngineLabels, Name
<1>3. Becomes(c, Done(c)) /\ Shape(Done(c)) /\ cmd'[c] = Done(c) /\ Alone(c)
  BY <1>1, EndBecomes, BecomesType DEF Inv, Alone
<1>4. Done(c).at \in {"idle", "next"} /\ Done(c).kind \in {"none", "reap"}
  BY DoneIsQuiet, Before
<1>5. Locking'
  BY <1>1, <1>3, <1>4, LockingKept
<1>6. Owned'
  <2>1. ~Owning(c)' /\ ~Destroying(c)'
    BY <1>3, <1>4 DEF Owning, Destroying, Teardown, EngineLabels
  <2> QED BY <1>1, <1>3, <2>1, OwnedKept
<1>7. Owning(c) /\ ~At(c, "identify")
  BY <1>2 DEF Owning, At
<1>8. Accounted'
  <2>1. BillableIsReapable'
    BY <1>1 DEF Inv, Accounted, BillableIsReapable
  <2>2. ManifestsDieWithEnv'
    BY <1>1, <1>2, <1>7 DEF Inv, Accounted, ManifestsDieWithEnv, Owned
  <2>3. ASSUME NEW d \in Commands, At(d, "remove")', Name(d)' \notin crossed' PROVE Name(d)' \notin manifests'
    <3>1. At(d, "remove") /\ Name(d)' = Name(d)
      BY <1>3, <1>4, <2>3 DEF Alone, At, Name
    <3>2. Destroying(d)
      BY <3>1, Before DEF Shape, At, Destroying, Teardown, EngineLabels
    <3>3. Name(d) # Name(c)
      BY <1>1, <1>7, <2>3, <3>1, <3>2 DEF Inv, Owned
    <3> QED BY <1>1, <1>2, <2>3, <3>1, <3>3 DEF Inv, Accounted
  <2> QED BY <2>1, <2>2, <2>3 DEF Accounted
<1>9. EnvsPermanent'
  BY <1>1 DEF Inv, EnvsPermanent
<1>10. manifests' \subseteq Names
  BY <1>2 DEF Inv, TypeOK, Names
<1> QED BY <1>1, <1>3, <1>5, <1>6, <1>8, <1>9, <1>10, Assemble DEF Inv, TypeOK

(* A deploy creates the stack of an environment, which no slug names. *)
LEMMA StartDeployStep == ASSUME Inv, NEW c \in Commands, StartDeploy(c) PROVE Inv'
<1>1. PICK n \in Envs : /\ spent' = IF lock[n] = 0 THEN spent ELSE [spent EXCEPT !.failures = @ + 1]
                        /\ lock[n] = 0 \/ spent.failures < MaxFailures
                        /\ stack' = [stack EXCEPT ![n].exists = TRUE]
                        /\ Begin(c, Job("deploy", "engine", n))
  BY DEF StartDeploy
<1> DEFINE r == Job("deploy", "engine", n)
<1>2. UNCHANGED <<resources, lock, manifests, clock, crossed>> /\ spent' \in Spents
  BY <1>1, SpentType DEF StartDeploy
<1>3. n \in Names /\ n \notin Slugs
  BY StackAssumption DEF Names
<1>4. r \in Cmds /\ r.kind = "deploy" /\ r.at = "engine" /\ r.name = n /\ r.doomed = {}
  <2>1. r \in Cmds
    BY <1>3, JobType DEF Labels
  <2> QED BY <2>1 DEF Job
<1>5. Becomes(c, r) /\ Shape(r)
  BY <1>1, <1>4 DEF Begin, Becomes, Shape, EngineLabels
<1> HIDE DEF r
<1>6. cmd'[c] = r /\ Alone(c)
  BY <1>5, BecomesType DEF Inv, Alone
<1>7. stack'[n] = Created /\ Created \in States /\ \A x \in Names \ {n} : stack'[x] = stack[x]
  <2>1. stack \in [Names -> States] /\ ~stack[n].ephemeral
    BY DEF Inv, TypeOK, EnvsPermanent
  <2>2. stack[n] \in {NoStack, Created}
    BY <1>3, <2>1 DEF States
  <2>3. [stack[n] EXCEPT !.exists = TRUE] = Created
    BY <2>2 DEF NoStack, Created
  <2>4. stack' = [stack EXCEPT ![n] = [stack[n] EXCEPT !.exists = TRUE]]
    BY <1>1, <1>3, <2>1
  <2> QED BY <1>3, <2>1, <2>3, <2>4 DEF States
<1>8. stack' \in [Names -> States]
  BY <1>1, <1>3, <1>7 DEF Inv, TypeOK
<1>9. \A x \in Slugs : stack'[x] = stack[x]
  BY <1>3, <1>7 DEF Names
<1>10. EnvsPermanent'
  BY <1>7 DEF Inv, EnvsPermanent, Names, Created, NoStack
<1>11. Locking'
  BY <1>2, <1>4, <1>6, LockingKept
<1>12. Owned'
  <2>1. ~Owning(c)' /\ ~Destroying(c)'
    BY <1>4, <1>6 DEF Owning, Destroying, Teardown
  <2>2. \A a \in Commands : Owning(a) => Name(a) \in Slugs
    BY Before DEF Owning, Name, Shape
  <2> QED BY <1>2, <1>6, <1>9, <2>1, <2>2, OwnedKept
<1>13. Accounted'
  <2>1. \A d \in Commands : At(d, "remove")' => At(d, "remove") /\ Name(d)' = Name(d)
    BY <1>4, <1>6 DEF Alone, At, Name
  <2> QED BY <1>2, <1>9, <2>1 DEF Inv, Accounted, BillableIsReapable, ManifestsDieWithEnv
<1> QED BY <1>2, <1>5, <1>8, <1>10, <1>11, <1>12, <1>13, Assemble DEF Inv, TypeOK

(* A teardown that goes on to the engine meets every owner of the slug. *)
LEMMA ReassertStep == ASSUME Inv, NEW c \in Commands, Reassert(c) PROVE Inv'
<1>1. UNCHANGED <<backend, lock, clock>> /\ spent' \in Spents /\ cmd[c].at = "reassert" /\ Cross(Name(c))
  BY SpentType DEF Reassert, At
<1>2. cmd[c].kind \in {"down", "reap"} /\ Name(c) \in Slugs /\ Name(c) \in Names
  BY <1>1, Before DEF Shape, EngineLabels, Name, Names
<1>3. /\ crossed \subseteq crossed' /\ crossed' \subseteq Names
      /\ \A a \in Commands : cmd[a].kind = "up" /\ Name(a) = Name(c) => Name(c) \in crossed'
  <2>1. Teardown(c)
    BY <1>2 DEF Teardown
  <2> QED BY <1>1, <1>2, <2>1 DEF Cross, Inv, TypeOK
<1>4. EnvsPermanent'
  BY <1>1 DEF Inv, EnvsPermanent, backend
<1>5. stack' = stack /\ resources' = resources /\ manifests' = manifests
  BY <1>1 DEF backend
<1>6. CASE End(c)
  <2>1. Becomes(c, Done(c)) /\ Shape(Done(c)) /\ cmd'[c] = Done(c) /\ Alone(c)
    BY <1>6, EndBecomes, BecomesType DEF Inv, Alone
  <2>2. Done(c).at \in {"idle", "next"} /\ Done(c).kind \in {"none", "reap"}
    BY DoneIsQuiet, Before
  <2>3. Locking'
    BY <1>1, <2>1, <2>2, LockingKept
  <2>4. ~Owning(c)' /\ ~Destroying(c)'
    BY <2>1, <2>2 DEF Owning, Destroying, Teardown, EngineLabels
  <2>5. Owned'
    BY <1>3, <1>5, <2>1, <2>4, OwnedKept
  <2>6. Accounted'
    BY <1>1, <1>3, <2>1, <2>2, AccountedKept
  <2> QED BY <1>1, <1>3, <1>4, <1>5, <2>1, <2>3, <2>5, <2>6, Assemble DEF Inv, TypeOK
<1>7. CASE Goto(c, "engine")
  <2>1. PICK r \in Cmds : /\ Becomes(c, r) /\ Shape(r) /\ r.at = "engine"
                          /\ r.kind = cmd[c].kind /\ r.name = cmd[c].name
    BY <1>1, <1>2, <1>7, GotoShape DEF Labels, EngineLabels
  <2>2. cmd'[c] = r /\ Alone(c)
    BY <2>1, BecomesType DEF Inv, Alone
  <2>3. Locking'
    BY <1>1, <2>1, <2>2, LockingKept
  <2>4. /\ ~Owning(c)'
        /\ \A d \in Commands : Owning(d)' => Owning(d)
        /\ \A d \in Commands \ {c} : Destroying(d)' => Destroying(d)
        /\ \A d \in Commands : Name(d)' = Name(d)
        /\ \A d \in Commands : At(d, "identify") => At(d, "identify")'
    BY <1>1, <1>2, <2>1, <2>2 DEF Owning, Destroying, Teardown, Name, At, Alone
  <2>5. ASSUME NEW a \in Commands, NEW b \in Commands, Owning(a)', Destroying(b)', Name(a)' = Name(b)'
        PROVE  Name(a)' \in crossed'
    <3>1. CASE b = c
      BY <1>3, <2>4, <2>5, <3>1 DEF Owning
    <3>2. CASE b # c
      BY <1>3, <2>4, <2>5, <3>2 DEF Inv, Owned
    <3> QED BY <3>1, <3>2
  <2>6. ASSUME NEW a \in Commands, NEW b \in Commands, a # b, Owning(a)', Owning(b)', Name(a)' = Name(b)'
        PROVE  Name(a)' \in crossed'
    BY <1>3, <2>4, <2>6 DEF Inv, Owned
  <2>7. ASSUME NEW a \in Commands, Owning(a)', Name(a)' \notin crossed'
        PROVE  stack'[Name(a)'].exists /\ (At(a, "identify")' \/ stack'[Name(a)'].ephemeral)
    BY <1>3, <1>5, <2>4, <2>7 DEF Inv, Owned
  <2>8. Owned'
    BY <2>5, <2>6, <2>7 DEF Owned
  <2>9. Accounted'
    BY <1>1, <1>3, <2>1, <2>2, AccountedKept
  <2> QED BY <1>1, <1>3, <1>4, <1>5, <2>1, <2>3, <2>8, <2>9, Assemble DEF Inv, TypeOK
<1> QED BY <1>6, <1>7 DEF Reassert

LEMMA DeleteManifestsStep == ASSUME Inv, NEW c \in Commands, DeleteManifests(c) PROVE Inv'
<1>1. /\ UNCHANGED <<stack, resources, lock, clock, crossed>> /\ spent' \in Spents
      /\ cmd[c].at = "manifests" /\ Goto(c, "remove") /\ manifests' = manifests \ {Name(c)}
  BY SpentType DEF DeleteManifests, At
<1>2. cmd[c].kind \in {"down", "reap"}
  BY <1>1, Before DEF Shape, EngineLabels
<1>3. PICK r \in Cmds : /\ Becomes(c, r) /\ Shape(r) /\ r.at = "remove"
                        /\ r.kind = cmd[c].kind /\ r.name = cmd[c].name
  BY <1>1, <1>2, GotoShape DEF Labels, EngineLabels
<1>4. cmd'[c] = r /\ Alone(c)
  BY <1>3, BecomesType DEF Inv, Alone
<1>5. Locking'
  BY <1>1, <1>3, <1>4, LockingKept
<1>6. Owned'
  <2>1. ~Owning(c)' /\ Destroying(c) /\ cmd'[c].name = cmd[c].name
    BY <1>1, <1>2, <1>3, <1>4 DEF Owning, Destroying, Teardown
  <2> QED BY <1>1, <1>4, <2>1, OwnedKept
<1>7. Accounted'
  <2>1. BillableIsReapable' /\ ManifestsDieWithEnv'
    BY <1>1 DEF Inv, Accounted, BillableIsReapable, ManifestsDieWithEnv
  <2>2. ASSUME NEW d \in Commands, At(d, "remove")', Name(d)' \notin crossed' PROVE Name(d)' \notin manifests'
    <3>1. CASE d = c
      BY <1>1, <1>3, <1>4, <3>1 DEF Name
    <3>2. CASE d # c
      BY <1>1, <1>4, <2>2, <3>2 DEF Inv, Accounted, Alone, At, Name
    <3> QED BY <3>1, <3>2
  <2> QED BY <2>1, <2>2 DEF Accounted
<1>8. EnvsPermanent'
  BY <1>1 DEF Inv, EnvsPermanent
<1>9. manifests' \subseteq Names
  BY <1>1 DEF Inv, TypeOK
<1> QED BY <1>1, <1>3, <1>5, <1>6, <1>7, <1>8, <1>9, Assemble DEF Inv, TypeOK

(* The stack goes once nothing hangs on it, and nobody relies on it. *)
LEMMA RemoveStep == ASSUME Inv, NEW c \in Commands, Remove(c) PROVE Inv'
<1> DEFINE n == cmd[c].name
<1>1. /\ UNCHANGED <<resources, lock, manifests, clock, crossed>> /\ spent' \in Spents
      /\ cmd[c].at = "remove" /\ End(c)
      /\ stack' = IF n \in resources THEN stack ELSE [stack EXCEPT ![n] = NoStack]
  BY SpentType DEF Remove, At, Name
<1>2. cmd[c].kind \in {"down", "reap"} /\ n \in Slugs /\ n \in Names
  BY <1>1, Before DEF Shape, EngineLabels, Names
<1>3. Becomes(c, Done(c)) /\ Shape(Done(c)) /\ cmd'[c] = Done(c) /\ Alone(c)
  BY <1>1, EndBecomes, BecomesType DEF Inv, Alone
<1>4. Done(c).at \in {"idle", "next"} /\ Done(c).kind \in {"none", "reap"}
  BY DoneIsQuiet, Before
<1>5. Locking'
  BY <1>1, <1>3, <1>4, LockingKept
<1>6. /\ stack' \in [Names -> States]
      /\ \A x \in Names : x # n => stack'[x] = stack[x]
      /\ n \in resources => stack' = stack
      /\ ~stack'[n].ephemeral \/ stack' = stack
  BY <1>1, <1>2 DEF Inv, TypeOK, States, NoStack
<1>7. Owned'
  <2>1. ~Owning(c)' /\ ~Destroying(c)'
    BY <1>3, <1>4 DEF Owning, Destroying, Teardown, EngineLabels
  <2>2. Destroying(c) /\ Name(c) = n
    BY <1>1, <1>2 DEF Destroying, Teardown, Name
  <2>3. ASSUME NEW a \in Commands, Owning(a), Name(a) \notin crossed PROVE stack'[Name(a)] = stack[Name(a)]
    <3>1. Name(a) # n
      BY <2>2, <2>3 DEF Inv, Owned
    <3>2. Name(a) \in Names
      BY <2>3, Before DEF Owning, Name, Shape, Names
    <3> QED BY <1>6, <3>1, <3>2
  <2> QED BY <1>1, <1>3, <2>1, <2>3, OwnedKept
<1>8. Accounted'
  <2>1. n \notin crossed => n \notin manifests
    BY <1>1 DEF Inv, Accounted, At, Name
  <2>2. BillableIsReapable' /\ ManifestsDieWithEnv'
    BY <1>1, <1>6, <2>1 DEF Inv, Accounted, BillableIsReapable, ManifestsDieWithEnv, Names
  <2>3. \A d \in Commands : At(d, "remove")' => At(d, "remove") /\ Name(d)' = Name(d)
    BY <1>3, <1>4 DEF Alone, At, Name
  <2> QED BY <1>1, <2>2, <2>3 DEF Inv, Accounted
<1>9. EnvsPermanent'
  <2>1. n \notin Envs
    BY <1>2, StackAssumption
  <2> QED BY <1>6, <2>1 DEF Inv, EnvsPermanent, Names
<1> QED BY <1>1, <1>3, <1>5, <1>6, <1>7, <1>8, <1>9, Assemble DEF Inv, TypeOK

(* Time passes, or nothing happens. *)
LEMMA TickStep == ASSUME Inv, Tick PROVE Inv'
<1>1. clock' \in 1 .. MaxTime /\ UNCHANGED <<stack, resources, lock, manifests, cmd, spent, crossed>>
  BY StackAssumption DEF Tick, backend, Inv, TypeOK
<1>2. TypeOK' /\ Shapes' /\ EnvsPermanent'
  BY <1>1 DEF Inv, TypeOK, Shapes, EnvsPermanent
<1>3. Locking'
  BY <1>1 DEF Inv, Locking, Engaged, OneEngineAtATime, At, Name
<1>4. Owned'
  BY <1>1 DEF Inv, Owned, Owning, Destroying, Teardown, At, Name
<1>5. Accounted'
  BY <1>1 DEF Inv, Accounted, BillableIsReapable, ManifestsDieWithEnv, At, Name
<1> QED BY <1>2, <1>3, <1>4, <1>5 DEF Inv

LEMMA StutterStep == ASSUME Inv, UNCHANGED vars PROVE Inv'
<1>1. UNCHANGED <<stack, resources, lock, manifests, clock, cmd, spent, crossed>>
  BY DEF vars
<1>2. TypeOK' /\ Shapes' /\ EnvsPermanent'
  BY <1>1 DEF Inv, TypeOK, Shapes, EnvsPermanent
<1>3. Locking'
  BY <1>1 DEF Inv, Locking, Engaged, OneEngineAtATime, At, Name
<1>4. Owned'
  BY <1>1 DEF Inv, Owned, Owning, Destroying, Teardown, At, Name
<1>5. Accounted'
  BY <1>1 DEF Inv, Accounted, BillableIsReapable, ManifestsDieWithEnv, At, Name
<1> QED BY <1>2, <1>3, <1>4, <1>5 DEF Inv

LEMMA Initially == Init => Inv
<1> SUFFICES ASSUME Init PROVE Inv
  OBVIOUS
<1>1. \A c \in Commands : cmd[c] = Idle /\ Idle.at = "idle" /\ Idle.kind = "none"
  BY DEF Init, Idle, Job
<1>2. TypeOK
  <2>1. cmd \in [Commands -> Cmds]
    BY IdleType DEF Init
  <2>2. stack \in [Names -> States] /\ lock \in [Names -> Nat]
    BY DEF Init, States
  <2>3. spent \in Spents /\ clock \in 1 .. MaxTime
    BY StackAssumption DEF Init, Spents
  <2> QED BY <2>1, <2>2, <2>3 DEF Init, TypeOK, Spents
<1>3. Shapes
  BY <1>1, IdleType DEF Shapes
<1>4. EnvsPermanent
  BY DEF Init, EnvsPermanent, Names, NoStack
<1>5. Locking
  BY <1>1 DEF Locking, Engaged, OneEngineAtATime
<1>6. Owned
  BY <1>1 DEF Owned, Owning
<1>7. Accounted
  BY <1>1 DEF Init, Accounted, BillableIsReapable, ManifestsDieWithEnv, At
<1> QED BY <1>2, <1>3, <1>4, <1>5, <1>6, <1>7 DEF Inv

LEMMA Inductive == Inv /\ [Next]_vars => Inv'
<1> SUFFICES ASSUME Inv, [Next]_vars PROVE Inv'
  OBVIOUS
<1>1. CASE Tick
  BY <1>1, TickStep
<1>2. CASE UNCHANGED vars
  BY <1>2, StutterStep
<1>3. ASSUME NEW c \in Commands, Start(c) PROVE Inv'
  BY <1>3, StartUpStep, StartDownStep, StartReapStep, StartDeployStep, StartUnlockStep DEF Start
<1>4. ASSUME NEW c \in Commands, Bringing(c) PROVE Inv'
  BY <1>4, CreateStep, IdentifyStep, ReadOutputsStep, PinStep DEF Bringing
<1>5. ASSUME NEW c \in Commands, Running(c) PROVE Inv'
  BY <1>5, LockStep, EngineStep, ReleaseStep DEF Running
<1>6. ASSUME NEW c \in Commands, Tearing(c) PROVE Inv'
  BY <1>6, ClassifyStep, NextCandidateStep, ReassertStep, DeleteManifestsStep, RemoveStep DEF Tearing
<1>7. ASSUME NEW c \in Commands, Fail(c) PROVE Inv'
  BY <1>7, EngineFailsStep, SkipStackStep, FailCallStep, DieStep, GiveUpStep DEF Fail
<1> QED BY <1>1, <1>2, <1>3, <1>4, <1>5, <1>6, <1>7, DeleteLockStep DEF Next, Progress

(* Every reachable state satisfies the inductive invariant. *)
THEOREM Invariance == Spec => []Inv
  BY Initially, Inductive, PTL DEF Spec

-----------------------------------------------------------------------------
(* What follows from the invariant. *)

(* The state keeps its types; in particular a stack that is gone has no
   configuration left (RemoveStack). *)
THEOREM TypeCorrectness == Spec => []TypeOK
<1>1. Inv => TypeOK
  BY DEF Inv
<1> QED BY <1>1, Invariance, PTL

(* Two engine runs never work on one stack, whatever fails, is killed or
   unlocks (unlockStackLocks deletes the keys it listed and no other). *)
THEOREM EnginesExclusive == Spec => []OneEngineAtATime
<1>1. Inv => OneEngineAtATime
  BY DEF Inv, Locking
<1> QED BY <1>1, Invariance, PTL

(* Whatever fails or is killed, a slug that costs something has a stack that
   is marked for the reaper (runEphemeralUp, destroyEphemeralStack). *)
THEOREM NothingUnreapable == Spec => []BillableIsReapable
<1>1. Inv => BillableIsReapable
  BY DEF Inv, Accounted
<1> QED BY <1>1, Invariance, PTL

(* The manifests of a slug go before its stack does (deleteEphemeralManifests). *)
THEOREM ManifestsNeverOrphaned == Spec => []ManifestsDieWithEnv
<1>1. Inv => ManifestsDieWithEnv
  BY DEF Inv, Accounted
<1> QED BY <1>1, Invariance, PTL

(* Of any number of concurrent ups with one slug, at most one gets past the
   creation of the stack (createStack is the atomic guard). *)
THEOREM SlugExclusive == Spec => []OneUp
<1>1. ASSUME Inv PROVE OneUp
  <2> SUFFICES ASSUME NEW n \in Slugs \ crossed
               PROVE  Cardinality({c \in Commands : cmd[c].kind = "up" /\ Name(c) = n /\ ~At(c, "create")}) <= 1
    BY DEF OneUp
  <2> DEFINE S == {c \in Commands : cmd[c].kind = "up" /\ Name(c) = n /\ ~At(c, "create")}
  <2>1. \A c, d \in S : c = d
    BY <1>1 DEF Inv, Owned, Owning
  <2>2. CASE S = {}
    <3>1. Cardinality(S) = 0
      BY <2>2, FS_EmptySet
    <3> QED BY <3>1
  <2>3. CASE S # {}
    <3>1. PICK c \in S : S = {c}
      BY <2>1, <2>3
    <3>2. Cardinality(S) = 1
      BY <3>1, FS_Singleton
    <3> QED BY <3>2
  <2> QED BY <2>2, <2>3
<1> QED BY <1>1, Invariance, PTL

(* No step of an ephemeral command touches a permanent environment: it is never
   marked for reaping, loses no resource and keeps its stack. *)
LEMMA EnvResourcesKept ==
  ASSUME Inv, NEW n \in Envs, n \in resources, [Next]_vars
  PROVE  n \in resources'
<1>1. ASSUME NEW c \in Commands, resources' = Affected(c) \/ resources' = resources \cup Affected(c), cmd[c].at = "running"
      PROVE  n \in resources'
  <2>1. Teardown(c) => Name(c) # n
    BY <1>1, StackAssumption, Before DEF Shape, EngineLabels, Name, Teardown
  <2> QED BY <1>1, <2>1 DEF Affected
<1>2. ASSUME NEW c \in Commands, Engine(c) \/ EngineFails(c) \/ Die(c) PROVE n \in resources'
  <2>1. \/ resources' = resources
        \/ cmd[c].at = "running" /\ (resources' = Affected(c) \/ resources' = resources \cup Affected(c))
    BY <1>2 DEF Engine, EngineFails, Die, At
  <2> QED BY <1>1, <2>1
<1>3. UNCHANGED resources \/ \E c \in Commands : Engine(c) \/ EngineFails(c) \/ Die(c)
  BY DEF Next, Start, Progress, Fail, Bringing, Running, Tearing, vars, backend, Tick, StartUp, StartDown, StartReap,
         StartDeploy, StartUnlock, Create, Identify, ReadOutputs, Pin, Lock, Release, Classify, NextCandidate,
         Reassert, DeleteManifests, Remove, DeleteLock, SkipStack, FailCall, GiveUp
<1> QED BY <1>2, <1>3

LEMMA EnvStackKept ==
  ASSUME Inv, NEW n \in Envs, stack[n].exists, [Next]_vars
  PROVE  stack'[n].exists
<1>1. n \in Names /\ stack \in [Names -> States]
  BY DEF Names, Inv, TypeOK
<1>2. ASSUME NEW c \in Commands, Create(c) \/ Identify(c) \/ Remove(c) PROVE stack'[n] = stack[n]
  <2>1. Name(c) # n
    BY <1>2, StackAssumption, Before DEF Create, Identify, Remove, At, Shape, EngineLabels, Name
  <2>2. stack' = stack \/ \E s : stack' = [stack EXCEPT ![Name(c)] = s]
    <3>1. CASE Create(c)
      BY <3>1 DEF Create
    <3>2. CASE Identify(c)
      BY <3>2 DEF Identify
    <3>3. CASE Remove(c)
      BY <3>3 DEF Remove
    <3> QED BY <1>2, <3>1, <3>2, <3>3
  <2> QED BY <1>1, <2>1, <2>2
<1>3. ASSUME NEW c \in Commands, StartDeploy(c) PROVE stack'[n].exists
  <2>1. PICK e \in Envs : stack' = [stack EXCEPT ![e].exists = TRUE]
    BY <1>3 DEF StartDeploy
  <2>2. e \in Names /\ stack[e] \in States
    BY <1>1 DEF Names
  <2>3. CASE e # n
    BY <1>1, <2>1, <2>3
  <2>4. CASE e = n
    <3>1. stack'[n] = [stack[n] EXCEPT !.exists = TRUE]
      BY <1>1, <2>1, <2>4
    <3>2. [stack[n] EXCEPT !.exists = TRUE].exists
      BY <1>1 DEF States, NoStack, Created
    <3> QED BY <3>1, <3>2
  <2> QED BY <2>3, <2>4
<1>4. UNCHANGED stack \/ \E c \in Commands : Create(c) \/ Identify(c) \/ Remove(c) \/ StartDeploy(c)
  BY DEF Next, Start, Progress, Fail, Bringing, Running, Tearing, vars, backend, Tick, StartUp, StartDown, StartReap,
         StartUnlock, ReadOutputs, Pin, Lock, Engine, Release, Classify, NextCandidate, EngineFails, Die,
         Reassert, DeleteManifests, DeleteLock, SkipStack, FailCall, GiveUp
<1> QED BY <1>2, <1>3, <1>4

(* The three-signal guarantee (checkSlugFree, createStack and reapDecision
   together), as an action property. *)
THEOREM PermanentUntouched == Spec => PermanentSpared
<1>1. Inv /\ [Next]_vars => [\A n \in Envs : Spared(n)]_vars
  <2> SUFFICES ASSUME Inv, [Next]_vars PROVE \A n \in Envs : Spared(n)
    OBVIOUS
  <2>1. EnvsPermanent'
    BY Inductive DEF Inv
  <2> QED BY <2>1, EnvResourcesKept, EnvStackKept DEF EnvsPermanent, Spared
<1> QED BY <1>1, Invariance, PTL DEF Spec, PermanentSpared
=============================================================================
