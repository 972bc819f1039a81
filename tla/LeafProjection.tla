--------------------------- MODULE LeafProjection ---------------------------
(***************************************************************************)
(* How key material reaches a process on one host.  A renew pushes         *)
(* leaf.age, a deploy writes secrets.age; inforge-agent merges both and    *)
(* projects their files, one rename each, into the unit's directory in     *)
(* tmpfs; the process reads them when it starts and when it is reloaded.   *)
(* Nothing orders a push, a deploy, a restart by systemd and a reboot.     *)
(*                                                                         *)
(* A file's content is the generation of the blob it came from.            *)
(***************************************************************************)
EXTENDS Naturals, Sequences, Functions

CONSTANTS
    Pushers,      \* commands that push leaf.age: renew, the baseline of a deploy
    Boot,         \* the projection that is part of the unit's start
    Order,        \* the projected files, in the order of their env vars
    Granted,      \* those that come from secrets.age, not from leaf.age
    LeafOrder,    \* the others, in the order the proxy projects them
    Pairs,        \* certificates with their keys
    MaxGen,       \* bound: generations of each blob
    MaxHurt,      \* bound: failures, kills and reboots together
    Placeholder   \* the content mesh-seed.sh makes

Files == Range(Order)
Projectors == Pushers \cup {Boot}
Units == {"restarts", "reloads", "proxy"}
None == [f \in Files |-> 0]

ASSUME ProjectionAssumption ==
    /\ Boot \notin Pushers
    /\ Order \in Seq(Files)
    /\ Granted \subseteq Files
    /\ LeafOrder \in Seq(Files) /\ Range(LeafOrder) = Files \ Granted
    /\ Pairs \subseteq Files \X Files
    /\ \A q \in Pairs : q[1] \in Granted <=> q[2] \in Granted
    /\ MaxGen \in Nat \ {0} /\ MaxHurt \in Nat
    /\ Placeholder \notin Nat

VARIABLES
    unit,      \* a service (with or without reload:) or the mesh proxy
    leaf,      \* generation in leaf.age, 0 before the first push
    secrets,   \* generation in secrets.age
    disk,      \* the projected files
    temps,     \* staged files <<projector, file>> not yet renamed
    pc,        \* where each projector is
    blob,      \* the generations it has decrypted
    todo,      \* files it has still to compare with the disk
    pending,   \* files it has still to rename
    proc,      \* the process: "down", "boot" or "up"
    unread,    \* files the process has still to read in this (re)load
    fresh,     \* what it has read of them
    served,    \* what it serves
    deploy,    \* the deploy's delivery command: "idle", "signal"
    hurt,      \* failures, kills and reboots so far
    (* history *)
    reported,  \* newest generation a push with a signal reported as delivered
    clean      \* since the last start nothing overlapped and nothing was hurt

ages  == <<leaf, secrets>>
tmpfs == <<disk, temps>>
work  == <<pc, blob, todo, pending>>
procs == <<proc, unread, fresh, served>>
vars  == <<unit, ages, tmpfs, work, procs, deploy, hurt, reported, clean>>

-----------------------------------------------------------------------------
Has(p, f) == IF f \in Granted THEN blob[p].secrets ELSE blob[p].leaf

(* The files a projection handles: the descriptor's, or all of leaf.age for the
   proxy, which has no secrets.age. *)
Wanted == IF unit = "proxy" THEN LeafOrder ELSE Order

Projecting(p) == pc[p] \in {"secrets", "leaf", "stage"}
Busy(p) == Projecting(p) \/ pc[p] \in {"seed", "load"}

(* At most one projection is under way, and none beside a reload: so it is
   when pushes, deploys and starts are done one after another. *)
Apart ==
    /\ \A p, q \in Projectors : Busy(p) /\ Busy(q) => p = q
    /\ unread # <<>> => \A p \in Pushers : ~Busy(p)

Undisturbed == clean' = (clean /\ Apart')
Disturbed   == clean' = FALSE

(* systemd calls a simple unit active from the fork of the agent on, and the
   proxy, which forks, only once it has started. *)
Active == proc = "up" \/ (proc = "boot" /\ unit # "proxy")

(* The unit's RuntimeDirectory goes with the unit; the proxy has none. *)
ClearRuntimeDir ==
    IF unit = "proxy" THEN UNCHANGED tmpfs ELSE disk' = None /\ temps' = {}

Unloaded == unread' = <<>> /\ fresh' = None /\ served' = None
Halt == proc' = "down" /\ Unloaded

Init ==
    /\ unit \in Units
    /\ leaf \in 0..1 /\ secrets = 1
    /\ disk = None /\ temps = {}
    /\ pc = [p \in Projectors |-> "idle"]
    /\ blob = [p \in Projectors |-> [secrets |-> 0, leaf |-> 0]]
    /\ todo = [p \in Projectors |-> <<>>]
    /\ pending = [p \in Projectors |-> <<>>]
    /\ proc = "down" /\ unread = <<>> /\ fresh = None /\ served = None
    /\ deploy = "idle" /\ hurt = 0 /\ reported = 0 /\ clean = TRUE

Goto(p, l) == pc' = [pc EXCEPT ![p] = l]

-----------------------------------------------------------------------------
(* The projection, the same code for a boot and for a push. *)

Begin == IF unit = "proxy" THEN "leaf" ELSE "secrets"

(* secrets.age is decrypted first, leaf.age second; either may be replaced in
   between. *)
ReadSecrets(p) ==
    /\ pc[p] = "secrets"
    /\ blob' = [blob EXCEPT ![p] = [secrets |-> secrets, leaf |-> 0]]
    /\ Goto(p, "leaf")
    /\ UNCHANGED <<unit, ages, tmpfs, todo, pending, procs, deploy, hurt, reported>>
    /\ Undisturbed

ReadLeaf(p) ==
    /\ pc[p] = "leaf"
    /\ unit = "proxy" => leaf # 0
    /\ blob' = [blob EXCEPT ![p] = [secrets |-> blob[p].secrets, leaf |-> leaf]]
    /\ todo' = [todo EXCEPT ![p] = Wanted]
    /\ pending' = [pending EXCEPT ![p] = <<>>]
    /\ Goto(p, "stage")
    /\ UNCHANGED <<unit, ages, tmpfs, procs, deploy, hurt, reported>>
    /\ Undisturbed

(* Mutant: a file is staged only when there is none *)
StageAbsent(p) ==
    /\ pc[p] = "stage" /\ todo[p] # <<>>
    /\ LET f == Head(todo[p])
           differs == disk[f] = 0
       IN  /\ Has(p, f) # 0
           /\ temps' = temps \cup {t \in {<<p, f>>} : differs}
           /\ pending' = [pending EXCEPT ![p] = IF differs THEN Append(pending[p], f) ELSE pending[p]]
    /\ todo' = [todo EXCEPT ![p] = Tail(todo[p])]
    /\ UNCHANGED <<unit, ages, disk, pc, blob, procs, deploy, hurt, reported>>
    /\ Undisturbed

(* First pass: a file that differs is staged under a name of its own. *)
Stage(p) ==
    /\ pc[p] = "stage" /\ todo[p] # <<>>
    /\ LET f == Head(todo[p])
           differs == disk[f] # Has(p, f)
       IN  /\ Has(p, f) # 0
           /\ temps' = temps \cup {t \in {<<p, f>>} : differs}
           /\ pending' = [pending EXCEPT ![p] = IF differs THEN Append(pending[p], f) ELSE pending[p]]
    /\ todo' = [todo EXCEPT ![p] = Tail(todo[p])]
    /\ UNCHANGED <<unit, ages, disk, pc, blob, procs, deploy, hurt, reported>>
    /\ Undisturbed

(* Second pass: the staged files are renamed one by one. *)
Commit(p) ==
    /\ pc[p] = "stage" /\ todo[p] = <<>> /\ pending[p] # <<>>
    /\ LET f == Head(pending[p])
       IN  /\ <<p, f>> \in temps
           /\ disk' = [disk EXCEPT ![f] = Has(p, f)]
           /\ temps' = temps \ {<<p, f>>}
    /\ pending' = [pending EXCEPT ![p] = Tail(pending[p])]
    /\ UNCHANGED <<unit, ages, pc, blob, todo, procs, deploy, hurt, reported>>
    /\ Undisturbed

(* A push goes on to signal, a service is executed, the proxy is seeded. *)
EndProject(p) ==
    /\ pc[p] = "stage" /\ todo[p] = <<>> /\ pending[p] = <<>>
    /\ Goto(p, IF p \in Pushers THEN "signal" ELSE IF unit = "proxy" THEN "seed" ELSE "load")
    /\ unread' = IF p = Boot /\ unit # "proxy" THEN Order ELSE unread
    /\ UNCHANGED <<unit, ages, tmpfs, blob, todo, pending, proc, fresh, served, deploy, hurt, reported>>
    /\ Undisturbed

(* A projection that ends early leaves these temps.  A push reports the
   error, a service does not start and loses its directory, and the proxy's
   start ignores it. *)
GiveUp(p, left) ==
    /\ \/ /\ p \in Pushers
          /\ Goto(p, "idle") /\ temps' = left /\ UNCHANGED <<disk, procs>>
       \/ /\ p = Boot /\ unit = "proxy"
          /\ Goto(p, "seed") /\ temps' = left /\ UNCHANGED <<disk, procs>>
       \/ /\ p = Boot /\ unit # "proxy"
          /\ Goto(p, "idle") /\ Halt /\ ClearRuntimeDir
    /\ Disturbed
    /\ UNCHANGED <<unit, ages, blob, todo, pending, deploy, reported>>

OthersTemps(p) == {t \in temps : t[1] # p}

(* A value is missing from the blobs, or a staged file went with the runtime
   directory. *)
ProjectError(p) ==
    /\ pc[p] = "stage"
    /\ IF todo[p] # <<>> THEN Has(p, Head(todo[p])) = 0
                         ELSE pending[p] # <<>> /\ <<p, Head(pending[p])>> \notin temps
    /\ GiveUp(p, OthersTemps(p))
    /\ UNCHANGED hurt

(* Decrypting, staging or renaming fails. *)
ProjectFails(p) ==
    /\ Projecting(p)
    /\ hurt < MaxHurt /\ hurt' = hurt + 1
    /\ GiveUp(p, OthersTemps(p))

(* The agent is killed: what it staged stays. *)
ProjectKilled(p) ==
    /\ Projecting(p)
    /\ hurt < MaxHurt /\ hurt' = hurt + 1
    /\ GiveUp(p, temps)

-----------------------------------------------------------------------------
(* The unit *)

StartUnit(pcs) ==
    /\ proc' = "boot" /\ Unloaded
    /\ pc' = [pcs EXCEPT ![Boot] = Begin]
    /\ clean' = Apart'

(* Restart=always without a start limit: systemd starts the unit again. *)
Start ==
    /\ proc = "down"
    /\ StartUnit(pc)
    /\ UNCHANGED <<unit, ages, tmpfs, blob, todo, pending, deploy, hurt, reported>>

(* Mutant: an absent leaf.age fails the start *)
NothingToStart ==
    /\ unit = "proxy" /\ pc[Boot] = "leaf" /\ leaf = 0
    /\ Goto(Boot, "idle") /\ Halt
    /\ UNCHANGED <<unit, ages, tmpfs, blob, todo, pending, deploy, hurt, reported>>
    /\ Undisturbed

(* A fresh host has no leaf.age: mesh-project does nothing. *)
NothingToProject ==
    /\ unit = "proxy" /\ pc[Boot] = "leaf" /\ leaf = 0
    /\ Goto(Boot, "seed")
    /\ UNCHANGED <<unit, ages, tmpfs, blob, todo, pending, procs, deploy, hurt, reported>>
    /\ Undisturbed

(* What mesh-seed.sh makes together: a pair, or a file that is in none. *)
Seeds ==
    {{q[1], q[2]} : q \in {r \in Pairs : r[1] \in Range(Wanted)}}
      \cup {{f} : f \in {g \in Range(Wanted) : \A q \in Pairs : g \notin {q[1], q[2]}}}

Missing(S) == \E f \in S : disk[f] = 0

(* It replaces a pair of which a file is absent, and no other. *)
Seed ==
    /\ pc[Boot] = "seed"
    /\ \E S \in Seeds : Missing(S) /\ disk' = [f \in Files |-> IF f \in S THEN Placeholder ELSE disk[f]]
    /\ UNCHANGED <<unit, ages, temps, work, procs, deploy, hurt, reported>>
    /\ Undisturbed

Matches(content) == \A q \in Pairs : content[q[1]] = content[q[2]]

(* nginx -t: a certificate that does not match its key fails the start. *)
TestConfig ==
    /\ pc[Boot] = "seed" /\ \A S \in Seeds : ~Missing(S)
    /\ IF Matches(disk)
         THEN Goto(Boot, "load") /\ unread' = Wanted /\ UNCHANGED <<proc, fresh, served>>
         ELSE Goto(Boot, "idle") /\ Halt
    /\ UNCHANGED <<unit, ages, tmpfs, blob, todo, pending, deploy, hurt, reported>>
    /\ Undisturbed

(* The process reads its files one after another, when it starts and when it
   is reloaded. *)
ReadFile ==
    /\ unread # <<>> /\ Tail(unread) # <<>>
    /\ fresh' = [fresh EXCEPT ![Head(unread)] = disk[Head(unread)]]
    /\ unread' = Tail(unread)
    /\ UNCHANGED <<unit, ages, tmpfs, work, proc, served, deploy, hurt, reported>>
    /\ Undisturbed

(* With the last one it serves what it read; nginx, if they do not match,
   keeps what it had, or does not start. *)
Loaded ==
    /\ unread # <<>> /\ Tail(unread) = <<>>
    /\ LET got == [fresh EXCEPT ![Head(unread)] = disk[Head(unread)]]
           refused == unit = "proxy" /\ ~Matches(got)
       IN  /\ served' = IF refused THEN served ELSE got
           /\ proc' = IF refused /\ proc = "boot" THEN "down" ELSE "up"
    /\ unread' = <<>> /\ fresh' = None
    /\ Goto(Boot, "idle")
    /\ UNCHANGED <<unit, ages, tmpfs, blob, todo, pending, deploy, hurt, reported>>
    /\ Undisturbed

(* The process exits, for whatever reason. *)
Exit ==
    /\ proc = "up"
    /\ Halt /\ ClearRuntimeDir
    /\ UNCHANGED <<unit, ages, work, deploy, hurt, reported>>
    /\ Undisturbed

(* A reboot ends everything that runs on the host and empties tmpfs. *)
Reboot ==
    /\ hurt < MaxHurt /\ hurt' = hurt + 1
    /\ disk' = None /\ temps' = {}
    /\ pc' = [p \in Projectors |-> "idle"]
    /\ Halt
    /\ deploy' = "idle"
    /\ Disturbed
    /\ UNCHANGED <<unit, ages, blob, todo, pending, reported>>

-----------------------------------------------------------------------------
(* Pushes and deploys *)

RestartUnit(pcs) == StartUnit(pcs) /\ ClearRuntimeDir

(* Mutant: the running process is left as it is *)
ReloadNothing(pcs) ==
    /\ pc' = pcs
    /\ UNCHANGED <<procs, tmpfs>>
    /\ Undisturbed

(* A running process reads its files again.  The signal that meets the agent,
   not yet replaced by the service, ends it. *)
ReloadUnit(pcs) ==
    \/ /\ proc = "up"
       /\ unread' = Wanted /\ fresh' = None
       /\ pc' = pcs
       /\ Undisturbed
       /\ UNCHANGED <<proc, served, tmpfs>>
    \/ /\ proc = "boot"
       /\ pc' = [pcs EXCEPT ![Boot] = "idle"]
       /\ Halt /\ ClearRuntimeDir
       /\ Disturbed

SignalUnit(pcs) ==
    /\ Active
    /\ IF unit = "restarts" THEN RestartUnit(pcs) ELSE ReloadUnit(pcs)

(* leaf.age is written beside its path and moved there.  The mint ahead of a
   release stops here; the other pushes project and signal. *)
Push(p) ==
    /\ pc[p] = "idle" /\ leaf < MaxGen
    /\ leaf' = leaf + 1
    /\ \E restart \in BOOLEAN : Goto(p, IF restart THEN Begin ELSE "idle")
    /\ UNCHANGED <<unit, secrets, tmpfs, blob, todo, pending, procs, deploy, hurt, reported>>
    /\ Undisturbed

(* A unit that is not active is left to read the leaf at its next start; the
   push succeeds all the same. *)
Signal(p) ==
    /\ pc[p] = "signal"
    /\ LET pcs == [pc EXCEPT ![p] = "idle"]
       IN  \/ SignalUnit(pcs)
           \/ ~Active /\ pc' = pcs /\ UNCHANGED <<procs, tmpfs>> /\ Undisturbed
    /\ reported' = IF clean THEN blob[p].leaf ELSE reported
    /\ UNCHANGED <<unit, ages, blob, todo, pending, deploy, hurt>>

(* A deploy writes secrets.age when the resolved values have changed ... *)
WriteSecrets ==
    /\ unit # "proxy" /\ deploy = "idle" /\ secrets < MaxGen
    /\ secrets' = secrets + 1 /\ deploy' = "signal"
    /\ UNCHANGED <<unit, leaf, tmpfs, work, procs, hurt, reported>>
    /\ Undisturbed

(* ... and reloads or restarts the unit, or starts it. *)
ApplySecrets ==
    /\ deploy = "signal" /\ deploy' = "idle"
    /\ \/ SignalUnit(pc)
       \/ ~Active /\ StartUnit(pc) /\ UNCHANGED tmpfs
    /\ UNCHANGED <<unit, ages, blob, todo, pending, hurt, reported>>

-----------------------------------------------------------------------------
Project(p) ==
    \/ ReadSecrets(p) \/ ReadLeaf(p) \/ Stage(p) \/ Commit(p) \/ EndProject(p) \/ ProjectError(p)

UnitStep == Start \/ NothingToProject \/ Seed \/ TestConfig \/ ReadFile \/ Loaded

Next ==
    \/ \E p \in Projectors : Project(p) \/ ProjectFails(p) \/ ProjectKilled(p)
    \/ UnitStep \/ Exit \/ Reboot
    \/ \E p \in Pushers : Push(p) \/ Signal(p)
    \/ WriteSecrets \/ ApplySecrets

Spec == Init /\ [][Next]_vars

(* systemd takes the next step of a start, and the agent the next step of a
   projection; no command waits between its calls. *)
FairSpec ==
    /\ Spec
    /\ WF_vars(UnitStep)
    /\ \A p \in Projectors : WF_vars(Project(p))

-----------------------------------------------------------------------------
(* What a push reported as delivered is served, unless the process is about
   to read it: a start or reload never goes back behind a finished push. *)
ReportedIsServed ==
    clean /\ proc = "up" /\ unread = <<>> =>
       \A f \in Range(Wanted) \ Granted :
          reported > 0 => served[f] \in reported..MaxGen

(* A start on its own brings the files to what leaf.age and secrets.age hold,
   whatever state an earlier projection that was killed left them in. *)
BootRepairs ==
    clean /\ pc[Boot] = "load" /\ blob[Boot].leaf # 0 =>
       \A f \in Range(Wanted) : disk[f] = Has(Boot, f)

(* A unit that has something to start with comes up again and again: neither a
   torn pair, nor a failed projection, nor a push beside it keeps it down. *)
ComesBack == (leaf # 0 \/ unit = "proxy") ~> proc = "up"
=============================================================================
