----------------------- MODULE LeafProjectionProofs -----------------------
(***************************************************************************)
(* Proofs about LeafProjection, for any files, pairs and pushers: that a   *)
(* start repairs the files and that what a push reported is served.        *)
(*                                                                         *)
(* The invariant follows one generation from the blob to the process: a    *)
(* projection that nothing overlaps leaves a file as its blob has it once  *)
(* it is past it (OnTrack), a start is tested on such files (Landed,       *)
(* Whole), the process has read what is on the disk (Reading), and         *)
(* whatever is projected is at least as new as what was reported before it *)
(* (Newer, Delivered, Current).                                            *)
(***************************************************************************)
EXTENDS LeafProjection, TLAPS

W == Range(Wanted)
PusherLabels == {"idle", "secrets", "leaf", "stage", "signal"}
BootLabels == {"idle", "secrets", "leaf", "stage", "seed", "load"}
Contents == Nat \cup {Placeholder}

(* Where the boot's projection is, the process is: it boots as long as the
   projection, the seeding and the first load take, and reads only then or when
   it is up. *)
Phases ==
    /\ proc \in {"down", "boot", "up"}
    /\ pc[Boot] \in BootLabels /\ \A p \in Pushers : pc[p] \in PusherLabels
    /\ proc = "boot" <=> pc[Boot] # "idle"
    /\ unread # <<>> => proc # "down" /\ pc[Boot] \in {"idle", "load"}
    /\ pc[Boot] = "seed" => unit = "proxy"

Typed ==
    /\ unit \in Units /\ clean \in BOOLEAN
    /\ leaf \in 0..MaxGen /\ secrets \in Nat /\ reported \in 0..leaf
    /\ disk \in [Files -> Contents] /\ fresh \in [Files -> Contents]
    /\ served \in [Files -> Contents]
    /\ pc \in [Projectors -> PusherLabels \cup BootLabels]
    /\ blob \in [Projectors -> [secrets : Nat, leaf : 0..MaxGen]]
    /\ \A p \in Projectors : blob[p].leaf <= leaf
    /\ todo \in [Projectors -> Seq(W)] /\ pending \in [Projectors -> Seq(W)]
    /\ unread \in Seq(W)

(* The proxy leaves alone what is not of the leaf. *)
Blank == \A f \in Files \ W : disk[f] = 0 /\ fresh[f] = 0

Shape == Typed /\ Phases /\ Blank

(* A content that is good enough for a push that reported generation n. *)
Covers(content, n) == n > 0 => content \in n..MaxGen

AsPlanned(p) == \A f \in W : disk[f] = Has(p, f)

(* A projection is past a file once the file is what its blobs say. *)
OnTrack ==
    \A p \in Projectors : pc[p] = "stage" /\ (p = Boot \/ proc = "up") =>
        \A f \in W : f \in Range(todo[p]) \cup Range(pending[p]) \/ disk[f] = Has(p, f)

Landed ==
    pc[Boot] \in {"seed", "load"} /\ (unit = "proxy" => blob[Boot].leaf # 0) => AsPlanned(Boot)

Whole ==
    /\ proc # "down" /\ pc[Boot] \in {"idle", "load"}
    /\ \A p \in Pushers : ~Projecting(p)
    => Matches(disk)

Reading == unread # <<>> => \A f \in W : f \in Range(unread) \/ fresh[f] = disk[f]

Newer ==
    \A q \in Projectors : pc[q] \in {"stage", "seed", "load"} =>
        /\ reported <= blob[q].leaf
        /\ \A p \in Pushers : pc[p] = "signal" => blob[p].leaf <= blob[q].leaf

Delivered ==
    proc = "up" => \A f \in W \ Granted :
        /\ Covers(disk[f], reported)
        /\ \A p \in Pushers : pc[p] = "signal" => Covers(disk[f], blob[p].leaf)

Current == proc = "up" /\ unread = <<>> => \A f \in W \ Granted : Covers(served[f], reported)

Calm ==
    /\ Apart /\ OnTrack /\ Landed /\ Whole /\ Reading
    /\ Newer /\ Delivered /\ Current

Inv == Shape /\ (clean => Calm)

-----------------------------------------------------------------------------
(* Sequences and files *)

(* What the head and the tail of a sequence hold is what it holds. *)
LEMMA FirstAndRest ==
    ASSUME NEW S, NEW s \in Seq(S), s # <<>>
    PROVE  /\ Head(s) \in S /\ Tail(s) \in Seq(S)
           /\ Range(s) = {Head(s)} \cup Range(Tail(s))
<1>1. Len(s) \in Nat \ {0} /\ Head(s) = s[1] /\ s[1] \in S
  OBVIOUS
<1>2. Tail(s) \in Seq(S) /\ Len(Tail(s)) = Len(s) - 1
  OBVIOUS
<1>3. \A i \in 1..(Len(s) - 1) : Tail(s)[i] = s[i + 1]
  OBVIOUS
<1>4. Range(s) \subseteq {Head(s)} \cup Range(Tail(s))
  <2>1. SUFFICES ASSUME NEW i \in 1..Len(s), i # 1 PROVE s[i] \in Range(Tail(s))
    BY <1>1 DEF Range
  <2>2. i - 1 \in 1..(Len(s) - 1) /\ Tail(s)[i - 1] = s[i]
    BY <2>1, <1>1, <1>3
  <2>3. DOMAIN Tail(s) = 1..(Len(s) - 1)
    BY <1>2
  <2>. QED BY <2>2, <2>3 DEF Range
<1>5. Range(Tail(s)) \subseteq Range(s)
  <2>1. SUFFICES ASSUME NEW i \in 1..(Len(s) - 1) PROVE Tail(s)[i] \in Range(s)
    BY <1>2 DEF Range
  <2>2. i + 1 \in 1..Len(s) /\ Tail(s)[i] = s[i + 1]
    BY <1>1, <1>3
  <2>. QED BY <2>2 DEF Range
<1>6. Head(s) \in Range(s)
  BY <1>1 DEF Range
<1>. QED BY <1>1, <1>2, <1>4, <1>5, <1>6

(* Appending adds the element. *)
LEMMA Appended ==
    ASSUME NEW S, NEW s \in Seq(S), NEW x \in S
    PROVE  /\ Append(s, x) \in Seq(S)
           /\ Range(s) \subseteq Range(Append(s, x)) /\ x \in Range(Append(s, x))
<1>1. /\ Append(s, x) \in Seq(S) /\ Len(Append(s, x)) = Len(s) + 1
      /\ \A i \in 1..Len(s) : Append(s, x)[i] = s[i]
      /\ Append(s, x)[Len(s) + 1] = x
  OBVIOUS
<1>2. 1..Len(s) \subseteq 1..(Len(s) + 1) /\ Len(s) + 1 \in 1..(Len(s) + 1)
  OBVIOUS
<1>. QED BY <1>1, <1>2 DEF Range

LEMMA EmptyRange == Range(<<>>) = {}
BY DEF Range

(* A projection handles files of its unit, and the unit never changes; the files
   of a pair are handled together. *)
LEMMA Handled ==
    ASSUME unit \in Units
    PROVE  /\ Wanted \in Seq(W) /\ W \subseteq Files
           /\ unit # "proxy" => W = Files /\ Wanted = Order
           /\ unit = "proxy" => W = Files \ Granted
           /\ \A q \in Pairs : q[1] \in Files /\ q[2] \in Files /\ (q[1] \in W <=> q[2] \in W)
<1>1. Order \in Seq(Files) /\ LeafOrder \in Seq(Files) /\ Range(LeafOrder) = Files \ Granted
  BY ProjectionAssumption
<1>2. Order \in Seq(Range(Order))
  BY <1>1 DEF Files
<1>3. LeafOrder \in Seq(Range(LeafOrder))
  <2>1. /\ Len(LeafOrder) \in Nat /\ DOMAIN LeafOrder = 1..Len(LeafOrder)
        /\ LeafOrder = [i \in 1..Len(LeafOrder) |-> LeafOrder[i]]
    BY <1>1
  <2>2. \A i \in 1..Len(LeafOrder) : LeafOrder[i] \in Range(LeafOrder)
    BY <2>1 DEF Range
  <2>3. LeafOrder \in [1..Len(LeafOrder) -> Range(LeafOrder)]
    BY <2>1, <2>2
  <2>. QED BY <2>1, <2>3
<1>4. \A q \in Pairs : q[1] \in Files /\ q[2] \in Files /\ (q[1] \in Granted <=> q[2] \in Granted)
  BY ProjectionAssumption
<1>. QED BY <1>1, <1>2, <1>3, <1>4 DEF W, Wanted, Files

LEMMA SameUnit ==
    ASSUME unit' = unit
    PROVE  Wanted' = Wanted /\ W' = W
BY DEF W, Wanted

(* Every projector is a pusher or the boot, and not both. *)
LEMMA Kinds ==
    /\ Boot \in Projectors /\ Boot \notin Pushers
    /\ \A p \in Projectors : p \in Pushers \/ p = Boot
    /\ Pushers \subseteq Projectors
BY ProjectionAssumption DEF Projectors

-----------------------------------------------------------------------------
(* Types and phases *)

LEMMA ShapeInit == Init => Shape
<1>. SUFFICES ASSUME Init PROVE Shape
  OBVIOUS
<1>1. None \in [Files -> Contents] /\ <<>> \in Seq(W) /\ 1 \in 0..MaxGen /\ 0 \in 0..MaxGen
  BY ProjectionAssumption DEF None, Contents
<1>2. W \subseteq Files
  BY Handled DEF Init
<1>3. Typed
  BY <1>1 DEF Init, Typed, BootLabels, PusherLabels
<1>4. Phases
  BY Kinds DEF Init, Phases, BootLabels, PusherLabels
<1>5. Blank
  BY <1>2 DEF Init, Blank, None
<1>. QED BY <1>3, <1>4, <1>5 DEF Shape

(* The projection's own steps. *)
LEMMA ShapeProject ==
    ASSUME Shape, NEW p \in Projectors,
           \/ ReadSecrets(p) \/ ReadLeaf(p) \/ Stage(p) \/ Commit(p) \/ EndProject(p)
    PROVE  Shape'
<1>. USE DEF Shape
<1>0. Wanted' = Wanted /\ W' = W /\ Wanted \in Seq(W) /\ W \subseteq Files
  BY SameUnit, Handled DEF Typed, ReadSecrets, ReadLeaf, Stage, Commit, EndProject
<1>a. clean' \in BOOLEAN
  BY DEF ReadSecrets, ReadLeaf, Stage, Commit, EndProject, Undisturbed, Typed, Apart
<1>1. CASE ReadSecrets(p)
  <2>0. 0 \in 0..MaxGen
    BY ProjectionAssumption
  <2>1. Typed'
    BY <1>0, <1>a, <1>1, <2>0 DEF ReadSecrets, Typed, Goto, ages, tmpfs, procs, BootLabels
  <2>2. Phases'
    BY <1>1, Kinds DEF ReadSecrets, Typed, Phases, Goto, procs, BootLabels, PusherLabels
  <2>3. Blank'
    BY <1>0, <1>1 DEF ReadSecrets, Blank, procs, tmpfs
  <2>. QED BY <2>1, <2>2, <2>3
<1>2. CASE ReadLeaf(p)
  <2>1. Typed'
    BY <1>0, <1>a, <1>2 DEF ReadLeaf, Typed, Goto, ages, tmpfs, procs, BootLabels
  <2>2. Phases'
    BY <1>2, Kinds DEF ReadLeaf, Typed, Phases, Goto, procs, BootLabels, PusherLabels
  <2>3. Blank'
    BY <1>0, <1>2 DEF ReadLeaf, Blank, procs, tmpfs
  <2>. QED BY <2>1, <2>2, <2>3
<1>3. CASE Stage(p)
  <2>0. /\ Head(todo[p]) \in W /\ Tail(todo[p]) \in Seq(W)
        /\ Append(pending[p], Head(todo[p])) \in Seq(W)
    BY <1>3, FirstAndRest, Appended DEF Stage, Typed
  <2>1. Typed'
    BY <1>0, <1>a, <1>3, <2>0 DEF Stage, Typed, ages, procs
  <2>2. Phases'
    BY <1>3 DEF Stage, Phases, procs
  <2>3. Blank'
    BY <1>0, <1>3 DEF Stage, Blank, procs
  <2>. QED BY <2>1, <2>2, <2>3
<1>4. CASE Commit(p)
  <2>0. Head(pending[p]) \in W /\ Tail(pending[p]) \in Seq(W)
    BY <1>4, FirstAndRest DEF Commit, Typed
  <2>a. \A f \in Files : Has(p, f) \in Contents
    BY ProjectionAssumption DEF Typed, Has, Contents
  <2>1. Typed'
    BY <1>0, <1>a, <1>4, <2>0, <2>a DEF Commit, Typed, ages, procs
  <2>2. Phases'
    BY <1>4 DEF Commit, Phases, procs
  <2>3. Blank'
    BY <1>0, <1>4, <2>0 DEF Commit, Blank, procs, Typed
  <2>. QED BY <2>1, <2>2, <2>3
<1>5. CASE EndProject(p)
  <2>0. p = Boot /\ unit # "proxy" => Order \in Seq(W)
    BY <1>0, Handled DEF Typed
  <2>1. Typed'
    BY <1>0, <1>a, <1>5, <2>0 DEF EndProject, Typed, Goto, ages, tmpfs, BootLabels, PusherLabels
  <2>2. Phases'
    BY <1>5, Kinds DEF EndProject, Typed, Phases, Goto, BootLabels, PusherLabels, Units
  <2>3. Blank'
    BY <1>0, <1>5 DEF EndProject, Blank, tmpfs
  <2>. QED BY <2>1, <2>2, <2>3
<1>. QED BY <1>1, <1>2, <1>3, <1>4, <1>5

(* What an emptied directory and a process without files look like. *)
LEMMA Emptied ==
    /\ None \in [Files -> Contents] /\ \A f \in Files : None[f] = 0
    /\ <<>> \in Seq(W) /\ Matches(None)
BY ProjectionAssumption DEF None, Contents, Matches

(* A projection that ends early. *)
LEMMA ShapeGiveUp ==
    ASSUME Shape, NEW p \in Projectors, NEW left, Projecting(p), GiveUp(p, left)
    PROVE  Shape'
<1>. USE DEF Shape
<1>0. Wanted' = Wanted /\ W' = W /\ W \subseteq Files
  BY SameUnit, Handled DEF Typed, GiveUp
<1>1. Typed'
  BY <1>0, Emptied DEF GiveUp, Typed, Goto, ages, procs, Disturbed, Halt, Unloaded, ClearRuntimeDir, tmpfs, BootLabels
<1>2. Phases'
  <2>1. CASE p \in Pushers
    <3>1. Goto(p, "idle") /\ UNCHANGED <<proc, unread, unit>>
      BY <2>1, Kinds DEF GiveUp, procs
    <3>. QED BY <2>1, <3>1, Kinds DEF Typed, Phases, Goto, PusherLabels
  <2>2. CASE p = Boot /\ unit = "proxy"
    <3>1. Goto(Boot, "seed") /\ UNCHANGED <<proc, unread, unit>>
      BY <2>2, Kinds DEF GiveUp, procs
    <3>. QED BY <2>2, <3>1, Kinds DEF Typed, Phases, Goto, BootLabels, Projecting
  <2>3. CASE p = Boot /\ unit # "proxy"
    <3>1. Goto(Boot, "idle") /\ proc' = "down" /\ unread' = <<>> /\ unit' = unit
      BY <2>3, Kinds DEF GiveUp, Halt, Unloaded
    <3>. QED BY <2>3, <3>1, Kinds DEF Typed, Phases, Goto, BootLabels
  <2>. QED BY <2>1, <2>2, <2>3, Kinds
<1>3. Blank'
  BY <1>0, Emptied DEF GiveUp, Blank, procs, Halt, Unloaded, ClearRuntimeDir, tmpfs
<1>. QED BY <1>1, <1>2, <1>3

(* The unit starts, or is restarted on an emptied directory. *)
LEMMA ShapeStart ==
    ASSUME Shape, NEW pcs \in [Projectors -> PusherLabels \cup BootLabels],
           \A q \in Pushers : pcs[q] \in PusherLabels,
           StartUnit(pcs), disk' \in {disk, None}, leaf' = leaf, secrets' = secrets,
           unit' = unit, blob' = blob, todo' = todo, pending' = pending,
           reported' \in 0..leaf
    PROVE  Shape'
<1>. USE DEF Shape
<1>0. Wanted' = Wanted /\ W' = W /\ W \subseteq Files
  BY SameUnit, Handled DEF Typed
<1>1. Typed'
  BY <1>0, Emptied DEF StartUnit, Typed, Unloaded, Begin, BootLabels, Apart
<1>2. Phases'
  BY Kinds DEF StartUnit, Typed, Phases, Unloaded, Begin, BootLabels, PusherLabels
<1>3. Blank'
  BY <1>0, Emptied DEF StartUnit, Blank, Unloaded
<1>. QED BY <1>1, <1>2, <1>3

(* The other steps of the unit. *)
LEMMA ShapeUnit ==
    ASSUME Shape,
           \/ NothingToProject \/ Seed \/ TestConfig \/ ReadFile \/ Loaded \/ Exit \/ Reboot
    PROVE  Shape'
<1>. USE DEF Shape
<1>0. Wanted' = Wanted /\ W' = W /\ Wanted \in Seq(W) /\ W \subseteq Files
  BY SameUnit, Handled DEF Typed, NothingToProject, Seed, TestConfig, ReadFile, Loaded, Exit, Reboot
<1>a. clean' \in BOOLEAN
  BY DEF NothingToProject, Seed, TestConfig, ReadFile, Loaded, Exit, Reboot, Undisturbed, Disturbed, Typed, Apart
<1>1. CASE NothingToProject
  <2>1. Typed'
    BY <1>0, <1>a, <1>1 DEF NothingToProject, Typed, Goto, ages, tmpfs, procs, BootLabels
  <2>2. Phases'
    BY <1>1, Kinds DEF NothingToProject, Typed, Phases, Goto, procs, BootLabels, PusherLabels
  <2>3. Blank'
    BY <1>0, <1>1 DEF NothingToProject, Blank, procs, tmpfs
  <2>. QED BY <2>1, <2>2, <2>3
<1>2. CASE Seed
  <2>0. PICK S \in Seeds : disk' = [f \in Files |-> IF f \in S THEN Placeholder ELSE disk[f]]
    BY <1>2 DEF Seed
  <2>a. S \subseteq W
    <3>1. CASE \E q \in Pairs : q[1] \in W /\ S = {q[1], q[2]}
      BY <3>1, Handled DEF Typed
    <3>2. CASE \E g \in W : S = {g}
      BY <3>2
    <3>. QED BY <2>0, <3>1, <3>2 DEF Seeds, W
  <2>1. Typed'
    BY <1>0, <1>a, <1>2, <2>0 DEF Seed, Typed, ages, work, procs, Contents
  <2>2. Phases'
    BY <1>2 DEF Seed, Phases, procs, work
  <2>3. Blank'
    BY <1>0, <1>2, <2>0, <2>a DEF Seed, Blank, procs
  <2>. QED BY <2>1, <2>2, <2>3
<1>3. CASE TestConfig
  <2>1. Typed'
    BY <1>0, <1>a, <1>3, Emptied DEF TestConfig, Typed, Goto, ages, tmpfs, Halt, Unloaded, BootLabels
  <2>2. Phases'
    BY <1>3, Kinds DEF TestConfig, Typed, Phases, Goto, Halt, Unloaded, BootLabels, PusherLabels
  <2>3. Blank'
    BY <1>0, <1>3, Emptied DEF TestConfig, Blank, Halt, Unloaded, tmpfs
  <2>. QED BY <2>1, <2>2, <2>3
<1>4. CASE ReadFile
  <2>0. Head(unread) \in W /\ Tail(unread) \in Seq(W)
    BY <1>4, FirstAndRest DEF ReadFile, Typed
  <2>1. Typed'
    BY <1>0, <1>a, <1>4, <2>0 DEF ReadFile, Typed, ages, work, tmpfs
  <2>2. Phases'
    BY <1>4 DEF ReadFile, Phases, work
  <2>3. Blank'
    BY <1>0, <1>4, <2>0 DEF ReadFile, Blank, tmpfs, Typed
  <2>. QED BY <2>1, <2>2, <2>3
<1>5. CASE Loaded
  <2>0. Head(unread) \in W
    BY <1>5, FirstAndRest DEF Loaded, Typed
  <2>1. [fresh EXCEPT ![Head(unread)] = disk[Head(unread)]] \in [Files -> Contents]
    BY <1>0, <2>0 DEF Typed
  <2>2. Typed'
    <3>1. served' \in [Files -> Contents]
      BY <1>5, <2>1 DEF Loaded, Typed
    <3>. QED BY <1>0, <1>a, <1>5, <3>1, Emptied DEF Loaded, Typed, Goto, ages, tmpfs, BootLabels
  <2>3. Phases'
    BY <1>5, Kinds DEF Loaded, Typed, Phases, Goto, BootLabels, PusherLabels
  <2>4. Blank'
    BY <1>0, <1>5, Emptied DEF Loaded, Blank, tmpfs
  <2>. QED BY <2>2, <2>3, <2>4
<1>6. CASE Exit
  <2>1. Typed'
    BY <1>0, <1>a, <1>6, Emptied DEF Exit, Typed, ages, work, tmpfs, Halt, Unloaded, ClearRuntimeDir
  <2>2. Phases'
    BY <1>6 DEF Exit, Phases, Halt, Unloaded, work
  <2>3. Blank'
    BY <1>0, <1>6, Emptied DEF Exit, Blank, Halt, Unloaded, ClearRuntimeDir, tmpfs
  <2>. QED BY <2>1, <2>2, <2>3
<1>7. CASE Reboot
  <2>1. Typed'
    BY <1>0, <1>a, <1>7, Emptied DEF Reboot, Typed, ages, Halt, Unloaded, BootLabels
  <2>2. Phases'
    BY <1>7, Kinds DEF Reboot, Phases, Halt, Unloaded, BootLabels, PusherLabels
  <2>3. Blank'
    BY <1>0, <1>7, Emptied DEF Reboot, Blank, Halt, Unloaded
  <2>. QED BY <2>1, <2>2, <2>3
<1>. QED BY <1>1, <1>2, <1>3, <1>4, <1>5, <1>6, <1>7

(* A reload reads the files again, or ends a boot. *)
LEMMA ShapeReload ==
    ASSUME Shape, NEW pcs \in [Projectors -> PusherLabels \cup BootLabels],
           \A q \in Pushers : pcs[q] \in PusherLabels, pcs[Boot] = pc[Boot],
           ReloadUnit(pcs), leaf' = leaf, secrets' = secrets,
           unit' = unit, blob' = blob, todo' = todo, pending' = pending,
           reported' \in 0..leaf
    PROVE  Shape'
<1>. USE DEF Shape
<1>0. Wanted' = Wanted /\ W' = W /\ Wanted \in Seq(W) /\ W \subseteq Files
  BY SameUnit, Handled DEF Typed
<1>1. Typed'
  BY <1>0, Emptied DEF ReloadUnit, Typed, Halt, Unloaded, ClearRuntimeDir, tmpfs, BootLabels, Undisturbed, Disturbed, Apart
<1>2. Phases'
  BY Kinds DEF ReloadUnit, Typed, Phases, Halt, Unloaded, BootLabels, PusherLabels
<1>3. Blank'
  BY <1>0, Emptied DEF ReloadUnit, Blank, Halt, Unloaded, ClearRuntimeDir, tmpfs
<1>. QED BY <1>1, <1>2, <1>3

(* Pushes and deploys. *)
LEMMA ShapePush ==
    ASSUME Shape, NEW p \in Pushers, Push(p)
    PROVE  Shape'
<1>. USE DEF Shape
<1>0. Wanted' = Wanted /\ W' = W
  BY SameUnit DEF Push
<1>1. leaf + 1 \in 0..MaxGen /\ p \in Projectors /\ p # Boot
  BY ProjectionAssumption, Kinds DEF Push, Typed
<1>2. Typed'
  BY <1>0, <1>1 DEF Push, Typed, Goto, Begin, tmpfs, procs, PusherLabels, Undisturbed, Apart
<1>3. Phases'
  BY <1>1, Kinds DEF Push, Typed, Phases, Goto, Begin, procs, BootLabels, PusherLabels
<1>4. Blank'
  BY <1>0 DEF Push, Blank, procs, tmpfs
<1>. QED BY <1>2, <1>3, <1>4

LEMMA ShapeWrite ==
    ASSUME Shape, WriteSecrets
    PROVE  Shape'
<1>. USE DEF Shape
<1>0. Wanted' = Wanted /\ W' = W
  BY SameUnit DEF WriteSecrets
<1>1. Typed'
  BY <1>0 DEF WriteSecrets, Typed, tmpfs, procs, work, Undisturbed, Apart
<1>2. Phases'
  BY DEF WriteSecrets, Phases, procs, work
<1>3. Blank'
  BY <1>0 DEF WriteSecrets, Blank, procs, tmpfs
<1>. QED BY <1>1, <1>2, <1>3

LEMMA ShapeSignal ==
    ASSUME Shape, NEW p \in Pushers, Signal(p)
    PROVE  Shape'
<1>. USE DEF Shape
<1>. DEFINE pcs == [pc EXCEPT ![p] = "idle"]
<1>0. Wanted' = Wanted /\ W' = W
  BY SameUnit DEF Signal
<1>1. p \in Projectors /\ p # Boot /\ "idle" \in PusherLabels
  BY Kinds DEF PusherLabels
<1>2. /\ pcs \in [Projectors -> PusherLabels \cup BootLabels] /\ pcs[Boot] = pc[Boot]
      /\ \A q \in Pushers : pcs[q] \in PusherLabels
  BY <1>1, Kinds DEF Typed, Phases
<1>3. /\ leaf' = leaf /\ secrets' = secrets /\ unit' = unit /\ blob' = blob
      /\ todo' = todo /\ pending' = pending
  BY DEF Signal, ages
<1>4. reported' \in 0..leaf
  BY <1>1 DEF Signal, Typed
<1>5. SignalUnit(pcs) \/ (~Active /\ pc' = pcs /\ UNCHANGED <<procs, tmpfs>> /\ Undisturbed)
  BY DEF Signal
<1>. HIDE DEF pcs
<1>6. CASE RestartUnit(pcs)
  BY <1>2, <1>3, <1>4, <1>6, ShapeStart DEF RestartUnit, ClearRuntimeDir, tmpfs
<1>7. CASE ReloadUnit(pcs)
  BY <1>2, <1>3, <1>4, <1>7, ShapeReload
<1>8. CASE pc' = pcs /\ UNCHANGED <<procs, tmpfs>> /\ Undisturbed
  <2>1. Typed'
    BY <1>0, <1>2, <1>3, <1>4, <1>8 DEF Typed, tmpfs, procs, Undisturbed, Apart
  <2>2. Phases'
    BY <1>2, <1>3, <1>8 DEF Phases, procs
  <2>3. Blank'
    BY <1>0, <1>8 DEF Blank, procs, tmpfs
  <2>. QED BY <2>1, <2>2, <2>3
<1>. QED BY <1>5, <1>6, <1>7, <1>8 DEF SignalUnit

LEMMA ShapeApply ==
    ASSUME Shape, ApplySecrets
    PROVE  Shape'
<1>. USE DEF Shape
<1>1. pc \in [Projectors -> PusherLabels \cup BootLabels] /\ \A q \in Pushers : pc[q] \in PusherLabels
  BY DEF Typed, Phases
<1>2. /\ leaf' = leaf /\ secrets' = secrets /\ unit' = unit /\ blob' = blob
      /\ todo' = todo /\ pending' = pending /\ reported' = reported
  BY DEF ApplySecrets, ages
<1>3. reported' \in 0..leaf
  BY <1>2 DEF Typed
<1>4. CASE RestartUnit(pc)
  BY <1>1, <1>2, <1>3, <1>4, ShapeStart DEF RestartUnit, ClearRuntimeDir, tmpfs
<1>5. CASE ReloadUnit(pc)
  BY <1>1, <1>2, <1>3, <1>5, ShapeReload
<1>6. CASE StartUnit(pc) /\ UNCHANGED tmpfs
  BY <1>1, <1>2, <1>3, <1>6, ShapeStart DEF tmpfs
<1>. QED BY <1>4, <1>5, <1>6 DEF ApplySecrets, SignalUnit

(* Every step keeps the types and the phases. *)
LEMMA ShapeNext == Shape /\ [Next]_vars => Shape'
<1>. SUFFICES ASSUME Shape, [Next]_vars PROVE Shape'
  OBVIOUS
<1>1. ASSUME NEW p \in Projectors, Project(p) \/ ProjectFails(p) \/ ProjectKilled(p)
      PROVE  Shape'
  <2>1. CASE ProjectError(p) \/ ProjectFails(p) \/ ProjectKilled(p)
    BY <2>1, ShapeGiveUp DEF ProjectError, ProjectFails, ProjectKilled, Projecting
  <2>. QED BY <1>1, <2>1, ShapeProject DEF Project
<1>2. CASE Start
  <2>1. pc \in [Projectors -> PusherLabels \cup BootLabels] /\ \A q \in Pushers : pc[q] \in PusherLabels
    BY DEF Shape, Typed, Phases
  <2>. QED BY <1>2, <2>1, ShapeStart DEF Start, ages, tmpfs, Shape, Typed
<1>3. CASE UnitStep \/ Exit \/ Reboot
  BY <1>2, <1>3, ShapeUnit DEF UnitStep
<1>4. CASE UNCHANGED vars
  BY <1>4, SameUnit DEF vars, ages, tmpfs, work, procs, Shape, Typed, Phases, Blank
<1>5. ASSUME NEW p \in Pushers, Push(p) \/ Signal(p)
      PROVE  Shape'
  BY <1>5, ShapePush, ShapeSignal
<1>6. CASE WriteSecrets \/ ApplySecrets
  BY <1>6, ShapeWrite, ShapeApply
<1>. QED BY <1>1, <1>3, <1>4, <1>5, <1>6 DEF Next

-----------------------------------------------------------------------------
(* What holds while nothing overlaps.  A step that begins or continues a start *)
(* of the unit establishes it; any other step keeps it.                        *)

LEMMA CalmStart ==
    ASSUME Shape', NEW pcs \in [Projectors -> PusherLabels \cup BootLabels],
           StartUnit(pcs), clean'
    PROVE  Calm'
<1>1. /\ pc' \in [Projectors -> PusherLabels \cup BootLabels] /\ pc'[Boot] \in {"secrets", "leaf"}
      /\ proc' = "boot" /\ unread' = <<>> /\ served' = None /\ Apart'
  BY Kinds DEF StartUnit, Unloaded, Begin, Shape, Typed
<1>2. \A q \in Projectors : pc'[q] \notin {"stage", "seed", "load"}
  BY <1>1, Kinds DEF Apart, Busy, Projecting
<1>3. OnTrack' /\ Landed' /\ Whole' /\ Reading' /\ Newer' /\ Delivered' /\ Current'
  BY <1>1, <1>2, Kinds DEF OnTrack, Landed, Whole, Reading, Newer, Delivered, Current
<1>. QED BY <1>1, <1>3 DEF Calm

LEMMA CalmReadSecrets ==
    ASSUME Shape, Calm, NEW p \in Projectors, ReadSecrets(p), Apart'
    PROVE  Calm'
<1>. USE Kinds DEF ReadSecrets, Calm, Shape, Typed, Goto, tmpfs, procs, ages
<1>0. Wanted' = Wanted /\ W' = W
  BY SameUnit
<1>1. Busy(p) /\ \A q \in Projectors : q # p => ~Busy(q) /\ pc'[q] = pc[q] /\ blob'[q] = blob[q]
  BY DEF Apart, Busy, Projecting
<1>2. pc'[p] = "leaf"
  OBVIOUS
<1>3. OnTrack'
  BY <1>1, <1>2 DEF OnTrack, Busy, Projecting
<1>4. Landed'
  BY <1>1, <1>2 DEF Landed, Busy, Projecting
<1>5. Whole'
  BY <1>1, <1>2 DEF Whole, Projecting
<1>6. Reading' /\ Current'
  BY <1>0 DEF Reading, Current
<1>7. Newer'
  BY <1>1, <1>2 DEF Newer, Busy, Projecting
<1>8. Delivered'
  BY <1>0, <1>1, <1>2 DEF Delivered
<1>. QED BY <1>3, <1>4, <1>5, <1>6, <1>7, <1>8

LEMMA CalmReadLeaf ==
    ASSUME Shape, Calm, NEW p \in Projectors, ReadLeaf(p), Apart'
    PROVE  Calm'
<1>. USE Kinds DEF ReadLeaf, Calm, Shape, Typed, Goto, tmpfs, procs, ages
<1>0. Wanted' = Wanted /\ W' = W
  BY SameUnit
<1>1. Busy(p) /\ \A q \in Projectors : q # p => ~Busy(q) /\ pc'[q] = pc[q] /\ blob'[q] = blob[q]
  BY DEF Apart, Busy, Projecting
<1>2. pc'[p] = "stage" /\ todo'[p] = Wanted /\ blob'[p].leaf = leaf
  OBVIOUS
<1>3. OnTrack'
  BY <1>0, <1>1, <1>2 DEF OnTrack, Busy, Projecting, W
<1>4. Landed'
  BY <1>1, <1>2 DEF Landed, Busy, Projecting
<1>5. Whole'
  BY <1>1, <1>2 DEF Whole, Projecting
<1>6. Reading' /\ Current'
  BY <1>0 DEF Reading, Current
<1>7. Newer'
  <2>1. reported' <= leaf /\ \A q \in Projectors : q # p => blob'[q].leaf <= leaf
    BY <1>1
  <2>2. \A q \in Projectors : q # p => pc'[q] \notin {"stage", "seed", "load"}
    BY <1>1 DEF Busy, Projecting
  <2>. QED BY <1>2, <2>1, <2>2 DEF Newer
<1>8. Delivered'
  BY <1>0, <1>1, <1>2 DEF Delivered
<1>. QED BY <1>3, <1>4, <1>5, <1>6, <1>7, <1>8

(* A file that is as the blob has it needs no renaming, any other is staged. *)
LEMMA CalmStage ==
    ASSUME Shape, Calm, NEW p \in Projectors, Stage(p), Apart'
    PROVE  Calm'
<1>. USE Kinds DEF Stage, Calm, Shape, Typed, procs, ages
<1>0. Wanted' = Wanted /\ W' = W
  BY SameUnit
<1>1. Busy(p) /\ \A q \in Projectors : q # p => ~Busy(q)
  BY DEF Apart, Busy, Projecting
<1>2. \A f \in W : f \in Range(todo[p]) \cup Range(pending[p]) \/ disk[f] = Has(p, f)
         => f \in Range(todo'[p]) \cup Range(pending'[p]) \/ disk[f] = Has(p, f)
  <2>. DEFINE h == Head(todo[p])
  <2>1. h \in W /\ Range(todo[p]) = {h} \cup Range(Tail(todo[p]))
    BY FirstAndRest
  <2>2. Range(pending[p]) \subseteq Range(Append(pending[p], h)) /\ h \in Range(Append(pending[p], h))
    BY <2>1, Appended
  <2>3. /\ todo'[p] = Tail(todo[p])
        /\ pending'[p] = IF disk[h] # Has(p, h) THEN Append(pending[p], h) ELSE pending[p]
    OBVIOUS
  <2>. HIDE DEF h
  <2>. QED BY <2>1, <2>2, <2>3
<1>3. OnTrack'
  <2>1. SUFFICES ASSUME NEW q \in Projectors, pc[q] = "stage", q = Boot \/ proc = "up"
                 PROVE  \A f \in W : f \in Range(todo'[q]) \cup Range(pending'[q]) \/ disk[f] = Has(q, f)
    BY <1>0 DEF OnTrack, Has
  <2>2. q = p
    BY <1>1, <2>1 DEF Busy, Projecting
  <2>3. \A f \in W : f \in Range(todo[p]) \cup Range(pending[p]) \/ disk[f] = Has(p, f)
    BY <2>1, <2>2 DEF OnTrack
  <2>. QED BY <1>2, <2>2, <2>3
<1>4. Landed'
  BY <1>0 DEF Landed, AsPlanned, Has
<1>5. Whole'
  BY DEF Whole, Projecting, Matches
<1>6. Reading' /\ Current'
  BY <1>0 DEF Reading, Current
<1>7. Newer'
  BY DEF Newer
<1>8. Delivered'
  BY <1>0 DEF Delivered
<1>. QED BY <1>3, <1>4, <1>5, <1>6, <1>7, <1>8

(* A file that is renamed is as the blob has it, and new enough. *)
LEMMA CalmCommit ==
    ASSUME Shape, Calm, NEW p \in Projectors, Commit(p), Apart'
    PROVE  Calm'
<1>. USE Kinds DEF Commit, Calm, Shape, Typed, procs, ages
<1>. DEFINE h == Head(pending[p])
<1>0. Wanted' = Wanted /\ W' = W
  BY SameUnit
<1>1. Busy(p) /\ \A q \in Projectors : q # p => ~Busy(q)
  BY DEF Apart, Busy, Projecting
<1>2. /\ h \in W /\ W \subseteq Files
      /\ \A f \in Range(pending[p]) : f = h \/ f \in Range(pending'[p])
      /\ disk'[h] = Has(p, h) /\ \A f \in Files \ {h} : disk'[f] = disk[f]
  BY FirstAndRest, Handled
<1>. HIDE DEF h
<1>3. OnTrack'
  <2>1. SUFFICES ASSUME NEW q \in Projectors, pc[q] = "stage", q = Boot \/ proc = "up"
                 PROVE  \A f \in W : f \in Range(todo[q]) \cup Range(pending'[q]) \/ disk'[f] = Has(q, f)
    BY <1>0 DEF OnTrack, Has
  <2>2. q = p
    BY <1>1, <2>1 DEF Busy, Projecting
  <2>3. \A f \in W : f \in Range(todo[p]) \cup Range(pending[p]) \/ disk[f] = Has(p, f)
    BY <2>1, <2>2 DEF OnTrack
  <2>. QED BY <1>2, <2>2, <2>3
<1>4. Landed'
  BY <1>1 DEF Landed, Busy, Projecting
<1>5. Whole'
  BY DEF Whole, Projecting
<1>6. Reading'
  BY <1>1 DEF Reading, Apart, Phases
<1>7. Current'
  BY <1>0 DEF Current
<1>8. Newer'
  BY DEF Newer
<1>9. Delivered'
  <2>1. SUFFICES ASSUME proc = "up", NEW f \in W \ Granted
                 PROVE  /\ Covers(disk'[f], reported)
                        /\ \A q \in Pushers : pc[q] = "signal" => Covers(disk'[f], blob[q].leaf)
    BY <1>0 DEF Delivered, Covers
  <2>2. CASE f # h
    BY <1>2, <2>1, <2>2 DEF Delivered
  <2>3. CASE f = h
    <3>1. disk'[f] = blob[p].leaf
      BY <1>2, <2>1, <2>3 DEF Has
    <3>2. reported <= blob[p].leaf /\ \A q \in Pushers : pc[q] = "signal" => blob[q].leaf <= blob[p].leaf
      BY DEF Newer
    <3>. QED BY <3>1, <3>2, ProjectionAssumption DEF Covers
  <2>. QED BY <2>2, <2>3
<1>. QED BY <1>3, <1>4, <1>5, <1>6, <1>7, <1>8, <1>9

(* Files that are all as one projection's blobs have them form pairs: a pair
   comes from one blob, and what the proxy does not project is absent. *)
LEMMA PlannedPairs ==
    ASSUME Shape, NEW p \in Projectors, AsPlanned(p)
    PROVE  Matches(disk)
<1>1. SUFFICES ASSUME NEW q \in Pairs PROVE disk[q[1]] = disk[q[2]]
  BY DEF Matches
<1>2. /\ q[1] \in Files /\ q[2] \in Files /\ (q[1] \in W <=> q[2] \in W)
      /\ (q[1] \in Granted <=> q[2] \in Granted)
  BY Handled, ProjectionAssumption DEF Shape, Typed
<1>. QED BY <1>2 DEF AsPlanned, Has, Shape, Blank

(* A projection that ends has brought every file to what its blobs say. *)
LEMMA CalmEndProject ==
    ASSUME Shape, Calm, NEW p \in Projectors, EndProject(p), Apart'
    PROVE  Calm'
<1>. USE Kinds DEF EndProject, Calm, Shape, Typed, Goto, tmpfs, ages
<1>0. Wanted' = Wanted /\ W' = W
  BY SameUnit
<1>1. Busy(p) /\ \A q \in Projectors : q # p => ~Busy(q) /\ pc'[q] = pc[q]
  BY DEF Apart, Busy, Projecting
<1>2. /\ p \in Pushers => pc'[p] = "signal"
      /\ p = Boot => pc'[p] = IF unit = "proxy" THEN "seed" ELSE "load"
  OBVIOUS
<1>3. p = Boot \/ proc = "up" => AsPlanned(p) /\ Matches(disk)
  <2>1. SUFFICES ASSUME p = Boot \/ proc = "up" PROVE AsPlanned(p)
    BY PlannedPairs
  <2>. QED BY <2>1, EmptyRange DEF OnTrack, AsPlanned
<1>4. p \in Pushers => pc[Boot] = "idle" /\ proc # "boot"
  BY <1>1 DEF Busy, Projecting, Phases, BootLabels
<1>5. p = Boot => proc = "boot"
  BY DEF Phases
<1>6. OnTrack'
  BY <1>1, <1>2 DEF OnTrack, Busy, Projecting
<1>7. Landed'
  BY <1>0, <1>2, <1>3, <1>4, <1>1 DEF Landed, AsPlanned, Has
<1>8. Whole'
  <2>1. Whole' <=> (proc # "down" /\ pc'[Boot] \in {"idle", "load"}
                      /\ (\A q \in Pushers : ~Projecting(q)') => Matches(disk))
    BY DEF Whole, Projecting, Matches
  <2>2. proc # "down" => p = Boot \/ proc = "up"
    BY <1>4, Kinds DEF Phases
  <2>. QED BY <2>1, <2>2, <1>3
<1>9. Reading'
  <2>1. CASE p = Boot /\ unit # "proxy"
    BY <1>0, <2>1, Handled DEF Reading, W
  <2>2. CASE ~(p = Boot /\ unit # "proxy")
    BY <1>0, <2>2 DEF Reading
  <2>. QED BY <2>1, <2>2
<1>10. Newer'
  BY <1>1, <1>2 DEF Newer, Busy, Projecting
<1>11. Delivered'
  <2>1. SUFFICES ASSUME proc = "up", NEW f \in W \ Granted
                 PROVE  /\ Covers(disk[f], reported)
                        /\ \A q \in Pushers : pc'[q] = "signal" => Covers(disk[f], blob[q].leaf)
    BY <1>0 DEF Delivered, Covers
  <2>2. disk[f] = blob[p].leaf
    BY <1>3, <2>1 DEF AsPlanned, Has
  <2>3. Covers(disk[f], blob[p].leaf)
    BY <2>2, ProjectionAssumption DEF Covers
  <2>. QED BY <1>1, <2>1, <2>3 DEF Delivered
<1>12. Current'
  BY <1>0, <1>5 DEF Current
<1>. QED BY <1>6, <1>7, <1>8, <1>9, <1>10, <1>11, <1>12

(* The boot goes on without a leaf, seeds or is tested. *)
LEMMA CalmBoot ==
    ASSUME Shape, Shape', Calm, NothingToProject \/ Seed \/ TestConfig, Apart'
    PROVE  Calm'
<1>. USE Kinds DEF Calm, Shape, Typed, Goto, tmpfs, procs, ages, work
<1>0. Wanted' = Wanted /\ W' = W /\ W = Range(Wanted)
  BY SameUnit DEF NothingToProject, Seed, TestConfig, W
<1>1. /\ pc[Boot] \in {"leaf", "seed"} /\ proc = "boot" /\ unread = <<>>
      /\ \A q \in Pushers : ~Busy(q)
  BY DEF NothingToProject, Seed, TestConfig, Phases, Apart, Busy, Projecting
<1>2. /\ pc' \in [Projectors -> PusherLabels \cup BootLabels]
      /\ pc'[Boot] \in {"idle", "seed", "load"} /\ \A q \in Pushers : pc'[q] = pc[q]
      /\ blob' = blob /\ reported' = reported /\ leaf' = leaf /\ unit' = unit
  BY DEF NothingToProject, Seed, TestConfig
<1>3. OnTrack' /\ Delivered' /\ Current'
  <2>1. proc' # "up"
    BY <1>1 DEF NothingToProject, Seed, TestConfig, Halt
  <2>. QED BY <1>2, <2>1 DEF OnTrack, Delivered, Current
<1>4. Newer'
  <2>1. CASE NothingToProject
    <3>1. leaf = 0 /\ reported = 0 /\ \A q \in Projectors : blob[q].leaf = 0
      BY <2>1 DEF NothingToProject
    <3>. QED BY <1>2, <3>1 DEF Newer
  <2>2. CASE Seed \/ TestConfig
    <3>1. pc[Boot] = "seed"
      BY <2>2 DEF Seed, TestConfig
    <3>. QED BY <1>1, <1>2, <3>1 DEF Newer, Busy, Projecting
  <2>. QED BY <2>1, <2>2
<1>5. Landed'
  <2>1. CASE NothingToProject
    BY <2>1 DEF NothingToProject, Landed
  <2>2. CASE Seed
    <3>1. PICK S \in Seeds : Missing(S)
      BY <2>2 DEF Seed
    <3>2. S \subseteq W
      <4>1. CASE \E q \in Pairs : q[1] \in W /\ S = {q[1], q[2]}
        BY <4>1, Handled
      <4>2. CASE \E g \in W : S = {g}
        BY <4>2
      <4>. QED BY <3>1, <4>1, <4>2 DEF Seeds, W
    <3>3. unit = "proxy" /\ pc[Boot] = "seed"
      BY <2>2 DEF Seed, Phases
    <3>4. PICK f \in W : disk[f] = 0
      BY <3>1, <3>2 DEF Missing
    <3>5. f \notin Granted
      BY <3>3, Handled
    <3>6. blob[Boot].leaf = 0
      BY <3>3, <3>4, <3>5 DEF Landed, AsPlanned, Has
    <3>. QED BY <1>2, <3>3, <3>6 DEF Landed
  <2>3. CASE TestConfig
    BY <1>0, <2>3 DEF TestConfig, Landed, AsPlanned, Has
  <2>. QED BY <2>1, <2>2, <2>3
<1>6. Whole'
  BY <1>1 DEF Whole, NothingToProject, Seed, TestConfig, Matches, Halt
<1>7. Reading'
  BY <1>0, <1>1 DEF Reading, NothingToProject, Seed, TestConfig, Halt, Unloaded
<1>. QED BY <1>3, <1>4, <1>5, <1>6, <1>7

(* What is read is what is on the disk. *)
LEMMA CalmReadFile ==
    ASSUME Shape, Calm, ReadFile, Apart'
    PROVE  Calm'
<1>. USE Kinds DEF ReadFile, Calm, Shape, Typed, tmpfs, work, ages
<1>0. Wanted' = Wanted /\ W' = W
  BY SameUnit
<1>1. Reading'
  <2>1. /\ Head(unread) \in W /\ W \subseteq Files
        /\ \A f \in Range(unread) : f = Head(unread) \/ f \in Range(Tail(unread))
    BY FirstAndRest, Handled
  <2>. QED BY <1>0, <2>1 DEF Reading
<1>2. OnTrack'
  BY <1>0 DEF OnTrack, Has
<1>3. Landed'
  BY <1>0 DEF Landed, AsPlanned, Has
<1>4. Whole'
  BY DEF Whole, Projecting, Matches
<1>5. Newer' /\ Delivered' /\ Current'
  BY <1>0 DEF Newer, Delivered, Current
<1>. QED BY <1>1, <1>2, <1>3, <1>4, <1>5

(* What the last read completes is a whole set of files, which nginx takes. *)
LEMMA CalmLoaded ==
    ASSUME Shape, Calm, Loaded, Apart'
    PROVE  Calm'
<1>. USE Kinds DEF Calm, Shape, Typed, ages
<1>. DEFINE got == [fresh EXCEPT ![Head(unread)] = disk[Head(unread)]]
<1>0. Wanted' = Wanted /\ W' = W /\ W \subseteq Files
  BY SameUnit, Handled DEF Loaded
<1>1. /\ unread # <<>> /\ Tail(unread) = <<>> /\ unread' = <<>>
      /\ disk' = disk /\ blob' = blob /\ reported' = reported
      /\ pc' = [pc EXCEPT ![Boot] = "idle"]
  BY DEF Loaded, Goto, tmpfs
<1>2. /\ \A q \in Pushers : ~Busy(q) /\ pc'[q] = pc[q]
      /\ pc[Boot] \in {"idle", "load"} /\ proc # "down" /\ (proc = "boot" <=> pc[Boot] = "load")
      /\ pc'[Boot] = "idle"
  BY <1>1 DEF Apart, Phases
<1>3. Range(unread) = {Head(unread)} /\ Head(unread) \in W
  BY <1>1, FirstAndRest, EmptyRange
<1>4. \A f \in W : got[f] = disk[f]
  BY <1>0, <1>1, <1>3 DEF Reading
<1>5. Matches(disk)
  BY <1>2 DEF Whole, Busy
<1>6. Matches(got)
  <2>1. SUFFICES ASSUME NEW q \in Pairs PROVE got[q[1]] = got[q[2]]
    BY DEF Matches
  <2>2. q[1] \in Files /\ q[2] \in Files /\ (q[1] \in W <=> q[2] \in W)
    BY Handled
  <2>3. CASE q[1] \in W
    BY <1>4, <1>5, <2>2, <2>3 DEF Matches
  <2>4. CASE q[1] \notin W
    BY <1>3, <2>2, <2>4 DEF Blank
  <2>. QED BY <2>3, <2>4
<1>7. served' = got /\ proc' = "up"
  BY <1>6 DEF Loaded
<1>. HIDE DEF got
<1>8. OnTrack' /\ Landed' /\ Newer'
  BY <1>2 DEF OnTrack, Landed, Newer, Busy, Projecting
<1>9. Whole' /\ Reading'
  BY <1>1, <1>5, <1>6, <1>7 DEF Whole, Matches, Reading
<1>10. ASSUME NEW f \in W \ Granted
       PROVE  /\ Covers(disk[f], reported)
              /\ \A p \in Pushers : pc[p] = "signal" => Covers(disk[f], blob[p].leaf)
  <2>1. CASE proc = "up"
    BY <2>1 DEF Delivered
  <2>2. CASE proc = "boot"
    <3>1. /\ pc[Boot] = "load" /\ reported <= blob[Boot].leaf
          /\ \A p \in Pushers : pc[p] = "signal" => blob[p].leaf <= blob[Boot].leaf
      BY <1>2, <2>2 DEF Newer
    <3>2. CASE blob[Boot].leaf = 0
      BY <3>1, <3>2 DEF Covers
    <3>3. CASE blob[Boot].leaf # 0
      <4>1. disk[f] = blob[Boot].leaf
        BY <3>1, <3>3 DEF Landed, AsPlanned, Has
      <4>. QED BY <3>1, <4>1, ProjectionAssumption DEF Covers
    <3>. QED BY <3>2, <3>3
  <2>. QED BY <1>2, <2>1, <2>2 DEF Phases
<1>11. Delivered'
  BY <1>0, <1>1, <1>2, <1>10 DEF Delivered, Covers
<1>12. Current'
  BY <1>0, <1>1, <1>4, <1>7, <1>10 DEF Current, Covers
<1>. QED BY <1>8, <1>9, <1>11, <1>12

LEMMA CalmExit ==
    ASSUME Shape, Calm, Exit, Apart'
    PROVE  Calm'
<1>. USE Kinds DEF Exit, Calm, Shape, Typed, Halt, Unloaded, work
<1>1. pc[Boot] = "idle" /\ pc' = pc /\ proc' = "down" /\ unread' = <<>> /\ served' = None
  BY DEF Phases
<1>2. OnTrack' /\ Landed' /\ Whole' /\ Reading' /\ Delivered' /\ Current'
  BY <1>1 DEF OnTrack, Landed, Whole, Reading, Delivered, Current
<1>3. Newer'
  BY <1>1 DEF Newer
<1>. QED BY <1>2, <1>3

LEMMA CalmPush ==
    ASSUME Shape, Calm, NEW p \in Pushers, Push(p), Apart'
    PROVE  Calm'
<1>. USE Kinds DEF Push, Calm, Shape, Typed, Goto, Begin, tmpfs, procs
<1>0. Wanted' = Wanted /\ W' = W
  BY SameUnit
<1>1. /\ p \in Projectors /\ p # Boot /\ pc[p] = "idle" /\ pc'[p] \in {"idle", "secrets", "leaf"}
      /\ \A q \in Projectors : q # p => pc'[q] = pc[q]
  OBVIOUS
<1>2. OnTrack'
  BY <1>0, <1>1 DEF OnTrack, Has
<1>3. Landed'
  BY <1>0, <1>1 DEF Landed, AsPlanned, Has
<1>4. Whole'
  BY <1>1 DEF Whole, Projecting, Matches
<1>5. Reading' /\ Current'
  BY <1>0 DEF Reading, Current
<1>6. Newer'
  BY <1>1 DEF Newer
<1>7. Delivered'
  BY <1>0, <1>1 DEF Delivered
<1>. QED BY <1>2, <1>3, <1>4, <1>5, <1>6, <1>7

LEMMA CalmWrite ==
    ASSUME Shape, Calm, WriteSecrets \/ UNCHANGED vars, Apart'
    PROVE  Calm'
<1>. USE DEF WriteSecrets, vars, Calm, tmpfs, procs, work
<1>0. Wanted' = Wanted /\ W' = W
  BY SameUnit
<1>1. /\ pc' = pc /\ blob' = blob /\ todo' = todo /\ pending' = pending /\ disk' = disk
      /\ proc' = proc /\ unread' = unread /\ fresh' = fresh /\ served' = served
      /\ reported' = reported /\ unit' = unit
  OBVIOUS
<1>2. OnTrack' /\ Landed'
  BY <1>0, <1>1 DEF OnTrack, Landed, AsPlanned, Has
<1>3. Whole' /\ Reading' /\ Current'
  BY <1>0, <1>1 DEF Whole, Projecting, Reading, Matches, Current
<1>4. Newer' /\ Delivered'
  BY <1>0, <1>1 DEF Newer, Delivered
<1>. QED BY <1>2, <1>3, <1>4

(* A signal that meets a running process makes it read its files again; one that
   meets none is taken back.  What a finished push reports is on the disk by then. *)
LEMMA CalmSignalled ==
    ASSUME Shape, Calm, Apart', NEW pcs, pc' = pcs, pcs[Boot] = pc[Boot],
           \A q \in Pushers : pcs[q] = pc[q] \/ (pc[q] = "signal" /\ pcs[q] = "idle"),
           UNCHANGED <<disk, blob, todo, pending, proc, served, unit>>,
           \/ reported' = reported
           \/ \E p \in Pushers : pc[p] = "signal" /\ reported' = blob[p].leaf,
           \/ unread' = Wanted
           \/ proc # "up" /\ unread' = unread /\ fresh' = fresh
    PROVE  Calm'
<1>. USE Kinds DEF Calm, Shape, Typed
<1>0. Wanted' = Wanted /\ W' = W /\ W = Range(Wanted)
  BY SameUnit DEF W
<1>1. OnTrack'
  <2>1. \A q \in Projectors : pcs[q] = "stage" => pc[q] = "stage"
    OBVIOUS
  <2>2. \A q \in Projectors, f \in W : Has(q, f)' = Has(q, f)
    BY DEF Has
  <2>. QED BY <1>0, <2>1, <2>2 DEF OnTrack
<1>2. Landed'
  BY <1>0 DEF Landed, AsPlanned, Has
<1>3. Whole'
  BY DEF Whole, Projecting, Matches
<1>4. Reading'
  BY <1>0 DEF Reading
<1>5. Newer'
  <2>1. SUFFICES ASSUME NEW q \in Projectors, pc[q] \in {"stage", "seed", "load"}
                 PROVE  /\ reported' <= blob[q].leaf
                        /\ \A p \in Pushers : pc[p] = "signal" => blob[p].leaf <= blob[q].leaf
    BY DEF Newer
  <2>. QED BY <2>1 DEF Newer
<1>6. Delivered'
  <2>1. SUFFICES ASSUME proc = "up", NEW f \in W \ Granted
                 PROVE  /\ Covers(disk[f], reported')
                        /\ \A p \in Pushers : pc[p] = "signal" => Covers(disk[f], blob[p].leaf)
    BY <1>0 DEF Delivered, Covers
  <2>2. /\ Covers(disk[f], reported)
        /\ \A p \in Pushers : pc[p] = "signal" => Covers(disk[f], blob[p].leaf)
    BY <2>1 DEF Delivered
  <2>. QED BY <2>2
<1>7. Current'
  <2>1. CASE unread' = Wanted
    <3>1. Wanted = <<>> => W = {}
      BY <1>0, EmptyRange
    <3>. QED BY <1>0, <2>1, <3>1 DEF Current
  <2>2. CASE proc # "up"
    BY <2>2 DEF Current
  <2>. QED BY <2>1, <2>2
<1>. QED BY <1>1, <1>2, <1>3, <1>4, <1>5, <1>6, <1>7

LEMMA CalmSignal ==
    ASSUME Shape, Shape', Calm, clean = TRUE, NEW p \in Pushers, Signal(p), clean'
    PROVE  Calm'
<1>. DEFINE pcs == [pc EXCEPT ![p] = "idle"]
<1>1. /\ p \in Projectors /\ p # Boot
      /\ pcs \in [Projectors -> PusherLabels \cup BootLabels] /\ pcs[Boot] = pc[Boot]
      /\ \A q \in Pushers : pcs[q] = pc[q] \/ (pc[q] = "signal" /\ pcs[q] = "idle")
  BY Kinds DEF Shape, Typed, Signal, PusherLabels
<1>2. /\ pc[p] = "signal" /\ reported' = blob[p].leaf
      /\ unit' = unit /\ blob' = blob /\ todo' = todo /\ pending' = pending
      /\ SignalUnit(pcs) \/ (~Active /\ pc' = pcs /\ UNCHANGED <<procs, tmpfs>> /\ Undisturbed)
  BY DEF Signal
<1>. HIDE DEF pcs
<1>3. CASE RestartUnit(pcs)
  BY <1>1, <1>3, CalmStart DEF RestartUnit
<1>4. CASE ReloadUnit(pcs)
  BY <1>1, <1>2, <1>4, CalmSignalled DEF ReloadUnit, Undisturbed, Disturbed, tmpfs
<1>5. CASE ~Active /\ pc' = pcs /\ UNCHANGED <<procs, tmpfs>> /\ Undisturbed
  BY <1>1, <1>2, <1>5, CalmSignalled DEF Active, procs, tmpfs, Undisturbed
<1>. QED BY <1>2, <1>3, <1>4, <1>5 DEF SignalUnit

LEMMA CalmApply ==
    ASSUME Shape, Shape', clean => Calm, ApplySecrets, clean'
    PROVE  Calm'
<1>1. pc \in [Projectors -> PusherLabels \cup BootLabels]
  BY DEF Shape, Typed
<1>2. /\ unit' = unit /\ blob' = blob /\ todo' = todo /\ pending' = pending /\ reported' = reported
      /\ SignalUnit(pc) \/ StartUnit(pc)
  BY DEF ApplySecrets
<1>3. CASE RestartUnit(pc) \/ StartUnit(pc)
  BY <1>1, <1>3, CalmStart DEF RestartUnit
<1>4. CASE ReloadUnit(pc)
  BY <1>2, <1>4, CalmSignalled DEF ReloadUnit, Undisturbed, Disturbed, tmpfs
<1>. QED BY <1>2, <1>3, <1>4 DEF SignalUnit

(* Between starts, what holds while nothing overlaps is kept by every step. *)
LEMMA CalmNext ==
    ASSUME Shape, Shape', clean => Calm, [Next]_vars, clean'
    PROVE  Calm'
<1>1. ASSUME NEW p \in Projectors, Project(p) \/ ProjectFails(p) \/ ProjectKilled(p)
      PROVE  Calm'
  <2>1. ~(ProjectError(p) \/ ProjectFails(p) \/ ProjectKilled(p))
    BY DEF ProjectError, ProjectFails, ProjectKilled, GiveUp, Disturbed
  <2>2. ReadSecrets(p) \/ ReadLeaf(p) \/ Stage(p) \/ Commit(p) \/ EndProject(p)
    BY <1>1, <2>1 DEF Project
  <2>3. clean /\ Apart'
    BY <2>2 DEF ReadSecrets, ReadLeaf, Stage, Commit, EndProject, Undisturbed
  <2>. QED BY <2>2, <2>3, CalmReadSecrets, CalmReadLeaf, CalmStage, CalmCommit, CalmEndProject
<1>2. CASE Start
  BY <1>2, CalmStart DEF Start, Shape, Typed
<1>3. CASE NothingToProject \/ Seed \/ TestConfig \/ ReadFile \/ Loaded \/ Exit
  <2>1. clean /\ Apart'
    BY <1>3 DEF NothingToProject, Seed, TestConfig, ReadFile, Loaded, Exit, Undisturbed
  <2>. QED BY <1>3, <2>1, CalmBoot, CalmReadFile, CalmLoaded, CalmExit
<1>4. CASE Reboot
  BY <1>4 DEF Reboot, Disturbed
<1>5. ASSUME NEW p \in Pushers, Push(p)
      PROVE  Calm'
  BY <1>5, CalmPush DEF Push, Undisturbed
<1>6. ASSUME NEW p \in Pushers, Signal(p)
      PROVE  Calm'
  <2>1. CASE clean = TRUE
    BY <1>6, <2>1, CalmSignal
  <2>2. CASE clean = FALSE
    <3>. DEFINE pcs == [pc EXCEPT ![p] = "idle"]
    <3>1. pcs \in [Projectors -> PusherLabels \cup BootLabels]
      BY Kinds DEF Shape, Typed, PusherLabels
    <3>2. StartUnit(pcs)
      BY <1>6, <2>2 DEF Signal, SignalUnit, RestartUnit, ReloadUnit, Undisturbed, Disturbed
    <3>. QED BY <3>1, <3>2, CalmStart
  <2>. QED BY <2>1, <2>2 DEF Shape, Typed
<1>7. CASE WriteSecrets
  BY <1>7, CalmWrite DEF WriteSecrets, Undisturbed
<1>8. CASE ApplySecrets
  BY <1>8, CalmApply
<1>9. CASE UNCHANGED vars
  <2>1. clean /\ Apart'
    BY <1>9 DEF vars, procs, work, Calm, Apart, Busy, Projecting
  <2>. QED BY <1>9, <2>1, CalmWrite
<1>. QED BY <1>1, <1>2, <1>3, <1>4, <1>5, <1>6, <1>7, <1>8, <1>9 DEF Next, UnitStep

LEMMA InvInit == Init => Inv
<1>. SUFFICES ASSUME Init PROVE Inv
  OBVIOUS
<1>1. Shape
  BY ShapeInit
<1>2. /\ \A q \in Projectors : pc[q] = "idle" /\ ~Busy(q)
      /\ proc = "down" /\ unread = <<>> /\ served = None
  BY Kinds DEF Init, Busy, Projecting
<1>3. OnTrack /\ Landed /\ Whole /\ Reading /\ Newer /\ Delivered /\ Current
  BY <1>2, Kinds DEF OnTrack, Landed, Whole, Reading, Newer, Delivered, Current
<1>4. Apart
  BY <1>2, Kinds DEF Apart
<1>. QED BY <1>1, <1>3, <1>4 DEF Inv, Calm

LEMMA InvNext == Inv /\ [Next]_vars => Inv'
<1>. SUFFICES ASSUME Inv, [Next]_vars PROVE Inv'
  OBVIOUS
<1>1. Shape'
  BY ShapeNext DEF Inv
<1>2. clean' => Calm'
  BY <1>1, CalmNext DEF Inv
<1>. QED BY <1>1, <1>2 DEF Inv

(* What is on the disk and what is served, for any number of pushers, files and
   pairs, at every step (project.go, sshpush.go, meshnginx/install.go). *)
THEOREM ProjectionInvariance == Spec => []Inv
<1>. QED BY InvInit, InvNext, PTL DEF Spec

(* What a push reported as delivered is what the process serves, or newer. *)
THEOREM ReportedIsServedAlways == Spec => []ReportedIsServed
<1>1. Inv => ReportedIsServed
  BY DEF Inv, Calm, Current, Covers, ReportedIsServed, W
<1>. QED BY <1>1, ProjectionInvariance, PTL

(* A start that nothing overlaps leaves every file as leaf.age and secrets.age
   have it, whatever it found. *)
THEOREM BootRepairsAlways == Spec => []BootRepairs
<1>1. Inv => BootRepairs
  BY DEF Inv, Calm, Landed, AsPlanned, BootRepairs, W
<1>. QED BY <1>1, ProjectionInvariance, PTL
=============================================================================
