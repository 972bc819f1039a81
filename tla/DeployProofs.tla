---------------------------- MODULE DeployProofs ----------------------------
(***************************************************************************)
(* What holds of Deploy for any hosts, services and versions of the        *)
(* sources, with any number of failures and reboots, as long as nothing    *)
(* the sources leave comes back (NothingReturns).                          *)
(*                                                                         *)
(* The record of a command is that of some version deployed so far.  Where *)
(* it is what the present version asks for, the host has what the command  *)
(* makes; a command that fails half-way leaves a record of an earlier      *)
(* version, which none to come can match.                                  *)
(***************************************************************************)
EXTENDS Deploy, TLAPS

Past == {Designs[i] : i \in 1..design}
Ahead == {Designs[i] : i \in design..Len(Designs)}

(* What a field or a record may hold. *)
Maps == {MeshOf(Designs[i], h) : i \in DOMAIN Designs, h \in Hosts}
Units == {0} \cup UNION {{Designs[i].svc[s].unit : s \in DOMAIN Designs[i].svc} : i \in DOMAIN Designs}
Agents == {0} \cup {Designs[i].agent : i \in DOMAIN Designs}
Bodies == UNION {{Designs[i].svc[s].body : s \in DOMAIN Designs[i].svc} : i \in DOMAIN Designs}
Contents == UNION {{ContentOf(Designs[i], s) : s \in DOMAIN Designs[i].svc} : i \in DOMAIN Designs}
Runs == [agent : Agents, unit : Units, descr : Contents, age : Bodies \cup {None}]

HostStates == [agent : Agents, seed : SUBSET Services, config : Maps \cup {None}, loaded : Maps \cup {None},
               certs : SUBSET Services, leaf : SUBSET Services]
ServiceStates == [unit : Units, enabled : BOOLEAN, descr : Contents \cup {None}, age : Bodies \cup {None},
                  up : {"down", "looping", "running"}, run : Runs \cup {None}]
Deliveries == [trigger : Bodies \cup {None}, script : Contents, rm : BOOLEAN]

Typed ==
    /\ design \in DOMAIN Designs
    /\ host \in [Hosts -> HostStates] /\ svc \in [Services -> ServiceStates]
    /\ released \subseteq Services /\ fails \in Nat
    /\ rec = [r \in Commands |-> rec[r]]

(* A record is that of a version deployed so far. *)
RecordedAt(h) ==
    /\ rec[<<"gate", h>>] \in {None, TRUE}
    /\ rec[<<"unit", h>>] \in {None} \cup {EgressOf(d, h) : d \in Past}
    /\ \A c \in {"config", "reload"} :
          rec[<<c, h>>] \in {None} \cup {MeshOf(d, h) : d \in {x \in Past : EgressOf(x, h) # {}}}
RecordedOf(s) ==
    /\ rec[<<"provision", s>>] \in {None} \cup {BinariesOf(d, s) : d \in {x \in Past : s \in DOMAIN x.svc}}
    /\ rec[<<"secrets", s>>] \in {None} \cup Deliveries
    /\ rec[<<"secrets", s>>] # None /\ rec[<<"secrets", s>>].trigger # None =>
          \E d \in Past : /\ s \in DOMAIN d.svc
                          /\ d.svc[s].secret /\ d.svc[s].body = rec[<<"secrets", s>>].trigger

(* What is left to do is what differs. *)
Pending ==
    /\ todo \subseteq Graph /\ failed \subseteq todo
    /\ outcome = "running" => \A r \in Graph : r \in todo <=> Differs(r)
    /\ outcome # "running" => todo = {}
    /\ outcome = "green" => \A r \in Graph : ~Differs(r)

(* The seed script of a recorded unit names every service of the host. *)
Seeded(h) ==
    \A d \in Ahead : rec[<<"unit", h>>] = EgressOf(d, h) => EgressOf(d, h) \subseteq host[h].seed

(* A recorded configuration is there, with a certificate for every service it
   names; a recorded reload has loaded it, and any later start does. *)
Wired(h) ==
    Egress(h) # {} =>
        /\ rec[<<"config", h>>] = Mesh(h) => host[h].config = Mesh(h) /\ Egress(h) \subseteq host[h].seed
        /\ rec[<<"reload", h>>] = Mesh(h) =>
              host[h].loaded = Mesh(h) /\ host[h].config = Mesh(h) /\ Egress(h) \subseteq host[h].seed

(* A service that has its unit, and the descriptor and the secrets of content w. *)
Supplied(v, w) ==
    /\ v.descr = w /\ w.secret /\ v.age = w.body
    /\ v.enabled /\ v.unit # 0
RunsOn(v, w) == v.up = "running" /\ v.run.descr = w /\ v.run.age = w.body

(* A recorded provision has installed the unit; a recorded delivery of secrets is
   there, and a released service that does not reload runs on it. *)
SetUp(s) ==
    s \in Members =>
        /\ rec[<<"provision", s>>] = BinariesOf(Plan, s) => svc[s].enabled /\ svc[s].unit = Plan.svc[s].unit
        /\ Plan.svc[s].secret /\ rec[<<"secrets", s>>] # None /\ rec[<<"secrets", s>>].trigger = Plan.svc[s].body =>
              /\ rec[<<"secrets", s>>].script = Content(s) /\ ~rec[<<"secrets", s>>].rm
              /\ Supplied(svc[s], Content(s))
              /\ s \in released \ Reloading => RunsOn(svc[s], Content(s))

(* Without its unit a service has nothing; while nothing failed, what runs was
   started from the unit that is installed. *)
Tidy(v, n) ==
    /\ v.unit = 0 => v.descr = None /\ v.age = None /\ v.up = "down" /\ ~v.enabled
    /\ n = 0 /\ v.up = "running" => v.run.unit = v.unit

Inv ==
    /\ Typed /\ Pending
    /\ \A h \in Hosts : RecordedAt(h) /\ Seeded(h) /\ Wired(h)
    /\ \A s \in Services : RecordedOf(s) /\ SetUp(s) /\ Tidy(svc[s], fails)

-----------------------------------------------------------------------------
(* The present version of the sources.                                       *)

LEMMA Present ==
    ASSUME design \in DOMAIN Designs
    PROVE  /\ Plan \in Past /\ Plan \in Ahead
           /\ \A d \in Past \cup Ahead : \E i \in DOMAIN Designs : d = Designs[i]
<1>1. Designs \in Seq({Designs[i] : i \in DOMAIN Designs})
  BY DesignsAssumption
<1>2. /\ Len(Designs) \in Nat /\ DOMAIN Designs = 1..Len(Designs)
      /\ design \in Nat /\ 1 <= design /\ design <= Len(Designs)
  BY <1>1
<1>. QED BY <1>2 DEF Plan, Past, Ahead

(* What a version holds is of the sort the state holds. *)
LEMMA SortsOf ==
    ASSUME NEW i \in DOMAIN Designs
    PROVE  /\ DOMAIN Designs[i].svc \subseteq Services /\ Designs[i].agent \in Agents
           /\ \A h \in Hosts : /\ EgressOf(Designs[i], h) \subseteq DOMAIN Designs[i].svc
                               /\ EgressOf(Designs[i], h) # None
                               /\ MeshOf(Designs[i], h) # None /\ MeshOf(Designs[i], h) \in Maps
                               /\ DOMAIN MeshOf(Designs[i], h) = EgressOf(Designs[i], h)
           /\ \A s \in DOMAIN Designs[i].svc :
                 /\ Designs[i].svc[s].unit \in Units \ {0} /\ Designs[i].svc[s].secret \in BOOLEAN
                 /\ Designs[i].svc[s].body \in Bodies \ {None}
                 /\ ContentOf(Designs[i], s) \in Contents \ {None}
                 /\ ContentOf(Designs[i], s).secret = Designs[i].svc[s].secret
                 /\ ContentOf(Designs[i], s).body = Designs[i].svc[s].body
                 /\ DeliveryOf(Designs[i], s) \in Deliveries
                 /\ BinariesOf(Designs[i], s) # None
<1>. DEFINE d == Designs[i]
<1>1. DOMAIN d.svc \subseteq Services /\ d.agent \in Agents
  BY DesignsAssumption DEF Agents
<1>2. ASSUME NEW h \in Hosts
      PROVE  /\ EgressOf(d, h) \subseteq DOMAIN d.svc /\ EgressOf(d, h) # None
             /\ MeshOf(d, h) # None /\ MeshOf(d, h) \in Maps
             /\ DOMAIN MeshOf(d, h) = EgressOf(d, h)
  <2>1. EgressOf(d, h) # None /\ MeshOf(d, h) # None
    BY NoneAssumption
  <2>2. MeshOf(d, h) \in Maps
    BY DEF Maps
  <2>3. EgressOf(d, h) \subseteq DOMAIN d.svc
    BY DEF EgressOf
  <2>4. DOMAIN MeshOf(d, h) = EgressOf(d, h)
    BY DEF MeshOf
  <2>. QED BY <2>1, <2>2, <2>3, <2>4
<1>3. ASSUME NEW s \in DOMAIN d.svc
      PROVE  /\ d.svc[s].unit \in Units \ {0} /\ d.svc[s].secret \in BOOLEAN
             /\ d.svc[s].body \in Bodies \ {None}
             /\ ContentOf(d, s) \in Contents \ {None}
             /\ ContentOf(d, s).secret = d.svc[s].secret /\ ContentOf(d, s).body = d.svc[s].body
             /\ DeliveryOf(d, s) \in Deliveries
             /\ BinariesOf(d, s) # None
  <2>1. /\ d.svc[s].unit # 0 /\ d.svc[s].secret \in BOOLEAN
        /\ None \notin {d.svc[s].body, BinariesOf(d, s), ContentOf(d, s)}
    BY NoneAssumption
  <2>2. d.svc[s].unit \in Units
    BY DEF Units
  <2>3. d.svc[s].body \in Bodies
    BY DEF Bodies
  <2>4. ContentOf(d, s) \in Contents
    BY DEF Contents
  <2>5. ContentOf(d, s).secret = d.svc[s].secret /\ ContentOf(d, s).body = d.svc[s].body
    BY DEF ContentOf
  <2>6. DeliveryOf(d, s) \in Deliveries
    BY <2>3, <2>4 DEF DeliveryOf, Deliveries
  <2>. QED BY <2>1, <2>2, <2>3, <2>4, <2>5, <2>6
<1>. QED BY <1>1, <1>2, <1>3

LEMMA NoDelivery ==
    None \notin Deliveries
<1>1. SUFFICES ASSUME None \in Deliveries PROVE FALSE
  OBVIOUS
<1>2. PICK t \in Bodies \cup {None}, c \in Contents, b \in BOOLEAN : None = [trigger |-> t, script |-> c, rm |-> b]
  BY <1>1 DEF Deliveries
<1>3. PICK i \in DOMAIN Designs : \E s \in DOMAIN Designs[i].svc : c = ContentOf(Designs[i], s)
  BY DEF Contents
<1>4. PICK s \in DOMAIN Designs[i].svc : c = ContentOf(Designs[i], s)
  BY <1>3
<1>5. None \notin [trigger : Bodies \cup {None}, script : {ContentOf(Designs[i], s)}, rm : BOOLEAN]
  BY NoneAssumption DEF Bodies
<1>. QED BY <1>2, <1>4, <1>5

LEMMA Sorts ==
    ASSUME design \in DOMAIN Designs
    PROVE  /\ Members \subseteq Services /\ Plan.agent \in Agents
           /\ \A h \in Hosts : /\ Egress(h) \subseteq Members /\ Egress(h) # None
                               /\ Mesh(h) # None /\ Mesh(h) \in Maps /\ DOMAIN Mesh(h) = Egress(h)
           /\ \A s \in Members :
                 /\ Plan.svc[s].unit \in Units \ {0} /\ Plan.svc[s].secret \in BOOLEAN
                 /\ Plan.svc[s].body \in Bodies \ {None}
                 /\ Content(s) \in Contents \ {None}
                 /\ Content(s).secret = Plan.svc[s].secret /\ Content(s).body = Plan.svc[s].body
                 /\ DeliveryOf(Plan, s) \in Deliveries
                 /\ BinariesOf(Plan, s) # None
  BY SortsOf DEF Members, Plan, Egress, Mesh, Content

(* Which commands there are, what they depend on and what is recorded of them. *)
LEMMA Commanding ==
    ASSUME design \in DOMAIN Designs
    PROVE  /\ Graph \subseteq Commands
           /\ \A h \in Hosts :
                 /\ \A c \in HostCommands : <<c, h>> \in Commands
                 /\ <<"gate", h>> \in Graph
                 /\ \A c \in {"unit", "config", "reload"} : <<c, h>> \in Graph <=> Egress(h) # {}
           /\ \A s \in Services : \A c \in ServiceCommands :
                 <<c, s>> \in Commands /\ (<<c, s>> \in Graph <=> s \in Members)
  BY Sorts DEF Graph, Commands, HostCommands, ServiceCommands

LEMMA HostInputs ==
    ASSUME NEW h
    PROVE  /\ Input(<<"unit", h>>) = Egress(h)
           /\ Input(<<"config", h>>) = Mesh(h) /\ Input(<<"reload", h>>) = Mesh(h)
           /\ Input(<<"gate", h>>) = TRUE
           /\ DependsOn(<<"config", h>>) = {<<"unit", h>>}
           /\ DependsOn(<<"reload", h>>) = {<<"config", h>>}
  BY DEF Input, DependsOn

LEMMA ServiceInputs ==
    ASSUME NEW s
    PROVE  /\ Input(<<"provision", s>>) = BinariesOf(Plan, s)
           /\ Reloads(HostOf[s]) \subseteq DependsOn(<<"provision", s>>)
           /\ <<"provision", s>> \in DependsOn(<<"secrets", s>>)
           /\ Plan.svc[s].secret => Reloads(HostOf[s]) \subseteq DependsOn(<<"secrets", s>>)
  BY DEF Input, DependsOn

-----------------------------------------------------------------------------
(* What nothing to come can match.                                           *)

(* A map of an earlier version that comes (or came) again is the present one. *)
LEMMA MapsStay ==
    ASSUME NothingReturns, design \in DOMAIN Designs, NEW h \in Hosts, NEW c \in Past, NEW e \in Ahead,
           EgressOf(c, h) # {}, MeshOf(c, h) = MeshOf(e, h)
    PROVE  Mesh(h) = MeshOf(e, h)
<1>1. Len(Designs) \in Nat /\ DOMAIN Designs = 1..Len(Designs)
  BY DesignsAssumption
<1>2. PICK i \in 1..design : c = Designs[i]
  BY DEF Past
<1>3. PICK j \in design..Len(Designs) : e = Designs[j]
  BY DEF Ahead
<1>4. i \in DOMAIN Designs /\ j \in DOMAIN Designs /\ design \in i..j
  BY <1>1
<1>. QED BY <1>2, <1>3, <1>4 DEF NothingReturns, Mesh, Plan

LEMMA ServicesStay ==
    ASSUME NothingReturns, design \in DOMAIN Designs, NEW c \in Past, NEW e \in Ahead,
           NEW s \in DOMAIN c.svc \cap DOMAIN e.svc
    PROVE  /\ s \in Members
           /\ BinariesOf(c, s) = BinariesOf(e, s) => BinariesOf(Plan, s) = BinariesOf(e, s)
           /\ ContentOf(c, s) = ContentOf(e, s) => Content(s) = ContentOf(e, s)
<1>1. Len(Designs) \in Nat /\ DOMAIN Designs = 1..Len(Designs)
  BY DesignsAssumption
<1>2. PICK i \in 1..design : c = Designs[i]
  BY DEF Past
<1>3. PICK j \in design..Len(Designs) : e = Designs[j]
  BY DEF Ahead
<1>4. i \in DOMAIN Designs /\ j \in DOMAIN Designs /\ design \in i..j
  BY <1>1
<1>5. s \in DOMAIN Designs[design].svc
  BY <1>2, <1>3, <1>4 DEF NothingReturns
<1>6. BinariesOf(c, s) = BinariesOf(e, s) => BinariesOf(Designs[design], s) = BinariesOf(c, s)
  BY <1>2, <1>3, <1>4 DEF NothingReturns
<1>7. ContentOf(c, s) = ContentOf(e, s) => ContentOf(Designs[design], s) = ContentOf(c, s)
  BY <1>2, <1>3, <1>4 DEF NothingReturns
<1>. QED BY <1>5, <1>6, <1>7 DEF Members, Content, Plan

(* A set of services of an earlier version that comes again lies within the
   present one: no service rejoins. *)
LEMMA EgressStays ==
    ASSUME NothingReturns, design \in DOMAIN Designs, NEW h \in Hosts, NEW c \in Past, NEW e \in Ahead,
           EgressOf(c, h) = EgressOf(e, h)
    PROVE  EgressOf(e, h) \subseteq Egress(h)
<1>1. SUFFICES ASSUME NEW s \in EgressOf(e, h) PROVE s \in Egress(h)
  OBVIOUS
<1>2. s \in DOMAIN c.svc \cap DOMAIN e.svc /\ HostOf[s] = h
  BY <1>1 DEF EgressOf
<1>3. s \in Members
  BY <1>2, ServicesStay
<1>. QED BY <1>2, <1>3 DEF Egress, EgressOf, Members

-----------------------------------------------------------------------------
(* systemd.                                                                  *)

LEMMA RestartedIs ==
    ASSUME NEW v \in ServiceStates, NEW a \in Agents, NEW code
    PROVE  LET w == Restarted(v, a, code) IN
           /\ w \in ServiceStates
           /\ w.unit = v.unit /\ w.enabled = v.enabled /\ w.descr = v.descr /\ w.age = v.age
           /\ ~code => w.up = "down"
           /\ w.up = "running" => w.run.unit = v.unit
           /\ code /\ Startable(v) => w.up = "running" /\ w.run.descr = v.descr /\ w.run.age = v.age
<1>. DEFINE run == [agent |-> a, unit |-> v.unit, descr |-> v.descr, age |-> v.age]
            W(x, r) == [v EXCEPT !.up = x, !.run = r]
<1>1. /\ v.unit \in Units /\ v.enabled \in BOOLEAN /\ v.descr \in Contents \cup {None}
      /\ v.age \in Bodies \cup {None} /\ v.run \in Runs \cup {None}
  BY DEF ServiceStates
<1>2. \A x \in {"down", "looping", "running"}, r \in Runs \cup {None} :
        /\ W(x, r) \in ServiceStates /\ W(x, r).up = x /\ W(x, r).run = r
        /\ W(x, r).unit = v.unit /\ W(x, r).enabled = v.enabled
        /\ W(x, r).descr = v.descr /\ W(x, r).age = v.age
  BY DEF ServiceStates
<1>3. Startable(v) => run \in Runs
  BY <1>1 DEF Startable, Runs
<1>4. CASE ~code
  BY <1>2, <1>4 DEF Restarted
<1>5. CASE code /\ ~Startable(v)
  BY <1>2, <1>5 DEF Restarted
<1>6. CASE code /\ Startable(v)
  <2>1. Restarted(v, a, code) = W("running", run)
    BY <1>6 DEF Restarted
  <2>2. run \in Runs
    BY <1>3, <1>6
  <2>3. run.unit = v.unit /\ run.descr = v.descr /\ run.age = v.age
    OBVIOUS
  <2>. HIDE DEF run, W
  <2>4. /\ W("running", run) \in ServiceStates /\ W("running", run).up = "running"
        /\ W("running", run).run = run
        /\ W("running", run).unit = v.unit /\ W("running", run).enabled = v.enabled
        /\ W("running", run).descr = v.descr /\ W("running", run).age = v.age
    BY <1>2, <2>2
  <2>. QED BY <1>6, <2>1, <2>3, <2>4
<1>. QED BY <1>4, <1>5, <1>6

(* A supplied service stays supplied when it restarts, and then runs on it. *)
LEMMA RestartedRuns ==
    ASSUME NEW v \in ServiceStates, NEW a \in Agents, NEW code, NEW w \in Contents \ {None}, Supplied(v, w)
    PROVE  Supplied(Restarted(v, a, code), w) /\ (code => RunsOn(Restarted(v, a, code), w))
<1>1. Startable(v)
  BY DEF Startable, Supplied
<1>. QED BY <1>1, RestartedIs DEF Supplied, RunsOn

(* What may restart a service leaves it tidy. *)
LEMMA RestartedTidy ==
    ASSUME NEW v \in ServiceStates, NEW a \in Agents, NEW code, NEW n, Tidy(v, n), v.unit # 0 \/ ~code
    PROVE  Tidy(Restarted(v, a, code), n)
  BY RestartedIs DEF Tidy

-----------------------------------------------------------------------------
(* The engine's account of what is left to do.                               *)

(* Whether a command differs is between its record and the version. *)
LEMMA DiffersFrames ==
    ASSUME NEW r \in Graph, UNCHANGED design, rec'[r] = rec[r]
    PROVE  Differs(r)' <=> Differs(r)
<1>1. CASE r[1] = "secrets"
  <2>1. r = <<"secrets", r[2]>>
    BY <1>1 DEF Graph, ServiceCommands
  <2>2. rec'[<<"secrets", r[2]>>] = rec[<<"secrets", r[2]>>]
    BY <2>1
  <2>. QED BY <1>1, <2>2 DEF Differs, Delivery, Replaced, Content, Plan
<1>2. CASE r[1] # "secrets"
  BY <1>2 DEF Differs, Input, Plan, Egress, Mesh
<1>. QED BY <1>1, <1>2

LEMMA GraphFrames ==
    ASSUME UNCHANGED design
    PROVE  Graph' = Graph
  BY DEF Graph, Members, Egress, Plan

(* A command that succeeds leaves the list, its record now what is asked for. *)
LEMMA SucceedsPending ==
    ASSUME Typed, Pending, NEW r \in Graph, NEW x, Ready(r), Succeeds(r, x), Deployed, ~Differs(r)'
    PROVE  Pending'
<1>1. r \in Commands
  BY Commanding DEF Typed
<1>2. \A q \in Graph : q # r => rec'[q] = rec[q]
  BY <1>1, Commanding DEF Succeeds, Typed
<1>3. Graph' = Graph
  BY GraphFrames DEF Deployed
<1>4. \A q \in Graph : q # r => (Differs(q)' <=> Differs(q))
  BY <1>2, DiffersFrames DEF Deployed
<1>5. outcome = "running" /\ UNCHANGED outcome /\ todo' = todo \ {r} /\ UNCHANGED failed /\ r \notin failed
  BY DEF Ready, Deployed, Succeeds
<1>6. todo' \subseteq Graph' /\ failed' \subseteq todo'
  BY <1>3, <1>5 DEF Pending
<1>7. \A q \in Graph' : q \in todo' <=> Differs(q)'
  BY <1>3, <1>4, <1>5 DEF Pending
<1>. QED BY <1>5, <1>6, <1>7 DEF Pending

(* A command that fails stays on it. *)
LEMMA RefusedPending ==
    ASSUME Typed, Pending, NEW r \in Graph, NEW x, Ready(r), Refused(r, x), Deployed, Differs(r)'
    PROVE  Pending'
<1>1. r \in Commands
  BY Commanding DEF Typed
<1>2. \A q \in Graph : q # r => rec'[q] = rec[q]
  BY <1>1, Commanding DEF Refused, Typed
<1>3. Graph' = Graph
  BY GraphFrames DEF Deployed
<1>4. \A q \in Graph : q # r => (Differs(q)' <=> Differs(q))
  BY <1>2, DiffersFrames DEF Deployed
<1>5. outcome = "running" /\ UNCHANGED outcome /\ UNCHANGED todo /\ failed' = failed \cup {r} /\ r \in todo
  BY DEF Ready, Deployed, Refused
<1>6. todo' \subseteq Graph' /\ failed' \subseteq todo'
  BY <1>3, <1>5 DEF Pending
<1>7. \A q \in Graph' : q \in todo' <=> Differs(q)'
  BY <1>3, <1>4, <1>5 DEF Pending
<1>. QED BY <1>5, <1>6, <1>7 DEF Pending

(* What happens beside the commands. *)
LEMMA PendingFrames ==
    ASSUME Pending, UNCHANGED <<design, outcome, todo, failed, rec>>
    PROVE  Pending'
<1>1. Graph' = Graph
  BY GraphFrames
<1>2. \A q \in Graph : Differs(q)' <=> Differs(q)
  BY DiffersFrames
<1>. QED BY <1>1, <1>2 DEF Pending

-----------------------------------------------------------------------------
(* What leaves a host, or a service, as it was.                              *)

(* A proxy that has loaded a configuration it could start on stays on it. *)
LEMMA HostFrames ==
    ASSUME Typed, NEW h \in Hosts, UNCHANGED design,
           \A c \in HostCommands : rec'[<<c, h>>] = rec[<<c, h>>],
           RecordedAt(h), Seeded(h), Wired(h),
           host'[h].seed = host[h].seed, host'[h].config = host[h].config,
           (/\ host[h].config # None /\ DOMAIN host[h].config \subseteq host[h].seed
            /\ host[h].loaded = host[h].config)
               => host'[h].loaded = host[h].config
    PROVE  (RecordedAt(h) /\ Seeded(h) /\ Wired(h))'
<1>1. UNCHANGED <<Past, Ahead, Plan>>
  BY DEF Past, Ahead, Plan
<1>2. /\ rec'[<<"gate", h>>] = rec[<<"gate", h>>] /\ rec'[<<"unit", h>>] = rec[<<"unit", h>>]
      /\ \A c \in {"config", "reload"} : rec'[<<c, h>>] = rec[<<c, h>>]
  BY DEF HostCommands
<1>3. RecordedAt(h)'
  BY <1>1, <1>2 DEF RecordedAt
<1>4. Seeded(h)'
  BY <1>1, <1>2 DEF Seeded
<1>5. Egress(h)' = Egress(h) /\ Mesh(h)' = Mesh(h)
  BY <1>1 DEF Egress, Mesh
<1>6. Mesh(h) # None /\ DOMAIN Mesh(h) = Egress(h)
  BY Sorts DEF Typed
<1>7. Wired(h)'
  BY <1>2, <1>5, <1>6 DEF Wired
<1>. QED BY <1>3, <1>4, <1>7

LEMMA ServiceFrames ==
    ASSUME NEW s \in Services, UNCHANGED design,
           \A c \in ServiceCommands : rec'[<<c, s>>] = rec[<<c, s>>],
           RecordedOf(s), SetUp(s), Tidy(svc[s], fails),
           svc'[s] = svc[s], s \in released' => s \in released, fails' = 0 => fails = 0
    PROVE  (RecordedOf(s) /\ SetUp(s) /\ Tidy(svc[s], fails))'
<1>1. UNCHANGED <<Past, Plan>>
  BY DEF Past, Plan
<1>2. rec'[<<"provision", s>>] = rec[<<"provision", s>>] /\ rec'[<<"secrets", s>>] = rec[<<"secrets", s>>]
  BY DEF ServiceCommands
<1>3. RecordedOf(s)'
  BY <1>1, <1>2 DEF RecordedOf
<1>4. SetUp(s)'
  BY <1>1, <1>2 DEF SetUp, Members, Content
<1>5. Tidy(svc[s], fails)'
  BY DEF Tidy
<1>. QED BY <1>3, <1>4, <1>5

(* So does a restart, of a service that has its unit. *)
LEMMA ServiceRestarts ==
    ASSUME Typed, NEW s \in Services, UNCHANGED <<design, rec, fails>>,
           RecordedOf(s), SetUp(s), Tidy(svc[s], fails),
           NEW a \in Agents, NEW code, svc'[s] = Restarted(svc[s], a, code),
           svc[s].enabled /\ s \in released' => code, svc[s].unit # 0 \/ ~code
    PROVE  svc'[s] \in ServiceStates /\ (RecordedOf(s) /\ SetUp(s) /\ Tidy(svc[s], fails))'
<1>1. UNCHANGED <<Past, Plan>>
  BY DEF Past, Plan
<1>2. svc[s] \in ServiceStates
  BY DEF Typed
<1>3. svc'[s] \in ServiceStates /\ svc'[s].unit = svc[s].unit /\ svc'[s].enabled = svc[s].enabled
  <2>1. ASSUME NEW v \in ServiceStates
        PROVE  /\ Restarted(v, a, code) \in ServiceStates
               /\ Restarted(v, a, code).unit = v.unit /\ Restarted(v, a, code).enabled = v.enabled
    BY RestartedIs
  <2>. QED BY <1>2, <2>1
<1>4. RecordedOf(s)'
  BY <1>1 DEF RecordedOf
<1>5. Tidy(svc[s], fails)'
  BY <1>2, RestartedTidy
<1>6. ASSUME s \in Members, Supplied(svc[s], Content(s))
      PROVE  Supplied(svc'[s], Content(s)) /\ (s \in released' => RunsOn(svc'[s], Content(s)))
  <2>1. Content(s) \in Contents \ {None}
    BY <1>6, Sorts DEF Typed
  <2>2. svc[s].enabled
    BY <1>6 DEF Supplied
  <2>. QED BY <1>2, <1>6, <2>1, <2>2, RestartedRuns
<1>7. SetUp(s)'
  BY <1>1, <1>3, <1>6 DEF SetUp, Members, Content
<1>. QED BY <1>3, <1>4, <1>5, <1>7

(* Typed, with one host or one service changed. *)
LEMMA HostTyped ==
    ASSUME Typed, NEW h \in Hosts, NEW x \in HostStates, host' = [host EXCEPT ![h] = x]
    PROVE  /\ host' \in [Hosts -> HostStates] /\ host'[h] = x
           /\ \A g \in Hosts : g # h => host'[g] = host[g]
  BY DEF Typed

LEMMA ServiceTyped ==
    ASSUME Typed, NEW s \in Services, NEW v \in ServiceStates, svc' = [svc EXCEPT ![s] = v]
    PROVE  /\ svc' \in [Services -> ServiceStates] /\ svc'[s] = v
           /\ \A t \in Services : t # s => svc'[t] = svc[t]
  BY DEF Typed

LEMMA RecordTyped ==
    ASSUME Typed, NEW r \in Commands, NEW x, rec' = [rec EXCEPT ![r] = x]
    PROVE  /\ rec' = [q \in Commands |-> rec'[q]] /\ rec'[r] = x
           /\ \A q \in Commands : q # r => rec'[q] = rec[q]
<1>1. DOMAIN rec = Commands
  BY DEF Typed
<1>2. DOMAIN rec' = Commands
  BY <1>1
<1>. QED BY <1>1, <1>2

(* A command that is ready has to run; what it waited for is done. *)
LEMMA ReadyIs ==
    ASSUME Typed, Pending, NEW r, Ready(r)
    PROVE  /\ r \in Graph /\ r \in Commands /\ Differs(r) /\ outcome = "running"
           /\ \A q \in DependsOn(r) \cap Graph : q \notin todo /\ ~Differs(q)
<1>1. r \in Graph /\ outcome = "running" /\ DependsOn(r) \cap todo = {} /\ r \in todo
  BY DEF Ready, Pending
<1>2. r \in Commands
  BY <1>1, Commanding DEF Typed
<1>. QED BY <1>1, <1>2 DEF Pending

(* A command other than a delivery runs: it succeeds, or its record, which is
   not what is asked for, stays. *)
LEMMA CommandRuns ==
    ASSUME Typed, Pending, NEW r, Ready(r), r[1] # "secrets", Deployed,
           \/ Succeeds(r, Input(r)) \/ Fails(r, rec[r])
           \/ Refused(r, rec[r]) /\ UNCHANGED fails
    PROVE  /\ Pending' /\ rec' = [q \in Commands |-> rec'[q]]
           /\ \A q \in Commands : q # r => rec'[q] = rec[q]
           /\ rec[r] # Input(r)
           /\ rec'[r] = Input(r) \/ (rec'[r] = rec[r] /\ ~Succeeds(r, Input(r)))
           /\ fails' \in Nat /\ (fails' = 0 => fails = 0) /\ (Fails(r, rec[r]) => fails' # 0)
<1>1. r \in Graph /\ r \in Commands /\ Differs(r) /\ outcome = "running"
  BY ReadyIs
<1>2. rec[r] # Input(r)
  BY <1>1 DEF Differs
<1>3. Input(r)' = Input(r)
  BY DEF Deployed, Input, Plan, Egress, Mesh
<1>4. fails \in Nat
  BY DEF Typed
<1>5. CASE Succeeds(r, Input(r))
  <2>1. rec' = [rec EXCEPT ![r] = Input(r)] /\ UNCHANGED fails
    BY <1>5 DEF Succeeds
  <2>2. /\ rec' = [q \in Commands |-> rec'[q]] /\ rec'[r] = Input(r)
        /\ \A q \in Commands : q # r => rec'[q] = rec[q]
    BY <1>1, <2>1, RecordTyped
  <2>3. ~Differs(r)'
    BY <1>3, <2>2 DEF Differs
  <2>4. Pending'
    BY <1>1, <1>5, <2>3, SucceedsPending
  <2>5. ~Fails(r, rec[r])
    BY <1>4, <2>1 DEF Fails
  <2>6. fails' \in Nat /\ (fails' = 0 => fails = 0)
    BY <1>4, <2>1
  <2>. QED BY <1>2, <2>2, <2>4, <2>5, <2>6
<1>6. CASE Refused(r, rec[r]) /\ (Fails(r, rec[r]) \/ UNCHANGED fails)
  <2>1. rec' = [rec EXCEPT ![r] = rec[r]]
    BY <1>6 DEF Refused
  <2>2. /\ rec' = [q \in Commands |-> rec'[q]] /\ rec'[r] = rec[r]
        /\ \A q \in Commands : q # r => rec'[q] = rec[q]
    BY <1>1, <2>1, RecordTyped
  <2>3. Differs(r)'
    BY <1>1, <2>2, DiffersFrames DEF Deployed
  <2>4. Pending'
    BY <1>1, <1>6, <2>3, RefusedPending
  <2>5. fails' \in Nat /\ (fails' = 0 => fails = 0) /\ (Fails(r, rec[r]) => fails' # 0)
    BY <1>4, <1>6 DEF Fails
  <2>6. ~Succeeds(r, Input(r))
    <3>1. r \in todo /\ UNCHANGED todo
      BY <1>6 DEF Ready, Refused
    <3>. QED BY <3>1 DEF Succeeds
  <2>. QED BY <1>2, <2>2, <2>4, <2>5, <2>6
<1>. QED BY <1>5, <1>6 DEF Fails

-----------------------------------------------------------------------------
(* The commands of a host.                                                   *)

LEMMA HostCommandRuns ==
    ASSUME Inv, NEW h \in Hosts, NEW c \in HostCommands, Ready(<<c, h>>), Deployed, UNCHANGED svc,
           \/ Succeeds(<<c, h>>, Input(<<c, h>>)) \/ Fails(<<c, h>>, rec[<<c, h>>])
           \/ Refused(<<c, h>>, rec[<<c, h>>]) /\ UNCHANGED fails,
           NEW x \in HostStates, host' = [host EXCEPT ![h] = x], (Seeded(h) /\ Wired(h))'
    PROVE  Inv'
<1>. DEFINE r == <<c, h>>
<1>1. /\ Typed /\ Pending
      /\ \A g \in Hosts : RecordedAt(g) /\ Seeded(g) /\ Wired(g)
      /\ \A s \in Services : RecordedOf(s) /\ SetUp(s) /\ Tidy(svc[s], fails)
  BY DEF Inv
<1>2. r[1] # "secrets"
  BY DEF HostCommands
<1>3. UNCHANGED <<design, released>>
  BY DEF Deployed
<1>4. /\ Pending' /\ rec' = [q \in Commands |-> rec'[q]]
      /\ \A q \in Commands : q # r => rec'[q] = rec[q]
      /\ rec'[r] = Input(r) \/ rec'[r] = rec[r]
      /\ fails' \in Nat /\ (fails' = 0 => fails = 0)
  BY <1>1, <1>2, CommandRuns
<1>5. /\ host' \in [Hosts -> HostStates] /\ host'[h] = x
      /\ \A g \in Hosts : g # h => host'[g] = host[g]
  BY <1>1, HostTyped
<1>6. Typed'
  BY <1>1, <1>3, <1>4, <1>5 DEF Typed
<1>7. /\ \A g \in Hosts : \A b \in HostCommands : <<b, g>> \in Commands
      /\ \A s \in Services : \A b \in ServiceCommands : <<b, s>> \in Commands
  BY <1>1, Commanding DEF Typed
<1>8. ASSUME NEW g \in Hosts, g # h
      PROVE  (RecordedAt(g) /\ Seeded(g) /\ Wired(g))'
  <2>1. host'[g] = host[g]
    BY <1>5, <1>8
  <2>2. \A b \in HostCommands : rec'[<<b, g>>] = rec[<<b, g>>]
    BY <1>4, <1>7, <1>8
  <2>3. Typed /\ RecordedAt(g) /\ Seeded(g) /\ Wired(g) /\ UNCHANGED design
    BY <1>1, <1>3
  <2>. QED BY <2>1, <2>2, <2>3, HostFrames
<1>9. RecordedAt(h)'
  <2>1. Plan \in Past /\ UNCHANGED Past
    BY <1>1, <1>3, Present DEF Typed, Past
  <2>2. r \in Graph
    BY <1>1, ReadyIs
  <2>3. /\ Input(<<"unit", h>>) = Egress(h) /\ Input(<<"gate", h>>) = TRUE
        /\ Input(<<"config", h>>) = Mesh(h) /\ Input(<<"reload", h>>) = Mesh(h)
    BY HostInputs
  <2>4. c \in {"unit", "config", "reload"} => EgressOf(Plan, h) # {}
    BY <1>1, <2>2, Commanding DEF Typed, Egress
  <2>5. \A b \in HostCommands : rec'[<<b, h>>] = rec[<<b, h>>] \/ (b = c /\ rec'[<<b, h>>] = Input(<<b, h>>))
    BY <1>4, <1>7
  <2>6. rec'[<<"gate", h>>] \in {None, TRUE}
    BY <1>1, <2>3, <2>5 DEF RecordedAt, HostCommands
  <2>7. rec'[<<"unit", h>>] \in {None} \cup {EgressOf(d, h) : d \in Past}
    BY <1>1, <2>1, <2>3, <2>5 DEF RecordedAt, HostCommands, Egress
  <2>8. ASSUME NEW b \in {"config", "reload"}
        PROVE  rec'[<<b, h>>] \in {None} \cup {MeshOf(d, h) : d \in {y \in Past : EgressOf(y, h) # {}}}
    <3>1. rec[<<b, h>>] \in {None} \cup {MeshOf(d, h) : d \in {y \in Past : EgressOf(y, h) # {}}}
      BY <1>1, <2>8 DEF RecordedAt
    <3>2. CASE b = c /\ rec'[<<b, h>>] = Input(<<b, h>>)
      <4>1. rec'[<<b, h>>] = MeshOf(Plan, h) /\ EgressOf(Plan, h) # {}
        BY <2>3, <2>4, <2>8, <3>2 DEF Mesh
      <4>. QED BY <2>1, <4>1
    <3>. QED BY <2>5, <2>8, <3>1, <3>2 DEF HostCommands
  <2>. QED BY <2>1, <2>6, <2>7, <2>8 DEF RecordedAt
<1>10. ASSUME NEW s \in Services
       PROVE  (RecordedOf(s) /\ SetUp(s) /\ Tidy(svc[s], fails))'
  <2>1. \A b \in ServiceCommands : <<b, s>> # r
    BY DEF ServiceCommands, HostCommands
  <2>2. \A b \in ServiceCommands : rec'[<<b, s>>] = rec[<<b, s>>]
    BY <1>4, <1>7, <2>1
  <2>. QED BY <1>1, <1>3, <1>4, <2>2, ServiceFrames
<1>. QED BY <1>4, <1>6, <1>8, <1>9, <1>10 DEF Inv

(* What the commands of a host before the one that is ready have made. *)
LEMMA HostReady ==
    ASSUME Inv, NEW h \in Hosts, NEW c \in {"unit", "config", "reload"}, Ready(<<c, h>>)
    PROVE  /\ Egress(h) # {} /\ Egress(h) # None /\ Mesh(h) # None /\ DOMAIN Mesh(h) = Egress(h)
           /\ rec[<<c, h>>] # Input(<<c, h>>)
           /\ c = "config" => Egress(h) \subseteq host[h].seed
           /\ c = "reload" => host[h].config = Mesh(h) /\ Egress(h) \subseteq host[h].seed
<1>1. Typed /\ Pending /\ Seeded(h) /\ Wired(h)
  BY DEF Inv
<1>2. design \in DOMAIN Designs
  BY <1>1 DEF Typed
<1>3. /\ <<c, h>> \in Graph /\ Differs(<<c, h>>)
      /\ \A q \in DependsOn(<<c, h>>) \cap Graph : ~Differs(q)
  BY <1>1, ReadyIs
<1>4. Egress(h) # {} /\ \A b \in {"unit", "config", "reload"} : <<b, h>> \in Graph
  BY <1>2, <1>3, Commanding
<1>5. Egress(h) # None /\ Mesh(h) # None /\ DOMAIN Mesh(h) = Egress(h)
  BY <1>2, Sorts
<1>6. rec[<<c, h>>] # Input(<<c, h>>)
  BY <1>3 DEF Differs
<1>7. ASSUME c = "config" PROVE Egress(h) \subseteq host[h].seed
  <2>1. rec[<<"unit", h>>] = Egress(h)
    BY <1>3, <1>4, <1>7, HostInputs DEF Differs
  <2>2. Plan \in Ahead
    BY <1>2, Present
  <2>. QED BY <1>1, <2>1, <2>2 DEF Seeded, Egress
<1>8. ASSUME c = "reload" PROVE host[h].config = Mesh(h) /\ Egress(h) \subseteq host[h].seed
  <2>1. rec[<<"config", h>>] = Mesh(h)
    BY <1>3, <1>4, <1>8, HostInputs DEF Differs
  <2>. QED BY <1>1, <1>4, <2>1 DEF Wired
<1>. QED BY <1>4, <1>5, <1>6, <1>7, <1>8

LEMMA GateKeeps ==
    ASSUME Inv, NEW h \in Hosts, Gate(h)
    PROVE  Inv'
<1>. DEFINE r == <<"gate", h>>
<1>1. /\ Ready(r) /\ Deployed /\ UNCHANGED <<host, svc, design>>
      /\ Succeeds(r, Input(r)) \/ Fails(r, rec[r])
  BY HostInputs DEF Gate, Deployed
<1>2. Typed /\ Pending /\ RecordedAt(h) /\ Seeded(h) /\ Wired(h)
  BY DEF Inv
<1>3. host[h] \in HostStates /\ host' = [host EXCEPT ![h] = host[h]]
  BY <1>1, <1>2 DEF Typed
<1>4. "gate" \in HostCommands
  BY DEF HostCommands
<1>5. \A q \in Commands : q # r => rec'[q] = rec[q]
  BY <1>1, <1>2, CommandRuns
<1>6. \A c \in {"unit", "config", "reload"} : rec'[<<c, h>>] = rec[<<c, h>>]
  BY <1>2, <1>5, Commanding DEF Typed, HostCommands
<1>7. (Seeded(h) /\ Wired(h))'
  BY <1>1, <1>2, <1>6 DEF Seeded, Wired, Ahead, Plan, Egress, Mesh
<1>. QED BY <1>1, <1>3, <1>4, <1>7, HostCommandRuns

(* The seed script is written whether the command succeeds or fails after it; a
   recorded one of an earlier version names no service the present one lacks. *)
LEMMA MeshUnitKeeps ==
    ASSUME NothingReturns, Inv, NEW h \in Hosts, MeshUnit(h)
    PROVE  Inv'
<1>. DEFINE r == <<"unit", h>>
<1>1. /\ Ready(r) /\ Deployed /\ UNCHANGED <<svc, design>>
      /\ Succeeds(r, Input(r)) \/ Fails(r, rec[r])
  BY HostInputs DEF MeshUnit, Deployed
<1>2. Typed /\ Pending /\ RecordedAt(h) /\ Seeded(h) /\ Wired(h) /\ design \in DOMAIN Designs
  BY DEF Inv, Typed
<1>3. PICK seed \in {host[h].seed, Egress(h)} :
        /\ host' = [host EXCEPT ![h] = [host[h] EXCEPT !.seed = seed]]
        /\ Succeeds(r, Input(r)) => seed = Egress(h)
  <2>1. host = [g \in Hosts |-> host[g]] /\ host[h] \in HostStates
    BY <1>2 DEF Typed
  <2>2. host = [host EXCEPT ![h] = [host[h] EXCEPT !.seed = host[h].seed]]
    BY <2>1 DEF HostStates
  <2>3. CASE host' = [host EXCEPT ![h].seed = Egress(h)]
    BY <2>3
  <2>4. CASE Fails(r, rec[r]) /\ UNCHANGED host
    <3>1. ~Succeeds(r, Input(r))
      BY <1>1, <2>4 DEF Fails, Refused, Succeeds, Ready
    <3>. QED BY <2>2, <2>4, <3>1
  <2>. QED BY <2>3, <2>4 DEF MeshUnit
<1>. DEFINE x == [host[h] EXCEPT !.seed = seed]
<1>4. Egress(h) # {} /\ Egress(h) # None /\ rec[r] # Egress(h)
  BY <1>1, HostReady, HostInputs
<1>5. x \in HostStates /\ x.seed = seed /\ x.config = host[h].config /\ x.loaded = host[h].loaded
  <2>1. host[h] \in HostStates /\ Egress(h) \subseteq Services
    BY <1>2, Sorts DEF Typed
  <2>. QED BY <2>1 DEF HostStates
<1>6. host'[h] = x
  BY <1>2, <1>3, <1>5, HostTyped
<1>. HIDE DEF x
<1>7. "unit" \in HostCommands /\ "unit" # "secrets"
  BY DEF HostCommands
<1>8. /\ \A q \in Commands : q # r => rec'[q] = rec[q]
      /\ rec'[r] = Input(r) \/ (rec'[r] = rec[r] /\ ~Succeeds(r, Input(r)))
  BY <1>1, <1>2, <1>7, CommandRuns
<1>9. UNCHANGED <<Plan, Ahead>>
  BY <1>1 DEF Plan, Ahead
<1>10. Seeded(h)'
  <2>1. SUFFICES ASSUME NEW d \in Ahead, rec'[r] = EgressOf(d, h)
                 PROVE  EgressOf(d, h) \subseteq seed
    BY <1>5, <1>6, <1>9 DEF Seeded
  <2>2. CASE rec'[r] = Input(r) /\ seed = Egress(h)
    BY <2>1, <2>2, HostInputs
  <2>3. CASE rec'[r] = rec[r] /\ seed = host[h].seed
    BY <1>2, <2>1, <2>3 DEF Seeded
  <2>4. CASE rec'[r] = rec[r] /\ seed = Egress(h)
    <3>1. PICK i \in DOMAIN Designs : d = Designs[i]
      BY <1>2, Present
    <3>2. EgressOf(d, h) # None
      BY <3>1, SortsOf
    <3>3. PICK c \in Past : EgressOf(c, h) = EgressOf(d, h)
      BY <1>2, <2>1, <2>4, <3>2 DEF RecordedAt
    <3>. QED BY <1>2, <2>4, <3>3, EgressStays
  <2>5. rec'[r] = Input(r) => seed = Egress(h)
    <3>1. CASE Succeeds(r, Input(r))
      BY <1>3, <3>1
    <3>2. CASE ~Succeeds(r, Input(r))
      <4>1. rec'[r] = rec[r]
        BY <1>1, <1>8, <3>2, <1>2, RecordTyped, ReadyIs DEF Fails, Refused
      <4>. QED BY <1>4, <4>1, HostInputs
    <3>. QED BY <3>1, <3>2
  <2>. QED BY <1>3, <1>8, <2>2, <2>3, <2>4, <2>5
<1>11. Wired(h)'
  <2>1. Egress(h)' = Egress(h) /\ Mesh(h)' = Mesh(h)
    BY <1>9 DEF Egress, Mesh
  <2>2. rec'[<<"config", h>>] = rec[<<"config", h>>] /\ rec'[<<"reload", h>>] = rec[<<"reload", h>>]
    BY <1>2, <1>8, Commanding DEF HostCommands
  <2>. QED BY <1>2, <1>3, <1>5, <1>6, <2>1, <2>2 DEF Wired
<1>. QED BY <1>1, <1>3, <1>5, <1>7, <1>10, <1>11, HostCommandRuns DEF x

LEMMA MeshConfigKeeps ==
    ASSUME Inv, NEW h \in Hosts, MeshConfig(h)
    PROVE  Inv'
<1>. DEFINE r == <<"config", h>>
<1>1. /\ Ready(r) /\ Deployed /\ UNCHANGED <<svc, design>>
      /\ Succeeds(r, Input(r)) \/ Fails(r, rec[r])
  BY HostInputs DEF MeshConfig, Deployed
<1>2. Typed /\ Pending /\ RecordedAt(h) /\ Seeded(h) /\ Wired(h) /\ design \in DOMAIN Designs
  BY DEF Inv, Typed
<1>3. PICK config \in {host[h].config, Mesh(h)} :
        /\ host' = [host EXCEPT ![h] = [host[h] EXCEPT !.config = config]]
        /\ Succeeds(r, Input(r)) => config = Mesh(h)
  <2>1. host = [g \in Hosts |-> host[g]] /\ host[h] \in HostStates
    BY <1>2 DEF Typed
  <2>2. host = [host EXCEPT ![h] = [host[h] EXCEPT !.config = host[h].config]]
    BY <2>1 DEF HostStates
  <2>3. CASE host' = [host EXCEPT ![h].config = Mesh(h)]
    BY <2>3
  <2>4. CASE Fails(r, rec[r]) /\ UNCHANGED host
    <3>1. ~Succeeds(r, Input(r))
      BY <1>1, <2>4 DEF Fails, Refused, Succeeds, Ready
    <3>. QED BY <2>2, <2>4, <3>1
  <2>. QED BY <2>3, <2>4 DEF MeshConfig
<1>. DEFINE x == [host[h] EXCEPT !.config = config]
<1>4. Egress(h) # {} /\ rec[r] # Mesh(h) /\ Egress(h) \subseteq host[h].seed
  BY <1>1, HostReady, HostInputs
<1>5. x \in HostStates /\ x.seed = host[h].seed /\ x.config = config /\ x.loaded = host[h].loaded
  <2>1. host[h] \in HostStates /\ Mesh(h) \in Maps
    BY <1>2, Sorts DEF Typed
  <2>. QED BY <2>1 DEF HostStates
<1>6. host'[h] = x
  BY <1>2, <1>3, <1>5, HostTyped
<1>. HIDE DEF x
<1>7. "config" \in HostCommands /\ "config" # "secrets"
  BY DEF HostCommands
<1>8. /\ \A q \in Commands : q # r => rec'[q] = rec[q]
      /\ rec'[r] = Input(r) \/ (rec'[r] = rec[r] /\ ~Succeeds(r, Input(r)))
  BY <1>1, <1>2, <1>7, CommandRuns
<1>9. UNCHANGED <<Plan, Ahead>>
  BY <1>1 DEF Plan, Ahead
<1>10. rec'[<<"unit", h>>] = rec[<<"unit", h>>] /\ rec'[<<"reload", h>>] = rec[<<"reload", h>>]
  BY <1>2, <1>8, Commanding DEF HostCommands
<1>11. Seeded(h)'
  BY <1>2, <1>5, <1>6, <1>9, <1>10 DEF Seeded
<1>12. rec'[r] = Mesh(h) => config = Mesh(h)
  <2>1. CASE Succeeds(r, Input(r))
    BY <1>3, <2>1
  <2>2. CASE ~Succeeds(r, Input(r))
    <3>1. rec'[r] = rec[r]
      BY <1>1, <1>2, <1>8, <2>2, RecordTyped, ReadyIs DEF Fails, Refused
    <3>. QED BY <1>4, <3>1
  <2>. QED BY <2>1, <2>2
<1>13. Wired(h)'
  <2>1. Egress(h)' = Egress(h) /\ Mesh(h)' = Mesh(h)
    BY <1>9 DEF Egress, Mesh
  <2>. QED BY <1>2, <1>3, <1>4, <1>5, <1>6, <1>10, <1>12, <2>1 DEF Wired
<1>. QED BY <1>1, <1>3, <1>5, <1>7, <1>11, <1>13, HostCommandRuns DEF x

(* A start of the proxy loads a configuration whose certificates it can seed. *)
LEMMA ProxyStartedIs ==
    ASSUME NEW x \in HostStates
    PROVE  LET y == ProxyStarted(x) IN
           /\ y \in HostStates /\ y.seed = x.seed /\ y.config = x.config
           /\ y.loaded \in {x.loaded, x.config}
           /\ x.config # None /\ DOMAIN x.config \subseteq x.seed => y.loaded = x.config
<1>. DEFINE seeded == [x EXCEPT !.certs = @ \cup x.leaf \cup x.seed]
            L == [seeded EXCEPT !.loaded = x.config]
<1>1. /\ seeded \in HostStates /\ seeded.seed = x.seed /\ seeded.config = x.config
      /\ seeded.loaded = x.loaded /\ seeded.certs = x.certs \cup x.leaf \cup x.seed
  BY DEF HostStates
<1>2. L \in HostStates /\ L.seed = x.seed /\ L.config = x.config /\ L.loaded = x.config
  BY DEF HostStates
<1>3. ProxyStarted(x) = IF Validates(seeded) THEN L ELSE seeded
  BY DEF ProxyStarted
<1>. HIDE DEF seeded, L
<1>4. x.config # None /\ DOMAIN x.config \subseteq x.seed => Validates(seeded)
  BY <1>1 DEF Validates
<1>. QED BY <1>1, <1>2, <1>3, <1>4

LEMMA MeshReloadKeeps ==
    ASSUME Inv, NEW h \in Hosts, MeshReload(h)
    PROVE  Inv'
<1>. DEFINE r == <<"reload", h>>
            y == IF host[h].loaded = None THEN ProxyStarted(host[h]) ELSE host[h]
            z == [y EXCEPT !.loaded = y.config]
<1>1. /\ Ready(r) /\ Deployed /\ UNCHANGED <<svc, design>>
      /\ \/ Succeeds(r, Input(r)) \/ Fails(r, rec[r])
         \/ Refused(r, rec[r]) /\ UNCHANGED fails
  BY HostInputs DEF MeshReload, Deployed
<1>2. Typed /\ Pending /\ RecordedAt(h) /\ Seeded(h) /\ Wired(h) /\ design \in DOMAIN Designs
  BY DEF Inv, Typed
<1>3. /\ host[h].config = Mesh(h) /\ Egress(h) \subseteq host[h].seed /\ Egress(h) # {}
      /\ rec[r] # Mesh(h) /\ Mesh(h) # None
  BY <1>1, HostReady, HostInputs
<1>4. host[h] \in HostStates
  BY <1>2 DEF Typed
<1>5. y \in HostStates /\ y.seed = host[h].seed /\ y.config = host[h].config
  BY <1>4, ProxyStartedIs
<1>. HIDE DEF y
<1>6. z \in HostStates /\ z.seed = host[h].seed /\ z.config = host[h].config /\ z.loaded = host[h].config
  BY <1>5 DEF HostStates
<1>7. PICK x \in {y, z} : /\ host' = [host EXCEPT ![h] = x]
                          /\ Succeeds(r, Input(r)) => x = z
  <2>1. Refused(r, rec[r]) => ~Succeeds(r, Input(r))
    BY <1>1 DEF Refused, Succeeds, Ready
  <2>2. Fails(r, rec[r]) => Refused(r, rec[r])
    BY DEF Fails
  <2>. QED BY <2>1, <2>2 DEF MeshReload, y
<1>. HIDE DEF z
<1>8. x \in HostStates /\ x.seed = host[h].seed /\ x.config = host[h].config
  BY <1>5, <1>6
<1>9. host'[h] = x
  BY <1>2, <1>7, <1>8, HostTyped
<1>10. "reload" \in HostCommands /\ "reload" # "secrets"
  BY DEF HostCommands
<1>11. /\ \A q \in Commands : q # r => rec'[q] = rec[q]
       /\ rec'[r] = Input(r) \/ (rec'[r] = rec[r] /\ ~Succeeds(r, Input(r)))
  BY <1>1, <1>2, <1>10, CommandRuns
<1>12. UNCHANGED <<Plan, Ahead>>
  BY <1>1 DEF Plan, Ahead
<1>13. rec'[<<"unit", h>>] = rec[<<"unit", h>>] /\ rec'[<<"config", h>>] = rec[<<"config", h>>]
  BY <1>2, <1>11, Commanding DEF HostCommands
<1>14. Seeded(h)'
  BY <1>2, <1>8, <1>9, <1>12, <1>13 DEF Seeded
<1>15. rec'[r] = Mesh(h) => x = z
  <2>1. CASE Succeeds(r, Input(r))
    BY <1>7, <2>1
  <2>2. CASE ~Succeeds(r, Input(r))
    <3>1. rec'[r] = rec[r]
      BY <1>1, <1>2, <1>11, <2>2, RecordTyped, ReadyIs DEF Fails, Refused
    <3>. QED BY <1>3, <3>1
  <2>. QED BY <2>1, <2>2
<1>16. Wired(h)'
  <2>1. Egress(h)' = Egress(h) /\ Mesh(h)' = Mesh(h)
    BY <1>12 DEF Egress, Mesh
  <2>. QED BY <1>3, <1>6, <1>8, <1>9, <1>15, <2>1 DEF Wired
<1>. QED BY <1>1, <1>7, <1>8, <1>10, <1>14, <1>16, HostCommandRuns

-----------------------------------------------------------------------------
(* The commands of a service.                                                *)

LEMMA ServiceCommandRuns ==
    ASSUME Inv, NEW s \in Services, NEW c \in ServiceCommands, UNCHANGED <<design, released>>,
           Pending', rec' = [q \in Commands |-> rec'[q]],
           \A q \in Commands : q # <<c, s>> => rec'[q] = rec[q],
           fails' \in Nat, fails' = 0 => fails = 0,
           host' \in [Hosts -> HostStates],
           \A h \in Hosts : /\ host'[h].seed = host[h].seed /\ host'[h].config = host[h].config
                            /\ host'[h].loaded = host[h].loaded,
           NEW v \in ServiceStates, svc' = [svc EXCEPT ![s] = v],
           (RecordedOf(s) /\ SetUp(s) /\ Tidy(svc[s], fails))'
    PROVE  Inv'
<1>1. /\ Typed /\ Pending
      /\ \A h \in Hosts : RecordedAt(h) /\ Seeded(h) /\ Wired(h)
      /\ \A t \in Services : RecordedOf(t) /\ SetUp(t) /\ Tidy(svc[t], fails)
  BY DEF Inv
<1>2. /\ svc' \in [Services -> ServiceStates]
      /\ \A t \in Services : t # s => svc'[t] = svc[t]
  BY <1>1, ServiceTyped
<1>3. Typed'
  BY <1>1, <1>2 DEF Typed
<1>4. /\ \A h \in Hosts : \A b \in HostCommands : <<b, h>> \in Commands
      /\ \A t \in Services : \A b \in ServiceCommands : <<b, t>> \in Commands
  BY <1>1, Commanding DEF Typed
<1>5. ASSUME NEW h \in Hosts
      PROVE  (RecordedAt(h) /\ Seeded(h) /\ Wired(h))'
  <2>1. \A b \in HostCommands : <<b, h>> # <<c, s>>
    BY DEF ServiceCommands, HostCommands
  <2>2. \A b \in HostCommands : rec'[<<b, h>>] = rec[<<b, h>>]
    BY <1>4, <2>1
  <2>3. /\ host'[h].seed = host[h].seed /\ host'[h].config = host[h].config
        /\ host'[h].loaded = host[h].loaded
    OBVIOUS
  <2>. QED BY <1>1, <2>2, <2>3, HostFrames
<1>6. ASSUME NEW t \in Services, t # s
      PROVE  (RecordedOf(t) /\ SetUp(t) /\ Tidy(svc[t], fails))'
  <2>1. svc'[t] = svc[t]
    BY <1>2, <1>6
  <2>2. \A b \in ServiceCommands : rec'[<<b, t>>] = rec[<<b, t>>]
    BY <1>4, <1>6
  <2>. QED BY <1>1, <2>1, <2>2, ServiceFrames
<1>. QED BY <1>3, <1>5, <1>6 DEF Inv

(* A provision leaves the files it finds, installs the unit of the sources, and
   what it (re)starts runs on them. *)
LEMMA ProvisionedIs ==
    ASSUME Typed, NEW s \in Members, NEW k \in 1..4
    PROVE  LET v == svc[s]  w == Provisioned(s, k) IN
           /\ w \in ServiceStates /\ w.descr = v.descr /\ w.age = v.age
           /\ k = 1 => w = v
           /\ k > 1 => w.unit = Plan.svc[s].unit
           /\ w.enabled = v.enabled \/ w.enabled = TRUE
           /\ k > 2 => w.enabled = TRUE
           /\ \A c \in Contents \ {None} : Supplied(v, c) =>
                 Supplied(w, c) /\ (s \in released /\ RunsOn(v, c) => RunsOn(w, c))
           /\ k = 4 /\ w.up = "running" /\ (v.up = "running" => v.run.unit = v.unit) =>
                 w.run.unit = w.unit
<1>. DEFINE unit == Plan.svc[s].unit
            code == s \in released
            v == svc[s]
            v2 == IF k >= 2 THEN [v EXCEPT !.unit = unit] ELSE v
            e2 == [v2 EXCEPT !.enabled = TRUE]
            v3 == IF k >= 3 THEN Started(e2, Plan.agent, code) ELSE v2
            changed == \/ host[HostOf[s]].agent # Plan.agent
                       \/ v.unit # unit
<1>1. s \in Services /\ unit \in Units \ {0} /\ Plan.agent \in Agents /\ v \in ServiceStates
  BY Sorts DEF Typed
<1>2. /\ v2 \in ServiceStates /\ v2.descr = v.descr /\ v2.age = v.age /\ v2.up = v.up /\ v2.run = v.run
      /\ v2.enabled = v.enabled /\ v2.unit = IF k >= 2 THEN unit ELSE v.unit
  BY <1>1 DEF ServiceStates
<1>3. Provisioned(s, k) = IF k = 4 /\ changed /\ v3.up # "down" THEN Restarted(v3, Plan.agent, code) ELSE v3
  BY DEF Provisioned
<1>. HIDE DEF v2, unit, code, v
<1>4. /\ e2 \in ServiceStates /\ e2.descr = v2.descr /\ e2.age = v2.age /\ e2.up = v2.up /\ e2.run = v2.run
      /\ e2.enabled = TRUE /\ e2.unit = v2.unit
  BY <1>2 DEF ServiceStates
<1>. HIDE DEF e2
<1>5. k \in {1, 2, 3, 4}
  OBVIOUS
<1>6. \A c \in Contents \ {None} : Supplied(v, c) =>
         /\ Supplied(v2, c) /\ (RunsOn(v, c) => RunsOn(v2, c))
         /\ Supplied(e2, c) /\ (RunsOn(v, c) => RunsOn(e2, c))
  BY <1>1, <1>2, <1>4 DEF Supplied, RunsOn
<1>7. /\ v3 \in ServiceStates /\ v3.descr = v.descr /\ v3.age = v.age /\ v3.unit = v2.unit
      /\ v3.enabled = IF k >= 3 THEN TRUE ELSE v.enabled
      /\ \A c \in Contents \ {None} : Supplied(v, c) =>
            Supplied(v3, c) /\ (code /\ RunsOn(v, c) => RunsOn(v3, c))
      /\ k >= 3 => v3 = e2 \/ (v3.up = "running" => v3.run.unit = v3.unit)
  <2>1. CASE k < 3
    <3>1. v3 = v2 /\ ~(k >= 3)
      BY <1>5, <2>1
    <3>. HIDE DEF v3
    <3>. QED BY <1>2, <1>6, <3>1
  <2>2. CASE k >= 3 /\ e2.up # "down"
    <3>1. v3 = e2
      BY <2>2 DEF Started
    <3>. HIDE DEF v3
    <3>. QED BY <1>2, <1>4, <1>6, <2>2, <3>1
  <2>3. CASE k >= 3 /\ e2.up = "down"
    <3>1. v3 = Restarted(e2, Plan.agent, code)
      BY <2>3 DEF Started
    <3>2. LET w == Restarted(e2, Plan.agent, code) IN
          /\ w \in ServiceStates /\ w.descr = e2.descr /\ w.age = e2.age /\ w.unit = e2.unit
          /\ w.enabled = e2.enabled /\ (w.up = "running" => w.run.unit = e2.unit)
      BY <1>1, <1>4, RestartedIs
    <3>3. ASSUME NEW c \in Contents \ {None}, Supplied(e2, c)
          PROVE  LET w == Restarted(e2, Plan.agent, code) IN Supplied(w, c) /\ (code => RunsOn(w, c))
      BY <1>1, <1>4, <3>3, RestartedRuns
    <3>. HIDE DEF v3
    <3>. QED BY <1>2, <1>4, <1>6, <2>3, <3>1, <3>2, <3>3
  <2>. HIDE DEF v3
  <2>4. k < 3 \/ k >= 3
    BY <1>5
  <2>. QED BY <2>1, <2>2, <2>3, <2>4
<1>. HIDE DEF v3, changed
<1>. DEFINE w == Provisioned(s, k)
<1>8. CASE k = 4 /\ changed /\ v3.up # "down"
  <2>1. w = Restarted(v3, Plan.agent, code)
    BY <1>3, <1>8
  <2>2. /\ w \in ServiceStates /\ w.descr = v3.descr /\ w.age = v3.age /\ w.unit = v3.unit
        /\ w.enabled = v3.enabled /\ (w.up = "running" => w.run.unit = v3.unit)
    <3>1. LET x == Restarted(v3, Plan.agent, code) IN
          /\ x \in ServiceStates /\ x.descr = v3.descr /\ x.age = v3.age /\ x.unit = v3.unit
          /\ x.enabled = v3.enabled /\ (x.up = "running" => x.run.unit = v3.unit)
      <4>1. v3 \in ServiceStates /\ Plan.agent \in Agents
        BY <1>1, <1>7
      <4>. QED BY <4>1, RestartedIs
    <3>. HIDE DEF w
    <3>. QED BY <2>1, <3>1
  <2>3. ASSUME NEW c \in Contents \ {None}, Supplied(v3, c)
        PROVE  Supplied(w, c) /\ (code => RunsOn(w, c))
    BY <1>1, <1>7, <2>1, <2>3, RestartedRuns
  <2>. HIDE DEF w
  <2>4. /\ w \in ServiceStates /\ w.descr = v.descr /\ w.age = v.age
        /\ w.unit = unit /\ w.enabled = TRUE
        /\ w.up = "running" => w.run.unit = w.unit
    BY <1>2, <1>7, <1>8, <2>2
  <2>5. \A c \in Contents \ {None} : Supplied(v, c) =>
           Supplied(w, c) /\ (code => RunsOn(w, c))
    BY <1>7, <2>3
  <2>. QED BY <1>8, <2>4, <2>5 DEF w, v, unit, code
<1>9. CASE ~(k = 4 /\ changed /\ v3.up # "down")
  <2>1. w = v3
    BY <1>3, <1>9
  <2>2. k = 1 => v3 = v
    BY <1>5 DEF v3, v2
  <2>3. k > 1 => v2.unit = unit
    BY <1>2, <1>5
  <2>4. k > 2 => v3.enabled = TRUE
    BY <1>5, <1>7
  <2>5. v3.enabled = v.enabled \/ v3.enabled = TRUE
    BY <1>7
  <2>6. ASSUME k = 4, v3.up = "running", v.up = "running" => v.run.unit = v.unit
        PROVE  v3.run.unit = v3.unit
    <3>1. CASE v3 = e2
      <4>1. v.unit = unit
        BY <1>9, <2>6 DEF changed
      <4>. QED BY <1>2, <1>4, <2>3, <2>6, <3>1, <4>1
    <3>. QED BY <1>7, <2>6, <3>1
  <2>. HIDE DEF w, v3
  <2>. QED BY <1>7, <2>1, <2>2, <2>3, <2>4, <2>5, <2>6 DEF w, v, unit, code
<1>. QED BY <1>8, <1>9

LEMMA ProvisionKeeps ==
    ASSUME Inv, NEW s \in Members, Provision(s)
    PROVE  Inv'
<1>. DEFINE r == <<"provision", s>>
<1>1. /\ Typed /\ Pending /\ design \in DOMAIN Designs /\ s \in Services
      /\ RecordedOf(s) /\ SetUp(s) /\ Tidy(svc[s], fails)
  BY Sorts DEF Inv, Typed
<1>2. PICK k \in 1..4 :
        /\ svc' = [svc EXCEPT ![s] = Provisioned(s, k)]
        /\ host' = [host EXCEPT ![HostOf[s]].agent = Plan.agent]
        /\ (k = 4 /\ Succeeds(r, Input(r))) \/ Fails(r, rec[r])
  BY DEF Provision
<1>3. Ready(r) /\ Deployed /\ UNCHANGED <<design, released>>
  BY DEF Provision, Deployed
<1>. DEFINE w == Provisioned(s, k)
<1>4. /\ w \in ServiceStates /\ w.descr = svc[s].descr /\ w.age = svc[s].age
      /\ k = 1 => w = svc[s]
      /\ k > 1 => w.unit = Plan.svc[s].unit
      /\ w.enabled = svc[s].enabled \/ w.enabled = TRUE
      /\ k > 2 => w.enabled = TRUE
      /\ \A c \in Contents \ {None} : Supplied(svc[s], c) =>
            Supplied(w, c) /\ (s \in released /\ RunsOn(svc[s], c) => RunsOn(w, c))
      /\ k = 4 /\ w.up = "running" /\ (svc[s].up = "running" => svc[s].run.unit = svc[s].unit) =>
            w.run.unit = w.unit
  BY <1>1, ProvisionedIs
<1>. HIDE DEF w
<1>5. /\ Pending' /\ rec' = [q \in Commands |-> rec'[q]]
      /\ \A q \in Commands : q # r => rec'[q] = rec[q]
      /\ rec[r] # Input(r)
      /\ rec'[r] = Input(r) \/ (rec'[r] = rec[r] /\ ~Succeeds(r, Input(r)))
      /\ fails' \in Nat /\ (fails' = 0 => fails = 0) /\ (Fails(r, rec[r]) => fails' # 0)
  BY <1>1, <1>2, <1>3, CommandRuns
<1>6. /\ host' \in [Hosts -> HostStates]
      /\ \A h \in Hosts : /\ host'[h].seed = host[h].seed /\ host'[h].config = host[h].config
                          /\ host'[h].loaded = host[h].loaded
  <2>1. HostOf[s] \in Hosts /\ Plan.agent \in Agents /\ host \in [Hosts -> HostStates]
    BY <1>1, Sorts, DesignsAssumption DEF Typed
  <2>2. host[HostOf[s]] \in HostStates
    BY <2>1
  <2>. DEFINE x == [host[HostOf[s]] EXCEPT !.agent = Plan.agent]
  <2>3. /\ x \in HostStates /\ x.seed = host[HostOf[s]].seed /\ x.config = host[HostOf[s]].config
        /\ x.loaded = host[HostOf[s]].loaded
    BY <2>1, <2>2 DEF HostStates
  <2>4. host' = [host EXCEPT ![HostOf[s]] = x]
    BY <1>2
  <2>. HIDE DEF x
  <2>5. /\ host' \in [Hosts -> HostStates] /\ host'[HostOf[s]] = x
        /\ \A h \in Hosts : h # HostOf[s] => host'[h] = host[h]
    BY <1>1, <2>1, <2>3, <2>4, HostTyped
  <2>. QED BY <2>3, <2>5
<1>7. svc' = [svc EXCEPT ![s] = w] /\ svc'[s] = w
  BY <1>1, <1>2, <1>4, ServiceTyped DEF w
<1>8. r \in Commands /\ r \in Graph /\ <<"secrets", s>> \in Commands
  BY <1>1, <1>3, ReadyIs, Commanding DEF ServiceCommands
<1>9. UNCHANGED <<Past, Plan>> /\ Plan \in Past
  BY <1>1, <1>3, Present DEF Past, Plan
<1>10. /\ rec'[<<"secrets", s>>] = rec[<<"secrets", s>>]
       /\ rec'[r] \in {rec[r], BinariesOf(Plan, s)} /\ rec[r] # BinariesOf(Plan, s)
  BY <1>5, <1>8, ServiceInputs
<1>11. RecordedOf(s)'
  BY <1>1, <1>9, <1>10 DEF RecordedOf, Members
<1>12. rec'[r] = BinariesOf(Plan, s) => k = 4
  <2>1. CASE Fails(r, rec[r])
    <3>1. rec'[r] = rec[r]
      BY <1>1, <1>8, <2>1, RecordTyped DEF Fails, Refused
    <3>. QED BY <1>10, <3>1
  <2>. QED BY <1>2, <2>1
<1>13. SetUp(s)'
  <2>1. rec'[r] = BinariesOf(Plan, s) => w.enabled /\ w.unit = Plan.svc[s].unit
    BY <1>4, <1>12
  <2>2. Content(s) \in Contents \ {None}
    BY <1>1, Sorts
  <2>3. Content(s)' = Content(s) /\ Members' = Members
    BY <1>9 DEF Content, Members
  <2>. QED BY <1>1, <1>3, <1>4, <1>7, <1>9, <1>10, <2>1, <2>2, <2>3 DEF SetUp
<1>14. Tidy(svc[s], fails)'
  <2>1. Plan.svc[s].unit # 0
    BY <1>1, Sorts
  <2>2. w.unit = 0 => k = 1
    BY <1>4, <2>1
  <2>3. fails' = 0 => k = 4 /\ fails = 0
    BY <1>2, <1>5
  <2>. QED BY <1>1, <1>4, <1>7, <2>2, <2>3 DEF Tidy
<1>15. "provision" \in ServiceCommands
  BY DEF ServiceCommands
<1>. QED BY <1>1, <1>3, <1>4, <1>5, <1>6, <1>7, <1>11, <1>13, <1>14, <1>15, ServiceCommandRuns

(* A delivery comes after the provision: the unit is there. *)
LEMMA DeliveryReady ==
    ASSUME Inv, NEW s \in Members, Ready(<<"secrets", s>>)
    PROVE  /\ s \in Services /\ <<"secrets", s>> \in Commands /\ <<"secrets", s>> \in Graph
           /\ rec[<<"secrets", s>>] # Delivery(s)
           /\ svc[s].enabled /\ svc[s].unit = Plan.svc[s].unit /\ svc[s].unit # 0
<1>1. Typed /\ Pending /\ design \in DOMAIN Designs /\ s \in Services /\ SetUp(s)
  BY Sorts DEF Inv, Typed
<1>2. /\ <<"secrets", s>> \in Graph /\ <<"secrets", s>> \in Commands /\ Differs(<<"secrets", s>>)
      /\ \A q \in DependsOn(<<"secrets", s>>) \cap Graph : ~Differs(q)
  BY <1>1, ReadyIs
<1>3. <<"provision", s>> \in Graph
  BY <1>1, Commanding DEF ServiceCommands
<1>4. rec[<<"provision", s>>] = BinariesOf(Plan, s)
  BY <1>2, <1>3, ServiceInputs DEF Differs
<1>5. svc[s].enabled /\ svc[s].unit = Plan.svc[s].unit
  BY <1>1, <1>4 DEF SetUp
<1>6. Plan.svc[s].unit # 0
  BY <1>1, Sorts
<1>. QED BY <1>1, <1>2, <1>5, <1>6 DEF Differs

(* What a delivery records is what would be recorded again. *)
LEMMA DeliverySettles ==
    ASSUME Typed, NEW s \in Members, UNCHANGED design, Delivery(s) \in Deliveries,
           Plan.svc[s].secret => Delivery(s) = DeliveryOf(Plan, s),
           rec'[<<"secrets", s>>] = Delivery(s)
    PROVE  ~Differs(<<"secrets", s>>)'
<1>. DEFINE new == rec'[<<"secrets", s>>]
<1>1. Plan' = Plan /\ Content(s)' = Content(s) /\ new # None
  BY NoDelivery DEF Plan, Content
<1>2. CASE Plan.svc[s].secret
  <2>1. new = [trigger |-> Plan.svc[s].body, script |-> Content(s), rm |-> FALSE]
    BY <1>2 DEF DeliveryOf, Content
  <2>5. \A x \in Deliveries : ~x.rm => [x EXCEPT !.rm = FALSE] = x
    BY DEF Deliveries
  <2>2. new.trigger = Plan.svc[s].body /\ [new EXCEPT !.rm = FALSE] = new
    <3>1. new \in Deliveries /\ new.trigger = Plan.svc[s].body /\ new.rm = FALSE
      BY <2>1
    <3>. HIDE DEF new
    <3>. QED BY <2>5, <3>1
  <2>3. ~Replaced(s)'
    BY <1>1, <2>2 DEF Replaced
  <2>4. Delivery(s)' = new
    BY <1>1, <1>2, <2>2, <2>3 DEF Delivery
  <2>. QED BY <2>4 DEF Differs
<1>3. CASE ~Plan.svc[s].secret
  <2>1. new = [trigger |-> IF rec[<<"secrets", s>>] = None THEN None ELSE rec[<<"secrets", s>>].trigger,
               script |-> Content(s), rm |-> TRUE]
    BY <1>3 DEF Delivery
  <2>2. new = [trigger |-> new.trigger, script |-> Content(s), rm |-> TRUE]
    BY <2>1
  <2>3. Delivery(s)' = [trigger |-> new.trigger, script |-> Content(s), rm |-> TRUE]
    BY <1>1, <1>3 DEF Delivery
  <2>. QED BY <2>2, <2>3 DEF Differs
<1>. QED BY <1>2, <1>3

LEMMA DeliveryRuns ==
    ASSUME Typed, Pending, NEW s \in Members, Ready(<<"secrets", s>>), Deployed,
           Delivery(s) \in Deliveries, Plan.svc[s].secret => Delivery(s) = DeliveryOf(Plan, s),
           NEW old \in {rec[<<"secrets", s>>], None},
           Succeeds(<<"secrets", s>>, Delivery(s)) \/ Fails(<<"secrets", s>>, old)
    PROVE  /\ Pending' /\ rec' = [q \in Commands |-> rec'[q]]
           /\ \A q \in Commands : q # <<"secrets", s>> => rec'[q] = rec[q]
           /\ fails' \in Nat /\ (fails' = 0 => fails = 0)
           /\ Succeeds(<<"secrets", s>>, Delivery(s)) => rec'[<<"secrets", s>>] = Delivery(s)
           /\ Fails(<<"secrets", s>>, old) => fails' # 0 /\ rec'[<<"secrets", s>>] = old
<1>. DEFINE r == <<"secrets", s>>
<1>1. r \in Graph /\ r \in Commands /\ Differs(r) /\ UNCHANGED design /\ fails \in Nat
  BY ReadyIs DEF Deployed, Typed
<1>2. CASE Succeeds(r, Delivery(s))
  <2>1. rec' = [rec EXCEPT ![r] = Delivery(s)] /\ UNCHANGED fails
    BY <1>2 DEF Succeeds
  <2>2. /\ rec' = [q \in Commands |-> rec'[q]] /\ rec'[r] = Delivery(s)
        /\ \A q \in Commands : q # r => rec'[q] = rec[q]
    BY <1>1, <2>1, RecordTyped
  <2>3. ~Differs(r)'
    BY <1>1, <2>2, DeliverySettles
  <2>4. Pending'
    BY <1>1, <1>2, <2>3, SucceedsPending
  <2>5. ~Fails(r, old)
    BY <1>1, <2>1 DEF Fails
  <2>6. fails' \in Nat /\ (fails' = 0 => fails = 0)
    BY <1>1, <2>1
  <2>. QED BY <2>2, <2>4, <2>5, <2>6
<1>3. CASE Fails(r, old)
  <2>1. rec' = [rec EXCEPT ![r] = old] /\ fails' = fails + 1 /\ Refused(r, old)
    BY <1>3 DEF Fails, Refused
  <2>2. /\ rec' = [q \in Commands |-> rec'[q]] /\ rec'[r] = old
        /\ \A q \in Commands : q # r => rec'[q] = rec[q]
    BY <1>1, <2>1, RecordTyped
  <2>3. Differs(r)'
    <3>1. CASE old = rec[r]
      BY <1>1, <2>2, <3>1, DiffersFrames
    <3>2. CASE old = None
      <4>1. Delivery(s)' # None
        <5>1. Plan' = Plan /\ Content(s)' = Content(s) /\ rec'[r] = None
          BY <1>1, <2>2, <3>2 DEF Plan, Content
        <5>2. Delivery(s)' = IF ~Plan.svc[s].secret THEN [trigger |-> None, script |-> Content(s), rm |-> TRUE]
                             ELSE DeliveryOf(Plan, s)
          BY <5>1 DEF Delivery, Replaced
        <5>3. Content(s) \in Contents /\ DeliveryOf(Plan, s) \in Deliveries
          BY <1>1, Sorts DEF Typed
        <5>4. [trigger |-> None, script |-> Content(s), rm |-> TRUE] \in Deliveries
          BY <5>3 DEF Deliveries
        <5>. QED BY <5>2, <5>3, <5>4, NoDelivery
      <4>. QED BY <2>2, <3>2, <4>1 DEF Differs
    <3>. QED BY <3>1, <3>2
  <2>4. Pending'
    BY <1>1, <2>1, <2>3, RefusedPending
  <2>5. fails' \in Nat /\ fails' # 0 /\ fails # fails'
    BY <1>1, <2>1
  <2>6. ~Succeeds(r, Delivery(s))
    BY <2>5 DEF Succeeds
  <2>. QED BY <2>2, <2>4, <2>5, <2>6
<1>. QED BY <1>2, <1>3

(* A delivery of secrets that ran to its end has supplied the service, and one
   that does not reload runs on what it delivered. *)
LEMMA DeliveredIs ==
    ASSUME Typed, NEW s \in Members, svc[s].enabled, svc[s].unit # 0, Plan.svc[s].secret, NEW k \in 1..3
    PROVE  LET v == svc[s]  w == Delivered(s, k) IN
           /\ w \in ServiceStates /\ w.unit = v.unit /\ w.enabled = v.enabled
           /\ k = 3 => /\ Supplied(w, Content(s))
                       /\ s \in released \ Reloading => RunsOn(w, Content(s))
                       /\ w.up = "running" /\ (v.up = "running" => v.run.unit = v.unit) =>
                             w.run.unit = w.unit
<1>. DEFINE c == Content(s)
            v == svc[s]
            agent == host[HostOf[s]].agent
            code == s \in released
            v1 == IF k >= 1 THEN [v EXCEPT !.descr = c] ELSE v
            v2 == IF k >= 2 THEN [v1 EXCEPT !.age = c.body] ELSE v1
<1>1. /\ s \in Services /\ c \in Contents \ {None} /\ c.secret /\ c.body \in Bodies
      /\ v \in ServiceStates /\ agent \in Agents
  <2>1. s \in Services /\ HostOf[s] \in Hosts
    BY Sorts, DesignsAssumption DEF Typed
  <2>2. host[HostOf[s]] \in HostStates
    BY <2>1 DEF Typed
  <2>. QED BY <2>1, <2>2, Sorts DEF Typed, HostStates
<1>2. Delivered(s, k) = IF k < 3 \/ (v2.up = "running" /\ s \in Reloading) THEN v2
                        ELSE Restarted(v2, agent, code)
  BY DEF Delivered
<1>3. k \in {1, 2, 3} /\ v.enabled /\ v.unit # 0
  OBVIOUS
<1>. HIDE DEF c, v, agent, code
<1>4. /\ v1 \in ServiceStates /\ v1.descr = c /\ v1.age = v.age /\ v1.unit = v.unit
      /\ v1.enabled = v.enabled /\ v1.up = v.up /\ v1.run = v.run
  <2>1. k >= 1 /\ c \in Contents \cup {None}
    BY <1>1, <1>3
  <2>2. v1 = [v EXCEPT !.descr = c]
    BY <2>1
  <2>. HIDE DEF v1
  <2>. QED BY <1>1, <2>1, <2>2 DEF ServiceStates
<1>. HIDE DEF v1
<1>5. /\ v2 \in ServiceStates /\ v2.descr = c /\ (k = 3 => v2.age = c.body) /\ v2.unit = v.unit
      /\ v2.enabled = v.enabled /\ v2.up = v.up /\ v2.run = v.run
  <2>1. CASE k >= 2
    <3>1. v2 = [v1 EXCEPT !.age = c.body] /\ c.body \in Bodies \cup {None}
      BY <1>1, <2>1
    <3>. HIDE DEF v2
    <3>. QED BY <1>4, <3>1 DEF ServiceStates
  <2>2. CASE k < 2
    <3>1. v2 = v1 /\ k # 3
      BY <1>3, <2>2
    <3>. HIDE DEF v2
    <3>. QED BY <1>4, <3>1
  <2>. HIDE DEF v2
  <2>3. k >= 2 \/ k < 2
    BY <1>3
  <2>. QED BY <2>1, <2>2, <2>3
<1>. HIDE DEF v2
<1>6. k = 3 => Supplied(v2, c)
  BY <1>1, <1>3, <1>5 DEF Supplied
<1>. DEFINE w == Delivered(s, k)
<1>7. CASE k < 3 \/ (v2.up = "running" /\ s \in Reloading)
  <2>1. w = v2
    BY <1>2, <1>7
  <2>. HIDE DEF w
  <2>2. w \in ServiceStates /\ w.unit = v.unit /\ w.enabled = v.enabled
    BY <1>5, <2>1
  <2>3. ASSUME k = 3
        PROVE  /\ Supplied(w, c) /\ w.up = "running" /\ s \in Reloading
               /\ (v.up = "running" => v.run.unit = v.unit) => w.run.unit = w.unit
    BY <1>5, <1>6, <1>7, <2>1, <2>3
  <2>. QED BY <2>2, <2>3 DEF w, v, c
<1>8. CASE k = 3 /\ ~(v2.up = "running" /\ s \in Reloading)
  <2>1. LET x == Restarted(v2, agent, code) IN
        /\ x \in ServiceStates /\ x.unit = v2.unit /\ x.enabled = v2.enabled
        /\ x.up = "running" => x.run.unit = v2.unit
        /\ Supplied(x, c) /\ (code => RunsOn(x, c))
    <3>1. LET x == Restarted(v2, agent, code) IN
          /\ x \in ServiceStates /\ x.unit = v2.unit /\ x.enabled = v2.enabled
          /\ x.up = "running" => x.run.unit = v2.unit
      BY <1>1, <1>5, RestartedIs
    <3>2. LET x == Restarted(v2, agent, code) IN Supplied(x, c) /\ (code => RunsOn(x, c))
      BY <1>1, <1>5, <1>6, <1>8, RestartedRuns
    <3>. QED BY <3>1, <3>2
  <2>2. w = Restarted(v2, agent, code)
    BY <1>2, <1>8
  <2>. HIDE DEF w
  <2>. QED BY <1>5, <2>1, <2>2 DEF w, v, c, code
<1>. HIDE DEF w
<1>9. k < 3 \/ k = 3
  BY <1>3
<1>. QED BY <1>7, <1>8, <1>9 DEF w

(* A replacement that fails has lost its record; one that ran has delivered. *)
LEMMA ReplaceKeeps ==
    ASSUME Inv, NEW s \in Members, Replace(s)
    PROVE  Inv'
<1>. DEFINE r == <<"secrets", s>>
<1>1. /\ Typed /\ Pending /\ design \in DOMAIN Designs /\ RecordedOf(s) /\ SetUp(s) /\ Tidy(svc[s], fails)
      /\ s \in Services
  BY Sorts DEF Inv, Typed
<1>2. Ready(r) /\ Replaced(s) /\ Deployed /\ UNCHANGED <<design, host, released>>
  BY DEF Replace, Deployed
<1>3. /\ Plan.svc[s].secret /\ Delivery(s) = DeliveryOf(Plan, s) /\ DeliveryOf(Plan, s) \in Deliveries
      /\ Content(s) \in Contents \ {None}
  BY <1>1, <1>2, Sorts DEF Replaced, Delivery
<1>4. svc[s].enabled /\ svc[s].unit = Plan.svc[s].unit /\ svc[s].unit # 0 /\ svc[s] \in ServiceStates
  BY <1>1, <1>2, DeliveryReady DEF Typed
<1>5. PICK w \in ServiceStates :
        /\ svc' = [svc EXCEPT ![s] = w] /\ w.unit = svc[s].unit /\ w.enabled = svc[s].enabled
        /\ \/ /\ Succeeds(r, Delivery(s)) /\ Supplied(w, Content(s))
              /\ s \in released \ Reloading => RunsOn(w, Content(s))
              /\ w.up = "running" /\ (svc[s].up = "running" => svc[s].run.unit = svc[s].unit) =>
                    w.run.unit = w.unit
           \/ Fails(r, None)
  <2>1. ASSUME NEW k \in 1..3, svc' = [svc EXCEPT ![s] = Delivered(s, k)],
               (k = 3 /\ Succeeds(r, Delivery(s))) \/ Fails(r, None)
        PROVE  \E w \in ServiceStates :
                 /\ svc' = [svc EXCEPT ![s] = w] /\ w.unit = svc[s].unit /\ w.enabled = svc[s].enabled
                 /\ \/ /\ Succeeds(r, Delivery(s)) /\ Supplied(w, Content(s))
                       /\ s \in released \ Reloading => RunsOn(w, Content(s))
                       /\ w.up = "running" /\ (svc[s].up = "running" => svc[s].run.unit = svc[s].unit) =>
                             w.run.unit = w.unit
                    \/ Fails(r, None)
    <3>. DEFINE w == Delivered(s, k)
    <3>1. /\ w \in ServiceStates /\ w.unit = svc[s].unit /\ w.enabled = svc[s].enabled
          /\ k = 3 => /\ Supplied(w, Content(s))
                      /\ s \in released \ Reloading => RunsOn(w, Content(s))
                      /\ w.up = "running" /\ (svc[s].up = "running" => svc[s].run.unit = svc[s].unit) =>
                            w.run.unit = w.unit
      BY <1>1, <1>3, <1>4, DeliveredIs
    <3>2. svc' = [svc EXCEPT ![s] = w]
      BY <2>1
    <3>. HIDE DEF w
    <3>. QED BY <2>1, <3>1, <3>2
  <2>2. ASSUME Fails(r, None), NEW v \in {svc, [svc EXCEPT ![s].descr = None]}, svc' = v
        PROVE  \E w \in ServiceStates :
                 svc' = [svc EXCEPT ![s] = w] /\ w.unit = svc[s].unit /\ w.enabled = svc[s].enabled
    <3>. DEFINE w == [svc[s] EXCEPT !.descr = None]
    <3>1. w \in ServiceStates /\ w.unit = svc[s].unit /\ w.enabled = svc[s].enabled
      BY <1>4 DEF ServiceStates
    <3>2. CASE svc' = [svc EXCEPT ![s].descr = None]
      <4>1. svc' = [svc EXCEPT ![s] = w]
        BY <3>2
      <4>. HIDE DEF w
      <4>. QED BY <3>1, <4>1
    <3>3. CASE svc' = svc
      <4>1. svc' = [svc EXCEPT ![s] = svc[s]]
        BY <1>1, <3>3 DEF Typed
      <4>. QED BY <1>4, <4>1
    <3>. QED BY <2>2, <3>2, <3>3
  <2>3. \/ \E k \in 1..3 : /\ svc' = [svc EXCEPT ![s] = Delivered(s, k)]
                           /\ (k = 3 /\ Succeeds(r, Delivery(s))) \/ Fails(r, None)
        \/ Fails(r, None) /\ svc' \in {svc, [svc EXCEPT ![s].descr = None]}
    BY DEF Replace
  <2>. QED BY <2>1, <2>2, <2>3
<1>6. Succeeds(r, Delivery(s)) \/ Fails(r, None)
  BY <1>5
<1>7. /\ Pending' /\ rec' = [q \in Commands |-> rec'[q]]
      /\ \A q \in Commands : q # r => rec'[q] = rec[q]
      /\ fails' \in Nat /\ (fails' = 0 => fails = 0)
      /\ Succeeds(r, Delivery(s)) => rec'[r] = Delivery(s)
      /\ Fails(r, None) => fails' # 0 /\ rec'[r] = None
  BY <1>1, <1>2, <1>3, <1>6, DeliveryRuns
<1>8. svc'[s] = w
  BY <1>1, <1>5, ServiceTyped
<1>9. UNCHANGED <<Past, Plan>> /\ Plan \in Past /\ Content(s)' = Content(s) /\ Members' = Members
  BY <1>1, <1>2, Present DEF Past, Plan, Content, Members
<1>10. rec'[<<"provision", s>>] = rec[<<"provision", s>>]
  BY <1>1, <1>7, Commanding DEF ServiceCommands
<1>11. DeliveryOf(Plan, s).trigger = Plan.svc[s].body /\ DeliveryOf(Plan, s).script = Content(s)
       /\ DeliveryOf(Plan, s).rm = FALSE
  BY DEF DeliveryOf, Content
<1>12. RecordedOf(s)'
  <2>1. rec'[r] = None \/ rec'[r] = DeliveryOf(Plan, s)
    BY <1>3, <1>6, <1>7
  <2>2. /\ rec'[r] \in {None} \cup Deliveries
        /\ rec'[r] # None /\ rec'[r].trigger # None =>
              \E d \in Past : /\ s \in DOMAIN d.svc
                              /\ d.svc[s].secret /\ d.svc[s].body = rec'[r].trigger
    BY <1>3, <1>9, <1>11, <2>1 DEF Members
  <2>. QED BY <1>1, <1>9, <1>10, <2>2 DEF RecordedOf
<1>13. SetUp(s)'
  <2>1. rec'[<<"provision", s>>] = BinariesOf(Plan, s) => w.enabled /\ w.unit = Plan.svc[s].unit
    BY <1>4, <1>5
  <2>2. rec'[r] # None =>
           /\ rec'[r].script = Content(s) /\ ~rec'[r].rm /\ Supplied(w, Content(s))
           /\ s \in released \ Reloading => RunsOn(w, Content(s))
    BY <1>3, <1>5, <1>7, <1>11
  <2>. QED BY <1>2, <1>8, <1>9, <2>1, <2>2 DEF SetUp
<1>14. Tidy(svc[s], fails)'
  BY <1>1, <1>4, <1>5, <1>7, <1>8 DEF Tidy
<1>15. "secrets" \in ServiceCommands
  BY DEF ServiceCommands
<1>16. /\ host' \in [Hosts -> HostStates]
       /\ \A h \in Hosts : /\ host'[h].seed = host[h].seed /\ host'[h].config = host[h].config
                           /\ host'[h].loaded = host[h].loaded
  BY <1>1, <1>2 DEF Typed
<1>. QED BY <1>1, <1>2, <1>5, <1>7, <1>12, <1>13, <1>14, <1>15, <1>16, ServiceCommandRuns

(* An update is never of a service with secrets: a recorded delivery of the
   present ones differs in nothing. *)
LEMMA UpdateKeeps ==
    ASSUME Inv, NEW s \in Members, Update(s)
    PROVE  Inv'
<1>. DEFINE r == <<"secrets", s>>
            old == rec[r]
            v1 == [svc[s] EXCEPT !.descr = Delivery(s).script]
            v2 == [v1 EXCEPT !.age = None]
<1>1. /\ Typed /\ Pending /\ design \in DOMAIN Designs /\ RecordedOf(s) /\ SetUp(s) /\ Tidy(svc[s], fails)
      /\ s \in Services
  BY Sorts DEF Inv, Typed
<1>2. Ready(r) /\ ~Replaced(s) /\ Deployed /\ UNCHANGED <<design, host, released>>
  BY DEF Update, Deployed
<1>3. /\ svc[s].enabled /\ svc[s].unit = Plan.svc[s].unit /\ svc[s].unit # 0 /\ svc[s] \in ServiceStates
      /\ old # Delivery(s)
  BY <1>1, <1>2, DeliveryReady DEF Typed
<1>4. ~Plan.svc[s].secret
  <2>1. SUFFICES ASSUME Plan.svc[s].secret PROVE FALSE
    OBVIOUS
  <2>2. old # None /\ old.trigger = Plan.svc[s].body
    BY <1>2, <2>1 DEF Replaced
  <2>3. old \in Deliveries /\ ~old.rm
    BY <1>1, <2>1, <2>2 DEF RecordedOf, SetUp
  <2>4. [old EXCEPT !.rm = FALSE] = old
    <3>1. \A x \in Deliveries : ~x.rm => [x EXCEPT !.rm = FALSE] = x
      BY DEF Deliveries
    <3>. HIDE DEF old
    <3>. QED BY <2>3, <3>1
  <2>. QED BY <1>2, <1>3, <2>1, <2>4 DEF Delivery
<1>5. /\ Delivery(s) \in Deliveries /\ Delivery(s).script \in Contents
      /\ Delivery(s).trigger # None => old # None /\ old.trigger = Delivery(s).trigger
  <2>1. Delivery(s) = [trigger |-> IF old = None THEN None ELSE old.trigger,
                       script |-> Content(s), rm |-> TRUE]
    BY <1>4 DEF Delivery
  <2>2. old # None => old.trigger \in Bodies \cup {None}
    BY <1>1 DEF RecordedOf, Deliveries
  <2>3. Content(s) \in Contents
    BY <1>1, Sorts
  <2>. QED BY <2>1, <2>2, <2>3 DEF Deliveries
<1>6. /\ v1 \in ServiceStates /\ v1.unit = svc[s].unit /\ v1.enabled = svc[s].enabled
      /\ v1.up = svc[s].up /\ v1.run = svc[s].run
  BY <1>3, <1>5 DEF ServiceStates
<1>. HIDE DEF v1
<1>7. /\ v2 \in ServiceStates /\ v2.unit = svc[s].unit /\ v2.enabled = svc[s].enabled
      /\ v2.up = svc[s].up /\ v2.run = svc[s].run
  BY <1>6 DEF ServiceStates
<1>. HIDE DEF v2
<1>8. PICK w \in {v1, v2, svc[s]} :
        svc' = [svc EXCEPT ![s] = w] /\ (Succeeds(r, Delivery(s)) \/ Fails(r, rec[r]))
  <2>1. svc = [svc EXCEPT ![s] = svc[s]]
    BY <1>1 DEF Typed
  <2>. QED BY <2>1 DEF Update, v1, v2
<1>9. w \in ServiceStates /\ w.unit = svc[s].unit /\ w.enabled = svc[s].enabled
      /\ w.up = svc[s].up /\ w.run = svc[s].run
  BY <1>3, <1>6, <1>7, <1>8
<1>10. /\ Pending' /\ rec' = [q \in Commands |-> rec'[q]]
       /\ \A q \in Commands : q # r => rec'[q] = rec[q]
       /\ fails' \in Nat /\ (fails' = 0 => fails = 0)
       /\ rec'[r] = Delivery(s) \/ rec'[r] = old
  <2>1. rec[r] \in {rec[r], None}
    OBVIOUS
  <2>. QED BY <1>1, <1>2, <1>4, <1>5, <1>8, <2>1, DeliveryRuns
<1>11. svc'[s] = w
  BY <1>1, <1>8, <1>9, ServiceTyped
<1>12. UNCHANGED <<Past, Plan>>
  BY <1>2 DEF Past, Plan
<1>13. rec'[<<"provision", s>>] = rec[<<"provision", s>>]
  BY <1>1, <1>10, Commanding DEF ServiceCommands
<1>14. RecordedOf(s)'
  <2>1. /\ rec'[r] \in {None} \cup Deliveries
        /\ rec'[r] # None /\ rec'[r].trigger # None => old # None /\ old.trigger = rec'[r].trigger
    <3>1. CASE rec'[r] = Delivery(s)
      BY <1>5, <3>1
    <3>2. CASE rec'[r] = old
      BY <1>1, <3>2 DEF RecordedOf
    <3>. QED BY <1>10, <3>1, <3>2
  <2>. QED BY <1>1, <1>12, <1>13, <2>1 DEF RecordedOf
<1>15. SetUp(s)'
  BY <1>3, <1>4, <1>9, <1>11, <1>12 DEF SetUp
<1>16. Tidy(svc[s], fails)'
  BY <1>1, <1>3, <1>9, <1>10, <1>11 DEF Tidy
<1>17. "secrets" \in ServiceCommands
  BY DEF ServiceCommands
<1>18. /\ host' \in [Hosts -> HostStates]
       /\ \A h \in Hosts : /\ host'[h].seed = host[h].seed /\ host'[h].config = host[h].config
                           /\ host'[h].loaded = host[h].loaded
  BY <1>1, <1>2 DEF Typed
<1>. QED BY <1>2, <1>8, <1>9, <1>10, <1>14, <1>15, <1>16, <1>17, <1>18, <1>1, ServiceCommandRuns

-----------------------------------------------------------------------------
(* What leaves the records alone.                                            *)

LEMMA BesideKeeps ==
    ASSUME Inv, UNCHANGED <<design, rec>>, Pending', fails' \in Nat, fails' = 0 => fails = 0,
           released' \subseteq Services,
           host' \in [Hosts -> HostStates], svc' \in [Services -> ServiceStates],
           \A h \in Hosts :
               /\ host'[h].seed = host[h].seed /\ host'[h].config = host[h].config
               /\ (/\ host[h].config # None /\ DOMAIN host[h].config \subseteq host[h].seed
                   /\ host[h].loaded = host[h].config)
                     => host'[h].loaded = host[h].config,
           \A s \in Services :
               \/ svc'[s] = svc[s] /\ (s \in released' => s \in released)
               \/ (RecordedOf(s) /\ SetUp(s) /\ Tidy(svc[s], fails))'
    PROVE  Inv'
<1>1. /\ Typed /\ Pending
      /\ \A h \in Hosts : RecordedAt(h) /\ Seeded(h) /\ Wired(h)
      /\ \A s \in Services : RecordedOf(s) /\ SetUp(s) /\ Tidy(svc[s], fails)
  BY DEF Inv
<1>2. Typed'
  BY <1>1 DEF Typed
<1>3. ASSUME NEW h \in Hosts PROVE (RecordedAt(h) /\ Seeded(h) /\ Wired(h))'
  <2>1. /\ host'[h].seed = host[h].seed /\ host'[h].config = host[h].config
        /\ (/\ host[h].config # None /\ DOMAIN host[h].config \subseteq host[h].seed
            /\ host[h].loaded = host[h].config)
              => host'[h].loaded = host[h].config
    OBVIOUS
  <2>2. \A c \in HostCommands : rec'[<<c, h>>] = rec[<<c, h>>]
    OBVIOUS
  <2>. QED BY <1>1, <2>1, <2>2, HostFrames
<1>4. ASSUME NEW s \in Services PROVE (RecordedOf(s) /\ SetUp(s) /\ Tidy(svc[s], fails))'
  <2>1. CASE svc'[s] = svc[s] /\ (s \in released' => s \in released)
    <3>1. \A c \in ServiceCommands : rec'[<<c, s>>] = rec[<<c, s>>]
      OBVIOUS
    <3>. QED BY <1>1, <2>1, <3>1, ServiceFrames
  <2>. QED BY <2>1
<1>. QED BY <1>2, <1>3, <1>4 DEF Inv

(* The engine's own steps. *)
LEMMA EngineKeeps ==
    ASSUME Inv, Begin \/ End \/ Kill
    PROVE  Inv'
<1>1. Typed /\ Pending
  BY DEF Inv
<1>2. UNCHANGED <<design, rec, host, svc, released>>
  BY DEF Begin, End, Kill
<1>3. Graph' = Graph /\ \A r \in Graph : Differs(r)' <=> Differs(r)
  BY <1>2, GraphFrames, DiffersFrames
<1>4. Pending'
  <2>1. CASE Begin
    BY <1>3, <2>1 DEF Begin, Pending
  <2>2. CASE End
    <3>1. todo = {} => \A r \in Graph : ~Differs(r)
      BY <1>1, <2>2 DEF End, Pending
    <3>. QED BY <1>3, <2>2, <3>1 DEF End, Pending
  <2>3. CASE Kill
    BY <2>3 DEF Kill, Pending
  <2>. QED BY <2>1, <2>2, <2>3
<1>5. fails' \in Nat /\ (fails' = 0 => fails = 0)
  <2>1. fails \in Nat /\ (fails' = fails \/ fails' = fails + 1)
    BY <1>1 DEF Begin, End, Kill, Typed
  <2>. QED BY <2>1
<1>. QED BY <1>1, <1>2, <1>4, <1>5, BesideKeeps DEF Typed

(* A host acts beside the deploy. *)
LEMMA HostMoves ==
    ASSUME Inv, Hosted, UNCHANGED <<svc, released>>, NEW h \in Hosts, NEW x \in HostStates,
           host' = [host EXCEPT ![h] = x], x.seed = host[h].seed, x.config = host[h].config,
           x.loaded \in {host[h].loaded, host[h].config}
    PROVE  Inv'
<1>1. Typed /\ Pending /\ UNCHANGED <<design, rec, fails>>
  BY DEF Inv, Hosted
<1>2. /\ host' \in [Hosts -> HostStates] /\ host'[h] = x
      /\ \A g \in Hosts : g # h => host'[g] = host[g]
  BY <1>1, HostTyped
<1>3. \A g \in Hosts : /\ host'[g].seed = host[g].seed /\ host'[g].config = host[g].config
                       /\ host'[g].loaded \in {host[g].loaded, host[g].config}
  BY <1>2
<1>4. Pending'
  BY <1>1, PendingFrames DEF Hosted
<1>. QED BY <1>1, <1>2, <1>3, <1>4, BesideKeeps DEF Typed

LEMMA RenewKeeps ==
    ASSUME Inv, NEW h \in Hosts, Renew(h)
    PROVE  Inv'
<1>. DEFINE x == [host[h] EXCEPT !.leaf = Egress(h), !.certs = @ \cup Egress(h)]
            y == [x EXCEPT !.loaded = x.config]
<1>1. Hosted /\ UNCHANGED <<svc, released>>
  BY DEF Renew
<1>2. host[h] \in HostStates /\ Egress(h) \subseteq Services
  BY Sorts DEF Inv, Typed
<1>3. x \in HostStates /\ x.seed = host[h].seed /\ x.config = host[h].config /\ x.loaded = host[h].loaded
  BY <1>2 DEF HostStates
<1>. HIDE DEF x
<1>4. y \in HostStates /\ y.seed = host[h].seed /\ y.config = host[h].config /\ y.loaded = host[h].config
  BY <1>3 DEF HostStates
<1>. HIDE DEF y
<1>5. host' = [host EXCEPT ![h] = IF x.loaded # None /\ Validates(x) THEN y ELSE x]
  BY DEF Renew, x, y
<1>6. PICK z \in {x, y} : host' = [host EXCEPT ![h] = z]
  BY <1>5
<1>. QED BY <1>1, <1>3, <1>4, <1>6, HostMoves

LEMMA ProxyRespawnKeeps ==
    ASSUME Inv, NEW h \in Hosts, ProxyRespawn(h)
    PROVE  Inv'
<1>. DEFINE x == ProxyStarted(host[h])
<1>1. Hosted /\ UNCHANGED <<svc, released>>
  BY DEF ProxyRespawn
<1>2. host[h] \in HostStates /\ host \in [Hosts -> HostStates]
  BY DEF Inv, Typed
<1>3. /\ x \in HostStates /\ x.seed = host[h].seed /\ x.config = host[h].config
      /\ x.loaded \in {host[h].loaded, host[h].config}
  BY <1>2, ProxyStartedIs
<1>4. host' = [host EXCEPT ![h] = x]
  BY DEF ProxyRespawn
<1>. HIDE DEF x
<1>. QED BY <1>1, <1>3, <1>4, HostMoves

(* A service (re)starts beside the deploy, its first release included. *)
LEMMA ServiceMoves ==
    ASSUME Inv, Hosted, UNCHANGED host, NEW s \in Services, svc[s].unit # 0,
           released' = released \/ released' = released \cup {s},
           svc' = [svc EXCEPT ![s] = Restarted(svc[s], host[HostOf[s]].agent, TRUE)]
    PROVE  Inv'
<1>1. /\ Typed /\ Pending /\ UNCHANGED <<design, rec, fails>>
      /\ RecordedOf(s) /\ SetUp(s) /\ Tidy(svc[s], fails)
  BY DEF Inv, Hosted
<1>. DEFINE a == host[HostOf[s]].agent
            v == Restarted(svc[s], a, TRUE)
<1>2. a \in Agents /\ svc[s] \in ServiceStates
  <2>1. HostOf[s] \in Hosts
    BY DesignsAssumption
  <2>2. host[HostOf[s]] \in HostStates
    BY <1>1, <2>1 DEF Typed
  <2>. QED BY <1>1, <2>2 DEF Typed, HostStates
<1>3. v \in ServiceStates /\ svc' = [svc EXCEPT ![s] = v]
  BY <1>2, RestartedIs
<1>4. /\ svc' \in [Services -> ServiceStates] /\ svc'[s] = v
      /\ \A t \in Services : t # s => svc'[t] = svc[t]
  BY <1>1, <1>3, ServiceTyped
<1>5. svc'[s] = Restarted(svc[s], a, TRUE)
  BY <1>4
<1>. HIDE DEF a, v
<1>6. (RecordedOf(s) /\ SetUp(s) /\ Tidy(svc[s], fails))'
  BY <1>1, <1>2, <1>5, ServiceRestarts
<1>7. Pending'
  BY <1>1, PendingFrames DEF Hosted
<1>8. \A t \in Services : \/ svc'[t] = svc[t] /\ (t \in released' => t \in released)
                          \/ (RecordedOf(t) /\ SetUp(t) /\ Tidy(svc[t], fails))'
  <2>1. ASSUME NEW t \in Services
        PROVE  \/ svc'[t] = svc[t] /\ (t \in released' => t \in released)
               \/ (RecordedOf(t) /\ SetUp(t) /\ Tidy(svc[t], fails))'
    <3>1. CASE t = s
      BY <1>6, <3>1
    <3>2. CASE t # s
      BY <1>4, <3>2
    <3>. QED BY <3>1, <3>2
  <2>. QED BY <2>1
<1>. QED BY <1>1, <1>4, <1>7, <1>8, BesideKeeps DEF Typed

LEMMA ReleaseKeeps ==
    ASSUME Inv, NEW s \in Services, Release(s)
    PROVE  Inv'
  BY ServiceMoves DEF Release

LEMMA RespawnKeeps ==
    ASSUME Inv, NEW s \in Services, Respawn(s)
    PROVE  Inv'
<1>1. svc[s].unit # 0
  BY DEF Inv, Tidy, Respawn
<1>. QED BY <1>1, ServiceMoves DEF Respawn

(* After a reboot the proxy seeds what its seed script names, and every unit
   that is enabled starts. *)
LEMMA RebootKeeps ==
    ASSUME Inv, NEW h \in Hosts, Reboot(h)
    PROVE  Inv'
<1>1. /\ Typed /\ Pending /\ UNCHANGED <<design, rec, fails, released>> /\ Hosted
      /\ \A s \in Services : RecordedOf(s) /\ SetUp(s) /\ Tidy(svc[s], fails)
  BY DEF Inv, Reboot, Hosted
<1>. DEFINE x == [host[h] EXCEPT !.certs = {}, !.loaded = None]
            y == ProxyStarted(x)
            code(s) == svc[s].enabled /\ s \in released
<1>2. host[h] \in HostStates /\ host[h].agent \in Agents
  BY <1>1 DEF Typed, HostStates
<1>3. x \in HostStates /\ x.seed = host[h].seed /\ x.config = host[h].config
  BY <1>2 DEF HostStates
<1>. HIDE DEF x
<1>4. /\ y \in HostStates /\ y.seed = x.seed /\ y.config = x.config
      /\ x.config # None /\ DOMAIN x.config \subseteq x.seed => y.loaded = x.config
  BY <1>3, ProxyStartedIs
<1>. HIDE DEF y
<1>5. host' = [host EXCEPT ![h] = y]
  BY DEF Reboot, x, y
<1>6. /\ host' \in [Hosts -> HostStates] /\ host'[h] = y
      /\ \A g \in Hosts : g # h => host'[g] = host[g]
  BY <1>1, <1>4, <1>5, HostTyped
<1>7. \A g \in Hosts :
        /\ host'[g].seed = host[g].seed /\ host'[g].config = host[g].config
        /\ (/\ host[g].config # None /\ DOMAIN host[g].config \subseteq host[g].seed
            /\ host[g].loaded = host[g].config)
              => host'[g].loaded = host[g].config
  BY <1>3, <1>4, <1>6
<1>8. svc' = [s \in Services |-> IF HostOf[s] # h THEN svc[s] ELSE Restarted(svc[s], host[h].agent, code(s))]
  BY DEF Reboot
<1>9. ASSUME NEW s \in Services
      PROVE  /\ svc'[s] \in ServiceStates
             /\ \/ svc'[s] = svc[s]
                \/ (RecordedOf(s) /\ SetUp(s) /\ Tidy(svc[s], fails))'
  <2>1. svc[s] \in ServiceStates
    BY <1>1 DEF Typed
  <2>2. CASE HostOf[s] # h
    BY <1>8, <2>1, <2>2
  <2>3. CASE HostOf[s] = h
    <3>1. svc'[s] = Restarted(svc[s], host[h].agent, code(s))
      BY <1>8, <2>3
    <3>2. svc[s].unit # 0 \/ ~code(s)
      BY <1>1 DEF Tidy
    <3>3. svc[s].enabled /\ s \in released' => code(s)
      BY <1>1
    <3>. HIDE DEF code
    <3>. QED BY <1>1, <1>2, <3>1, <3>2, <3>3, ServiceRestarts
  <2>. QED BY <2>2, <2>3
<1>10. svc' \in [Services -> ServiceStates]
  BY <1>8, <1>9
<1>11. Pending'
  BY <1>1, PendingFrames DEF Hosted
<1>. QED BY <1>1, <1>6, <1>7, <1>9, <1>10, <1>11, BesideKeeps DEF Typed

-----------------------------------------------------------------------------
(* A command that left the program: its service or its mesh is not in the     *)
(* sources any more.                                                          *)

LEMMA DeleteKeeps ==
    ASSUME Inv, NEW r \in Orphans, Delete(r)
    PROVE  Inv'
<1>1. /\ Typed /\ Pending
      /\ \A h \in Hosts : RecordedAt(h) /\ Seeded(h) /\ Wired(h)
      /\ \A s \in Services : RecordedOf(s) /\ SetUp(s) /\ Tidy(svc[s], fails)
      /\ design \in DOMAIN Designs
  BY DEF Inv, Typed
<1>2. /\ outcome = "running" /\ todo = {} /\ UNCHANGED <<design, todo, failed, host, released>>
      /\ r \in Commands /\ r \notin Graph
      /\ outcome' \in {"running", "red"}
      /\ svc' = svc \/ svc' = Removed(r)
  BY DEF Delete, Orphans
<1>3. rec' = rec \/ rec' = [rec EXCEPT ![r] = None]
  BY DEF Delete
<1>4. /\ rec' = [q \in Commands |-> rec'[q]] /\ rec'[r] \in {rec[r], None}
      /\ \A q \in Commands : q # r => rec'[q] = rec[q]
  BY <1>1, <1>2, <1>3, RecordTyped DEF Typed
<1>5. fails' \in Nat /\ (fails' = 0 => fails = 0)
  <2>1. fails \in Nat /\ (fails' = fails \/ fails' = fails + 1)
    BY <1>1 DEF Delete, Typed
  <2>. QED BY <2>1
<1>6. Pending'
  <2>1. Graph' = Graph /\ Graph \subseteq Commands
    BY <1>1, <1>2, GraphFrames, Commanding
  <2>2. \A q \in Graph : Differs(q)' <=> Differs(q)
    BY <1>2, <1>4, <2>1, DiffersFrames
  <2>. QED BY <1>1, <1>2, <2>1, <2>2 DEF Pending
<1>7. UNCHANGED <<Past, Ahead, Plan>> /\ Members' = Members
  BY <1>2 DEF Past, Ahead, Plan, Members
<1>8. ASSUME NEW h \in Hosts PROVE (RecordedAt(h) /\ Seeded(h) /\ Wired(h))'
  <2>1. \A c \in HostCommands : <<c, h>> \in Commands /\ rec'[<<c, h>>] \in {rec[<<c, h>>], None}
    BY <1>1, <1>4, Commanding
  <2>2. \A d \in Ahead : EgressOf(d, h) # None
    <3>1. \A d \in Ahead : \E i \in DOMAIN Designs : d = Designs[i]
      BY <1>1, Present
    <3>. QED BY <3>1, SortsOf
  <2>3. RecordedAt(h)'
    BY <1>1, <1>7, <2>1 DEF RecordedAt, HostCommands
  <2>4. Seeded(h)'
    BY <1>1, <1>2, <1>7, <2>1, <2>2 DEF Seeded, HostCommands
  <2>5. Egress(h)' = Egress(h) /\ Mesh(h)' = Mesh(h) /\ Mesh(h) # None
    BY <1>1, <1>7, Sorts DEF Egress, Mesh
  <2>6. Wired(h)'
    BY <1>1, <1>2, <2>1, <2>5 DEF Wired, HostCommands
  <2>. QED BY <2>3, <2>4, <2>6
<1>9. ASSUME NEW s \in Services, s # r[2] \/ r[1] \notin ServiceCommands
      PROVE  svc'[s] = svc[s] /\ (RecordedOf(s) /\ SetUp(s) /\ Tidy(svc[s], fails))'
  <2>1. svc'[s] = svc[s]
    BY <1>1, <1>2, <1>9 DEF Removed, Typed, ServiceCommands
  <2>2. \A c \in ServiceCommands : <<c, s>> # r
    BY <1>9
  <2>3. \A c \in ServiceCommands : rec'[<<c, s>>] = rec[<<c, s>>]
    BY <1>1, <1>4, <2>2, Commanding
  <2>. QED BY <1>1, <1>2, <1>5, <2>1, <2>3, ServiceFrames
<1>10. ASSUME NEW s \in Services, s = r[2], r[1] \in ServiceCommands
       PROVE  svc'[s] \in ServiceStates /\ (RecordedOf(s) /\ SetUp(s) /\ Tidy(svc[s], fails))'
  <2>1. r = <<r[1], s>>
    BY <1>2, <1>10 DEF Commands, ServiceCommands, HostCommands
  <2>2. s \notin Members
    BY <1>1, <1>2, <1>10, <2>1, Commanding
  <2>3. SetUp(s)'
    BY <1>7, <2>2 DEF SetUp
  <2>4. RecordedOf(s)'
    <3>1. \A c \in ServiceCommands : rec'[<<c, s>>] \in {rec[<<c, s>>], None}
      BY <1>1, <1>4, Commanding
    <3>. QED BY <1>1, <1>7, <3>1 DEF RecordedOf, ServiceCommands
  <2>5. svc'[s] \in ServiceStates /\ Tidy(svc'[s], fails)
    <3>. DEFINE w == Deprovisioned(svc[s])
                x == [svc[s] EXCEPT !.descr = None]
    <3>1. svc[s] \in ServiceStates /\ Tidy(svc[s], fails) /\ svc \in [Services -> ServiceStates]
      BY <1>1 DEF Typed
    <3>2. 0 \in Units
      BY DEF Units
    <3>3. w \in ServiceStates /\ Tidy(w, fails)
      BY <3>1, <3>2 DEF ServiceStates, Tidy, Deprovisioned
    <3>4. x \in ServiceStates /\ Tidy(x, fails)
      BY <3>1 DEF ServiceStates, Tidy
    <3>. HIDE DEF w, x
    <3>5. svc'[s] \in {svc[s], w, x}
      BY <1>2, <1>10, <3>1 DEF Removed, w, x
    <3>. QED BY <3>1, <3>3, <3>4, <3>5
  <2>6. Tidy(svc[s], fails)'
    BY <1>5, <2>5 DEF Tidy
  <2>. QED BY <2>3, <2>4, <2>5, <2>6
<1>11. svc' \in [Services -> ServiceStates]
  <2>1. DOMAIN svc' = Services /\ svc' = [s \in Services |-> svc'[s]]
    BY <1>1, <1>2 DEF Removed, Typed
  <2>2. \A s \in Services : svc[s] \in ServiceStates
    BY <1>1 DEF Typed
  <2>3. \A s \in Services : svc'[s] \in ServiceStates
    BY <1>9, <1>10, <2>2
  <2>. QED BY <2>1, <2>3
<1>12. Typed'
  BY <1>1, <1>2, <1>4, <1>5, <1>11 DEF Typed
<1>. QED BY <1>6, <1>8, <1>9, <1>10, <1>12 DEF Inv

-----------------------------------------------------------------------------
(* The sources move to their next version.  A record that matches what it asks *)
(* for is that of an earlier one that asked for the same, and so does the      *)
(* present one.                                                                *)

LEMMA EditKeeps ==
    ASSUME NothingReturns, Inv, Edit
    PROVE  Inv'
<1>1. /\ Typed /\ Pending
      /\ \A h \in Hosts : RecordedAt(h) /\ Seeded(h) /\ Wired(h)
      /\ \A s \in Services : RecordedOf(s) /\ SetUp(s) /\ Tidy(svc[s], fails)
      /\ design \in DOMAIN Designs
  BY DEF Inv, Typed
<1>2. /\ UNCHANGED <<todo, failed, rec, host, svc, released, fails>> /\ todo = {}
      /\ outcome' = "stale"
  BY <1>1 DEF Edit, Pending
<1>3. design' \in DOMAIN Designs /\ Past \subseteq Past' /\ Ahead' \subseteq Ahead /\ Plan' \in Ahead
  <2>1. /\ Len(Designs) \in Nat /\ DOMAIN Designs = 1..Len(Designs)
        /\ design' = design + 1 /\ design < Len(Designs) /\ design \in 1..Len(Designs)
    BY <1>1, DesignsAssumption DEF Edit
  <2>2. design' \in DOMAIN Designs /\ 1..design \subseteq 1..design'
        /\ design'..Len(Designs) \subseteq design..Len(Designs) /\ design' \in design..Len(Designs)
    BY <2>1
  <2>. QED BY <2>2 DEF Past, Ahead, Plan
<1>4. Typed'
  BY <1>1, <1>2, <1>3 DEF Typed
<1>5. Pending'
  BY <1>1, <1>2 DEF Pending
<1>6. ASSUME NEW h \in Hosts PROVE (RecordedAt(h) /\ Seeded(h) /\ Wired(h))'
  <2>1. RecordedAt(h)'
    BY <1>1, <1>2, <1>3 DEF RecordedAt
  <2>2. Seeded(h)'
    BY <1>1, <1>2, <1>3 DEF Seeded
  <2>3. Wired(h)'
    <3>1. PICK j \in DOMAIN Designs : Plan' = Designs[j]
      BY <1>1, <1>3, Present
    <3>2. MeshOf(Plan', h) # None /\ DOMAIN MeshOf(Plan', h) = EgressOf(Plan', h)
      BY <3>1, SortsOf
    <3>3. ASSUME NEW c \in {"config", "reload"}, EgressOf(Plan', h) # {}, rec[<<c, h>>] = MeshOf(Plan', h)
          PROVE  Mesh(h) = MeshOf(Plan', h) /\ Egress(h) = EgressOf(Plan', h)
      <4>1. PICK d \in Past : EgressOf(d, h) # {} /\ MeshOf(d, h) = MeshOf(Plan', h)
        BY <1>1, <3>2, <3>3 DEF RecordedAt
      <4>2. Mesh(h) = MeshOf(Plan', h)
        BY <1>1, <1>3, <4>1, MapsStay
      <4>. QED BY <1>1, <3>2, <4>2, Sorts
    <3>4. Egress(h)' = EgressOf(Plan', h) /\ Mesh(h)' = MeshOf(Plan', h)
      BY DEF Egress, Mesh
    <3>. QED BY <1>1, <1>2, <3>3, <3>4 DEF Wired
  <2>. QED BY <2>1, <2>2, <2>3
<1>7. ASSUME NEW s \in Services PROVE (RecordedOf(s) /\ SetUp(s) /\ Tidy(svc[s], fails))'
  <2>1. RecordedOf(s)'
    BY <1>1, <1>2, <1>3 DEF RecordedOf
  <2>2. Tidy(svc[s], fails)'
    BY <1>1, <1>2 DEF Tidy
  <2>3. SetUp(s)'
    <3>1. PICK j \in DOMAIN Designs : Plan' = Designs[j]
      BY <1>1, <1>3, Present
    <3>2. SUFFICES ASSUME s \in DOMAIN (Plan').svc PROVE SetUp(s)'
      BY DEF SetUp, Members
    <3>3. /\ BinariesOf(Plan', s) # None /\ (Plan').svc[s].body # None
          /\ (Plan').svc[s].secret \in BOOLEAN
      BY <3>1, <3>2, SortsOf
    <3>4. ASSUME rec[<<"provision", s>>] = BinariesOf(Plan', s)
          PROVE  svc[s].enabled /\ svc[s].unit = (Plan').svc[s].unit
      <4>1. PICK d \in Past : s \in DOMAIN d.svc /\ BinariesOf(d, s) = BinariesOf(Plan', s)
        BY <1>1, <3>3, <3>4 DEF RecordedOf
      <4>2. s \in Members /\ BinariesOf(Plan, s) = BinariesOf(Plan', s)
        BY <1>1, <1>3, <3>2, <4>1, ServicesStay
      <4>3. Plan.svc[s].unit = (Plan').svc[s].unit
        BY <4>2 DEF BinariesOf
      <4>. QED BY <1>1, <3>4, <4>2, <4>3 DEF SetUp
    <3>5. ASSUME (Plan').svc[s].secret, rec[<<"secrets", s>>] # None,
                 rec[<<"secrets", s>>].trigger = (Plan').svc[s].body
          PROVE  /\ rec[<<"secrets", s>>].script = ContentOf(Plan', s) /\ ~rec[<<"secrets", s>>].rm
                 /\ Supplied(svc[s], ContentOf(Plan', s))
                 /\ s \in released \ Reloading => RunsOn(svc[s], ContentOf(Plan', s))
      <4>1. PICK d \in Past : s \in DOMAIN d.svc /\ d.svc[s].secret /\ d.svc[s].body = (Plan').svc[s].body
        BY <1>1, <3>3, <3>5 DEF RecordedOf
      <4>2. PICK i \in DOMAIN Designs : d = Designs[i]
        BY <1>1, Present
      <4>3. d.svc[s].secret = TRUE /\ (Plan').svc[s].secret = TRUE
        BY <3>3, <3>5, <4>1, <4>2, SortsOf
      <4>4. ContentOf(d, s) = ContentOf(Plan', s)
        BY <4>1, <4>3 DEF ContentOf
      <4>5. s \in Members /\ Content(s) = ContentOf(Plan', s)
        BY <1>1, <1>3, <3>2, <4>1, <4>4, ServicesStay
      <4>6. Plan.svc[s].secret = (Plan').svc[s].secret /\ Plan.svc[s].body = (Plan').svc[s].body
        BY <4>5 DEF Content, ContentOf
      <4>. QED BY <1>1, <3>5, <4>5, <4>6 DEF SetUp
    <3>6. Content(s)' = ContentOf(Plan', s)
      BY DEF Content
    <3>. QED BY <1>2, <3>4, <3>5, <3>6 DEF SetUp
  <2>. QED BY <2>1, <2>2, <2>3
<1>. QED BY <1>4, <1>5, <1>6, <1>7 DEF Inv

-----------------------------------------------------------------------------
LEMMA InitInv ==
    ASSUME Init
    PROVE  Inv
<1>1. 1 \in DOMAIN Designs /\ design = 1
  BY DesignsAssumption DEF Init
<1>2. Typed
  <2>1. [agent |-> 0, seed |-> {}, config |-> None, loaded |-> None, certs |-> {}, leaf |-> {}] \in HostStates
    BY DEF HostStates, Agents
  <2>2. [unit |-> 0, enabled |-> FALSE, descr |-> None, age |-> None, up |-> "down", run |-> None] \in ServiceStates
    BY DEF ServiceStates, Units
  <2>3. released \subseteq Services
    BY DesignsAssumption DEF Init
  <2>. QED BY <1>1, <2>1, <2>2, <2>3 DEF Init, Typed
<1>3. Pending
  BY DEF Init, Pending
<1>4. ASSUME NEW h \in Hosts PROVE RecordedAt(h) /\ Seeded(h) /\ Wired(h)
  <2>1. \A c \in HostCommands : rec[<<c, h>>] = None
    BY <1>1, Commanding DEF Init
  <2>2. \A d \in Ahead : EgressOf(d, h) # None
    <3>1. \A d \in Ahead : \E i \in DOMAIN Designs : d = Designs[i]
      BY <1>1, Present
    <3>. QED BY <3>1, SortsOf
  <2>3. Mesh(h) # None
    BY <1>1, Sorts
  <2>. QED BY <2>1, <2>2, <2>3 DEF RecordedAt, Seeded, Wired, HostCommands
<1>5. ASSUME NEW s \in Services PROVE RecordedOf(s) /\ SetUp(s) /\ Tidy(svc[s], fails)
  <2>1. \A c \in ServiceCommands : rec[<<c, s>>] = None
    BY <1>1, Commanding DEF Init
  <2>2. s \in Members => BinariesOf(Plan, s) # None
    BY <1>1, Sorts
  <2>3. Tidy(svc[s], fails)
    BY DEF Init, Tidy
  <2>. QED BY <2>1, <2>2, <2>3 DEF RecordedOf, SetUp, ServiceCommands
<1>. QED BY <1>2, <1>3, <1>4, <1>5 DEF Inv

LEMMA StutterInv ==
    ASSUME Inv, UNCHANGED vars
    PROVE  Inv'
<1>1. UNCHANGED <<design, outcome, todo, failed, rec, host, svc, released, fails>>
  BY DEF vars
<1>2. Pending'
  BY <1>1, PendingFrames DEF Inv
<1>3. Typed
  BY DEF Inv
<1>. QED BY <1>1, <1>2, <1>3, BesideKeeps DEF Typed

LEMMA NextInv ==
    ASSUME NothingReturns, Inv, Next
    PROVE  Inv'
<1>1. CASE Begin \/ End \/ Kill
  BY <1>1, EngineKeeps
<1>2. CASE Command
  <2>1. ASSUME NEW h \in Hosts, Gate(h) \/ MeshUnit(h) \/ MeshConfig(h) \/ MeshReload(h)
        PROVE  Inv'
    BY <2>1, GateKeeps, MeshUnitKeeps, MeshConfigKeeps, MeshReloadKeeps
  <2>2. ASSUME NEW s \in Members, Provision(s) \/ Replace(s) \/ Update(s)
        PROVE  Inv'
    BY <2>2, ProvisionKeeps, ReplaceKeeps, UpdateKeeps
  <2>. QED BY <1>2, <2>1, <2>2 DEF Command
<1>3. CASE \E r \in Orphans : Delete(r)
  BY <1>3, DeleteKeeps
<1>4. CASE Edit
  BY <1>4, EditKeeps
<1>5. ASSUME NEW s \in Services, Release(s) \/ Respawn(s)
      PROVE  Inv'
  BY <1>5, ReleaseKeeps, RespawnKeeps
<1>6. ASSUME NEW h \in Hosts, Renew(h) \/ ProxyRespawn(h) \/ Reboot(h)
      PROVE  Inv'
  BY <1>6, RenewKeeps, ProxyRespawnKeeps, RebootKeeps
<1>. QED BY <1>1, <1>2, <1>3, <1>4, <1>5, <1>6 DEF Next, Engine

(* The records and the hosts agree at every moment of every deployment
   (program.go:1568-1594, providers/hetzner/mesh.go:98-136): a command whose record
   is what the present version asks for has left on its host what it makes, through
   failures, edits, reboots, renewals, releases and deaths. *)
THEOREM DeployInvariance ==
    ASSUME NothingReturns
    PROVE  Spec => []Inv
<1>1. Init => Inv
  BY InitInv
<1>2. Inv /\ [Next]_vars => Inv'
  BY NextInv, StutterInv
<1>. QED BY <1>1, <1>2, PTL DEF Spec

-----------------------------------------------------------------------------
(* A green deploy left nothing that differs; then every delivery of secrets has
   run since its service's descriptor last changed, and every proxy has loaded
   the map of the sources.  What reboots, dies, is renewed or released after it
   comes back to the same. *)
LEMMA GreenIsDone ==
    ASSUME Inv
    PROVE  GreenMeansDone
<1>1. /\ Typed /\ Pending /\ design \in DOMAIN Designs
      /\ \A h \in Hosts : Wired(h)
      /\ \A s \in Services : SetUp(s) /\ Tidy(svc[s], fails)
  BY DEF Inv, Typed
<1>2. SUFFICES ASSUME outcome = "green" PROVE Loaded /\ Meshed /\ InputsLiveWithUnit
  BY DEF GreenMeansDone
<1>3. \A r \in Graph : ~Differs(r)
  BY <1>1, <1>2 DEF Pending
<1>4. Loaded
  <2>1. SUFFICES ASSUME NEW s \in Members \cap released, Plan.svc[s].secret, s \notin Reloading
                 PROVE  /\ svc[s].up = "running" /\ svc[s].run.descr = Content(s)
                        /\ svc[s].run.age = Plan.svc[s].body
                        /\ fails = 0 => svc[s].run.unit = Plan.svc[s].unit
    BY DEF Loaded
  <2>2. /\ s \in Services /\ <<"provision", s>> \in Graph /\ <<"secrets", s>> \in Graph
        /\ Content(s).body = Plan.svc[s].body
        /\ DeliveryOf(Plan, s) \in Deliveries
    BY <1>1, Sorts, Commanding DEF ServiceCommands
  <2>3. rec[<<"provision", s>>] = BinariesOf(Plan, s) /\ rec[<<"secrets", s>>] = Delivery(s)
    BY <1>3, <2>2, ServiceInputs DEF Differs
  <2>4. ~Replaced(s)
    <3>1. SUFFICES ASSUME Replaced(s) PROVE FALSE
      OBVIOUS
    <3>2. rec[<<"secrets", s>>] = DeliveryOf(Plan, s)
      BY <2>1, <2>3, <3>1 DEF Delivery
    <3>3. rec[<<"secrets", s>>] # None /\ rec[<<"secrets", s>>].trigger = Plan.svc[s].body
      <4>1. DeliveryOf(Plan, s).trigger = Plan.svc[s].body
        BY DEF DeliveryOf
      <4>. QED BY <2>2, <3>2, <4>1, NoDelivery
    <3>. QED BY <3>1, <3>3 DEF Replaced
  <2>5. rec[<<"secrets", s>>] # None /\ rec[<<"secrets", s>>].trigger = Plan.svc[s].body
    BY <2>1, <2>4 DEF Replaced
  <2>6. RunsOn(svc[s], Content(s)) /\ svc[s].unit = Plan.svc[s].unit
    BY <1>1, <2>1, <2>2, <2>3, <2>5 DEF SetUp
  <2>7. fails = 0 /\ svc[s].up = "running" => svc[s].run.unit = svc[s].unit
    BY <1>1, <2>2 DEF Tidy
  <2>. QED BY <2>2, <2>6, <2>7 DEF RunsOn
<1>5. Meshed
  <2>1. SUFFICES ASSUME NEW h \in Hosts, Egress(h) # {} PROVE host[h].loaded = Mesh(h)
    BY DEF Meshed
  <2>2. <<"reload", h>> \in Graph
    BY <1>1, <2>1, Commanding
  <2>3. rec[<<"reload", h>>] = Mesh(h)
    BY <1>3, <2>2, HostInputs DEF Differs
  <2>. QED BY <1>1, <2>1, <2>3 DEF Wired
<1>6. InputsLiveWithUnit
  BY <1>1 DEF InputsLiveWithUnit, Tidy
<1>. QED BY <1>4, <1>5, <1>6

(* Whatever order the engine picked, whatever failed, died or rebooted and however
   often the sources changed on the way, a deploy is green only when the hosts are
   what the sources say, and stays true until the next edit (program.go:1568-1594). *)
THEOREM GreenMeansDoneAlways ==
    ASSUME NothingReturns
    PROVE  Spec => []GreenMeansDone
<1>1. Inv => GreenMeansDone
  BY GreenIsDone
<1>. QED BY <1>1, DeployInvariance, PTL

-----------------------------------------------------------------------------
(* A command of a service that is ready finds every reload it waits for loaded. *)
LEMMA ReadyIsAdmitted ==
    ASSUME Inv, NEW s \in Members, NEW c \in ServiceCommands, Ready(<<c, s>>),
           c = "secrets" => Plan.svc[s].secret
    PROVE  Admitted(s)
<1>1. Typed /\ Pending /\ design \in DOMAIN Designs /\ \A h \in Hosts : Wired(h)
  BY DEF Inv, Typed
<1>2. s \in Services /\ Members \subseteq Services /\ Members = DOMAIN Designs[design].svc
  BY <1>1, Sorts DEF Members, Plan
<1>3. \A q \in DependsOn(<<c, s>>) \cap Graph : ~Differs(q)
  BY <1>1, ReadyIs
<1>4. Reloads(HostOf[s]) \subseteq DependsOn(<<c, s>>)
  BY ServiceInputs DEF ServiceCommands
<1>5. SUFFICES ASSUME NEW t \in Members, s \in Plan.svc[t].callers
               PROVE  /\ host[HostOf[t]].loaded # None
                      /\ t \in DOMAIN host[HostOf[t]].loaded /\ s \in host[HostOf[t]].loaded[t]
  BY DEF Admitted
<1>. DEFINE h == HostOf[t]
<1>6. h \in {Global, HostOf[s]} /\ h \in Hosts
  BY <1>1, <1>2, <1>5, DesignsAssumption DEF Plan
<1>7. t \in Egress(h)
  BY DEF Egress, EgressOf, Members
<1>8. <<"reload", h>> \in Graph /\ <<"reload", h>> \in Reloads(HostOf[s])
  BY <1>1, <1>6, <1>7, Commanding DEF Reloads
<1>9. host[h].loaded = Mesh(h)
  BY <1>1, <1>3, <1>4, <1>6, <1>7, <1>8, HostInputs DEF Differs, Wired
<1>10. Mesh(h) # None /\ DOMAIN Mesh(h) = Egress(h) /\ Mesh(h)[t] = Plan.svc[t].callers
  BY <1>1, <1>6, <1>7, Sorts DEF Mesh, MeshOf, Egress
<1>. QED BY <1>5, <1>7, <1>9, <1>10

(* What a (re)start or a step of a provision leaves of the secrets. *)
LEMMA RestartedAge ==
    ASSUME NEW v \in ServiceStates, NEW a, NEW code
    PROVE  Restarted(v, a, code).age = v.age
  BY DEF Restarted, ServiceStates

(* The next step of a service: it is (re)started by a command of the running
   deploy only when everything it calls has admitted it, and gets secrets only
   where its unit is. *)
LEMMA NextStarts ==
    ASSUME Inv, Next, NEW s \in Services
    PROVE  /\ s \in Members /\ Starting(s) => Admitted(s)
           /\ outcome = "running" /\ svc'[s].age \notin {svc[s].age, None} => svc[s].unit # 0
<1>1. /\ Typed /\ Pending /\ design \in DOMAIN Designs
      /\ svc \in [Services -> ServiceStates] /\ svc[s] \in ServiceStates
  BY DEF Inv, Typed
<1>2. CASE Begin \/ End \/ Kill \/ Edit
  BY <1>2 DEF Begin, End, Kill, Edit, Starting
<1>3. CASE \E h \in Hosts : Gate(h) \/ MeshUnit(h) \/ MeshConfig(h) \/ MeshReload(h)
  BY <1>3 DEF Gate, MeshUnit, MeshConfig, MeshReload, Starting
<1>4. ASSUME NEW t \in Members, Provision(t) PROVE
           /\ s \in Members /\ Starting(s) => Admitted(s)
           /\ outcome = "running" /\ svc'[s].age \notin {svc[s].age, None} => svc[s].unit # 0
  <2>1. PICK k \in 1..4 : svc' = [svc EXCEPT ![t] = Provisioned(t, k)]
    BY <1>4 DEF Provision
  <2>2. Provisioned(t, k) \in ServiceStates /\ Provisioned(t, k).age = svc[t].age /\ t \in Services
    BY <1>1, Sorts, ProvisionedIs
  <2>3. svc'[t].age = svc[t].age /\ \A u \in Services : u # t => svc'[u] = svc[u]
    BY <1>1, <2>1, <2>2, ServiceTyped
  <2>4. Admitted(t)
    BY <1>4, ReadyIsAdmitted DEF Provision, ServiceCommands
  <2>. QED BY <2>3, <2>4 DEF Starting
<1>5. ASSUME NEW t \in Members, Replace(t) PROVE
           /\ s \in Members /\ Starting(s) => Admitted(s)
           /\ outcome = "running" /\ svc'[s].age \notin {svc[s].age, None} => svc[s].unit # 0
  <2>1. Ready(<<"secrets", t>>) /\ Plan.svc[t].secret
    BY <1>5 DEF Replace, Replaced
  <2>2. Admitted(t) /\ svc[t].unit # 0
    BY <2>1, ReadyIsAdmitted, DeliveryReady DEF ServiceCommands
  <2>3. \A u \in Services : u # t => svc'[u] = svc[u]
    BY <1>1, <1>5 DEF Replace
  <2>. QED BY <2>2, <2>3 DEF Starting
<1>6. ASSUME NEW t \in Members, Update(t) PROVE
           /\ s \in Members /\ Starting(s) => Admitted(s)
           /\ outcome = "running" /\ svc'[s].age \notin {svc[s].age, None} => svc[s].unit # 0
  <2>. DEFINE v1 == [svc[t] EXCEPT !.descr = Delivery(t).script]
              v2 == [v1 EXCEPT !.age = None]
  <2>1. t \in Services /\ svc[t] \in ServiceStates
    BY <1>1, Sorts
  <2>2. v1.run = svc[t].run /\ v2.run = svc[t].run
    BY <2>1 DEF ServiceStates
  <2>3. \E v \in {v1, v2, svc[t]} : svc' = [svc EXCEPT ![t] = v]
    <3>1. svc = [svc EXCEPT ![t] = svc[t]]
      BY <1>1
    <3>. QED BY <1>6, <3>1 DEF Update
  <2>. HIDE DEF v1, v2
  <2>4. svc'[t].run = svc[t].run /\ \A u \in Services : u # t => svc'[u] = svc[u]
    BY <1>1, <2>1, <2>2, <2>3
  <2>5. svc[t].unit # 0
    BY <1>6, DeliveryReady DEF Update
  <2>. QED BY <2>4, <2>5 DEF Starting
<1>7. ASSUME NEW r \in Orphans, Delete(r) PROVE
           /\ s \in Members /\ Starting(s) => Admitted(s)
           /\ outcome = "running" /\ svc'[s].age \notin {svc[s].age, None} => svc[s].unit # 0
  <2>1. UNCHANGED <<todo, failed>> /\ (svc' = svc \/ svc' = Removed(r))
    BY <1>7 DEF Delete
  <2>2. svc'[s].age \in {svc[s].age, None}
    <3>. DEFINE w == Deprovisioned(svc[s])
                x == [svc[s] EXCEPT !.descr = None]
    <3>1. w.age = None /\ x.age = svc[s].age
      BY <1>1 DEF Deprovisioned, ServiceStates
    <3>. HIDE DEF w, x
    <3>2. svc'[s] \in {svc[s], w, x}
      BY <1>1, <2>1 DEF Removed, w, x
    <3>. QED BY <3>1, <3>2
  <2>. QED BY <2>1, <2>2 DEF Starting
<1>8. ASSUME NEW t \in Services, Release(t) \/ Respawn(t) PROVE
           /\ s \in Members /\ Starting(s) => Admitted(s)
           /\ outcome = "running" /\ svc'[s].age \notin {svc[s].age, None} => svc[s].unit # 0
  <2>1. /\ UNCHANGED <<todo, failed>>
        /\ svc' = [svc EXCEPT ![t] = Restarted(svc[t], host[HostOf[t]].agent, TRUE)]
    BY <1>8 DEF Release, Respawn, Hosted
  <2>2. svc'[s].age = svc[s].age
    <3>1. Restarted(svc[s], host[HostOf[s]].agent, TRUE).age = svc[s].age
      BY <1>1, RestartedAge
    <3>2. CASE s = t
      <4>1. svc'[s] = Restarted(svc[s], host[HostOf[s]].agent, TRUE)
        BY <1>1, <2>1, <3>2
      <4>. QED BY <3>1, <4>1
    <3>3. CASE s # t
      <4>1. svc'[s] = svc[s]
        BY <1>1, <2>1, <3>3
      <4>. QED BY <4>1
    <3>. QED BY <3>2, <3>3
  <2>. QED BY <2>1, <2>2 DEF Starting
<1>9. ASSUME NEW h \in Hosts, Renew(h) \/ ProxyRespawn(h) PROVE
           /\ s \in Members /\ Starting(s) => Admitted(s)
           /\ outcome = "running" /\ svc'[s].age \notin {svc[s].age, None} => svc[s].unit # 0
  BY <1>9 DEF Renew, ProxyRespawn, Hosted, Starting
<1>10. ASSUME NEW h \in Hosts, Reboot(h) PROVE
           /\ s \in Members /\ Starting(s) => Admitted(s)
           /\ outcome = "running" /\ svc'[s].age \notin {svc[s].age, None} => svc[s].unit # 0
  <2>1. /\ UNCHANGED <<todo, failed>>
        /\ svc'[s] = IF HostOf[s] # h THEN svc[s]
                     ELSE Restarted(svc[s], host[h].agent, svc[s].enabled /\ s \in released)
    BY <1>10 DEF Reboot, Hosted
  <2>2. svc'[s].age = svc[s].age
    BY <1>1, <2>1, RestartedAge
  <2>. QED BY <2>1, <2>2 DEF Starting
<1>. QED BY <1>2, <1>3, <1>4, <1>5, <1>6, <1>7, <1>8, <1>9, <1>10 DEF Next, Engine, Command

(* A deploy (re)starts a service only when every callee that lists it, the global
   one included, has reloaded and admits it (program/mesh.go:289-294), and brings
   secrets only to a host that has the unit (program.go:678-686): for any hosts,
   services and versions, and in any order the engine picks. *)
THEOREM StartsInOrderAlways ==
    ASSUME NothingReturns
    PROVE  Spec => StartsInOrder
<1>1. Inv /\ [Next]_vars =>
        [\A s \in Services :
          /\ s \in Members /\ Starting(s) => Admitted(s)
          /\ outcome = "running" /\ svc'[s].age \notin {svc[s].age, None} => svc[s].unit # 0]_vars
  BY NextStarts
<1>. QED BY <1>1, DeployInvariance, PTL DEF Spec, StartsInOrder

-----------------------------------------------------------------------------
(* A running proxy and its certificates.  The finding of CertificatesExist is  *)
(* the only one of its kind: a configuration names a missing certificate only  *)
(* where a service joined a host that had some.                                *)

NobodyJoins ==
    \A i \in DOMAIN Designs : \A j \in i..Len(Designs) : \A h \in Hosts :
        EgressOf(Designs[i], h) # {} => EgressOf(Designs[j], h) \subseteq EgressOf(Designs[i], h)

(* The configuration is that of a version deployed so far, and what has been
   loaded is complete. *)
Certified(h, x) ==
    /\ x.config \in {None} \cup {MeshOf(d, h) : d \in {c \in Past : EgressOf(c, h) # {}}}
    /\ x.loaded # None => Validates(x)

Serving ==
    /\ design \in DOMAIN Designs /\ host \in [Hosts -> HostStates]
    /\ todo \subseteq Graph /\ (outcome # "running" => todo = {})
    /\ \A h \in Hosts : Certified(h, host[h])

LEMMA ProxyStartedCertified ==
    ASSUME NEW x \in HostStates, x.loaded # None => Validates(x)
    PROVE  LET y == ProxyStarted(x) IN y.loaded # None => Validates(y)
<1>. DEFINE seeded == [x EXCEPT !.certs = @ \cup x.leaf \cup x.seed]
            L == [seeded EXCEPT !.loaded = x.config]
<1>1. seeded.config = x.config /\ x.certs \subseteq seeded.certs /\ seeded.loaded = x.loaded
      /\ seeded \in HostStates
  BY DEF HostStates
<1>2. ProxyStarted(x) = IF Validates(seeded) THEN L ELSE seeded
  BY DEF ProxyStarted
<1>. HIDE DEF seeded
<1>3. L.config = seeded.config /\ L.certs = seeded.certs
  BY <1>1 DEF HostStates
<1>. HIDE DEF L
<1>4. Validates(seeded) => Validates(L)
  BY <1>3 DEF Validates
<1>5. x.loaded # None => Validates(seeded)
  BY <1>1 DEF Validates
<1>. QED BY <1>1, <1>2, <1>4, <1>5

(* What a step beside the sources may do to one host. *)
LEMMA ServingStep ==
    ASSUME Serving, UNCHANGED design, todo' \subseteq todo, outcome' # "running" => todo' = {},
           NEW h \in Hosts, NEW x \in HostStates, Certified(h, x), host' = [host EXCEPT ![h] = x]
    PROVE  Serving'
<1>1. Past' = Past /\ Graph' = Graph
  BY GraphFrames DEF Past
<1>2. /\ host' \in [Hosts -> HostStates] /\ host'[h] = x
      /\ \A g \in Hosts : g # h => host'[g] = host[g]
  BY DEF Serving
<1>3. ASSUME NEW g \in Hosts PROVE Certified(g, host[g])'
  <2>1. Certified(g, host'[g])
    BY <1>2 DEF Serving
  <2>. QED BY <1>1, <2>1 DEF Certified
<1>. QED BY <1>1, <1>2, <1>3 DEF Serving

LEMMA ServingFrames ==
    ASSUME Serving, UNCHANGED <<design, host>>, todo' \subseteq Graph, outcome' # "running" => todo' = {}
    PROVE  Serving'
<1>1. Past' = Past /\ Graph' = Graph
  BY GraphFrames DEF Past
<1>2. ASSUME NEW g \in Hosts PROVE Certified(g, host[g])'
  BY <1>1 DEF Serving, Certified
<1>. QED BY <1>1, <1>2 DEF Serving

(* What a running proxy has been given covers every version to come. *)
LEMMA CertifiedAhead ==
    ASSUME NobodyJoins, Serving, NEW h \in Hosts, host[h].config # None
    PROVE  Egress(h) \subseteq DOMAIN host[h].config
<1>1. PICK d \in Past : EgressOf(d, h) # {} /\ host[h].config = MeshOf(d, h)
  BY DEF Serving, Certified
<1>2. PICK i \in 1..design : d = Designs[i]
  BY DEF Past
<1>3. i \in DOMAIN Designs /\ design \in i..Len(Designs)
  BY DesignsAssumption DEF Serving
<1>4. EgressOf(Designs[design], h) \subseteq EgressOf(d, h)
  BY <1>1, <1>2, <1>3 DEF NobodyJoins
<1>5. DOMAIN MeshOf(d, h) = EgressOf(d, h)
  BY DEF MeshOf
<1>. QED BY <1>1, <1>4, <1>5 DEF Egress, Plan

LEMMA ServingNext ==
    ASSUME NobodyJoins, Serving, Next
    PROVE  Serving'
<1>1. /\ design \in DOMAIN Designs /\ host \in [Hosts -> HostStates] /\ todo \subseteq Graph
      /\ outcome # "running" => todo = {}
      /\ \A h \in Hosts : host[h] \in HostStates /\ Certified(h, host[h])
  BY DEF Serving
<1>2. CASE Begin \/ End \/ Kill
  <2>1. UNCHANGED <<design, host>> /\ todo' \subseteq Graph /\ (outcome' # "running" => todo' = {})
    BY <1>2 DEF Begin, End, Kill
  <2>. QED BY <2>1, ServingFrames
<1>3. ASSUME NEW r, NEW x, Ready(r), Succeeds(r, x) \/ Refused(r, x) \/ Fails(r, x), Deployed
      PROVE  UNCHANGED design /\ todo' \subseteq todo /\ (outcome' # "running" => todo' = {})
  BY <1>3 DEF Ready, Succeeds, Refused, Fails, Deployed
<1>4. ASSUME NEW h \in Hosts, Gate(h) PROVE Serving'
  <2>1. UNCHANGED host /\ UNCHANGED design /\ todo' \subseteq todo /\ (outcome' # "running" => todo' = {})
    BY <1>3, <1>4 DEF Gate
  <2>. QED BY <1>1, <2>1, ServingFrames
<1>5. ASSUME NEW h \in Hosts, MeshUnit(h) PROVE Serving'
  <2>. DEFINE x == [host[h] EXCEPT !.seed = Egress(h)]
  <2>1. UNCHANGED design /\ todo' \subseteq todo /\ (outcome' # "running" => todo' = {})
    BY <1>3, <1>5 DEF MeshUnit
  <2>2. x \in HostStates /\ x.config = host[h].config /\ x.loaded = host[h].loaded /\ x.certs = host[h].certs
    BY <1>1, Sorts DEF HostStates
  <2>3. host' = host \/ host' = [host EXCEPT ![h] = x]
    BY <1>5 DEF MeshUnit
  <2>. HIDE DEF x
  <2>4. Certified(h, x)
    BY <1>1, <2>2 DEF Certified, Validates
  <2>. QED BY <1>1, <2>1, <2>2, <2>3, <2>4, ServingStep, ServingFrames
<1>6. ASSUME NEW h \in Hosts, MeshConfig(h) PROVE Serving'
  <2>. DEFINE x == [host[h] EXCEPT !.config = Mesh(h)]
  <2>1. UNCHANGED design /\ todo' \subseteq todo /\ (outcome' # "running" => todo' = {})
    BY <1>3, <1>6 DEF MeshConfig
  <2>2. Mesh(h) \in Maps /\ Mesh(h) # None /\ DOMAIN Mesh(h) = Egress(h)
    BY <1>1, Sorts
  <2>3. x \in HostStates /\ x.config = Mesh(h) /\ x.loaded = host[h].loaded /\ x.certs = host[h].certs
    BY <1>1, <2>2 DEF HostStates
  <2>4. host' = host \/ host' = [host EXCEPT ![h] = x]
    BY <1>6 DEF MeshConfig
  <2>. HIDE DEF x
  <2>5. Egress(h) # {} /\ Plan \in Past
    <3>1. <<"config", h>> \in Graph
      BY <1>1, <1>6 DEF MeshConfig, Ready
    <3>. QED BY <1>1, <3>1, Commanding, Present
  <2>6. x.config \in {MeshOf(d, h) : d \in {c \in Past : EgressOf(c, h) # {}}}
    BY <2>3, <2>5 DEF Mesh, Egress
  <2>7. x.loaded # None => Validates(x)
    <3>1. SUFFICES ASSUME host[h].loaded # None PROVE Egress(h) \subseteq host[h].certs
      BY <2>2, <2>3 DEF Validates
    <3>2. Validates(host[h])
      BY <1>1, <3>1 DEF Certified
    <3>. QED BY <3>2, CertifiedAhead DEF Validates
  <2>8. Certified(h, x)
    BY <2>6, <2>7 DEF Certified
  <2>. QED BY <1>1, <2>1, <2>3, <2>4, <2>8, ServingStep, ServingFrames
<1>7. ASSUME NEW h \in Hosts, MeshReload(h) PROVE Serving'
  <2>. DEFINE y == IF host[h].loaded = None THEN ProxyStarted(host[h]) ELSE host[h]
              z == [y EXCEPT !.loaded = y.config]
  <2>1. UNCHANGED design /\ todo' \subseteq todo /\ (outcome' # "running" => todo' = {})
    BY <1>3, <1>7 DEF MeshReload
  <2>2. /\ y \in HostStates /\ y.config = host[h].config
        /\ y.loaded # None => Validates(y)
    <3>1. host[h].loaded # None => Validates(host[h])
      BY <1>1 DEF Certified
    <3>. QED BY <1>1, <3>1, ProxyStartedIs, ProxyStartedCertified
  <2>3. host' = [host EXCEPT ![h] = y] \/ (Validates(y) /\ host' = [host EXCEPT ![h] = z])
    BY <1>7 DEF MeshReload
  <2>. HIDE DEF y
  <2>4. z \in HostStates /\ z.config = y.config /\ z.certs = y.certs
    BY <2>2 DEF HostStates
  <2>. HIDE DEF z
  <2>5. Validates(y) => Validates(z)
    BY <2>4 DEF Validates
  <2>6. Certified(h, y) /\ (Validates(y) => Certified(h, z))
    BY <1>1, <2>2, <2>4, <2>5 DEF Certified
  <2>. QED BY <2>1, <2>2, <2>3, <2>4, <2>6, ServingStep
<1>8. ASSUME NEW s \in Members, Provision(s) PROVE Serving'
  <2>. DEFINE h == HostOf[s]
              x == [host[h] EXCEPT !.agent = Plan.agent]
  <2>1. UNCHANGED design /\ todo' \subseteq todo /\ (outcome' # "running" => todo' = {})
    BY <1>3, <1>8 DEF Provision
  <2>2. h \in Hosts /\ Plan.agent \in Agents
    BY <1>1, Sorts, DesignsAssumption
  <2>3. x \in HostStates /\ x.config = host[h].config /\ x.loaded = host[h].loaded /\ x.certs = host[h].certs
    BY <1>1, <2>2 DEF HostStates
  <2>4. host' = [host EXCEPT ![h] = x]
    BY <1>8 DEF Provision
  <2>. HIDE DEF x, h
  <2>5. Certified(h, x)
    BY <1>1, <2>2, <2>3 DEF Certified, Validates
  <2>. QED BY <2>1, <2>2, <2>3, <2>4, <2>5, ServingStep
<1>9. ASSUME NEW s \in Members, Replace(s) \/ Update(s) PROVE Serving'
  <2>1. UNCHANGED <<design, host>> /\ todo' \subseteq todo /\ (outcome' # "running" => todo' = {})
    BY <1>3, <1>9 DEF Replace, Update
  <2>. QED BY <1>1, <2>1, ServingFrames
<1>10. ASSUME NEW r \in Orphans, Delete(r) PROVE Serving'
  <2>1. UNCHANGED <<design, host, todo>> /\ todo = {}
    BY <1>10 DEF Delete
  <2>. QED BY <1>1, <2>1, ServingFrames
<1>11. CASE Edit
  <2>1. UNCHANGED <<host, todo>> /\ todo = {}
    BY <1>1, <1>11 DEF Edit
  <2>2. design' \in DOMAIN Designs /\ Past \subseteq Past'
    <3>1. /\ Len(Designs) \in Nat /\ DOMAIN Designs = 1..Len(Designs)
          /\ design' = design + 1 /\ design < Len(Designs) /\ design \in 1..Len(Designs)
      BY <1>1, <1>11, DesignsAssumption DEF Edit
    <3>2. design' \in DOMAIN Designs /\ 1..design \subseteq 1..design'
      BY <3>1
    <3>. QED BY <3>2 DEF Past
  <2>3. ASSUME NEW h \in Hosts PROVE Certified(h, host[h])'
    BY <1>1, <2>1, <2>2 DEF Certified
  <2>. QED BY <1>1, <2>1, <2>2, <2>3 DEF Serving
<1>12. ASSUME NEW s \in Services, Release(s) \/ Respawn(s) PROVE Serving'
  <2>1. UNCHANGED <<design, outcome, todo, host>>
    BY <1>12 DEF Release, Respawn, Hosted
  <2>. QED BY <1>1, <2>1, ServingFrames
<1>13. ASSUME NEW h \in Hosts, Hosted PROVE
         UNCHANGED design /\ todo' \subseteq todo /\ (outcome' # "running" => todo' = {})
  BY <1>1, <1>13 DEF Hosted
<1>14. ASSUME NEW h \in Hosts, Renew(h) PROVE Serving'
  <2>. DEFINE x == [host[h] EXCEPT !.leaf = Egress(h), !.certs = @ \cup Egress(h)]
              y == [x EXCEPT !.loaded = x.config]
  <2>1. Egress(h) \subseteq Services
    BY <1>1, Sorts
  <2>2. /\ x \in HostStates /\ x.config = host[h].config /\ x.loaded = host[h].loaded
        /\ host[h].certs \subseteq x.certs
    BY <1>1, <2>1 DEF HostStates
  <2>3. host' = [host EXCEPT ![h] = IF x.loaded # None /\ Validates(x) THEN y ELSE x]
    BY <1>14 DEF Renew
  <2>. HIDE DEF x
  <2>4. y \in HostStates /\ y.config = x.config /\ y.certs = x.certs
    BY <2>2 DEF HostStates
  <2>. HIDE DEF y
  <2>5. Certified(h, x) /\ (Validates(x) => Certified(h, y))
    BY <1>1, <2>2, <2>4 DEF Certified, Validates
  <2>6. \/ Validates(x) /\ host' = [host EXCEPT ![h] = y]
        \/ host' = [host EXCEPT ![h] = x]
    BY <2>3
  <2>. QED BY <1>13, <1>14, <2>2, <2>4, <2>5, <2>6, ServingStep DEF Renew
<1>15. ASSUME NEW h \in Hosts, NEW x \in HostStates, Hosted, x.config = host[h].config,
              x.loaded # None => Validates(x), host' = [host EXCEPT ![h] = ProxyStarted(x)]
       PROVE  Serving'
  <2>. DEFINE y == ProxyStarted(x)
  <2>1. y \in HostStates /\ y.config = x.config /\ (y.loaded # None => Validates(y))
    BY <1>15, ProxyStartedIs, ProxyStartedCertified
  <2>2. host' = [host EXCEPT ![h] = y]
    BY <1>15
  <2>. HIDE DEF y
  <2>3. Certified(h, y)
    BY <1>1, <1>15, <2>1 DEF Certified
  <2>. QED BY <1>13, <1>15, <2>1, <2>2, <2>3, ServingStep
<1>16. ASSUME NEW h \in Hosts, ProxyRespawn(h) PROVE Serving'
  <2>1. host[h].loaded # None => Validates(host[h])
    BY <1>1 DEF Certified
  <2>2. host[h] \in HostStates /\ Hosted /\ host' = [host EXCEPT ![h] = ProxyStarted(host[h])]
    BY <1>1, <1>16 DEF ProxyRespawn
  <2>. QED BY <1>15, <2>1, <2>2
<1>17. ASSUME NEW h \in Hosts, Reboot(h) PROVE Serving'
  <2>. DEFINE x == [host[h] EXCEPT !.certs = {}, !.loaded = None]
  <2>1. x \in HostStates /\ x.config = host[h].config /\ x.loaded = None
    BY <1>1 DEF HostStates
  <2>2. Hosted /\ host' = [host EXCEPT ![h] = ProxyStarted(x)]
    BY <1>17 DEF Reboot
  <2>. HIDE DEF x
  <2>. QED BY <1>15, <2>1, <2>2
<1>. QED BY <1>2, <1>4, <1>5, <1>6, <1>7, <1>8, <1>9, <1>10, <1>11, <1>12, <1>14, <1>16, <1>17
         DEF Next, Engine, Command

(* The certificates a reload validates are there ("realization never fails on
   absent state", internal/meshnginx/install.go:87) as long as no service joins a
   host that has some already, for any failures and reboots, and whether or not
   renewals happen. *)
THEOREM CertificatesExistUnlessJoined ==
    ASSUME NobodyJoins
    PROVE  Spec => []CertificatesExist
<1>1. Init => Serving
  <2>1. SUFFICES ASSUME Init PROVE Serving
    OBVIOUS
  <2>2. 1 \in DOMAIN Designs /\ design = 1
    BY <2>1, DesignsAssumption DEF Init
  <2>3. [agent |-> 0, seed |-> {}, config |-> None, loaded |-> None, certs |-> {}, leaf |-> {}] \in HostStates
    BY DEF HostStates, Agents
  <2>. QED BY <2>1, <2>2, <2>3 DEF Init, Serving, Certified
<1>2. Serving /\ [Next]_vars => Serving'
  <2>1. ASSUME Serving, UNCHANGED vars PROVE Serving'
    BY <2>1, ServingFrames DEF vars, Serving
  <2>. QED BY <2>1, ServingNext
<1>3. Serving => CertificatesExist
  BY DEF Serving, Certified, CertificatesExist
<1>. QED BY <1>1, <1>2, <1>3, PTL DEF Spec
=============================================================================
