------------------------------- MODULE Deploy -------------------------------
(***************************************************************************)
(* `inforge deploy` on the hosts (program/program.go, program/mesh.go,     *)
(* providers/hetzner/mesh.go).  The program declares a graph of remote     *)
(* commands: a readiness gate per host, the mesh proxy's unit, config and  *)
(* reload, and per service the provision of its unit and the delivery of   *)
(* its descriptor and secrets.  The engine compares each command with what *)
(* it recorded at its last success, runs those that differ in any order    *)
(* the dependencies allow, and stops at a failure; what had succeeded      *)
(* stays recorded, and the next deploy resumes from there.                 *)
(*                                                                         *)
(* A design is one version of the YAML sources.  Its contents are numbers: *)
(* an equal number is equal bytes.                                         *)
(***************************************************************************)
EXTENDS Naturals, Sequences, FiniteSets

CONSTANTS
    Hosts,       \* hosts, each with its mesh proxy when a service runs on it
    Global,      \* the host of the global scope, which is realized first
    Services,
    HostOf,      \* the host of each service
    Reloading,   \* the services that declare reload:
    Designs,     \* the versions of the sources, in the order they are deployed
    MaxFails,    \* bound on the commands that fail (or die with the engine)
    MaxReboots,  \* bound on the reboots
    Shipped,     \* services whose code is there from before
    None

(* Regional services are callers of global ones and of their own region's,
   global services of global ones only (validate.go:2793-2843). *)
ASSUME DesignsAssumption ==
    /\ Designs \in Seq({Designs[i] : i \in DOMAIN Designs}) /\ Designs # <<>>
    /\ Global \in Hosts /\ HostOf \in [Services -> Hosts] /\ Shipped \subseteq Services
    /\ \A i \in DOMAIN Designs : DOMAIN Designs[i].svc \subseteq Services
    /\ \A i \in DOMAIN Designs, s, t \in Services :
          {s, t} \subseteq DOMAIN Designs[i].svc /\ s \in Designs[i].svc[t].callers =>
              HostOf[t] \in {Global, HostOf[s]}

(* What a version d of the sources makes of a host and of a service: the services
   of the host, the allow-map of its proxy, agent and unit, and what is delivered. *)
EgressOf(d, h) == {s \in DOMAIN d.svc : HostOf[s] = h}
MeshOf(d, h) == [s \in EgressOf(d, h) |-> d.svc[s].callers]
BinariesOf(d, s) == <<d.agent, d.svc[s].unit>>
ContentOf(d, s) == [secret |-> d.svc[s].secret, body |-> d.svc[s].body]
DeliveryOf(d, s) == [trigger |-> d.svc[s].body, script |-> ContentOf(d, s), rm |-> FALSE]

(* A unit has a number, 0 being the absence of one, and nothing is None. *)
ASSUME NoneAssumption ==
    LET bodies == UNION {{Designs[i].svc[s].body : s \in DOMAIN Designs[i].svc} : i \in DOMAIN Designs} IN
    \A i \in DOMAIN Designs :
        LET d == Designs[i] IN
        /\ \A h \in Hosts : None \notin {EgressOf(d, h), MeshOf(d, h)}
        /\ \A s \in DOMAIN d.svc :
              /\ d.svc[s].unit # 0 /\ d.svc[s].secret \in BOOLEAN
              /\ None \notin {d.svc[s].body, BinariesOf(d, s), ContentOf(d, s)}
              /\ None \notin [trigger : bodies \cup {None}, script : {ContentOf(d, s)}, rm : BOOLEAN]

(* What the sources leave does not come back: no allow-map of a host, no agent and
   unit, no content of a service, and no service. *)
NothingReturns ==
    \A i, j \in DOMAIN Designs : \A k \in i..j :
        LET was == Designs[i]  is == Designs[k]  willBe == Designs[j] IN
        /\ \A h \in Hosts : EgressOf(was, h) # {} /\ MeshOf(was, h) = MeshOf(willBe, h)
                                => MeshOf(is, h) = MeshOf(was, h)
        /\ \A s \in DOMAIN was.svc \cap DOMAIN willBe.svc :
              /\ s \in DOMAIN is.svc
              /\ BinariesOf(was, s) = BinariesOf(willBe, s) => BinariesOf(is, s) = BinariesOf(was, s)
              /\ ContentOf(was, s) = ContentOf(willBe, s) => ContentOf(is, s) = ContentOf(was, s)

VARIABLES
    design,    \* which of Designs the sources hold
    outcome,   \* "stale" (edited since), "running", "green" or "red"
    todo,      \* commands of the running deploy that have not succeeded
    failed,    \* those of them that failed
    rec,       \* what the engine recorded of each command at its last success
    host,      \* agent binary, seed script, mesh config, proxy and certificates
    svc,       \* unit, descriptor.yaml, secrets.age and process of each service
    released,  \* services whose code has been delivered
    fails, reboots

vars == <<design, outcome, todo, failed, rec, host, svc, released, fails, reboots>>

Plan == Designs[design]
Members == DOMAIN Plan.svc
Egress(h) == EgressOf(Plan, h)

(* What a host's mesh config says: its services and whom each of them admits. *)
Mesh(h) == MeshOf(Plan, h)

HostCommands == {"gate", "unit", "config", "reload"}
ServiceCommands == {"provision", "secrets"}
Commands == (HostCommands \X Hosts) \cup (ServiceCommands \X Services)

(* The commands the program declares: mesh commands only where a service runs. *)
Graph ==
    ({"gate"} \X Hosts)
        \cup ({"unit", "config", "reload"} \X {h \in Hosts : Egress(h) # {}})
        \cup (ServiceCommands \X Members)

(* Mutant: the reloads of the service's own scope only. *)
ReloadsOfOwnScope(h) == {"reload"} \X {h}

(* The mesh reloads declared so far when a host's services are: scopes are
   realized global first and the list accumulates. *)
Reloads(h) == {"reload"} \X {g \in {Global, h} : Egress(g) # {}}

DependsOn(r) ==
    CASE r[1] = "gate" -> {}
      [] r[1] = "unit" -> {<<"gate", r[2]>>}
      [] r[1] = "config" -> {<<"unit", r[2]>>}
      [] r[1] = "reload" -> {<<"config", r[2]>>}
      [] r[1] = "provision" -> {<<"gate", HostOf[r[2]]>>} \cup Reloads(HostOf[r[2]])
      [] r[1] = "secrets" /\ Plan.svc[r[2]].secret ->
            {<<"provision", r[2]>>} \cup Reloads(HostOf[r[2]])
      [] OTHER -> {<<"provision", r[2]>>}

-----------------------------------------------------------------------------
(* What the engine records of a command, and when it runs it again.  A       *)
(* delivery has two shapes under one name.  With secrets its trigger is the  *)
(* only thing compared, for its script is new every time; without, the       *)
(* script is compared, a trigger recorded earlier is kept, and a removal of  *)
(* the file (rm) is recorded with it.                                        *)

Input(r) ==
    CASE r[1] = "unit" -> Egress(r[2])
      [] r[1] \in {"config", "reload"} -> Mesh(r[2])
      [] r[1] = "provision" -> BinariesOf(Plan, r[2])
      [] OTHER -> TRUE

Content(s) == ContentOf(Plan, s)

Replaced(s) ==
    LET old == rec[<<"secrets", s>>] IN
    Plan.svc[s].secret /\ (old # None => old.trigger # Plan.svc[s].body)

Delivery(s) ==
    LET old == rec[<<"secrets", s>>] IN
    IF ~Plan.svc[s].secret
        THEN [trigger |-> IF old = None THEN None ELSE old.trigger,
              script |-> Content(s), rm |-> TRUE]
    ELSE IF Replaced(s)
        THEN DeliveryOf(Plan, s)
        ELSE [old EXCEPT !.rm = FALSE]

Differs(r) ==
    IF r[1] = "secrets" THEN rec[r] # Delivery(r[2]) ELSE rec[r] # Input(r)

Orphans == {r \in Commands : rec[r] # None /\ r \notin Graph}
Ready(r) == outcome = "running" /\ r \in todo \ failed /\ DependsOn(r) \cap todo = {}

-----------------------------------------------------------------------------
(* systemd.  A service runs what its files say when it (re)starts: the agent *)
(* refuses a descriptor that is absent or names secrets the blob lacks, and  *)
(* then systemd retries; before the first release the condition on the       *)
(* payload skips the start.                                                  *)

Startable(v) == v.descr # None /\ (v.descr.secret => v.age = v.descr.body)

Restarted(v, agent, code) ==
    IF ~code THEN [v EXCEPT !.up = "down", !.run = None]
    ELSE IF ~Startable(v) THEN [v EXCEPT !.up = "looping", !.run = None]
    ELSE [v EXCEPT !.up = "running",
             !.run = [agent |-> agent, unit |-> v.unit, descr |-> v.descr, age |-> v.age]]

Started(v, agent, code) == IF v.up = "down" THEN Restarted(v, agent, code) ELSE v

(* The proxy's unit projects the leaf, seeds a placeholder for the services the
   seed script names, and validates the config before it starts nginx. *)
Validates(x) == x.config # None /\ DOMAIN x.config \subseteq x.certs
ProxyStarted(x) ==
    LET seeded == [x EXCEPT !.certs = @ \cup x.leaf \cup x.seed] IN
    IF Validates(seeded) THEN [seeded EXCEPT !.loaded = x.config] ELSE seeded

-----------------------------------------------------------------------------
Succeeds(r, state) ==
    /\ todo' = todo \ {r} /\ rec' = [rec EXCEPT ![r] = state]
    /\ UNCHANGED <<failed, fails>>

(* A failed command keeps the record of its last success, unless the engine
   had to delete that first. *)
Refused(r, state) ==
    failed' = failed \cup {r} /\ rec' = [rec EXCEPT ![r] = state] /\ UNCHANGED todo

Fails(r, state) ==
    fails < MaxFails /\ fails' = fails + 1 /\ Refused(r, state)

Deployed == UNCHANGED <<design, outcome, released, reboots>>

Gate(h) ==
    LET r == <<"gate", h>> IN
    /\ Ready(r) /\ (Succeeds(r, TRUE) \/ Fails(r, rec[r]))
    /\ Deployed /\ UNCHANGED <<host, svc>>

(* The seed script, the unit file, daemon-reload and enable: nothing runs. *)
MeshUnit(h) ==
    LET r == <<"unit", h>> IN
    /\ Ready(r)
    /\ \/ host' = [host EXCEPT ![h].seed = Egress(h)] /\ (Succeeds(r, Input(r)) \/ Fails(r, rec[r]))
       \/ Fails(r, rec[r]) /\ UNCHANGED host
    /\ Deployed /\ UNCHANGED svc

MeshConfig(h) ==
    LET r == <<"config", h>> IN
    /\ Ready(r)
    /\ \/ host' = [host EXCEPT ![h].config = Mesh(h)] /\ (Succeeds(r, Input(r)) \/ Fails(r, rec[r]))
       \/ Fails(r, rec[r]) /\ UNCHANGED host
    /\ Deployed /\ UNCHANGED svc

(* Start the unit (nothing if it runs), validate, reload.  The config may name a
   certificate that only a start of the unit would have seeded. *)
MeshReload(h) ==
    LET r == <<"reload", h>>
        x == IF host[h].loaded = None THEN ProxyStarted(host[h]) ELSE host[h] IN
    /\ Ready(r)
    /\ \/ /\ Validates(x) /\ host' = [host EXCEPT ![h] = [x EXCEPT !.loaded = x.config]]
          /\ (Succeeds(r, Input(r)) \/ Fails(r, rec[r]))
       \/ /\ ~Validates(x) /\ host' = [host EXCEPT ![h] = x]
          /\ Refused(r, rec[r]) /\ UNCHANGED fails
       \/ host' = [host EXCEPT ![h] = x] /\ Fails(r, rec[r])
    /\ Deployed /\ UNCHANGED svc

(* The provision script after its first k steps: the agent binary, the unit file
   with daemon-reload, enable --now, and a try-restart if either of the first
   two changed something. *)
Provisioned(s, k) ==
    LET agent == host[HostOf[s]].agent
        unit == Plan.svc[s].unit
        code == s \in released
        v2 == IF k >= 2 THEN [svc[s] EXCEPT !.unit = unit] ELSE svc[s]
        v3 == IF k >= 3 THEN Started([v2 EXCEPT !.enabled = TRUE], Plan.agent, code) ELSE v2
        changed == agent # Plan.agent \/ svc[s].unit # unit
    IN IF k = 4 /\ changed /\ v3.up # "down" THEN Restarted(v3, Plan.agent, code) ELSE v3

Provision(s) ==
    LET r == <<"provision", s>> IN
    /\ Ready(r)
    /\ \E k \in 1..4 :
          /\ svc' = [svc EXCEPT ![s] = Provisioned(s, k)]
          /\ host' = [host EXCEPT ![HostOf[s]].agent = Plan.agent]
          /\ ((k = 4 /\ Succeeds(r, Input(r))) \/ Fails(r, rec[r]))
    /\ Deployed

(* Mutant: the service is restarted before secrets.age is written. *)
DeliveredAfterRestart(s, k) ==
    LET w == Content(s)
        v1 == IF k >= 1 THEN [svc[s] EXCEPT !.descr = w] ELSE svc[s]
        v2 == IF k >= 2 /\ ~(v1.up = "running" /\ s \in Reloading)
                  THEN Restarted(v1, host[HostOf[s]].agent, s \in released) ELSE v1
    IN IF k = 3 THEN [v2 EXCEPT !.age = w.body] ELSE v2

(* The delivery script after its first k steps.  With secrets: the descriptor,
   secrets.age, then reload or restart if the unit is active, else start. *)
Delivered(s, k) ==
    LET w == Content(s)
        agent == host[HostOf[s]].agent
        v1 == IF k >= 1 THEN [svc[s] EXCEPT !.descr = w] ELSE svc[s]
        v2 == IF k >= 2 THEN [v1 EXCEPT !.age = w.body] ELSE v1
    IN IF k < 3 \/ (v2.up = "running" /\ s \in Reloading) THEN v2
       ELSE Restarted(v2, agent, s \in released)

(* A changed trigger replaces the command: a recorded removal runs first and the
   old record is gone whatever happens next. *)
Replace(s) ==
    LET r == <<"secrets", s>>
        removed == rec[r] # None /\ rec[r].rm IN
    /\ Ready(r) /\ Replaced(s)
    /\ \/ \E k \in 1..3 :
             /\ svc' = [svc EXCEPT ![s] = Delivered(s, k)]
             /\ ((k = 3 /\ Succeeds(r, Delivery(s))) \/ Fails(r, None))
       \/ Fails(r, None) /\ svc' = IF removed THEN [svc EXCEPT ![s].descr = None] ELSE svc
    /\ Deployed /\ UNCHANGED host

(* Any other difference updates it in place with the script the record will hold,
   which restarts nothing: without secrets the descriptor is written and a stale
   secrets.age removed. *)
Update(s) ==
    LET r == <<"secrets", s>>
        v1 == [svc[s] EXCEPT !.descr = Delivery(s).script]
        v2 == [v1 EXCEPT !.age = None] IN
    /\ Ready(r) /\ ~Replaced(s)
    /\ \/ svc' = [svc EXCEPT ![s] = v2] /\ (Succeeds(r, Delivery(s)) \/ Fails(r, rec[r]))
       \/ \E v \in {v1, svc[s]} : svc' = [svc EXCEPT ![s] = v] /\ Fails(r, rec[r])
    /\ Deployed /\ UNCHANGED host

-----------------------------------------------------------------------------
(* Once every command has succeeded the engine deletes those that left the     *)
(* program, dependents first.                                                 *)

(* The removal of a unit takes the agent's inputs with it. *)
Deprovisioned(v) ==
    [v EXCEPT !.enabled = FALSE, !.up = "down", !.run = None,
              !.unit = 0, !.descr = None, !.age = None]

Removed(r) ==
    IF r[1] = "provision" THEN [svc EXCEPT ![r[2]] = Deprovisioned(@)]
    ELSE IF r[1] = "secrets" /\ rec[r].rm THEN [svc EXCEPT ![r[2]].descr = None]
    ELSE svc

Delete(r) ==
    /\ outcome = "running" /\ todo = {} /\ r \in Orphans
    /\ r[1] = "provision" => <<"secrets", r[2]>> \notin Orphans
    /\ \/ svc' = Removed(r) /\ rec' = [rec EXCEPT ![r] = None] /\ UNCHANGED <<outcome, fails>>
       \/ /\ svc' \in {svc, Removed(r)} /\ UNCHANGED rec
          /\ fails < MaxFails /\ fails' = fails + 1 /\ outcome' = "red"
    /\ UNCHANGED <<design, todo, failed, host, released, reboots>>

(* The gates are declared, and the changed commands found, as the program runs. *)
Begin ==
    /\ outcome \in {"stale", "red"}
    /\ outcome' = "running" /\ failed' = {} /\ todo' = {r \in Graph : Differs(r)}
    /\ UNCHANGED <<design, rec, host, svc, released, fails, reboots>>

End ==
    /\ outcome = "running" /\ ~\E r \in todo : Ready(r)
    /\ todo = {} => Orphans = {}
    /\ outcome' = IF todo = {} THEN "green" ELSE "red"
    /\ todo' = {} /\ failed' = {}
    /\ UNCHANGED <<design, rec, host, svc, released, fails, reboots>>

(* The engine is killed, or the first failure cancels what had not started. *)
Kill ==
    /\ outcome = "running" /\ todo # {} /\ fails < MaxFails
    /\ fails' = fails + 1 /\ outcome' = "red" /\ todo' = {} /\ failed' = {}
    /\ UNCHANGED <<design, rec, host, svc, released, reboots>>

Command ==
    \/ \E h \in Hosts : Gate(h) \/ MeshUnit(h) \/ MeshConfig(h) \/ MeshReload(h)
    \/ \E s \in Members : Provision(s) \/ Replace(s) \/ Update(s)

Engine == Begin \/ Command \/ End \/ \E r \in Orphans : Delete(r)

-----------------------------------------------------------------------------
(* Beside the deploy. *)

Edit ==
    /\ outcome \in {"green", "red"} /\ design < Len(Designs)
    /\ design' = design + 1 /\ outcome' = "stale"
    /\ UNCHANGED <<todo, failed, rec, host, svc, released, fails, reboots>>

Hosted == UNCHANGED <<design, outcome, todo, failed, rec, fails>>

(* The first release delivers the code and restarts the unit. *)
Release(s) ==
    /\ s \notin released /\ svc[s].unit # 0
    /\ released' = released \cup {s}
    /\ svc' = [svc EXCEPT ![s] = Restarted(@, host[HostOf[s]].agent, TRUE)]
    /\ Hosted /\ UNCHANGED <<host, reboots>>

(* Mutant: leaves only for the services already provisioned on the host. *)
RenewProvisioned(h) ==
    LET served == {s \in Egress(h) : svc[s].unit # 0}
        x == [host[h] EXCEPT !.leaf = served, !.certs = @ \cup served] IN
    /\ host[h].seed # {} /\ x # host[h]
    /\ host' = [host EXCEPT ![h] =
                   IF x.loaded # None /\ Validates(x) THEN [x EXCEPT !.loaded = x.config] ELSE x]
    /\ Hosted /\ UNCHANGED <<svc, released, reboots>>

(* `inforge pki renew`, on its schedule or as the last part of a green deploy:
   the leaves of the services the sources place on the host are projected and a
   running proxy reloads. *)
Renew(h) ==
    LET x == [host[h] EXCEPT !.leaf = Egress(h), !.certs = @ \cup Egress(h)] IN
    /\ host[h].seed # {} /\ x # host[h]
    /\ host' = [host EXCEPT ![h] =
                   IF x.loaded # None /\ Validates(x) THEN [x EXCEPT !.loaded = x.config] ELSE x]
    /\ Hosted /\ UNCHANGED <<svc, released, reboots>>

(* A process that died, or that could not start, is started again. *)
Respawn(s) ==
    /\ svc[s].up # "down"
    /\ svc' = [svc EXCEPT ![s] = Restarted(@, host[HostOf[s]].agent, TRUE)]
    /\ Hosted /\ UNCHANGED <<host, released, reboots>>

ProxyRespawn(h) ==
    /\ host[h].certs # {} /\ host[h].loaded = None /\ host[h].config # None
    /\ host' = [host EXCEPT ![h] = ProxyStarted(@)]
    /\ Hosted /\ UNCHANGED <<svc, released, reboots>>

(* tmpfs loses the certificates; every enabled unit starts. *)
Reboot(h) ==
    /\ reboots < MaxReboots /\ host[h].seed # {}
    /\ reboots' = reboots + 1
    /\ host' = [host EXCEPT ![h] = ProxyStarted([@ EXCEPT !.certs = {}, !.loaded = None])]
    /\ svc' = [s \in Services |->
          IF HostOf[s] # h THEN svc[s]
          ELSE Restarted(svc[s], host[h].agent, svc[s].enabled /\ s \in released)]
    /\ Hosted /\ UNCHANGED released

Init ==
    /\ design = 1 /\ outcome = "stale" /\ todo = {} /\ failed = {}
    /\ rec = [r \in Commands |-> None]
    /\ host = [h \in Hosts |-> [agent |-> 0, seed |-> {}, config |-> None, loaded |-> None,
                                certs |-> {}, leaf |-> {}]]
    /\ svc = [s \in Services |-> [unit |-> 0, enabled |-> FALSE, descr |-> None, age |-> None,
                                  up |-> "down", run |-> None]]
    /\ released = Shipped /\ fails = 0 /\ reboots = 0

Next ==
    \/ Engine \/ Kill \/ Edit
    \/ \E s \in Services : Release(s) \/ Respawn(s)
    \/ \E h \in Hosts : Renew(h) \/ ProxyRespawn(h) \/ Reboot(h)

(* A command that may fail also may succeed, and failures are bounded: the
   engine runs what is ready, the pipeline deploys again until a deploy is green,
   and renewals are scheduled. *)
Spec == Init /\ [][Next]_vars /\ WF_vars(Engine) /\ WF_vars(\E h \in Hosts : Renew(h))

-----------------------------------------------------------------------------
(* A service finds the configuration it is (re)started on complete: the deploy
   delivers its secrets only to a host that has its unit (program.go:678-686), and,
   whatever order the engine picks, every callee that lists it has reloaded and
   admits it by then, the global one included (program/mesh.go:289-294). *)
Starting(s) ==
    outcome = "running" /\ (todo' # todo \/ failed' # failed) /\ svc'[s].run \notin {svc[s].run, None}
Admitted(s) ==
    \A t \in Members : s \in Plan.svc[t].callers =>
        LET map == host[HostOf[t]].loaded IN map # None /\ t \in DOMAIN map /\ s \in map[t]
StartsInOrder ==
    [][\A s \in Services :
          /\ s \in Members /\ Starting(s) => Admitted(s)
          /\ outcome = "running" /\ svc'[s].age \notin {svc[s].age, None} => svc[s].unit # 0]_vars

(* Every released service with secrets runs, with the descriptor and the secrets
   of the sources, unless it reloads, whatever failed on the way; and if nothing
   ever failed, from the unit of the sources (program.go:1568-1594). *)
Loaded ==
    \A s \in Members \cap released :
        LET v == svc[s]  w == Plan.svc[s] IN
        w.secret /\ s \notin Reloading =>
            /\ v.up = "running" /\ v.run.descr = Content(s) /\ v.run.age = w.body
            /\ fails = 0 => v.run.unit = w.unit

(* Every proxy serves the allow-map of the sources, for the services of the
   sources (providers/hetzner/mesh.go:116-130). *)
Meshed == \A h \in Hosts : Egress(h) # {} => host[h].loaded = Mesh(h)

(* The agent's inputs lie on a host exactly as long as the unit that reads them
   (program.go:1886-1890). *)
InputsLiveWithUnit ==
    \A s \in Services : svc[s].unit = 0 => svc[s].descr = None /\ svc[s].age = None /\ svc[s].up = "down"

(* A deploy is green only when the hosts are what the sources say, and stays true
   until the next edit, whatever dies, reboots or is renewed meanwhile. *)
GreenMeansDone == outcome = "green" => Loaded /\ Meshed /\ InputsLiveWithUnit

(* When failures stop, the deploys that follow finish what was left: the sources
   are deployed in the end (ADR-0042). *)
Converges == <>[](outcome = "green")

(* "realization never fails on absent state" (internal/meshnginx/install.go:87):
   the certificates a config names are there when its reload validates it. *)
CertificatesExist ==
    \A h \in Hosts : Ready(<<"reload", h>>) /\ host[h].loaded # None => Validates(host[h])
=============================================================================
