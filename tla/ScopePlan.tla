------------------------------ MODULE ScopePlan ------------------------------
(***************************************************************************)
(* An operator edits the manifests of an environment, one field at a time, *)
(* and runs `inforge validate` after each edit.  What the validator        *)
(* accepts, a deploy turns into hosts, firewalls, proxies and records      *)
(* (HostPlan).  The two derive the same facts from the manifests along     *)
(* different code: the properties say that where the first accepts, the    *)
(* second adds up.                                                         *)
(***************************************************************************)
EXTENDS Validate, HostPlan

CONSTANTS
  Starts,        \* trees an operator may start from
  Env,           \* the environment
  Ports,         \* ports an edit may write
  Vanities,      \* names an edit may add to a route
  Patterns,      \* sets of public paths an edit may write
  Paths,         \* paths a client may ask for
  MaxEdits       \* bound: edits in a row

(* The trees are decoded ones.  None of their regions has the name of the  *)
(* scope without a region: no check of the program keeps that apart.       *)
IsTree(t) ==
  /\ t = [regional |-> t.regional, global |-> t.global, regions |-> t.regions,
          globalBlock |-> t.globalBlock, secrets |-> t.secrets, pki |-> t.pki,
          defaults |-> t.defaults, sizes |-> t.sizes]
  /\ IsScope(t.regional) /\ IsScope(t.global)
  /\ ScopeGlobal \notin DOMAIN t.regions

ASSUME EditsAssumption ==
  /\ \A t \in Starts : IsTree(t)
  /\ Ports \subseteq Port
  /\ \A v \in Vanities : IsVanity(v)
  /\ \A patterns \in Patterns : \A p \in patterns : IsGlob(p)
  /\ \A path \in Paths : IsPath(path)
  /\ MaxEdits \in Nat

VARIABLES
  tree,          \* the manifests
  edits,         \* how many edits were made
  accepted       \* what validate says of the tree

vars == <<tree, edits, accepted>>

Init == tree \in Starts /\ edits = 0 /\ accepted = Accepted(tree)

(***************************************************************************)
(* Edits.  Half is the field of the tree that holds a scope.               *)
(***************************************************************************)

Halves == {"regional", "global"}

Write(half, scope) ==
  /\ edits < MaxEdits
  /\ scope # tree[half]
  /\ tree' = [tree EXCEPT ![half] = scope]
  /\ edits' = edits + 1
  /\ accepted' = Accepted(tree')

(* A resource that names a host moves to another one. *)
Move(half, kind, name, host) ==
  /\ name \in DOMAIN tree[half][kind]
  /\ host \in DOMAIN tree[half].compute
  /\ Write(half, [tree[half] EXCEPT ![kind][name].host = host])

Attach(half, c, network) ==
  Write(half, [tree[half] EXCEPT !.compute[c].network = network])

Renumber(half, n, old, new) ==
  LET swap(p) == IF p = old THEN new ELSE p
      svc == tree[half].service[n]
  IN /\ old \in BackendPorts(svc) \ {0}
     /\ Write(half, [tree[half] EXCEPT !.service[n] =
          [svc EXCEPT !.routes = {[r EXCEPT !.target = swap(@)] : r \in @},
                      !.health = swap(@),
                      !.exposed = {[e EXCEPT !.port = swap(@)] : e \in @},
                      !.mesh = {[m EXCEPT !.port = swap(@)] : m \in @}]])

AddedTarget == 8080

AddRoute(half, n, type, port) ==
  /\ tree[half].service[n].ingress # ""
  /\ Write(half, [tree[half] EXCEPT !.service[n].routes = @ \cup {Route(type, port, AddedTarget, {})}])

ListenAt(half, kind, name, port) ==
  Write(half, [tree[half] EXCEPT ![kind][name].health = port])

ToggleCaller(half, n, caller) ==
  /\ tree[half].service[n].mesh # {}
  /\ Write(half, [tree[half] EXCEPT !.service[n].mesh =
       {[m EXCEPT !.allowed = (@ \ {caller}) \cup ({caller} \ @)] : m \in @}])

Publish(half, n, patterns) ==
  /\ tree[half].service[n].mesh # {}
  /\ Write(half, [tree[half] EXCEPT !.service[n].mesh = {[m EXCEPT !.public = patterns] : m \in @}])

ToggleListed(half, g, n) ==
  Write(half, [tree[half] EXCEPT !.gateway[g].services = (@ \ {n}) \cup ({n} \ @)])

FrontBy(half, n, ingress) ==
  Write(half, [tree[half] EXCEPT !.service[n].ingress = ingress])

AskFor(half, n, d) ==
  Write(half, [tree[half] EXCEPT !.service[n].grants = {Grant("database", d, "ro")}])

Scale(half, c) ==
  Write(half, [tree[half] EXCEPT !.compute[c].instances = 2])

AddName(half, n, v) ==
  Write(half, [tree[half] EXCEPT !.service[n].routes =
    {IF r.type = TLSTermination THEN [r EXCEPT !.vanity = @ \cup {v}] ELSE r : r \in @}])

(* A service of one scope is declared in the other one too. *)
Copy(half, n) ==
  LET other == CHOOSE x \in Halves : x # half
      host == CHOOSE c \in DOMAIN tree[half].compute : TRUE
      copy == [tree[other].service[n] EXCEPT !.host = host, !.ingress = "", !.routes = {},
                                             !.grants = {}]
  IN Write(half, [tree[half] EXCEPT !.service =
       [m \in DOMAIN @ \cup {n} |-> IF m = n THEN copy ELSE @[m]]])

Next ==
  \E half \in Halves :
    LET s == tree[half] IN
    \/ \E kind \in {"service", "ingress", "gateway", "cluster"} :
         \E name \in DOMAIN s[kind], host \in DOMAIN s.compute : Move(half, kind, name, host)
    \/ \E c \in DOMAIN s.compute, network \in DOMAIN s.network : Attach(half, c, network)
    \/ \E n \in Services(s) : \E old \in BackendPorts(s.service[n]), new \in Ports :
         Renumber(half, n, old, new)
    \/ \E n \in Services(s), type \in {TLSTermination, Forward}, port \in Ports :
         AddRoute(half, n, type, port)
    \/ \E kind \in {"ingress", "gateway"} : \E name \in DOMAIN s[kind], port \in Ports :
         ListenAt(half, kind, name, port)
    \/ \E n \in Services(s) :
         \E caller \in Services(tree.regional) \cup Services(tree.global) \cup {Gateway} :
           ToggleCaller(half, n, caller)
    \/ \E n \in Services(s), patterns \in Patterns : Publish(half, n, patterns)
    \/ \E g \in DOMAIN s.gateway, n \in Services(s) : ToggleListed(half, g, n)
    \/ \E n \in Services(s), i \in DOMAIN s.ingress \cup {""} : FrontBy(half, n, i)
    \/ \E n \in Services(s), d \in DOMAIN s.database : AskFor(half, n, d)
    \/ \E c \in DOMAIN s.compute : Scale(half, c)
    \/ \E n \in Services(s), v \in Vanities : AddName(half, n, v)
    \/ \E n \in (Services(tree.regional) \cup Services(tree.global)) \ Services(s) : Copy(half, n)

Spec == Init /\ [][Next]_vars

(***************************************************************************)
(* What a deploy makes of the tree.                                        *)
(***************************************************************************)

Regional == LoadScope(tree.regional)
Global == LoadScope(tree.global)
Regions == DOMAIN tree.regions
Scopes == Regions \cup {ScopeGlobal}
ResourcesOf(sc) == ScopeResources(Regional, Global, sc)
SlugOf(sc) == IF sc = ScopeGlobal THEN GlobalSlug ELSE tree.regions[sc].slug
Edge(sc, h) == EdgeConfig(ResourcesOf(sc), h, Env, SlugOf(sc))
MeshAt(sc, h) == MeshConfig(Regional, Global, sc, Regions, h)
Firewall(sc, h) == FirewallPlan(ResourcesOf(sc), h, sc = ScopeGlobal)
LocalsOf(sc) == UNION {MeshLocal(Regional, Global, sc, Regions, h) : h \in MeshHosts(ResourcesOf(sc))}
Records(sc) == DerivedRecords(ResourcesOf(sc), Env, SlugOf(sc))

(***************************************************************************)
(* Every connection the derived configurations make between two hosts:     *)
(* from is a host of scope, to a host of the scope called.                 *)
(***************************************************************************)

Hop(sc, h, callee, k, port, address) ==
  [scope |-> sc, from |-> h, callee |-> callee, to |-> k, port |-> port, address |-> address]

EdgeHops(sc, h) ==
  LET c == Edge(sc, h) IN
  {Hop(sc, h, sc, e.peer, e.target, Private) : e \in {x \in c.routes \cup c.health : x.peer # h}}
    \cup {Hop(sc, h, sc, g.peer, GatewayHTTPPort, Private) : g \in {x \in c.terminations : x.peer # h}}

Dials(sc, h, member, target) ==
  IF member = Gateway
  THEN \E g \in GatewayRoutings(ResourcesOf(sc), h) : \E r \in g.routes : r.service = target.name
  ELSE \E l \in LocalsOf(target.sni[1]) : l.sni = target.sni /\ <<sc, member>> \in l.callers.out

MeshHops(sc, h) ==
  LET c == MeshAt(sc, h) IN
  UNION {{Hop(sc, h, t.sni[1], t.host, MTLSPort, t.address) :
            t \in {x \in c.targets : Dials(sc, h, e.member, x)}} : e \in c.egress}

DatabaseHops(sc, h) ==
  LET s == ResourcesOf(sc) IN
  UNION {UNION {{Hop(sc, h, sc, k, p.port, Private) :
                   p \in {x \in ClusterPorts(s, k) : x.cluster = s.database[g.name].cluster}} :
                   k \in ClusterHostOf(s, g.name)} :
           g \in UNION {{x \in s.service[n].grants : x.type = "database"} :
                          n \in {x \in Services(s) : h \in Canonical(s, s.service[x].host)}}}

Admits(hop) ==
  LET there == ResourcesOf(hop.callee)
      f == Firewall(hop.callee, hop.to)
      local == /\ hop.scope = hop.callee
               /\ there.network[NetworkOf(there, hop.from)].container
                    = there.network[NetworkOf(there, hop.to)].container
               /\ NetworkCIDR(there, hop.from) \subseteq f.source
  IN IF hop.address = Public THEN hop.port \in f.public
     ELSE \/ hop.from = hop.to /\ hop.scope = hop.callee
          \/ local /\ hop.port \in f.public \cup f.private \cup {e.port : e \in f.exposed}

(* Whatever one host is configured to dial on another, the other's         *)
(* firewall lets in, and the private address is one the first can reach:   *)
(* an ingress its backends and probes, an ingress the gateway behind it, a *)
(* mesh proxy every callee that allows its member, a service the cluster   *)
(* of a granted database.                                                  *)
HopsAdmitted ==
  accepted =>
    \A sc \in Scopes : \A h \in Instances(ResourcesOf(sc)) :
      \A hop \in EdgeHops(sc, h) \cup MeshHops(sc, h) \cup DatabaseHops(sc, h) : Admits(hop)

(***************************************************************************)
(* Who binds what on a host.                                               *)
(***************************************************************************)

Bind(n, kind, port) == [of |-> n, kind |-> kind, port |-> port]

ServiceBinds(s, h) ==
  UNION {{Bind(n, "target", r.target) : r \in s.service[n].routes}
           \cup {Bind(n, "health", p) : p \in {s.service[n].health} \ {0}}
           \cup {Bind(n, "exposed", e.port) : e \in {x \in s.service[n].exposed : x.proto = "tcp"}}
           \cup {Bind(n, "mesh", m.port) : m \in s.service[n].mesh} :
           n \in {x \in Services(s) : h \in Canonical(s, s.service[x].host)}}

PortsOf(sockets) == {x.port : x \in sockets}

(* The loopback ports behind the mixed ones. *)
Terminators(c) == {LoopbackBase + i - 1 : i \in 1 .. Cardinality(MixedListens(c))}

(* The health listener of services behind a gateway opens on the host of   *)
(* the ingress in front of it; validate looks for it on the gateway's.     *)
HealthMovedTo(sc, h) ==
  LET s == ResourcesOf(sc) IN
  IF /\ GatewayHealthByHost(s, h, Env, SlugOf(sc)) # {}
     /\ h \notin GatewayHosts(s)
     /\ IngressHealthByHost(s, h, Env, SlugOf(sc)) = {}
  THEN {HealthPort(s, h)} ELSE {}

(* A backend of h and the nginx there, as far as validate compares them.   *)
MissesNginx(sc, h, b) ==
  LET s == ResourcesOf(sc)
      c == Edge(sc, h)
      held == PortsOf(EdgeSockets(c))
      entry(entries) == \E e \in entries : e.service = b.of /\ e.peer = h
  IN /\ b.kind \in {"target", "exposed"} => b.port \notin held \ HealthMovedTo(sc, h)
     /\ b.kind = "mesh" => b.port \notin held \ (HealthMovedTo(sc, h) \cup Terminators(c))
     /\ b.kind = "health" =>
          /\ b.port \notin {r.listen : r \in c.routes} \cup Terminators(c)
          /\ entry(IngressHealthByHost(s, h, Env, SlugOf(sc))) => b.port # c.healthPort
          /\ entry(GatewayHealthByHost(s, h, Env, SlugOf(sc))) /\ h \in GatewayHosts(s) =>
               b.port \notin held \ {GatewayHTTPPort}

(* On one host these are never told to bind the same port: any two of the  *)
(* services' ports; a service's port and an egress port of the mesh proxy  *)
(* or a postmaster; nginx and an egress port; a route's target or an       *)
(* exposed port and any socket of nginx; a mesh port and any but its       *)
(* loopback terminators; a health port and nginx's routes, its             *)
(* terminators and, on a host whose nginx answers that very probe, the     *)
(* listener that does.  Not included, because validate does not compare    *)
(* them: the health listener of a gateway's services on the host of its    *)
(* ingress (HealthListenerKept), a health port and nginx's other sockets,  *)
(* a mesh port and the terminators, and the mTLS listener of the mesh      *)
(* proxy with anything.                                                    *)
BindsExclusive ==
  accepted =>
    \A sc \in Scopes : \A h \in Instances(ResourcesOf(sc)) :
      LET s == ResourcesOf(sc)
          binds == ServiceBinds(s, h)
          egress == PortsOf(MeshEgress(s, h))
      IN /\ \A b, d \in binds : b.port = d.port => b.of = d.of /\ b.kind = d.kind
         /\ \A b \in binds : /\ b.port \notin egress \cup PortsOf(ClusterPorts(s, h))
                             /\ MissesNginx(sc, h, b)
         /\ PortsOf(EdgeSockets(Edge(sc, h))) \cap egress = {}

(* "the public health-probe listener. ... A co-located backend bind (route *)
(* target, backend health, exposed_ports, mesh.port) that lands on one of  *)
(* these fails at runtime with EADDRINUSE, so nginxBindErr rejects it at   *)
(* validate time" (validate.go:301-307): no target, exposed or mesh port   *)
(* is the port of the health listener on its host.                         *)
HealthListenerKept ==
  accepted =>
    \A sc \in Scopes : \A h \in Instances(ResourcesOf(sc)) :
      \A b \in {x \in ServiceBinds(ResourcesOf(sc), h) : x.kind # "health"} :
        Edge(sc, h).health # {} => b.port # Edge(sc, h).healthPort

(***************************************************************************)
(* The checks the program keeps for itself.                                *)
(***************************************************************************)

(* None of these errors of the program stops the deploy of a tree that     *)
(* validates: a gateway that does not resolve, a host without a subnet,    *)
(* with two health ports or an nginx.conf that does not render, a name     *)
(* outside the zone, a caller in an allow-list that is dropped.  Its       *)
(* errors about equal names and records, the length of a role's name and   *)
(* the deploy user are not among them.                                     *)
DeriveCleanly ==
  accepted =>
    \A sc \in Scopes : /\ ScopeDerives(ResourcesOf(sc), Env, SlugOf(sc))
                       /\ NoCallerDropped(Regional, Global, sc, Regions)

(* The program alone looks for two servers of one name, and one name at    *)
(* two hosts.                                                              *)
Distinct(sc) ==
  /\ RecordsDistinct(Records(sc))
  /\ \A h \in Instances(ResourcesOf(sc)) : ~SNICollides(Edge(sc, h))

(* A name in the DNS leads to a host whose nginx has a server for it, on a *)
(* port its firewall opens to everyone; and every name nginx serves, and   *)
(* asks certificates for, is in the DNS and leads there.                   *)
NamesServed ==
  accepted =>
    \A sc \in Scopes : Distinct(sc) =>
      LET s == ResourcesOf(sc)
          unserved == {HostFQDN(Env, SlugOf(sc), c) : c \in DOMAIN s.compute}
                        \cup {AppFQDN(IngressDNSLabel, SlugOf(sc))}
      IN /\ \A d \in Records(sc) : d.fqdn \notin unserved => d.fqdn \in ServedFQDNs(Edge(sc, d.host))
         /\ \A h \in Instances(s) :
              LET c == Edge(sc, h) IN
              /\ \A f \in ServedFQDNs(c) : [fqdn |-> f, host |-> h] \in Records(sc)
              /\ {x.port : x \in {y \in EdgeSockets(c) : y.address = Anywhere}}
                   \subseteq Firewall(sc, h).public

(***************************************************************************)
(* The mesh.                                                               *)
(***************************************************************************)

(* Every identity a callee admits belongs to a member of that scope, whose *)
(* routing table leads, under the callee's name, to the callee that admits *)
(* it and to no other service of that name.                                *)
CallersRouted ==
  accepted =>
    \A sc \in Scopes : \A l \in LocalsOf(sc) : \A id \in l.callers.out :
      id[2] # Gateway =>
        /\ id[2] \in Pki(ResourcesOf(id[1]))
        /\ \A t \in MeshTargets(Regional, Global, id[1]) : t.name = l.service => t.sni = l.sni
        /\ \E t \in MeshTargets(Regional, Global, id[1]) : t.name = l.service

(* A path a client asks the gateway for is one service's at most, is       *)
(* public there and not internal, is no probe of the gateway, and the      *)
(* service lets the gateway in.                                            *)
OneOwnerPerPath ==
  accepted =>
    \A sc \in Scopes : \A h \in MeshHosts(ResourcesOf(sc)) :
      \A g \in GatewayRoutings(ResourcesOf(sc), h) : \A path \in Paths :
        LET hit == {r \in g.routes : Matches(r.pattern, path)} IN
        /\ \A q, r \in hit : q.service = r.service
        /\ hit # {} => path \notin g.probes
        /\ \A r \in hit :
             /\ \A m \in ResourcesOf(sc).service[r.service].mesh :
                  \A p \in m.internal : ~Matches(p, path)
             /\ \E l \in LocalsOf(sc) : l.service = r.service /\ <<sc, Gateway>> \in l.callers.out
=============================================================================
