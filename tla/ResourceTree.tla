---------------------------- MODULE ResourceTree ----------------------------
(***************************************************************************)
(* The sources of a deployment: what the folders under resources/<env>/    *)
(* declare, as the loader hands it to the validator and to the program.    *)
(*                                                                         *)
(* A scope (regional/ or global/) is a record with one function per kind   *)
(* of resource, from names to manifests: the names of one kind are unique  *)
(* in a scope, which validateType enforces.  A manifest is a record with   *)
(* the fields of its Go type that decide something; an optional block      *)
(* (mesh:) is a set of at most one record, an unset port is 0, an unset    *)
(* name is "".  A foreign key written "global/<name>" resolves to nothing  *)
(* except where a field of its own says which scope is meant.              *)
(***************************************************************************)
EXTENDS Integers, FiniteSets, Sequences, SequencesExt, PathGlob

Port == 1 .. 65535

(* Ports inforge keeps for itself on a host. *)
EgressBase == 9500
MaxServices == 256
GatewayEgressPort == EgressBase + MaxServices
EgressRange == EgressBase .. GatewayEgressPort
MTLSPort == 8443
GatewayHTTPPort == 8442
LoopbackBase == 11443
MaxMixedPorts == 64
LoopbackRange == LoopbackBase .. LoopbackBase + MaxMixedPorts - 1
PortBase == 5432
PostgresRange == PortBase .. PortBase + 31
DefaultHealthProbesPort == 81

SelfHosted == "self-hosted"
TLSTermination == "tls-termination"
Forward == "forward"
Gateway == "gateway"

(***************************************************************************)
(* Manifests: what a file that names only its required fields decodes to.  *)
(* The functions of a scope are empty before a folder is read.             *)
(***************************************************************************)

None == <<>>

Network(cidr, subnets) ==
  [cidr |-> cidr, container |-> "container", subnets |-> subnets, provider |-> ""]

Compute(network, size) ==
  [kind |-> "", network |-> network, subnet |-> "", size |-> size,
   instances |-> 0, deployUser |-> "deploy", provider |-> ""]

Cluster(host) == [host |-> host, provider |-> ""]

Database(cluster) ==
  [cluster |-> cluster, physical |-> "",
   backup |-> [enabled |-> "", keep |-> 0, interval |-> 1]]

Route(type, listen, target, vanity) ==
  [type |-> type, listen |-> listen, target |-> target, vanity |-> vanity]

Mesh(port, public, internal, allowed) ==
  [port |-> port, public |-> public, internal |-> internal, allowed |-> allowed]

ExposedPort(proto, port) == [proto |-> proto, port |-> port]

Grant(type, name, permission) ==
  [type |-> type, scope |-> "own", name |-> name, permission |-> permission, outputs |-> None]

Service(host, pki) ==
  [host |-> host, ingress |-> "", routes |-> {}, health |-> 0, probes |-> {},
   exposed |-> {}, mesh |-> {}, pki |-> pki, user |-> "svc", grants |-> {},
   environment |-> None]

Ingress(host) == [host |-> host, health |-> 0]

App(ingress, subdomain) == [ingress |-> ingress, subdomain |-> subdomain]

GatewayOn(host, ingress, pki, subdomain) ==
  [host |-> host, ingress |-> ingress, services |-> {}, health |-> 0,
   probes |-> {}, pki |-> pki, subdomain |-> subdomain]

EmptyScope ==
  [network |-> None, compute |-> None, cluster |-> None, database |-> None,
   service |-> None, pki |-> None, ingress |-> None, app |-> None, gateway |-> None]

(***************************************************************************)
(* Decoded manifests: what the decoder and the JSON schemas guarantee      *)
(* before any other check.  Names are the keys of finite functions, a      *)
(* manifest has the fields of its type, a port of exposed_ports is a port. *)
(***************************************************************************)

IsFunction(f) == f = [x \in DOMAIN f |-> f[x]]
IsVanity(v) == v.labels \in Seq({v.labels[i] : i \in DOMAIN v.labels})

IsRoute(r) ==
  /\ r = Route(r.type, r.listen, r.target, r.vanity)
  /\ \A v \in r.vanity : IsVanity(v)

IsMesh(m) ==
  /\ m = Mesh(m.port, m.public, m.internal, m.allowed)
  /\ \A p \in m.public \cup m.internal : IsGlob(p)

IsExposedPort(e) == e = ExposedPort(e.proto, e.port) /\ e.port \in Port

IsService(v) ==
  /\ v = [host |-> v.host, ingress |-> v.ingress, routes |-> v.routes, health |-> v.health,
          probes |-> v.probes, exposed |-> v.exposed, mesh |-> v.mesh, pki |-> v.pki,
          user |-> v.user, grants |-> v.grants, environment |-> v.environment]
  /\ IsFiniteSet(v.routes) /\ \A r \in v.routes : IsRoute(r)
  /\ \A e \in v.exposed : IsExposedPort(e)
  /\ \A m \in v.mesh : IsMesh(m) /\ \A k \in v.mesh : k = m

IsCompute(c) ==
  /\ c = [kind |-> c.kind, network |-> c.network, subnet |-> c.subnet, size |-> c.size,
          instances |-> c.instances, deployUser |-> c.deployUser, provider |-> c.provider]
  /\ c.instances \in Nat

IsCluster(c) == c = [host |-> c.host, provider |-> c.provider]

IsDatabase(d) == d = [cluster |-> d.cluster, physical |-> d.physical, backup |-> d.backup]

IsIngress(i) == i = [host |-> i.host, health |-> i.health]

IsGateway(g) ==
  g = [host |-> g.host, ingress |-> g.ingress, services |-> g.services, health |-> g.health,
       probes |-> g.probes, pki |-> g.pki, subdomain |-> g.subdomain]

IsScope(s) ==
  /\ s = [network |-> s.network, compute |-> s.compute, cluster |-> s.cluster,
          database |-> s.database, service |-> s.service, pki |-> s.pki,
          ingress |-> s.ingress, app |-> s.app, gateway |-> s.gateway]
  /\ \A kind \in DOMAIN s : IsFunction(s[kind]) /\ IsFiniteSet(DOMAIN s[kind])
  /\ \A c \in DOMAIN s.compute : IsCompute(s.compute[c])
  /\ \A c \in DOMAIN s.cluster : IsCluster(s.cluster[c])
  /\ \A d \in DOMAIN s.database : IsDatabase(s.database[d])
  /\ \A n \in DOMAIN s.service : IsService(s.service[n])
  /\ \A i \in DOMAIN s.ingress : IsIngress(s.ingress[i])
  /\ \A g \in DOMAIN s.gateway : IsGateway(s.gateway[g])

(***************************************************************************)
(* Loading: the defaults the loader fills in.                              *)
(***************************************************************************)

Or(x, unset, default) == IF x = unset THEN default ELSE x

EffectiveHealthProbesPort(r) == Or(r.health, 0, DefaultHealthProbesPort)

NormalizeCompute(c) ==
  [c EXCEPT !.kind = Or(@, "", "vm"), !.instances = Or(@, 0, 1)]

NormalizeDatabase(d) ==
  [d EXCEPT !.backup.enabled = Or(@, "", "yes"),
            !.backup.keep = Or(@, 0, 7)]

NormalizeListener(r) == [r EXCEPT !.health = EffectiveHealthProbesPort(r)]

LoadScope(s) ==
  [s EXCEPT
     !.compute = [c \in DOMAIN @ |-> NormalizeCompute(@[c])],
     !.database = [d \in DOMAIN @ |-> NormalizeDatabase(@[d])],
     !.ingress = [i \in DOMAIN @ |-> NormalizeListener(@[i])],
     !.gateway = [g \in DOMAIN @ |-> NormalizeListener(@[g])]]

HasAny(s) == \E kind \in DOMAIN s : DOMAIN s[kind] # {}

ResolveProvider(override, class, defaults) ==
  Or(override, "", IF class = "database" THEN Or(defaults.database, "", SelfHosted)
                                         ELSE defaults.compute)

(***************************************************************************)
(* Hosts.  Every compute expands into instances; a foreign key to a host   *)
(* is the bare name of a compute and means its first instance.  Host(s, k) *)
(* has no element when k resolves to nothing.                              *)
(***************************************************************************)

SpecKey(c, i) == <<c, i>>

Instances(s) ==
  UNION {{SpecKey(c, i) : i \in 1 .. s.compute[c].instances} : c \in DOMAIN s.compute}

Host(s, k) == {SpecKey(c, 1) : c \in DOMAIN s.compute \cap {k}}

ComputeOf(s, h) == s.compute[h[1]]
NetworkOf(s, h) == ComputeOf(s, h).network

IngressHost(s, i) ==
  UNION {Host(s, s.ingress[j].host) : j \in DOMAIN s.ingress \cap {i}}

ServiceHost(s, n) ==
  UNION {Host(s, s.service[m].host) : m \in DOMAIN s.service \cap {n}}

GatewayHosts(s) == UNION {Host(s, s.gateway[g].host) : g \in DOMAIN s.gateway}

(* The regional scope is deployed into every region, the global one once,  *)
(* without a region: its slug is "".                                       *)
GlobalSlug == ""

(***************************************************************************)
(* DNS names: the labels of a name, most specific first.                   *)
(***************************************************************************)

BaseDomain == <<"base">>
IngressDNSLabel == "ingress"

Slug(slug) == IF slug = GlobalSlug THEN <<>> ELSE <<slug>>

RecordFQDN(env, slug, labels) == labels \o <<env>> \o Slug(slug) \o BaseDomain
HostFQDN(env, slug, c) == RecordFQDN(env, slug, <<c, "vm">>)
ServiceFQDN(env, slug, n) == RecordFQDN(env, slug, <<n, "svc">>)
AppFQDN(subdomain, slug) == <<subdomain>> \o Slug(slug) \o BaseDomain

(* A vanity name is a bare token, derived like a record, or labels taken   *)
(* as they are.                                                            *)
ExpandVanity(v, env, slug) ==
  IF v.bare THEN RecordFQDN(env, slug, v.labels) ELSE v.labels

InZone(fqdn) == IsSuffix(BaseDomain, fqdn)
=============================================================================
