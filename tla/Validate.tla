------------------------------- MODULE Validate -------------------------------
(***************************************************************************)
(* `inforge validate`: what a tree of manifests must satisfy before a      *)
(* deploy looks at it.  One predicate per check function; a tree is        *)
(* accepted when none of them reports an error (warnings, the order of     *)
(* messages and what the JSON schemas say about the shape of one file are  *)
(* left out).                                                              *)
(*                                                                         *)
(* The first half is the context the checks share: which port of a host    *)
(* is taken by whom, as the validator derives it.  The program derives the *)
(* same facts on its own, in HostPlan; that the two agree is what the runs *)
(* of MCScopePlan check.                                                   *)
(***************************************************************************)
EXTENDS ResourceTree

(***************************************************************************)
(* The context of a scope (regionContext).                                 *)
(***************************************************************************)

Services(s) == DOMAIN s.service

MeshMembers(s) == {n \in Services(s) : s.service[n].pki # ""}

ListedByGateway(s) == UNION {s.gateway[g].services : g \in DOMAIN s.gateway}

GatewayIngressHosts(s) ==
  UNION {IngressHost(s, s.gateway[g].ingress) :
           g \in {x \in DOMAIN s.gateway : Host(s, s.gateway[x].host) # {}}}

(* Routes nginx holds on an ingress host. *)
RoutesAt(s, h) ==
  UNION {{<<n, r>> : r \in s.service[n].routes} :
           n \in {x \in Services(s) : h \in IngressHost(s, s.service[x].ingress)}}

PortUsers(s, h, port) == {nr \in RoutesAt(s, h) : nr[2].listen = port}
ForwardUsers(s, h, port) == {nr \in PortUsers(s, h, port) : nr[2].type = Forward}

(* Ports a service binds on its own host.  Routes count only behind an     *)
(* ingress.                                                                *)
BackendPorts(svc) ==
  {m.port : m \in svc.mesh} \cup {svc.health}
    \cup (IF svc.ingress = "" THEN {} ELSE {r.target : r \in svc.routes})
    \cup {e.port : e \in {x \in svc.exposed : x.proto = "tcp"}}

TargetUsers(s, h, port) ==
  {n \in Services(s) : h \in ServiceHost(s, n) /\ port \in BackendPorts(s.service[n]) \ {0}}

UdpUsers(s, h, port) ==
  {n \in Services(s) : /\ h \in ServiceHost(s, n)
                       /\ [proto |-> "udp", port |-> port] \in s.service[n].exposed}

AppHosts(s) == UNION {IngressHost(s, s.app[a].ingress) : a \in DOMAIN s.app}

TLSTerminates(s, h) ==
  \/ h \in AppHosts(s)
  \/ h \in GatewayIngressHosts(s)
  \/ \E nr \in RoutesAt(s, h) : nr[2].type = TLSTermination

(* Ports the edge nginx holds on a host without a route that says so.      *)
ImplicitBinds(s, h) ==
  (IF h \in AppHosts(s) \cup GatewayIngressHosts(s) THEN {443} ELSE {})
    \cup (IF h \in GatewayHosts(s) THEN {GatewayHTTPPort} ELSE {})
    \cup (IF TLSTerminates(s, h) THEN {80} ELSE {})

(* Mutant: only a gateway's health listener is registered. *)
HealthBindsOfGateway(s, h) ==
  {s.gateway[g].health :
     g \in {x \in DOMAIN s.gateway :
              /\ h \in Host(s, s.gateway[x].host)
              /\ \E n \in ListedByGateway(s) \cap Services(s) :
                   s.service[n].health # 0 /\ s.service[n].ingress = ""}}

HealthBinds(s, h) ==
  {s.ingress[s.service[n].ingress].health :
     n \in {x \in Services(s) : /\ s.service[x].health # 0
                                /\ h \in IngressHost(s, s.service[x].ingress)}}
    \cup {s.gateway[g].health :
            g \in {x \in DOMAIN s.gateway :
                     /\ h \in Host(s, s.gateway[x].host)
                     /\ \E n \in ListedByGateway(s) \cap Services(s) :
                          s.service[n].health # 0 /\ s.service[n].ingress = ""}}

NginxBinds(s, h) == ImplicitBinds(s, h) \cup HealthBinds(s, h)

IngressesAt(s, h) == {i \in DOMAIN s.ingress : h \in IngressHost(s, i)}
RunsEdgeNginx(s, h) == IngressesAt(s, h) # {} \/ h \in GatewayHosts(s)
RunsMeshProxy(s, h) ==
  h \in GatewayHosts(s) \/ \E n \in MeshMembers(s) : h \in ServiceHost(s, n)

ClusterHosts(s) == UNION {Host(s, s.cluster[c].host) : c \in DOMAIN s.cluster}

SameNetwork(s, H, K) == \A h \in H, k \in K : NetworkOf(s, h) = NetworkOf(s, k)

(* A foreign key to a host must be a compute of one vm. *)
ResolvesToHost(s, k) ==
  /\ Host(s, k) # {}
  /\ s.compute[k].kind = "vm"
  /\ s.compute[k].instances = 1

(***************************************************************************)
(* Networks, computes, clusters, databases.                                *)
(***************************************************************************)

ProviderNamed(p, class, defaults) == ResolveProvider(p, class, defaults) # ""

(* A range is the set of its addresses; networks that name one container   *)
(* are one cloud network.                                                  *)
NetworkOK(s, n, defaults) ==
  LET net == s.network[n] IN
  /\ ProviderNamed(net.provider, "network", defaults)
  /\ \A b \in DOMAIN net.subnets : net.subnets[b] \subseteq net.cidr
  /\ \A o \in DOMAIN s.network \ {n} :
       /\ s.network[o].container = net.container => s.network[o].cidr = net.cidr
       /\ DOMAIN s.network[o].subnets \cap DOMAIN net.subnets = {}

ComputeOK(s, c, sizes, defaults) ==
  LET compute == s.compute[c] IN
  /\ ProviderNamed(compute.provider, "compute", defaults)
  /\ compute.network \in DOMAIN s.network
  /\ compute.subnet \in {""} \cup DOMAIN s.network[compute.network].subnets
  /\ compute.size \in sizes

ClusterOK(s, c, defaults) ==
  LET cluster == s.cluster[c] IN
  IF ResolveProvider(cluster.provider, "database", defaults) = SelfHosted
  THEN ResolvesToHost(s, cluster.host)
  ELSE cluster.host = ""

DatabaseOK(s, d) ==
  LET db == s.database[d] IN
  /\ db.cluster \in DOMAIN s.cluster
  /\ \A o \in DOMAIN s.database \ {d} :
       db.physical # "" => <<s.database[o].cluster, s.database[o].physical>>
                             # <<db.cluster, db.physical>>
  /\ db.backup.enabled = "yes" => db.backup.keep >= 1 /\ db.backup.interval > 0

PKIResourceOK(s, p) == s.pki[p].topology = "root-only"

(***************************************************************************)
(* Services.                                                               *)
(***************************************************************************)

ReservedNames == {Gateway, "mesh"}

ServiceHostOK(s, n) ==
  LET svc == s.service[n] IN
  /\ n \notin ReservedNames
  /\ ResolvesToHost(s, svc.host)
  /\ s.compute[svc.host].deployUser # ""
  /\ svc.user # ""
  /\ svc.ingress \in {""} \cup DOMAIN s.ingress
  /\ svc.routes # {} \/ svc.health # 0 =>
       SameNetwork(s, IngressHost(s, svc.ingress), Host(s, svc.host))

CoLocated(s, svc) == IngressHost(s, svc.ingress) \cap Host(s, svc.host) # {}

(* A port a backend binds on its host, against everyone else there.        *)
FreeOfListens(s, H, port) == \A h \in H : PortUsers(s, h, port) = {}
FreeOfNginx(s, H, port) == \A h \in H : port \notin NginxBinds(s, h)
FreeOfServices(s, H, n, port) == \A h \in H : TargetUsers(s, h, port) \subseteq {n}
FreeOfTerminators(s, H, port) ==
  port \in LoopbackRange => \A h \in H : ~RunsEdgeNginx(s, h)

RouteOK(s, n, r) ==
  LET svc == s.service[n]
      H == Host(s, svc.host)
      I == IngressHost(s, svc.ingress)
  IN /\ svc.ingress # ""
     /\ r.type \in {TLSTermination, Forward}
     /\ r.listen \in Port /\ r.target \in Port
     /\ CoLocated(s, svc) => r.listen # r.target
     /\ FreeOfListens(s, H, r.target)
     /\ FreeOfNginx(s, H, r.target)
     /\ FreeOfServices(s, H, n, r.target)
     /\ FreeOfTerminators(s, H, r.target)
     /\ r.target \notin EgressRange
     /\ r.listen \in EgressRange => \A h \in I : ~RunsMeshProxy(s, h)
     /\ r.type = Forward =>
          /\ r.vanity = {}
          /\ \A h \in I : /\ Cardinality(ForwardUsers(s, h, r.listen)) <= 1
                          /\ r.listen = 80 => ~TLSTerminates(s, h)

HealthOK(s, n) ==
  LET svc == s.service[n]
      H == Host(s, svc.host)
      listed == svc.ingress = "" /\ n \in ListedByGateway(s)
  IN /\ (svc.health = 0) <=> (svc.probes = {})
     /\ svc.health # 0 =>
          /\ svc.ingress # "" \/ listed
          /\ \A r \in svc.routes : r.target # svc.health
          /\ FreeOfListens(s, H, svc.health)
          /\ FreeOfServices(s, H, n, svc.health)
          /\ FreeOfTerminators(s, H, svc.health)
          /\ svc.health \notin EgressRange
          /\ CoLocated(s, svc) => svc.health # s.ingress[svc.ingress].health
          /\ listed /\ H \cap GatewayHosts(s) # {} =>
               svc.health \notin {80, 443} \cup {s.gateway[g].health : g \in DOMAIN s.gateway}

ExposedOK(s, n, e) ==
  LET svc == s.service[n]
      H == Host(s, svc.host)
  IN IF e.proto = "udp"
     THEN \A h \in H : UdpUsers(s, h, e.port) \subseteq {n}
     ELSE /\ e.port # svc.health
          /\ \A r \in svc.routes : r.target # e.port
          /\ FreeOfListens(s, H, e.port)
          /\ FreeOfNginx(s, H, e.port)
          /\ FreeOfServices(s, H, n, e.port)
          /\ FreeOfTerminators(s, H, e.port)
          /\ e.port \notin EgressRange

(* A host of a cluster keeps its range of ports for the postmasters.       *)
PostgresRangeOK(s, n) ==
  LET svc == s.service[n] IN
  Host(s, svc.host) \cap ClusterHosts(s) # {} =>
    PostgresRange \cap (BackendPorts(svc) \cup {r.target : r \in svc.routes}) = {}

(***************************************************************************)
(* What a service reads: its environment and its grants.  The two scopes   *)
(* of a tree see each other through o, the other scope, and pass, the      *)
(* scope being checked.                                                    *)
(***************************************************************************)

ReservedEnv == {"INFORGE_MESH_URL", "MTLS_CERT_PATH", "MTLS_KEY_PATH", "MTLS_CA_PATH"}

(* computeKind: an instance, or the bare name of a single one.             *)
ResolvesToCompute(s, f) ==
  /\ f.name \in DOMAIN s.compute
  /\ LET n == s.compute[f.name].instances
     IN IF f.instance = 0 THEN n = 1 ELSE f.instance \in 1 .. n

SourceOK(s, o, pass, secrets, n, src) ==
  /\ src.kind = "vault" =>
       \/ secrets.state = "unreadable"
       \/ secrets.state = "read" /\ [service |-> n, key |-> src.key] \in secrets.entries
  /\ src.kind = "ref" =>
       /\ src.type = "compute" /\ src.output = "publicIp"
       /\ IF src.scope = "global" THEN pass = "regional" /\ ResolvesToCompute(o, src)
                                  ELSE ResolvesToCompute(s, src)

EnvironmentOK(s, o, pass, secrets, n) ==
  \A k \in DOMAIN s.service[n].environment :
    /\ k \notin ReservedEnv
    /\ SourceOK(s, o, pass, secrets, n, s.service[n].environment[k])

(* Fields a grant publishes, and which of them are files.                  *)
FieldNames(type, permission) ==
  IF type = "database"
  THEN [values |-> {"USER", "PASSWORD", "HOST", "PORT", "DBNAME", "URL"}, files |-> {}]
  ELSE [values |-> {}, files |-> {"CERT"} \cup (IF permission = "rw" THEN {"KEY"} ELSE {})]

ClusterHostOf(s, d) ==
  UNION {Host(s, s.cluster[c].host) : c \in DOMAIN s.cluster \cap {s.database[d].cluster}}

GeneratedPKIs(pki) == {p \in DOMAIN pki.trees : pki.trees[p].topology = "root-only"}

GrantTargetOK(s, o, pass, pki, n, g) ==
  IF g.type = "database"
  THEN /\ g.scope = "own"
       /\ g.name \in DOMAIN s.database
       /\ SameNetwork(s, Host(s, s.service[n].host), ClusterHostOf(s, g.name))
  ELSE LET owner == IF g.scope = "global" THEN o ELSE s IN
       /\ g.scope = "global" => pass = "regional"
       /\ g.name \in DOMAIN owner.pki
       /\ owner.pki[g.name].topology = "root-only"
       /\ g.name \in GeneratedPKIs(pki)

OutputOK(g, out) ==
  LET names == FieldNames(g.type, g.permission) IN
  /\ out.fields # {} /\ out.fields \subseteq names.values \cup names.files
  /\ out.fields \cap names.files # {} => Cardinality(out.fields) = 1 /\ ~out.literal

GrantsOK(s, o, pass, pki, n) ==
  LET svc == s.service[n] IN
  \A g \in svc.grants :
    /\ g.type \in {"database", "pki"} /\ g.permission \in {"ro", "rw"}
    /\ GrantTargetOK(s, o, pass, pki, n, g)
    /\ \A k \in DOMAIN g.outputs : /\ k \notin ReservedEnv \cup DOMAIN svc.environment
                                   /\ OutputOK(g, g.outputs[k])
    /\ \A h \in svc.grants \ {g} :
         /\ <<g.type, g.scope, g.name>> # <<h.type, h.scope, h.name>>
         /\ DOMAIN g.outputs \cap DOMAIN h.outputs = {}

(***************************************************************************)
(* The mesh block of a service: its endpoints and who may call them.  A    *)
(* regional service may call a global one, never the other way round.      *)
(***************************************************************************)

CallerCandidates(o, pass) == IF pass = "global" THEN MeshMembers(o) ELSE {}

MeshPkiOf(s, o, caller) ==
  IF caller \in MeshMembers(s) THEN s.service[caller].pki
  ELSE IF caller \in MeshMembers(o) THEN o.service[caller].pki ELSE ""

PathsOK(m) ==
  /\ \A p \in m.public \cup m.internal : Parsed(p)
  /\ m.public \cup m.internal # {}
  /\ \A p \in m.public, q \in m.internal : ~Overlaps(p, q)

MeshPortOK(s, n, m) ==
  LET svc == s.service[n]
      H == Host(s, svc.host)
  IN /\ m.port \in Port
     /\ m.port \notin {r.target : r \in svc.routes} \cup {svc.health}
                        \cup {e.port : e \in {x \in svc.exposed : x.proto = "tcp"}}
     /\ m.port \notin EgressRange
     /\ FreeOfListens(s, H, m.port)
     /\ FreeOfNginx(s, H, m.port)
     /\ FreeOfServices(s, H, n, m.port)

(* Mutant: a caller of any scope and any network is accepted. *)
CallerOKAnywhere(s, o, pass, n, caller) ==
  \/ caller = Gateway
  \/ /\ caller # n
     /\ caller \in MeshMembers(s) \cup MeshMembers(o)
     /\ MeshPkiOf(s, o, caller) = s.service[n].pki

CallerOK(s, o, pass, n, caller) ==
  \/ caller = Gateway
  \/ /\ caller # n
     /\ caller \in MeshMembers(s) \cup CallerCandidates(o, pass)
     /\ MeshPkiOf(s, o, caller) = s.service[n].pki
     /\ caller \in MeshMembers(s) =>
          SameNetwork(s, ServiceHost(s, caller), ServiceHost(s, n))

MeshOK(s, o, pass, n) ==
  \A m \in s.service[n].mesh :
    /\ s.service[n].pki # ""
    /\ PathsOK(m)
    /\ MeshPortOK(s, n, m)
    /\ \A caller \in m.allowed : CallerOK(s, o, pass, n, caller)

ServiceOK(s, o, pass, t, n) ==
  /\ ServiceHostOK(s, n)
  /\ \A r \in s.service[n].routes : RouteOK(s, n, r)
  /\ MeshOK(s, o, pass, n)
  /\ HealthOK(s, n)
  /\ \A e \in s.service[n].exposed : ExposedOK(s, n, e)
  /\ PostgresRangeOK(s, n)
  /\ EnvironmentOK(s, o, pass, t.secrets, n)
  /\ GrantsOK(s, o, pass, t.pki, n)

(***************************************************************************)
(* The edge of a scope: one ingress, the apps it serves and one gateway    *)
(* behind it.                                                              *)
(***************************************************************************)

IngressOK(s, i) ==
  LET health == s.ingress[i].health
      H == IngressHost(s, i)
  IN /\ ResolvesToHost(s, s.ingress[i].host)
     /\ Cardinality(DOMAIN s.ingress) = 1
     /\ health \notin {80} \cup LoopbackRange
     /\ \A h \in H : /\ RunsMeshProxy(s, h) => health \notin EgressRange
                     /\ PortUsers(s, h, health) = {}
                     /\ health \notin ImplicitBinds(s, h)

AppOK(s, a) ==
  /\ s.app[a].subdomain # IngressDNSLabel
  /\ s.app[a].ingress \in DOMAIN s.ingress
  /\ \A b \in DOMAIN s.app \ {a} :
       s.app[a].subdomain # "" => s.app[a].subdomain # s.app[b].subdomain

PublicPaths(s, n) == UNION {m.public : m \in s.service[n].mesh}

ListedOK(s, g, n) ==
  /\ n \in Services(s)
  /\ \E m \in s.service[n].mesh : Gateway \in m.allowed
  /\ s.gateway[g].pki # "" => s.service[n].pki = s.gateway[g].pki
  /\ PublicPaths(s, n) # {}
  /\ SameNetwork(s, Host(s, s.gateway[g].host), ServiceHost(s, n))

(* Mutant: the gateway's health port may differ from its ingress's. *)
GatewayHealthOKAlone(s, g) ==
  LET gw == s.gateway[g]
      H == IngressHost(s, gw.ingress)
  IN /\ gw.health \notin {80, 443} \cup LoopbackRange \cup EgressRange
     /\ \A h \in H : PortUsers(s, h, gw.health) = {}

GatewayHealthOK(s, g) ==
  LET gw == s.gateway[g]
      H == IngressHost(s, gw.ingress)
  IN /\ gw.health \notin {80, 443} \cup LoopbackRange \cup EgressRange
     /\ \A h \in H : /\ PortUsers(s, h, gw.health) = {}
                     /\ \A i \in IngressesAt(s, h) : s.ingress[i].health = gw.health

GatewayOK(s, g) ==
  LET gw == s.gateway[g] IN
  /\ ResolvesToHost(s, gw.host)
  /\ Cardinality(DOMAIN s.gateway) = 1
  /\ gw.ingress \in DOMAIN s.ingress
  /\ SameNetwork(s, Host(s, gw.host), IngressHost(s, gw.ingress))
  /\ \A n \in gw.services : ListedOK(s, g, n)
  /\ \A n, m \in gw.services \cap Services(s) : n # m =>
       \A p \in PublicPaths(s, n), q \in PublicPaths(s, m) : ~Overlaps(p, q)
  /\ \A n \in gw.services \cap Services(s), path \in gw.probes :
       \A p \in PublicPaths(s, n) : ~Matches(p, path)
  /\ GatewayHealthOK(s, g)
  /\ gw.subdomain # IngressDNSLabel
  /\ gw.subdomain # "" => \A a \in DOMAIN s.app : s.app[a].subdomain # gw.subdomain

ScopeOK(s, o, pass, t) ==
  /\ \A n \in DOMAIN s.network : NetworkOK(s, n, t.defaults)
  /\ \A c \in DOMAIN s.compute : ComputeOK(s, c, t.sizes, t.defaults)
  /\ \A c \in DOMAIN s.cluster : ClusterOK(s, c, t.defaults)
  /\ \A d \in DOMAIN s.database : DatabaseOK(s, d)
  /\ \A n \in DOMAIN s.service : ServiceOK(s, o, pass, t, n)
  /\ \A p \in DOMAIN s.pki : PKIResourceOK(s, p)
  /\ \A i \in DOMAIN s.ingress : IngressOK(s, i)
  /\ \A a \in DOMAIN s.app : AppOK(s, a)
  /\ \A g \in DOMAIN s.gateway : GatewayOK(s, g)

(***************************************************************************)
(* The environment: its regions, its stores, and what must hold across     *)
(* the two scopes.                                                         *)
(***************************************************************************)

RegionsOK(t) ==
  /\ DOMAIN t.regions # {}
  /\ \A r \in DOMAIN t.regions : /\ t.regions[r].slug # GlobalSlug
                                 /\ t.regions[r].providers # {}
  /\ \A b \in t.globalBlock :
       /\ b.providers # {}
       /\ b.placement \in DOMAIN t.regions
       /\ t.regions[b.placement].dns \in {""} \cup b.providers

(* Every compute has a host record, and a global one needs the authority   *)
(* of the placement region.                                                *)
GlobalNeedsDNS(g) == DOMAIN g.compute # {}

GlobalBlockOK(t, g) ==
  /\ HasAny(g) => t.globalBlock # {}
  /\ GlobalNeedsDNS(g) =>
       \A b \in t.globalBlock : t.regions[b.placement].dns # ""

CrossScopeNamesOK(r, g) ==
  /\ DOMAIN r.service \cap DOMAIN g.service = {}
  /\ DOMAIN r.app \cap DOMAIN g.app = {}

VaultKeys(s) ==
  UNION {{[service |-> n, key |-> s.service[n].environment[k].key] :
            k \in {x \in DOMAIN s.service[n].environment :
                     s.service[n].environment[x].kind = "vault"}} : n \in Services(s)}

SecretStoreEntriesOK(t, r, g) ==
  t.secrets.state = "read" => t.secrets.entries \subseteq VaultKeys(r) \cup VaultKeys(g)

(* The names are expanded with placeholders of no region's.                *)
VanityOK(s) ==
  \A n \in Services(s) : \A r \in s.service[n].routes : \A v \in r.vanity :
    InZone(ExpandVanity(v, "env", "slug"))

MembershipOK(name, scopes, pki) ==
  name # "" => /\ pki.state = "read"
               /\ name \in DOMAIN pki.trees
               /\ pki.trees[name].topology = "two-tier"
               /\ scopes \subseteq pki.trees[name].intermediates

ServicePKIOK(s, scopes, pki) ==
  /\ \A n \in Services(s) : MembershipOK(s.service[n].pki, scopes, pki)
  /\ \A g \in DOMAIN s.gateway : MembershipOK(s.gateway[g].pki, scopes, pki)

ProviderRefs(s, defaults) ==
  {ResolveProvider(s.network[n].provider, "network", defaults) : n \in DOMAIN s.network}
    \cup {ResolveProvider(s.compute[c].provider, "compute", defaults) : c \in DOMAIN s.compute}
    \cup ({ResolveProvider(s.cluster[c].provider, "database", defaults) : c \in DOMAIN s.cluster}
            \ {SelfHosted})

ProvidersOK(t, r, g) ==
  /\ \A name \in DOMAIN t.regions : ProviderRefs(r, t.defaults) \subseteq t.regions[name].providers
  /\ \A b \in t.globalBlock : ProviderRefs(g, t.defaults) \subseteq b.providers

Accepted(t) ==
  LET r == LoadScope(t.regional)
      g == LoadScope(t.global)
  IN /\ t.secrets.state # "unreadable" /\ t.pki.state # "unreadable"
     /\ RegionsOK(t)
     /\ ScopeOK(g, r, "global", t)
     /\ GlobalBlockOK(t, g)
     /\ ScopeOK(r, g, "regional", t)
     /\ CrossScopeNamesOK(r, g)
     /\ SecretStoreEntriesOK(t, r, g)
     /\ VanityOK(r) /\ VanityOK(g)
     /\ ServicePKIOK(g, {"global"}, t.pki)
     /\ ServicePKIOK(r, DOMAIN t.regions, t.pki)
     /\ ProvidersOK(t, r, g)
=============================================================================
