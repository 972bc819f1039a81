------------------------------- MODULE HostPlan -------------------------------
(***************************************************************************)
(* What a deploy derives from a scope before it touches the cloud: for     *)
(* each host the configuration of its edge nginx, the one of its mesh      *)
(* proxy, its firewall, the ports of its database clusters, and the DNS    *)
(* records of the scope.                                                   *)
(*                                                                         *)
(* Every definition takes the loaded scope s.  Nothing here looks at the   *)
(* validator: a deploy may run without it, so the program keeps checks of  *)
(* its own (ScopeDerives), and where its comments say that validation has  *)
(* rejected a case, it skips the case.                                     *)
(***************************************************************************)
EXTENDS ResourceTree

(* Where a proxy sends a request, or where a socket listens. *)
Loopback == "127.0.0.1"
Anywhere == "0.0.0.0"
Private == "private address"
Public == "public address"

(***************************************************************************)
(* Foreign keys.                                                           *)
(***************************************************************************)

CanonicalComputeKeys(s) ==
  LET single == {c \in DOMAIN s.compute : s.compute[c].instances = 1}
  IN [c \in single |-> SpecKey(c, 1)]

Canonical(s, k) ==
  LET keys == CanonicalComputeKeys(s) IN {keys[c] : c \in DOMAIN keys \cap {k}}

IngressHostsByName(s, i) ==
  UNION {Canonical(s, s.ingress[j].host) : j \in DOMAIN s.ingress \cap {i}}

(* The services of the ingress tier: those with something behind one. *)
Exposing(s) ==
  {n \in DOMAIN s.service : /\ s.service[n].ingress # ""
                            /\ s.service[n].routes # {} \/ s.service[n].health # 0}

ResolveIngressServices(s) ==
  UNION {{[service |-> n, ingHost |-> h, svcHost |-> k] :
            h \in IngressHostsByName(s, s.service[n].ingress),
            k \in Canonical(s, s.service[n].host)} : n \in Exposing(s)}

ResolveIngressApps(s) ==
  UNION {{[app |-> a, ingHost |-> h] : h \in IngressHostsByName(s, s.app[a].ingress)} :
           a \in DOMAIN s.app}

ResolveGateways(s) ==
  UNION {{[gateway |-> g, host |-> h, ingHost |-> i] :
            h \in Canonical(s, s.gateway[g].host),
            i \in IngressHostsByName(s, s.gateway[g].ingress)} : g \in DOMAIN s.gateway}

CheckGatewayFKs(s) ==
  {rg.gateway : rg \in ResolveGateways(s)} = DOMAIN s.gateway

(* Listed by a gateway and behind no ingress: its health is answered by    *)
(* the ingress that fronts the gateway, at the gateway's health port.      *)
ResolveGatewayHealthServices(s) ==
  UNION {UNION {{[service |-> n, gwHost |-> rg.ingHost, svcHost |-> k,
                  port |-> EffectiveHealthProbesPort(s.gateway[rg.gateway])] :
                   k \in Canonical(s, s.service[n].host)} :
                  n \in {x \in s.gateway[rg.gateway].services \cap DOMAIN s.service :
                           s.service[x].health # 0 /\ s.service[x].ingress = ""}} :
           rg \in ResolveGateways(s)}

(***************************************************************************)
(* Names and DNS records.                                                  *)
(***************************************************************************)

IngressFQDNs(n, r, env, slug) ==
  {ServiceFQDN(env, slug, n)} \cup {ExpandVanity(v, env, slug) : v \in r.vanity}

(* Mutant: a service's names point at its own host. *)
RouteRecordsAtBackend(s, env, slug, is) ==
  {[fqdn |-> f, host |-> is.svcHost] :
     f \in UNION {IngressFQDNs(is.service, r, env, slug) : r \in s.service[is.service].routes}}

RouteRecords(s, env, slug, is) ==
  {[fqdn |-> f, host |-> is.ingHost] :
     f \in UNION {IngressFQDNs(is.service, r, env, slug) : r \in s.service[is.service].routes}}

DerivedRecords(s, env, slug) ==
  {[fqdn |-> HostFQDN(env, slug, c), host |-> SpecKey(c, 1)] : c \in DOMAIN s.compute}
  \cup (UNION {RouteRecords(s, env, slug, is) : is \in ResolveIngressServices(s)})
  \cup {[fqdn |-> ServiceFQDN(env, slug, is.service), host |-> is.ingHost] :
          is \in {x \in ResolveIngressServices(s) : s.service[x.service].health # 0}}
  \cup {[fqdn |-> ServiceFQDN(env, slug, gs.service), host |-> gs.gwHost] :
          gs \in ResolveGatewayHealthServices(s)}
  \cup {[fqdn |-> AppFQDN(s.app[ia.app].subdomain, slug), host |-> ia.ingHost] :
          ia \in ResolveIngressApps(s)}
  \cup {[fqdn |-> AppFQDN(s.gateway[rg.gateway].subdomain, slug), host |-> rg.ingHost] :
          rg \in ResolveGateways(s)}
  \cup UNION {{[fqdn |-> AppFQDN(IngressDNSLabel, slug), host |-> h] :
                 h \in IngressHostsByName(s, i)} : i \in DOMAIN s.ingress}

(* The errors of createDNSRecords: a name outside the zone, a name of two  *)
(* hosts.                                                                  *)
RecordsInZone(records) == \A d \in records : InZone(d.fqdn)
RecordsDistinct(records) == \A d, e \in records : d.fqdn = e.fqdn => d = e

(***************************************************************************)
(* The edge nginx of a host.  An entry names the host that answers it, its *)
(* peer: the address proxied to is the loopback when that is the host      *)
(* itself, else the peer's private address.                                *)
(***************************************************************************)

IngressRoutesByHost(s, h, env, slug) ==
  UNION {{[service |-> is.service, type |-> r.type, listen |-> r.listen,
           target |-> r.target, peer |-> is.svcHost,
           fqdns |-> IF r.type = TLSTermination
                     THEN IngressFQDNs(is.service, r, env, slug) ELSE {}] :
            r \in s.service[is.service].routes} :
           is \in {x \in ResolveIngressServices(s) : x.ingHost = h}}

IngressAppsByHost(s, h, slug) ==
  {[app |-> ia.app, fqdn |-> AppFQDN(s.app[ia.app].subdomain, slug)] :
     ia \in {x \in ResolveIngressApps(s) : x.ingHost = h}}

HealthEntry(s, n, peer, env, slug) ==
  [service |-> n, fqdn |-> ServiceFQDN(env, slug, n), target |-> s.service[n].health,
   paths |-> s.service[n].probes, peer |-> peer]

IngressHealthByHost(s, h, env, slug) ==
  {HealthEntry(s, is.service, is.svcHost, env, slug) :
     is \in {x \in ResolveIngressServices(s) : x.ingHost = h /\ s.service[x.service].health # 0}}

GatewayHealthByHost(s, h, env, slug) ==
  {HealthEntry(s, gs.service, gs.svcHost, env, slug) :
     gs \in {x \in ResolveGatewayHealthServices(s) : x.gwHost = h}}

IngressHealthPorts(s, h) ==
  {EffectiveHealthProbesPort(s.ingress[i]) :
     i \in {x \in DOMAIN s.ingress : h \in IngressHostsByName(s, x)}}

GatewayHealthPorts(s, h) ==
  {gs.port : gs \in {x \in ResolveGatewayHealthServices(s) : x.gwHost = h}}

(* The one health listener of a host, and the error when two are declared. *)
HealthPort(s, h) ==
  LET ports == IF GatewayHealthPorts(s, h) # {} THEN GatewayHealthPorts(s, h)
                                                 ELSE IngressHealthPorts(s, h)
  IN IF ports = {} THEN DefaultHealthProbesPort ELSE CHOOSE p \in ports : TRUE

HealthPortsAgree(s, h) ==
  GatewayHealthPorts(s, h) # {} => Cardinality(GatewayHealthPorts(s, h) \cup IngressHealthPorts(s, h)) = 1

GatewayTerminations(s, h, slug) ==
  {[gateway |-> rg.gateway, fqdn |-> AppFQDN(s.gateway[rg.gateway].subdomain, slug),
    peer |-> rg.host] : rg \in {x \in ResolveGateways(s) : x.ingHost = h}}

(* One route for each public path of a listed service. *)
ToGatewayNginxRoutes(s, g) ==
  UNION {UNION {{[service |-> n, pattern |-> p] : p \in m.public} : m \in s.service[n].mesh} :
           n \in s.gateway[g].services \cap DOMAIN s.service}

GatewayRoutings(s, h) ==
  {[gateway |-> rg.gateway, peer |-> rg.ingHost, probes |-> s.gateway[rg.gateway].probes,
    routes |-> ToGatewayNginxRoutes(s, rg.gateway)] :
     rg \in {x \in ResolveGateways(s) : x.host = h}}

EdgeConfig(s, h, env, slug) ==
  [host |-> h, env |-> env, slug |-> slug,
   routes |-> IngressRoutesByHost(s, h, env, slug),
   apps |-> IngressAppsByHost(s, h, slug),
   health |-> IngressHealthByHost(s, h, env, slug) \cup GatewayHealthByHost(s, h, env, slug),
   healthPort |-> HealthPort(s, h),
   terminations |-> GatewayTerminations(s, h, slug),
   routings |-> GatewayRoutings(s, h)]

(***************************************************************************)
(* Rendering nginx.conf.  A public port shared by a forward and by servers *)
(* that terminate TLS is mixed: the servers move to a loopback port behind *)
(* a stream server that looks at the SNI.                                  *)
(***************************************************************************)

Forwards(c) == {r \in c.routes : r.type = Forward}
Terminates(c) == {r \in c.routes : r.type = TLSTermination}
Terminating(c) == Terminates(c) # {} \/ c.apps # {} \/ c.terminations # {}

TLSListens(c) ==
  {r.listen : r \in Terminates(c)} \cup (IF c.apps # {} \/ c.terminations # {} THEN {443} ELSE {})

MixedListens(c) == {r.listen : r \in Forwards(c)} \cap TLSListens(c)

Renders(c) ==
  /\ \A r \in c.routes : r.type \in {TLSTermination, Forward}
  /\ \A e \in c.health : e.paths # {}
  /\ \A g \in c.routings : \A r \in g.routes : Parsed(r.pattern)
  /\ \A f, k \in Forwards(c) : f.listen = k.listen => f = k
  /\ Terminating(c) => \A f \in Forwards(c) : f.listen # 80
  /\ c.health # {} => \A f \in Forwards(c) : f.listen # c.healthPort
  /\ Cardinality(MixedListens(c)) <= MaxMixedPorts

Socket(address, port) == [address |-> address, port |-> port]

(* The sockets the rendered configuration binds, by the context that does. *)
HTTPSockets(c) ==
  {Socket(Anywhere, p) : p \in TLSListens(c) \ MixedListens(c)}
  \cup {Socket(Loopback, LoopbackBase + i - 1) : i \in 1 .. Cardinality(MixedListens(c))}
  \cup {Socket(IF g.peer = c.host THEN Loopback ELSE Private, GatewayHTTPPort) : g \in c.routings}
  \cup (IF c.health = {} THEN {} ELSE {Socket(Anywhere, c.healthPort)})
  \cup (IF Terminating(c) THEN {Socket(Anywhere, 80)} ELSE {})

StreamSockets(c) == {Socket(Anywhere, r.listen) : r \in Forwards(c)}

EdgeSockets(c) == HTTPSockets(c) \cup StreamSockets(c)

(* The servers nginx tells apart by name, and those of one name and port.  *)
NamedServers(c) ==
  (UNION {{[port |-> r.listen, fqdn |-> f, of |-> <<r.service, r.target>>] : f \in r.fqdns} : r \in Terminates(c)})
  \cup {[port |-> 443, fqdn |-> a.fqdn, of |-> <<a.app>>] : a \in c.apps}
  \cup {[port |-> 443, fqdn |-> g.fqdn, of |-> <<g.gateway>>] : g \in c.terminations}

SNICollides(c) ==
  \E x, y \in NamedServers(c) : x # y /\ x.port = y.port /\ x.fqdn = y.fqdn

ServedFQDNs(c) ==
  {x.fqdn : x \in NamedServers(c)} \cup {e.fqdn : e \in c.health}
    \cup {ServiceFQDN(c.env, c.slug, r.service) : r \in Forwards(c)}

(***************************************************************************)
(* The mesh: a second, private nginx on every host with a member.  The     *)
(* scopes of a deployment are its regions, which share the regional scope, *)
(* and the global one; r and g are the two loaded scopes.                  *)
(***************************************************************************)

ScopeGlobal == "global"

ScopeResources(r, g, sc) == IF sc = ScopeGlobal THEN g ELSE r

Pki(s) == {n \in DOMAIN s.service : s.service[n].pki # ""}

ServicesByHost(s, h) == {n \in Pki(s) : h \in Canonical(s, s.service[n].host)}

GatewayMemberByHost(s, h) ==
  {g \in DOMAIN s.gateway : h \in Canonical(s, s.gateway[g].host)}

MeshHosts(s) ==
  (UNION {Canonical(s, s.service[n].host) : n \in Pki(s)})
    \cup UNION {Canonical(s, s.gateway[g].host) : g \in DOMAIN s.gateway}

(* Egress ports: by position on the host, the gateway's fixed.             *)
MeshEgress(s, h) ==
  LET order == SetToSeq(ServicesByHost(s, h)) IN
  {[member |-> order[i], port |-> EgressBase + i - 1] : i \in DOMAIN order}
    \cup (IF GatewayMemberByHost(s, h) = {} THEN {}
          ELSE {[member |-> Gateway, port |-> GatewayEgressPort]})

(* Mutant: a caller of a global service is expected in every region. *)
IdentitiesEverywhere(name, sc, regions, regionalMesh, globalMesh) ==
  IF name = Gateway THEN {<<sc, Gateway>>}
  ELSE IF sc # ScopeGlobal THEN {<<sc, name>>}
  ELSE {<<region, name>> : region \in regions}

(* The identities a name in an allow-list stands for.                      *)
Identities(name, sc, regions, regionalMesh, globalMesh) ==
  IF name = Gateway THEN {<<sc, Gateway>>}
  ELSE IF sc # ScopeGlobal THEN {<<sc, name>>}
  ELSE {<<region, name>> : region \in IF name \in regionalMesh THEN regions ELSE {}}
         \cup {<<ScopeGlobal, name>> : x \in {name} \cap globalMesh}

ExpandAllowedCallers(allowed, sc, regions, r, g) ==
  [out |-> UNION {Identities(a, sc, regions, Pki(r), Pki(g)) : a \in allowed},
   dropped |-> {a \in allowed : Identities(a, sc, regions, Pki(r), Pki(g)) = {}}]

MeshLocal(r, g, sc, regions, h) ==
  LET s == ScopeResources(r, g, sc) IN
  UNION {{[service |-> n, sni |-> <<sc, n>>, port |-> m.port, paths |-> m.public \cup m.internal,
           callers |-> ExpandAllowedCallers(m.allowed, sc, regions, r, g)] : m \in s.service[n].mesh} :
           n \in ServicesByHost(s, h)}

CalleesOf(s, sc, address) ==
  UNION {{[name |-> n, sni |-> <<sc, n>>, host |-> h, address |-> address] :
            h \in Canonical(s, s.service[n].host)} :
           n \in {x \in DOMAIN s.service : s.service[x].mesh # {}}}

(* The routing table of a scope: its own callees, then the global ones.    *)
MeshTargets(r, g, sc) ==
  LET s == ScopeResources(r, g, sc)
      own == CalleesOf(s, sc, Private)
  IN own \cup {x \in IF sc = ScopeGlobal THEN {} ELSE CalleesOf(g, ScopeGlobal, Public) :
                 \A o \in own : o.name # x.name}

MeshConfig(r, g, sc, regions, h) ==
  [host |-> h, scope |-> sc, listen |-> IF sc = ScopeGlobal THEN Anywhere ELSE Private,
   egress |-> MeshEgress(ScopeResources(r, g, sc), h),
   local |-> MeshLocal(r, g, sc, regions, h),
   targets |-> MeshTargets(r, g, sc)]

NoCallerDropped(r, g, sc, regions) ==
  \A h \in MeshHosts(ScopeResources(r, g, sc)) : \A l \in MeshLocal(r, g, sc, regions, h) :
    l.callers.dropped = {}

(***************************************************************************)
(* Database clusters: ports by position on the host.                       *)
(***************************************************************************)

ClusterPorts(s, h) ==
  LET order == SetToSeq({c \in DOMAIN s.cluster : h \in Canonical(s, s.cluster[c].host)}) IN
  {[cluster |-> order[i], port |-> PortBase + i - 1] : i \in DOMAIN order}

(***************************************************************************)
(* The firewall of a host: ports open to everyone, ports open to the range *)
(* of the host's network.                                                  *)
(***************************************************************************)

NetworkCIDR(s, h) ==
  UNION {s.network[n].cidr : n \in DOMAIN s.network \cap {s.compute[h[1]].network}}

PublicPorts(s, h, meshPublic) ==
  (UNION {{r.listen : r \in s.service[is.service].routes}
           \cup {80 : r \in {x \in s.service[is.service].routes : x.type = TLSTermination}}
           \cup (IF s.service[is.service].health = 0 THEN {}
                 ELSE {EffectiveHealthProbesPort(s.ingress[s.service[is.service].ingress])}) :
           is \in {x \in ResolveIngressServices(s) : x.ingHost = h}})
  \cup (IF \E ia \in ResolveIngressApps(s) : ia.ingHost = h THEN {80, 443} ELSE {})
  \cup (IF \E rg \in ResolveGateways(s) : rg.ingHost = h THEN {80, 443} ELSE {})
  \cup {gs.port : gs \in {x \in ResolveGatewayHealthServices(s) : x.gwHost = h}}
  \cup (IF ServicesByHost(s, h) # {} /\ meshPublic THEN {MTLSPort} ELSE {})

PrivatePorts(s, h, meshPublic) ==
  (UNION {{r.target : r \in s.service[is.service].routes} \cup ({s.service[is.service].health} \ {0}) :
           is \in {x \in ResolveIngressServices(s) : x.svcHost = h /\ x.ingHost # h}})
  \cup {s.service[gs.service].health :
          gs \in {x \in ResolveGatewayHealthServices(s) : x.svcHost = h /\ x.gwHost # h}}
  \cup {GatewayHTTPPort : rg \in {x \in ResolveGateways(s) : x.host = h /\ x.ingHost # h}}
  \cup {cp.port : cp \in ClusterPorts(s, h)}
  \cup (IF ServicesByHost(s, h) # {} /\ ~meshPublic THEN {MTLSPort} ELSE {})

FirewallPlan(s, h, meshPublic) ==
  [public |-> PublicPorts(s, h, meshPublic),
   private |-> PrivatePorts(s, h, meshPublic),
   exposed |-> UNION {s.service[n].exposed :
                        n \in {x \in DOMAIN s.service : h \in Canonical(s, s.service[x].host)}},
   source |-> NetworkCIDR(s, h)]

(***************************************************************************)
(* The errors a deploy raises of its own, in the order it meets them: a    *)
(* gateway whose keys do not resolve, a compute without a subnet, records  *)
(* outside the zone, two health ports on a host, a configuration that does *)
(* not render, a caller that stands for nobody.                            *)
(***************************************************************************)

ResolvesNetwork(s, c) ==
  /\ s.compute[c].network \in DOMAIN s.network
  /\ LET subnets == DOMAIN s.network[s.compute[c].network].subnets
     IN IF s.compute[c].subnet = "" THEN subnets # {} ELSE s.compute[c].subnet \in subnets

ScopeDerives(s, env, slug) ==
  /\ CheckGatewayFKs(s)
  /\ \A c \in DOMAIN s.compute : ResolvesNetwork(s, c)
  /\ RecordsInZone(DerivedRecords(s, env, slug))
  /\ \A h \in Instances(s) : HealthPortsAgree(s, h) /\ Renders(EdgeConfig(s, h, env, slug))
=============================================================================
