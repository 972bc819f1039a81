--------------------------- MODULE ScopePlanProofs ---------------------------
(***************************************************************************)
(* What a tree that validates comes to on its hosts, for every tree, every *)
(* sequence of edits and every set of paths.  First what an edit leaves of *)
(* a tree's shape, then, for a tree of that shape, that the derivations of *)
(* HostPlan agree with what Validate has checked.                          *)
(***************************************************************************)
EXTENDS ScopePlan, FiniteSetTheorems, SequenceTheorems, WellFoundedInduction, TLAPS

-----------------------------------------------------------------------------
(* Edits keep a tree decoded.                                               *)

LEMMA FiniteImage ==
  ASSUME NEW S, IsFiniteSet(S), NEW f, DOMAIN f = S, IsFunction(f)
  PROVE  IsFiniteSet({f[x] : x \in S})
<1> DEFINE T == {f[x] : x \in S}
<1>1. f \in Surjection(S, T)
  BY DEF Surjection, IsFunction
<1> HIDE DEF T
<1>2. IsFiniteSet(T)
  BY <1>1, FS_Surjection
<1> QED BY <1>2 DEF T

LEMMA ScopeFields ==
  ASSUME NEW s, IsScope(s)
  PROVE  /\ DOMAIN s = {"network", "compute", "cluster", "database", "service", "pki",
                        "ingress", "app", "gateway"}
         /\ \A kind \in DOMAIN s : IsFunction(s[kind]) /\ IsFiniteSet(DOMAIN s[kind])
  BY DEF IsScope

(* One kind of resource is replaced. *)
LEMMA ReplaceService ==
  ASSUME NEW s, IsScope(s), NEW f, IsFunction(f), IsFiniteSet(DOMAIN f),
         \A n \in DOMAIN f : IsService(f[n])
  PROVE  IsScope([s EXCEPT !.service = f])
  BY DEF IsScope

LEMMA ReplaceCompute ==
  ASSUME NEW s, IsScope(s), NEW f, IsFunction(f), IsFiniteSet(DOMAIN f),
         \A n \in DOMAIN f : IsCompute(f[n])
  PROVE  IsScope([s EXCEPT !.compute = f])
  BY DEF IsScope

LEMMA ReplaceCluster ==
  ASSUME NEW s, IsScope(s), NEW f, IsFunction(f), IsFiniteSet(DOMAIN f),
         \A n \in DOMAIN f : IsCluster(f[n])
  PROVE  IsScope([s EXCEPT !.cluster = f])
  BY DEF IsScope

LEMMA ReplaceIngress ==
  ASSUME NEW s, IsScope(s), NEW f, IsFunction(f), IsFiniteSet(DOMAIN f),
         \A n \in DOMAIN f : IsIngress(f[n])
  PROVE  IsScope([s EXCEPT !.ingress = f])
  BY DEF IsScope

LEMMA ReplaceGateway ==
  ASSUME NEW s, IsScope(s), NEW f, IsFunction(f), IsFiniteSet(DOMAIN f),
         \A n \in DOMAIN f : IsGateway(f[n])
  PROVE  IsScope([s EXCEPT !.gateway = f])
  BY DEF IsScope

LEMMA WriteKeepsTree ==
  ASSUME IsTree(tree), NEW half \in Halves, NEW scope, IsScope(scope), Write(half, scope)
  PROVE  IsTree(tree') /\ accepted' = Accepted(tree')
<1>1. half \in {"regional", "global"} /\ tree' = [tree EXCEPT ![half] = scope] /\ accepted' = Accepted(tree')
  BY DEF Write, Halves
<1>2. CASE half = "regional"
  BY <1>1, <1>2 DEF IsTree
<1>3. CASE half = "global"
  BY <1>1, <1>3 DEF IsTree
<1> QED BY <1>1, <1>2, <1>3

LEMMA HalfIsScope ==
  ASSUME IsTree(tree), NEW half \in Halves
  PROVE  IsScope(tree[half])
  BY DEF IsTree, Halves

(* One resource of a kind is replaced. *)
LEMMA EditService ==
  ASSUME NEW s, IsScope(s), NEW n \in DOMAIN s.service, NEW v, IsService(v)
  PROVE  IsScope([s EXCEPT !.service[n] = v])
<1> DEFINE f == [s.service EXCEPT ![n] = v]
<1>1. IsFunction(s.service) /\ IsFiniteSet(DOMAIN s.service) /\ \A m \in DOMAIN s.service : IsService(s.service[m])
  BY DEF IsScope
<1>2. IsFunction(f) /\ DOMAIN f = DOMAIN s.service /\ \A m \in DOMAIN f : f[m] = IF m = n THEN v ELSE s.service[m]
  BY <1>1 DEF IsFunction
<1>3. \A m \in DOMAIN f : IsService(f[m])
  BY <1>1, <1>2
<1>4. [s EXCEPT !.service[n] = v] = [s EXCEPT !.service = f]
  BY DEF IsScope
<1> HIDE DEF f
<1> QED BY <1>1, <1>2, <1>3, <1>4, ReplaceService

LEMMA EditHost ==
  ASSUME NEW s, IsScope(s), NEW kind \in {"service", "ingress", "gateway", "cluster"},
         NEW n \in DOMAIN s[kind], NEW h
  PROVE  IsScope([s EXCEPT ![kind][n].host = h])
<1> DEFINE v == [s[kind][n] EXCEPT !.host = h]
           f == [s[kind] EXCEPT ![n] = v]
<1>1. IsFunction(s[kind]) /\ IsFiniteSet(DOMAIN s[kind])
  BY DEF IsScope
<1>2. IsFunction(f) /\ DOMAIN f = DOMAIN s[kind] /\ \A m \in DOMAIN f : f[m] = IF m = n THEN v ELSE s[kind][m]
  BY <1>1 DEF IsFunction
<1>3. [s EXCEPT ![kind][n].host = h] = [s EXCEPT ![kind] = f]
  OBVIOUS
<1>4. CASE kind = "service"
  <2>1. IsService(v)
    BY <1>4 DEF IsScope, IsService
  <2>2. \A m \in DOMAIN f : IsService(f[m])
    BY <1>2, <1>4, <2>1 DEF IsScope
  <2> HIDE DEF f
  <2> QED BY <1>1, <1>2, <1>3, <1>4, <2>2, ReplaceService
<1>5. CASE kind = "ingress"
  <2>1. IsIngress(v)
    BY <1>5 DEF IsScope, IsIngress
  <2>2. \A m \in DOMAIN f : IsIngress(f[m])
    BY <1>2, <1>5, <2>1 DEF IsScope
  <2> HIDE DEF f
  <2> QED BY <1>1, <1>2, <1>3, <1>5, <2>2, ReplaceIngress
<1>6. CASE kind = "gateway"
  <2>1. IsGateway(v)
    BY <1>6 DEF IsScope, IsGateway
  <2>2. \A m \in DOMAIN f : IsGateway(f[m])
    BY <1>2, <1>6, <2>1 DEF IsScope
  <2> HIDE DEF f
  <2> QED BY <1>1, <1>2, <1>3, <1>6, <2>2, ReplaceGateway
<1>7. CASE kind = "cluster"
  <2>1. IsCluster(v)
    BY <1>7 DEF IsScope, IsCluster
  <2>2. \A m \in DOMAIN f : IsCluster(f[m])
    BY <1>2, <1>7, <2>1 DEF IsScope
  <2> HIDE DEF f
  <2> QED BY <1>1, <1>2, <1>3, <1>7, <2>2, ReplaceCluster
<1> QED BY <1>4, <1>5, <1>6, <1>7

LEMMA EditCompute ==
  ASSUME NEW s, IsScope(s), NEW c \in DOMAIN s.compute, NEW v, IsCompute(v)
  PROVE  IsScope([s EXCEPT !.compute[c] = v])
<1> DEFINE f == [s.compute EXCEPT ![c] = v]
<1>1. IsFunction(s.compute) /\ IsFiniteSet(DOMAIN s.compute) /\ \A m \in DOMAIN s.compute : IsCompute(s.compute[m])
  BY DEF IsScope
<1>2. IsFunction(f) /\ DOMAIN f = DOMAIN s.compute /\ \A m \in DOMAIN f : f[m] = IF m = c THEN v ELSE s.compute[m]
  BY <1>1 DEF IsFunction
<1>3. \A m \in DOMAIN f : IsCompute(f[m])
  BY <1>1, <1>2
<1>4. [s EXCEPT !.compute[c] = v] = [s EXCEPT !.compute = f]
  BY DEF IsScope
<1> HIDE DEF f
<1> QED BY <1>1, <1>2, <1>3, <1>4, ReplaceCompute

LEMMA EditListener ==
  ASSUME NEW s, IsScope(s), NEW kind \in {"ingress", "gateway"}, NEW n \in DOMAIN s[kind], NEW port
  PROVE  IsScope([s EXCEPT ![kind][n].health = port])
<1> DEFINE v == [s[kind][n] EXCEPT !.health = port]
           f == [s[kind] EXCEPT ![n] = v]
<1>1. IsFunction(s[kind]) /\ IsFiniteSet(DOMAIN s[kind])
  BY DEF IsScope
<1>2. IsFunction(f) /\ DOMAIN f = DOMAIN s[kind] /\ \A m \in DOMAIN f : f[m] = IF m = n THEN v ELSE s[kind][m]
  BY <1>1 DEF IsFunction
<1>3. [s EXCEPT ![kind][n].health = port] = [s EXCEPT ![kind] = f]
  OBVIOUS
<1>4. CASE kind = "ingress"
  <2>1. IsIngress(v)
    BY <1>4 DEF IsScope, IsIngress
  <2>2. \A m \in DOMAIN f : IsIngress(f[m])
    BY <1>2, <1>4, <2>1 DEF IsScope
  <2> HIDE DEF f
  <2> QED BY <1>1, <1>2, <1>3, <1>4, <2>2, ReplaceIngress
<1>5. CASE kind = "gateway"
  <2>1. IsGateway(v)
    BY <1>5 DEF IsScope, IsGateway
  <2>2. \A m \in DOMAIN f : IsGateway(f[m])
    BY <1>2, <1>5, <2>1 DEF IsScope
  <2> HIDE DEF f
  <2> QED BY <1>1, <1>2, <1>3, <1>5, <2>2, ReplaceGateway
<1> QED BY <1>4, <1>5

LEMMA EditGatewayServices ==
  ASSUME NEW s, IsScope(s), NEW g \in DOMAIN s.gateway, NEW services
  PROVE  IsScope([s EXCEPT !.gateway[g].services = services])
<1> DEFINE v == [s.gateway[g] EXCEPT !.services = services]
           f == [s.gateway EXCEPT ![g] = v]
<1>1. IsFunction(s.gateway) /\ IsFiniteSet(DOMAIN s.gateway) /\ \A m \in DOMAIN s.gateway : IsGateway(s.gateway[m])
  BY DEF IsScope
<1>2. IsFunction(f) /\ DOMAIN f = DOMAIN s.gateway /\ \A m \in DOMAIN f : f[m] = IF m = g THEN v ELSE s.gateway[m]
  BY <1>1 DEF IsFunction
<1>3. IsGateway(v)
  <2> DEFINE w == s.gateway[g]
  <2>1. IsGateway(w) /\ v = [w EXCEPT !.services = services]
    BY <1>1
  <2> HIDE DEF w, v
  <2> QED BY <2>1 DEF IsGateway
<1>4. \A m \in DOMAIN f : IsGateway(f[m])
  BY <1>1, <1>2, <1>3
<1>5. [s EXCEPT !.gateway[g].services = services] = [s EXCEPT !.gateway = f]
  BY DEF IsScope
<1> HIDE DEF f
<1> QED BY <1>1, <1>2, <1>4, <1>5, ReplaceGateway

(* What an edit makes of a service, field by field. *)
LEMMA RoutedService ==
  ASSUME NEW v, IsService(v), NEW routes, IsFiniteSet(routes), \A r \in routes : IsRoute(r)
  PROVE  IsService([v EXCEPT !.routes = routes])
  BY DEF IsService

LEMMA MeshedService ==
  ASSUME NEW v, IsService(v), NEW mesh, \A m \in mesh : IsMesh(m) /\ \A k \in mesh : k = m
  PROVE  IsService([v EXCEPT !.mesh = mesh])
  BY DEF IsService

LEMMA ReopenedService ==
  ASSUME NEW v, IsService(v), NEW exposed, \A e \in exposed : IsExposedPort(e)
  PROVE  IsService([v EXCEPT !.exposed = exposed])
  BY DEF IsService

LEMMA ReconfiguredService ==
  ASSUME NEW v, IsService(v), NEW x
  PROVE  /\ IsService([v EXCEPT !.host = x])
         /\ IsService([v EXCEPT !.ingress = x])
         /\ IsService([v EXCEPT !.health = x])
         /\ IsService([v EXCEPT !.grants = x])
<1>1. IsService([v EXCEPT !.host = x])
  BY DEF IsService
<1>2. IsService([v EXCEPT !.ingress = x])
  BY DEF IsService
<1>3. IsService([v EXCEPT !.health = x])
  BY DEF IsService
<1>4. IsService([v EXCEPT !.grants = x])
  BY DEF IsService
<1> QED BY <1>1, <1>2, <1>3, <1>4

Swap(p, old, new) == IF p = old THEN new ELSE p

Renumbered(v, old, new) ==
  [v EXCEPT !.routes = {[r EXCEPT !.target = Swap(@, old, new)] : r \in @},
            !.health = Swap(@, old, new),
            !.exposed = {[e EXCEPT !.port = Swap(@, old, new)] : e \in @},
            !.mesh = {[m EXCEPT !.port = Swap(@, old, new)] : m \in @}]

LEMMA RenumberedService ==
  ASSUME NEW v, IsService(v), NEW old, NEW new \in Port
  PROVE  IsService(Renumbered(v, old, new))
<1> DEFINE toRoute == [r \in v.routes |-> [r EXCEPT !.target = Swap(r.target, old, new)]]
           routes == {toRoute[r] : r \in v.routes}
           exposed == {[e EXCEPT !.port = Swap(e.port, old, new)] : e \in v.exposed}
           mesh == {[m EXCEPT !.port = Swap(m.port, old, new)] : m \in v.mesh}
           health == Swap(v.health, old, new)
<1>1. IsFiniteSet(routes)
  <2>1. IsFiniteSet(v.routes) /\ DOMAIN toRoute = v.routes /\ IsFunction(toRoute)
    BY DEF IsService, IsFunction
  <2> HIDE DEF toRoute
  <2> QED BY <2>1, FiniteImage
<1>2. \A r \in routes : IsRoute(r)
  BY DEF IsService, IsRoute, Route
<1>3. \A e \in exposed : IsExposedPort(e)
  BY DEF IsService, IsExposedPort, ExposedPort, Swap
<1>4. \A m \in mesh : IsMesh(m) /\ \A k \in mesh : k = m
  BY DEF IsService, IsMesh, Mesh
<1>5. Renumbered(v, old, new) =
        [v EXCEPT !.routes = routes, !.health = health, !.exposed = exposed, !.mesh = mesh]
  BY DEF Renumbered
<1> HIDE DEF routes, exposed, mesh, health
<1>6. IsService([v EXCEPT !.routes = routes, !.health = health, !.exposed = exposed, !.mesh = mesh])
  <2> DEFINE a == [v EXCEPT !.routes = routes]
             b == [a EXCEPT !.health = health]
             c == [b EXCEPT !.exposed = exposed]
  <2>1. IsService(a)
    BY <1>1, <1>2, RoutedService
  <2>2. IsService(b)
    BY <2>1, ReconfiguredService
  <2>3. IsService(c)
    BY <1>3, <2>2, ReopenedService
  <2>4. IsService([c EXCEPT !.mesh = mesh])
    BY <1>4, <2>3, MeshedService
  <2> QED BY <2>4
<1> QED BY <1>5, <1>6

(* Renumber, AddRoute, AddName *)
LEMMA PortEdit ==
  ASSUME IsTree(tree), NEW half \in Halves, NEW n \in DOMAIN tree[half].service, NEW new \in Ports,
         \/ \E old \in BackendPorts(tree[half].service[n]) : Renumber(half, n, old, new)
         \/ \E type \in {TLSTermination, Forward} : AddRoute(half, n, type, new)
  PROVE  IsTree(tree') /\ accepted' = Accepted(tree')
<1> DEFINE s == tree[half]
           v == s.service[n]
<1>1. IsScope(s) /\ IsService(v) /\ new \in Port
  BY HalfIsScope, EditsAssumption DEF IsScope
<1>2. ASSUME NEW old, Renumber(half, n, old, new) PROVE IsTree(tree') /\ accepted' = Accepted(tree')
  <2> DEFINE w == Renumbered(v, old, new)
  <2>1. IsService(w)
    BY <1>1, RenumberedService
  <2>2. Write(half, [s EXCEPT !.service[n] = w])
    BY <1>2 DEF Renumber, Renumbered, Swap
  <2> HIDE DEF w, s
  <2> QED BY <1>1, <2>1, <2>2, EditService, WriteKeepsTree DEF s
<1>3. ASSUME NEW t, AddRoute(half, n, t, new) PROVE IsTree(tree') /\ accepted' = Accepted(tree')
  <2> DEFINE routes == v.routes \cup {Route(t, new, AddedTarget, {})}
             w == [v EXCEPT !.routes = routes]
  <2>1. IsFiniteSet(routes)
    BY <1>1, FS_AddElement DEF IsService
  <2>a. IsRoute(Route(t, new, AddedTarget, {}))
    BY DEF IsRoute, Route
  <2>b. \A r \in routes : IsRoute(r)
    BY <1>1, <2>a DEF IsService
  <2>2. IsService(w)
    BY <1>1, <2>1, <2>b, RoutedService
  <2>3. Write(half, [s EXCEPT !.service[n] = w])
    BY <1>3 DEF AddRoute
  <2> HIDE DEF w, s
  <2> QED BY <1>1, <2>2, <2>3, EditService, WriteKeepsTree DEF s
<1> QED BY <1>2, <1>3

LEMMA NameEdit ==
  ASSUME IsTree(tree), NEW half \in Halves, NEW n \in DOMAIN tree[half].service, NEW name \in Vanities,
         AddName(half, n, name)
  PROVE  IsTree(tree') /\ accepted' = Accepted(tree')
<1> DEFINE s == tree[half]
           v == s.service[n]
           named == [r \in v.routes |->
                       IF r.type = TLSTermination THEN [r EXCEPT !.vanity = @ \cup {name}] ELSE r]
           routes == {named[r] : r \in v.routes}
           w == [v EXCEPT !.routes = routes]
<1>1. IsScope(s) /\ IsService(v) /\ IsVanity(name)
  BY HalfIsScope, EditsAssumption DEF IsScope
<1>2. IsFiniteSet(routes)
  <2>1. IsFiniteSet(v.routes) /\ DOMAIN named = v.routes /\ IsFunction(named)
    BY <1>1 DEF IsService, IsFunction
  <2> HIDE DEF named
  <2> QED BY <2>1, FiniteImage
<1>3. ASSUME NEW r \in v.routes PROVE IsRoute(named[r])
  <2>1. IsRoute(r) /\ r = Route(r.type, r.listen, r.target, r.vanity)
    BY <1>1 DEF IsService, IsRoute
  <2>2. IsRoute([r EXCEPT !.vanity = @ \cup {name}])
    BY <1>1, <2>1 DEF IsRoute, Route
  <2> QED BY <2>1, <2>2
<1>4. IsService(w)
  BY <1>1, <1>2, <1>3, RoutedService
<1>5. Write(half, [s EXCEPT !.service[n] = w])
  BY DEF AddName
<1> HIDE DEF w, s
<1> QED BY <1>1, <1>4, <1>5, EditService, WriteKeepsTree DEF s

(* ToggleCaller, Publish *)
LEMMA MeshEdit ==
  ASSUME IsTree(tree), NEW half \in Halves, NEW n \in DOMAIN tree[half].service,
         NEW x, ToggleCaller(half, n, x) \/ (x \in Patterns /\ Publish(half, n, x))
  PROVE  IsTree(tree') /\ accepted' = Accepted(tree')
<1> DEFINE s == tree[half]
           v == s.service[n]
           toggled == {[m EXCEPT !.allowed = (@ \ {x}) \cup ({x} \ @)] : m \in v.mesh}
           published == {[m EXCEPT !.public = x] : m \in v.mesh}
<1>1. IsScope(s) /\ IsService(v)
  BY HalfIsScope DEF IsScope
<1>2. \A m \in toggled : IsMesh(m) /\ \A k \in toggled : k = m
  <2>1. ASSUME NEW m, IsMesh(m), NEW callers
        PROVE  IsMesh([m EXCEPT !.allowed = callers])
    <3>1. m = Mesh(m.port, m.public, m.internal, m.allowed)
      BY <2>1 DEF IsMesh
    <3>2. [m EXCEPT !.allowed = callers] = Mesh(m.port, m.public, m.internal, callers)
      BY <3>1 DEF Mesh
    <3> QED BY <2>1, <3>2 DEF IsMesh, Mesh
  <2> QED BY <1>1, <2>1 DEF IsService
<1>3. ASSUME x \in Patterns
      PROVE  \A m \in published : IsMesh(m) /\ \A k \in published : k = m
  <2>1. \A p \in x : IsGlob(p)
    BY <1>3, EditsAssumption
  <2> QED BY <1>1, <2>1 DEF IsService, IsMesh, Mesh
<1>4. PICK mesh : /\ \A m \in mesh : IsMesh(m) /\ \A k \in mesh : k = m
                  /\ Write(half, [s EXCEPT !.service[n].mesh = mesh])
  BY <1>2, <1>3 DEF ToggleCaller, Publish
<1> DEFINE w == [v EXCEPT !.mesh = mesh]
<1>5. IsService(w)
  BY <1>1, <1>4, MeshedService
<1>6. Write(half, [s EXCEPT !.service[n] = w])
  BY <1>4
<1> HIDE DEF w, s
<1> QED BY <1>1, <1>5, <1>6, EditService, WriteKeepsTree DEF s

(* FrontBy, AskFor *)
LEMMA FieldEdit ==
  ASSUME IsTree(tree), NEW half \in Halves, NEW n \in DOMAIN tree[half].service,
         NEW x, FrontBy(half, n, x) \/ AskFor(half, n, x)
  PROVE  IsTree(tree') /\ accepted' = Accepted(tree')
<1> DEFINE s == tree[half]
           v == s.service[n]
<1>1. IsScope(s) /\ IsService(v)
  BY HalfIsScope DEF IsScope
<1>2. CASE FrontBy(half, n, x)
  <2> DEFINE w == [v EXCEPT !.ingress = x]
  <2>1. IsService(w)
    BY <1>1 DEF IsService
  <2>2. Write(half, [s EXCEPT !.service[n] = w])
    BY <1>2 DEF FrontBy
  <2> HIDE DEF w, s
  <2> QED BY <1>1, <2>1, <2>2, EditService, WriteKeepsTree DEF s
<1>3. CASE AskFor(half, n, x)
  <2> DEFINE grants == {Grant("database", x, "ro")}
             w == [v EXCEPT !.grants = grants]
  <2> HIDE DEF grants
  <2>1. IsService(w)
    BY <1>1 DEF IsService
  <2>2. Write(half, [s EXCEPT !.service[n] = w])
    BY <1>3 DEF AskFor, grants
  <2> HIDE DEF w, s
  <2> QED BY <1>1, <2>1, <2>2, EditService, WriteKeepsTree DEF s
<1> QED BY <1>2, <1>3

LEMMA CopyEdit ==
  ASSUME IsTree(tree), NEW half \in Halves,
         NEW n \in (DOMAIN tree.regional.service \cup DOMAIN tree.global.service) \ DOMAIN tree[half].service,
         Copy(half, n)
  PROVE  IsTree(tree') /\ accepted' = Accepted(tree')
<1> DEFINE other == CHOOSE x \in Halves : x # half
           s == tree[half]
           o == tree[other]
           host == CHOOSE c \in DOMAIN s.compute : TRUE
           w == [o.service[n] EXCEPT !.host = host, !.ingress = "", !.routes = {}, !.grants = {}]
           f == [m \in DOMAIN s.service \cup {n} |-> IF m = n THEN w ELSE s.service[m]]
<1>1. other \in Halves /\ n \in DOMAIN o.service
  BY DEF Halves
<1>2. IsScope(s) /\ IsScope(o)
  BY <1>1, HalfIsScope
<1>3. IsService(w)
  <2> DEFINE u == o.service[n]
  <2>1. IsService(u)
    BY <1>1, <1>2 DEF IsScope
  <2> HIDE DEF u, host
  <2>2. IsService([u EXCEPT !.host = host, !.ingress = "", !.routes = {}, !.grants = {}])
    <3> DEFINE a == [u EXCEPT !.host = host]
               b == [a EXCEPT !.ingress = ""]
               c == [b EXCEPT !.routes = {}]
    <3>1. IsService(b)
      BY <2>1, ReconfiguredService
    <3>2. IsService(c)
      BY <3>1, RoutedService, FS_EmptySet
    <3>3. IsService([c EXCEPT !.grants = {}])
      BY <3>2, ReconfiguredService
    <3> QED BY <3>3
  <2> QED BY <2>2 DEF u
<1>4. Write(half, [s EXCEPT !.service = f])
  BY DEF Copy
<1> HIDE DEF w, o, s
<1>5. IsFunction(s.service) /\ IsFiniteSet(DOMAIN s.service) /\ \A m \in DOMAIN s.service : IsService(s.service[m])
  BY <1>2 DEF IsScope
<1>6. DOMAIN f = DOMAIN s.service \cup {n}
  OBVIOUS
<1>7. IsFunction(f) /\ \A m \in DOMAIN f : f[m] = IF m = n THEN w ELSE s.service[m]
  BY DEF IsFunction
<1>8. IsFiniteSet(DOMAIN f)
  BY <1>5, <1>6, FS_AddElement
<1>9. \A m \in DOMAIN f : IsService(f[m])
  BY <1>3, <1>5, <1>7
<1> HIDE DEF f
<1> QED BY <1>2, <1>4, <1>7, <1>8, <1>9, ReplaceService, WriteKeepsTree DEF s

(* Move, Attach, ListenAt, ToggleListed, Scale *)
LEMMA HostEdit ==
  ASSUME IsTree(tree), NEW half \in Halves, NEW kind \in {"service", "ingress", "gateway", "cluster"},
         NEW n \in DOMAIN tree[half][kind], NEW h, Move(half, kind, n, h)
  PROVE  IsTree(tree') /\ accepted' = Accepted(tree')
  BY HalfIsScope, EditHost, WriteKeepsTree DEF Move

LEMMA NetworkEdit ==
  ASSUME IsTree(tree), NEW half \in Halves, NEW c \in DOMAIN tree[half].compute,
         NEW x, Attach(half, c, x) \/ Scale(half, c)
  PROVE  IsTree(tree') /\ accepted' = Accepted(tree')
<1> DEFINE s == tree[half]
           v == s.compute[c]
<1>1. IsScope(s) /\ IsCompute(v)
  BY HalfIsScope DEF IsScope
<1>2. IsCompute([v EXCEPT !.network = x]) /\ IsCompute([v EXCEPT !.instances = 2])
  BY <1>1 DEF IsCompute
<1>3. PICK w \in {[v EXCEPT !.network = x], [v EXCEPT !.instances = 2]} :
        Write(half, [s EXCEPT !.compute[c] = w])
  BY DEF Attach, Scale
<1> HIDE DEF s
<1> QED BY <1>1, <1>2, <1>3, EditCompute, WriteKeepsTree DEF s

LEMMA ListenerEdit ==
  ASSUME IsTree(tree), NEW half \in Halves, NEW kind \in {"ingress", "gateway"},
         NEW n \in DOMAIN tree[half][kind], NEW port, ListenAt(half, kind, n, port)
  PROVE  IsTree(tree') /\ accepted' = Accepted(tree')
  BY HalfIsScope, EditListener, WriteKeepsTree DEF ListenAt

LEMMA ListEdit ==
  ASSUME IsTree(tree), NEW half \in Halves, NEW g \in DOMAIN tree[half].gateway, NEW n,
         ToggleListed(half, g, n)
  PROVE  IsTree(tree') /\ accepted' = Accepted(tree')
<1> DEFINE s == tree[half]
           services == (s.gateway[g].services \ {n}) \cup ({n} \ s.gateway[g].services)
<1>1. IsScope([s EXCEPT !.gateway[g].services = services])
  BY HalfIsScope, EditGatewayServices
<1>2. Write(half, [s EXCEPT !.gateway[g].services = services])
  BY DEF ToggleListed
<1> HIDE DEF s, services
<1> QED BY <1>1, <1>2, WriteKeepsTree

TreeInv == IsTree(tree) /\ accepted = Accepted(tree)

LEMMA TreeInitial == Init => TreeInv
  BY EditsAssumption DEF Init, TreeInv

LEMMA TreeStep == TreeInv /\ [Next]_vars => TreeInv'
<1> SUFFICES ASSUME TreeInv, [Next]_vars PROVE TreeInv'
  OBVIOUS
<1>1. IsTree(tree)
  BY DEF TreeInv
<1>2. ASSUME NEW half \in Halves,
             \/ \E kind \in {"service", "ingress", "gateway", "cluster"} :
                  \E name \in DOMAIN tree[half][kind], host \in DOMAIN tree[half].compute :
                    Move(half, kind, name, host)
             \/ \E c \in DOMAIN tree[half].compute, network \in DOMAIN tree[half].network :
                  Attach(half, c, network)
             \/ \E kind \in {"ingress", "gateway"} : \E name \in DOMAIN tree[half][kind], port \in Ports :
                  ListenAt(half, kind, name, port)
             \/ \E g \in DOMAIN tree[half].gateway, n \in Services(tree[half]) : ToggleListed(half, g, n)
             \/ \E c \in DOMAIN tree[half].compute : Scale(half, c)
      PROVE  TreeInv'
  BY <1>1, <1>2, HostEdit, NetworkEdit, ListenerEdit, ListEdit DEF TreeInv
<1>3. ASSUME NEW half \in Halves, NEW n \in DOMAIN tree[half].service,
             \/ \E old \in BackendPorts(tree[half].service[n]), new \in Ports : Renumber(half, n, old, new)
             \/ \E type \in {TLSTermination, Forward}, port \in Ports : AddRoute(half, n, type, port)
             \/ \E v \in Vanities : AddName(half, n, v)
      PROVE  TreeInv'
  BY <1>1, <1>3, PortEdit, NameEdit DEF TreeInv
<1>4. ASSUME NEW half \in Halves, NEW n \in DOMAIN tree[half].service, NEW x,
             \/ ToggleCaller(half, n, x) \/ (x \in Patterns /\ Publish(half, n, x))
             \/ FrontBy(half, n, x) \/ AskFor(half, n, x)
      PROVE  TreeInv'
  BY <1>1, <1>4, MeshEdit, FieldEdit DEF TreeInv
<1>5. ASSUME NEW half \in Halves,
             NEW n \in (Services(tree.regional) \cup Services(tree.global)) \ Services(tree[half]),
             Copy(half, n)
      PROVE  TreeInv'
  BY <1>1, <1>5, CopyEdit DEF TreeInv, Services
<1>6. CASE UNCHANGED vars
  BY <1>6 DEF vars, TreeInv
<1>7. CASE Next
  <2>1. PICK half \in Halves : Next!(half)
    BY <1>7 DEF Next
  <2> QED BY <2>1, <1>2, <1>3, <1>4, <1>5 DEF Services
<1> QED BY <1>6, <1>7

(* Whatever an operator edits, and in whatever order, the tree stays one the
   decoder accepts, and the verdict is that of the tree as it stands
   (types.go, validate.go:450-613). *)
THEOREM TreeCorrect == Spec => []TreeInv
  BY TreeInitial, TreeStep, PTL DEF Spec

-----------------------------------------------------------------------------
(* The scopes of a tree that validates.                                     *)

LEMMA ReplaceDatabase ==
  ASSUME NEW s, IsScope(s), NEW f, IsFunction(f), IsFiniteSet(DOMAIN f),
         \A n \in DOMAIN f : IsDatabase(f[n])
  PROVE  IsScope([s EXCEPT !.database = f])
  BY DEF IsScope

LEMMA KeptDatabase ==
  ASSUME NEW d, IsDatabase(d), NEW b
  PROVE  IsDatabase([d EXCEPT !.backup = b]) /\ [d EXCEPT !.backup = b].backup = b
  BY DEF IsDatabase

LEMMA KindOfCompute ==
  ASSUME NEW c, IsCompute(c), NEW k
  PROVE  IsCompute([c EXCEPT !.kind = k]) /\ [c EXCEPT !.kind = k].instances = c.instances
  BY DEF IsCompute

LEMMA SizedCompute ==
  ASSUME NEW c, IsCompute(c), NEW n \in Nat
  PROVE  IsCompute([c EXCEPT !.instances = n])
  BY DEF IsCompute

LEMMA LoadedScope ==
  ASSUME NEW s, IsScope(s)
  PROVE  IsScope(LoadScope(s))
<1> DEFINE compute == [c \in DOMAIN s.compute |-> NormalizeCompute(s.compute[c])]
           database == [d \in DOMAIN s.database |-> NormalizeDatabase(s.database[d])]
           ingress == [i \in DOMAIN s.ingress |-> NormalizeListener(s.ingress[i])]
           gateway == [g \in DOMAIN s.gateway |-> NormalizeListener(s.gateway[g])]
<1>1. \A c \in DOMAIN compute : IsCompute(compute[c])
  <2> SUFFICES ASSUME NEW c \in DOMAIN s.compute PROVE IsCompute(NormalizeCompute(s.compute[c]))
    OBVIOUS
  <2> DEFINE v == s.compute[c]
             w == [v EXCEPT !.kind = Or(@, "", "vm")]
  <2>1. IsCompute(v)
    BY DEF IsScope
  <2>2. IsCompute(w) /\ w.instances = v.instances
    BY <2>1, KindOfCompute
  <2>3. NormalizeCompute(v) = [w EXCEPT !.instances = Or(w.instances, 0, 1)]
    BY DEF NormalizeCompute
  <2> HIDE DEF v, w
  <2>4. Or(w.instances, 0, 1) \in Nat
    BY <2>1, <2>2 DEF IsCompute, Or
  <2>5. IsCompute(NormalizeCompute(v))
    BY <2>2, <2>3, <2>4, SizedCompute
  <2> QED BY <2>5 DEF v
<1>2. \A d \in DOMAIN database : IsDatabase(database[d])
  <2> SUFFICES ASSUME NEW d \in DOMAIN s.database PROVE IsDatabase(NormalizeDatabase(s.database[d]))
    OBVIOUS
  <2> DEFINE v == s.database[d]
             on == [v.backup EXCEPT !.enabled = Or(@, "", "yes")]
             kept == [on EXCEPT !.keep = Or(@, 0, 7)]
             a == [v EXCEPT !.backup = on]
  <2>1. IsDatabase(v)
    BY DEF IsScope
  <2>2. IsDatabase(a) /\ a.backup = on
    BY <2>1, KeptDatabase
  <2>3. NormalizeDatabase(v) = [a EXCEPT !.backup = [a.backup EXCEPT !.keep = Or(@, 0, 7)]]
    BY DEF NormalizeDatabase
  <2>4. NormalizeDatabase(v) = [a EXCEPT !.backup = kept]
    BY <2>2, <2>3
  <2> HIDE DEF a, v, kept
  <2>5. IsDatabase([a EXCEPT !.backup = kept])
    BY <2>2, KeptDatabase
  <2>6. IsDatabase(NormalizeDatabase(v))
    BY <2>4, <2>5
  <2> QED BY <2>6 DEF v
<1>3. \A i \in DOMAIN ingress : IsIngress(ingress[i])
  <2> SUFFICES ASSUME NEW i \in DOMAIN s.ingress PROVE IsIngress(NormalizeListener(s.ingress[i]))
    OBVIOUS
  <2>1. IsIngress(s.ingress[i])
    BY DEF IsScope
  <2> QED BY <2>1 DEF IsIngress, NormalizeListener
<1>4. \A g \in DOMAIN gateway : IsGateway(gateway[g])
  <2> SUFFICES ASSUME NEW g \in DOMAIN s.gateway PROVE IsGateway(NormalizeListener(s.gateway[g]))
    OBVIOUS
  <2>1. IsGateway(s.gateway[g])
    BY DEF IsScope
  <2> QED BY <2>1 DEF IsGateway, NormalizeListener
<1>5. /\ IsFunction(compute) /\ DOMAIN compute = DOMAIN s.compute
      /\ IsFunction(database) /\ DOMAIN database = DOMAIN s.database
      /\ IsFunction(ingress) /\ DOMAIN ingress = DOMAIN s.ingress
      /\ IsFunction(gateway) /\ DOMAIN gateway = DOMAIN s.gateway
  BY DEF IsFunction
<1>6. LoadScope(s) = [s EXCEPT !.compute = compute, !.database = database,
                               !.ingress = ingress, !.gateway = gateway]
  BY DEF LoadScope
<1> HIDE DEF compute, database, ingress, gateway
<1> DEFINE a == [s EXCEPT !.compute = compute]
           b == [a EXCEPT !.database = database]
           c == [b EXCEPT !.ingress = ingress]
<1>7. IsFiniteSet(DOMAIN compute) /\ IsFiniteSet(DOMAIN database) /\ IsFiniteSet(DOMAIN ingress)
        /\ IsFiniteSet(DOMAIN gateway)
  BY <1>5 DEF IsScope
<1>8. IsScope(a)
  BY <1>1, <1>5, <1>7, ReplaceCompute
<1>9. IsScope(b)
  BY <1>2, <1>5, <1>7, <1>8, ReplaceDatabase
<1>10. IsScope(c)
  BY <1>3, <1>5, <1>7, <1>9, ReplaceIngress
<1>11. IsScope([c EXCEPT !.gateway = gateway])
  BY <1>4, <1>5, <1>7, <1>10, ReplaceGateway
<1> QED BY <1>6, <1>11

(* A scope as validate leaves it, o the other one. *)
Sound(s, o, pass) == IsScope(s) /\ ScopeOK(s, o, pass, tree) /\ VanityOK(s)

OtherOf(sc) == IF sc = ScopeGlobal THEN Regional ELSE Global
PassOf(sc) == IF sc = ScopeGlobal THEN "global" ELSE "regional"

LEMMA ScopesSound ==
  ASSUME TreeInv, accepted, NEW sc
  PROVE  Sound(ResourcesOf(sc), OtherOf(sc), PassOf(sc))
<1>1. IsScope(Regional) /\ IsScope(Global)
  BY LoadedScope DEF TreeInv, IsTree, Regional, Global
<1>2. /\ ScopeOK(Global, Regional, "global", tree) /\ ScopeOK(Regional, Global, "regional", tree)
      /\ VanityOK(Regional) /\ VanityOK(Global)
  BY DEF TreeInv, Accepted, Regional, Global
<1> QED BY <1>1, <1>2 DEF Sound, ResourcesOf, ScopeResources, OtherOf, PassOf

LEMMA NamesApart ==
  ASSUME TreeInv, accepted
  PROVE  DOMAIN Regional.service \cap DOMAIN Global.service = {} /\ ScopeGlobal \notin Regions
  BY DEF TreeInv, IsTree, Accepted, CrossScopeNamesOK, Regional, Global, Regions

(* Foreign keys to a host: the validator and the program find the same one. *)
LEMMA CanonicalIs ==
  ASSUME NEW s, NEW k
  PROVE  Canonical(s, k) = IF k \in DOMAIN s.compute /\ s.compute[k].instances = 1
                           THEN {SpecKey(k, 1)} ELSE {}
  BY DEF Canonical, CanonicalComputeKeys

LEMMA HostResolved ==
  ASSUME NEW s, NEW k, ResolvesToHost(s, k)
  PROVE  /\ k \in DOMAIN s.compute
         /\ Canonical(s, k) = {SpecKey(k, 1)} /\ Host(s, k) = {SpecKey(k, 1)}
<1>1. k \in DOMAIN s.compute /\ s.compute[k].instances = 1
  BY DEF ResolvesToHost, Host
<1> QED BY <1>1, CanonicalIs DEF Host

LEMMA ServicePlaced ==
  ASSUME NEW s, NEW o, NEW pass, Sound(s, o, pass), NEW n \in Services(s)
  PROVE  /\ s.service[n].host \in DOMAIN s.compute
         /\ Canonical(s, s.service[n].host) = {SpecKey(s.service[n].host, 1)}
         /\ Host(s, s.service[n].host) = {SpecKey(s.service[n].host, 1)}
         /\ ServiceHost(s, n) = {SpecKey(s.service[n].host, 1)}
<1>1. ResolvesToHost(s, s.service[n].host)
  BY DEF Sound, ScopeOK, ServiceOK, ServiceHostOK, Services
<1> QED BY <1>1, HostResolved DEF ServiceHost, Services

LEMMA IngressPlaced ==
  ASSUME NEW s, NEW o, NEW pass, Sound(s, o, pass), NEW i
  PROVE  /\ IngressHostsByName(s, i) = IngressHost(s, i)
         /\ i \in DOMAIN s.ingress =>
              /\ s.ingress[i].host \in DOMAIN s.compute
              /\ IngressHost(s, i) = {SpecKey(s.ingress[i].host, 1)}
         /\ i \notin DOMAIN s.ingress => IngressHost(s, i) = {}
<1>1. CASE i \in DOMAIN s.ingress
  <2>1. ResolvesToHost(s, s.ingress[i].host)
    BY <1>1 DEF Sound, ScopeOK, IngressOK
  <2> QED BY <1>1, <2>1, HostResolved DEF IngressHostsByName, IngressHost
<1>2. CASE i \notin DOMAIN s.ingress
  BY <1>2 DEF IngressHostsByName, IngressHost
<1> QED BY <1>1, <1>2

LEMMA GatewayPlaced ==
  ASSUME NEW s, NEW o, NEW pass, Sound(s, o, pass), NEW g \in DOMAIN s.gateway
  PROVE  /\ s.gateway[g].host \in DOMAIN s.compute
         /\ Canonical(s, s.gateway[g].host) = {SpecKey(s.gateway[g].host, 1)}
         /\ Host(s, s.gateway[g].host) = {SpecKey(s.gateway[g].host, 1)}
         /\ s.gateway[g].ingress \in DOMAIN s.ingress
<1>1. ResolvesToHost(s, s.gateway[g].host) /\ s.gateway[g].ingress \in DOMAIN s.ingress
  BY DEF Sound, ScopeOK, GatewayOK
<1> QED BY <1>1, HostResolved

-----------------------------------------------------------------------------
(* The mesh: who is admitted, and where a name leads.                       *)

LEMMA LocalIs ==
  ASSUME NEW sc, NEW l \in LocalsOf(sc)
  PROVE  \E n \in Pki(ResourcesOf(sc)) : \E m \in ResourcesOf(sc).service[n].mesh :
           /\ l.service = n /\ l.sni = <<sc, n>>
           /\ l.callers = ExpandAllowedCallers(m.allowed, sc, Regions, Regional, Global)
<1> DEFINE s == ResourcesOf(sc)
<1>1. PICK h \in MeshHosts(s) : l \in MeshLocal(Regional, Global, sc, Regions, h)
  BY DEF LocalsOf, MeshAt, MeshConfig
<1>2. PICK n \in ServicesByHost(s, h) : \E m \in s.service[n].mesh :
        l = [service |-> n, sni |-> <<sc, n>>, port |-> m.port, paths |-> m.public \cup m.internal,
             callers |-> ExpandAllowedCallers(m.allowed, sc, Regions, Regional, Global)]
  BY <1>1 DEF MeshLocal, ResourcesOf
<1> QED BY <1>2 DEF ServicesByHost

LEMMA LocalOf ==
  ASSUME TreeInv, accepted, NEW sc, NEW n \in Services(ResourcesOf(sc)),
         NEW m \in ResourcesOf(sc).service[n].mesh
  PROVE  \E l \in LocalsOf(sc) :
           /\ l.service = n /\ l.sni = <<sc, n>>
           /\ l.callers = ExpandAllowedCallers(m.allowed, sc, Regions, Regional, Global)
<1> DEFINE s == ResourcesOf(sc)
           h == SpecKey(s.service[n].host, 1)
           l == [service |-> n, sni |-> <<sc, n>>, port |-> m.port, paths |-> m.public \cup m.internal,
                 callers |-> ExpandAllowedCallers(m.allowed, sc, Regions, Regional, Global)]
<1>1. Sound(s, OtherOf(sc), PassOf(sc))
  BY ScopesSound
<1>2. n \in Pki(s)
  BY <1>1 DEF Sound, ScopeOK, ServiceOK, MeshOK, Services, Pki
<1>3. h \in Canonical(s, s.service[n].host)
  BY <1>1, ServicePlaced
<1>4. h \in MeshHosts(s) /\ n \in ServicesByHost(s, h)
  BY <1>2, <1>3 DEF MeshHosts, ServicesByHost
<1> DEFINE Of(k, q) == [service |-> k, sni |-> <<sc, k>>, port |-> q.port, paths |-> q.public \cup q.internal,
                        callers |-> ExpandAllowedCallers(q.allowed, sc, Regions, Regional, Global)]
<1>5. l \in MeshLocal(Regional, Global, sc, Regions, h)
  <2>1. MeshLocal(Regional, Global, sc, Regions, h)
          = UNION {{Of(k, q) : q \in s.service[k].mesh} : k \in ServicesByHost(s, h)}
    BY DEF MeshLocal, ResourcesOf
  <2>2. l = Of(n, m)
    OBVIOUS
  <2> HIDE DEF Of, l
  <2> QED BY <1>4, <2>1, <2>2
<1>6. l \in LocalsOf(sc)
  BY <1>4, <1>5 DEF LocalsOf, MeshAt, MeshConfig
<1> QED BY <1>6

LEMMA AllowedCaller ==
  ASSUME TreeInv, accepted, NEW sc \in Scopes, NEW n \in Services(ResourcesOf(sc)),
         NEW m \in ResourcesOf(sc).service[n].mesh,
         NEW id \in ExpandAllowedCallers(m.allowed, sc, Regions, Regional, Global).out
  PROVE  /\ id[2] \in m.allowed
         /\ id[1] = sc \/ (sc = ScopeGlobal /\ id[1] \in Regions)
         /\ id[2] # Gateway => id[2] \in Pki(ResourcesOf(id[1]))
<1> DEFINE s == ResourcesOf(sc)
<1>1. PICK a \in m.allowed : id \in Identities(a, sc, Regions, Pki(Regional), Pki(Global))
  BY DEF ExpandAllowedCallers
<1>2. CallerOK(s, OtherOf(sc), PassOf(sc), n, a)
  BY ScopesSound DEF Sound, ScopeOK, ServiceOK, MeshOK, Services
<1>3. CASE a = Gateway
  BY <1>1, <1>3 DEF Identities
<1>4. CASE a # Gateway /\ sc # ScopeGlobal
  <2>1. id = <<sc, a>>
    BY <1>1, <1>4 DEF Identities
  <2>2. a \in MeshMembers(s)
    BY <1>2, <1>4 DEF CallerOK, CallerCandidates, PassOf
  <2> QED BY <2>1, <2>2, <1>1 DEF MeshMembers, Pki, Services
<1>5. CASE a # Gateway /\ sc = ScopeGlobal
  <2>1. \/ \E region \in Regions : id = <<region, a>> /\ a \in Pki(Regional)
        \/ id = <<ScopeGlobal, a>> /\ a \in Pki(Global)
    BY <1>1, <1>5 DEF Identities
  <2>2. ScopeGlobal \notin Regions
    BY NamesApart
  <2>3. \A r \in Regions : ResourcesOf(r) = Regional
    BY <2>2 DEF ResourcesOf, ScopeResources
  <2>4. ResourcesOf(ScopeGlobal) = Global
    BY DEF ResourcesOf, ScopeResources
  <2> QED BY <1>1, <1>5, <2>1, <2>3, <2>4
<1> QED BY <1>3, <1>4, <1>5

LEMMA CalleesAre ==
  ASSUME NEW s, NEW o, NEW pass, Sound(s, o, pass), NEW sc, NEW address, NEW t
  PROVE  t \in CalleesOf(s, sc, address) <=>
           \E n \in Services(s) :
             /\ s.service[n].mesh # {}
             /\ t = [name |-> n, sni |-> <<sc, n>>, host |-> SpecKey(s.service[n].host, 1),
                     address |-> address]
<1>1. \A n \in Services(s) : Canonical(s, s.service[n].host) = {SpecKey(s.service[n].host, 1)}
  BY ServicePlaced
<1> QED BY <1>1 DEF CalleesOf, Services

LEMMA TargetOf ==
  ASSUME TreeInv, accepted, NEW sc \in Scopes, NEW id \in Scopes,
         id = sc \/ (sc = ScopeGlobal /\ id \in Regions),
         NEW n \in Services(ResourcesOf(sc)), ResourcesOf(sc).service[n].mesh # {}
  PROVE  /\ \A t \in MeshTargets(Regional, Global, id) : t.name = n => t.sni = <<sc, n>>
         /\ \E t \in MeshTargets(Regional, Global, id) : t.name = n
<1> DEFINE s == ResourcesOf(id)
           own == CalleesOf(s, id, Private)
           foreign == CalleesOf(Global, ScopeGlobal, Public)
<1>1. Sound(s, OtherOf(id), PassOf(id)) /\ Sound(Global, Regional, "global")
  BY ScopesSound DEF ResourcesOf, ScopeResources, OtherOf, PassOf
<1>2. /\ \A t \in own : t.name \in Services(s) /\ t.sni = <<id, t.name>>
      /\ \A m \in Services(s) : s.service[m].mesh # {} => \E t \in own : t.name = m
  <2> DEFINE T(m) == [name |-> m, sni |-> <<id, m>>, host |-> SpecKey(s.service[m].host, 1),
                      address |-> Private]
  <2>1. \A t : t \in own <=> \E m \in Services(s) : s.service[m].mesh # {} /\ t = T(m)
    BY <1>1, CalleesAre
  <2>2. \A m : T(m).name = m /\ T(m).sni = <<id, m>>
    OBVIOUS
  <2> HIDE DEF T, own
  <2> QED BY <2>1, <2>2
<1>3. /\ \A t \in foreign : t.name \in Services(Global) /\ t.sni = <<ScopeGlobal, t.name>>
      /\ \A m \in Services(Global) : Global.service[m].mesh # {} => \E t \in foreign : t.name = m
  <2> DEFINE T(m) == [name |-> m, sni |-> <<ScopeGlobal, m>>, host |-> SpecKey(Global.service[m].host, 1),
                      address |-> Public]
  <2>1. \A t : t \in foreign <=> \E m \in Services(Global) : Global.service[m].mesh # {} /\ t = T(m)
    BY <1>1, CalleesAre
  <2>2. \A m : T(m).name = m /\ T(m).sni = <<ScopeGlobal, m>>
    OBVIOUS
  <2> HIDE DEF T, foreign
  <2> QED BY <2>1, <2>2
<1>4. MeshTargets(Regional, Global, id) =
        own \cup {x \in IF id = ScopeGlobal THEN {} ELSE foreign : \A c \in own : c.name # x.name}
  BY DEF MeshTargets, ResourcesOf
<1> HIDE DEF own, foreign
<1>5. CASE id = sc
  BY <1>2, <1>3, <1>4, <1>5
<1>6. CASE sc = ScopeGlobal /\ id \in Regions
  <2>1. id # ScopeGlobal /\ s = Regional /\ ResourcesOf(sc) = Global
    BY <1>6, NamesApart DEF ResourcesOf, ScopeResources
  <2>2. n \notin Services(Regional)
    BY <2>1, NamesApart DEF Services
  <2> QED BY <1>2, <1>3, <1>4, <1>6, <2>1, <2>2
<1> QED BY <1>5, <1>6

(* The verdict of validate and the expansion of the allow-lists agree
   (validate.go:2793-2843, program/mesh.go:25-200): whoever a callee admits is a member of
   the scope it is named in, and reaches that callee under its name. *)
THEOREM CallersAreRouted == Spec => []CallersRouted
<1>1. TreeInv => CallersRouted
  <2> SUFFICES ASSUME TreeInv, accepted, NEW sc \in Scopes, NEW l \in LocalsOf(sc),
                      NEW id \in l.callers.out, id[2] # Gateway
               PROVE  /\ id[2] \in Pki(ResourcesOf(id[1]))
                      /\ \A t \in MeshTargets(Regional, Global, id[1]) : t.name = l.service => t.sni = l.sni
                      /\ \E t \in MeshTargets(Regional, Global, id[1]) : t.name = l.service
    BY DEF CallersRouted
  <2>a. PICK n \in Pki(ResourcesOf(sc)) : \E m \in ResourcesOf(sc).service[n].mesh :
          /\ l.service = n /\ l.sni = <<sc, n>>
          /\ l.callers = ExpandAllowedCallers(m.allowed, sc, Regions, Regional, Global)
    BY LocalIs
  <2>1. PICK m \in ResourcesOf(sc).service[n].mesh :
          /\ l.service = n /\ l.sni = <<sc, n>>
          /\ l.callers = ExpandAllowedCallers(m.allowed, sc, Regions, Regional, Global)
    BY <2>a
  <2>2. n \in Services(ResourcesOf(sc))
    BY DEF Pki, Services
  <2>3. /\ id[1] = sc \/ (sc = ScopeGlobal /\ id[1] \in Regions)
        /\ id[2] \in Pki(ResourcesOf(id[1]))
    BY <2>1, <2>2, AllowedCaller
  <2>4. id[1] \in Scopes /\ ResourcesOf(sc).service[n].mesh # {}
    BY <2>3 DEF Scopes
  <2>5. /\ \A t \in MeshTargets(Regional, Global, id[1]) : t.name = n => t.sni = <<sc, n>>
        /\ \E t \in MeshTargets(Regional, Global, id[1]) : t.name = n
    BY <2>2, <2>3, <2>4, TargetOf
  <2> QED BY <2>1, <2>3, <2>5
<1> QED BY <1>1, TreeCorrect, PTL

-----------------------------------------------------------------------------
(* Connections between hosts.                                               *)

(* The services behind an ingress, those a gateway answers for, and the
   gateways, each with the one host it resolved to. *)
LEMMA BehindIngress ==
  ASSUME NEW s, NEW o, NEW pass, Sound(s, o, pass), NEW is \in ResolveIngressServices(s)
  PROVE  /\ is.service \in Services(s)
         /\ s.service[is.service].ingress \in DOMAIN s.ingress
         /\ s.service[is.service].routes # {} \/ s.service[is.service].health # 0
         /\ is.ingHost = SpecKey(s.ingress[s.service[is.service].ingress].host, 1)
         /\ IngressHost(s, s.service[is.service].ingress) = {is.ingHost}
         /\ is.svcHost = SpecKey(s.service[is.service].host, 1)
         /\ Host(s, s.service[is.service].host) = {is.svcHost}
<1> DEFINE Of(n, h, k) == [service |-> n, ingHost |-> h, svcHost |-> k]
<1>1. PICK n \in Services(s) :
        /\ s.service[n].ingress # ""
        /\ s.service[n].routes # {} \/ s.service[n].health # 0
        /\ \E h \in IngressHostsByName(s, s.service[n].ingress), k \in Canonical(s, s.service[n].host) :
             is = Of(n, h, k)
  <2> DEFINE at(n) == {Of(n, h, k) : h \in IngressHostsByName(s, s.service[n].ingress),
                                k \in Canonical(s, s.service[n].host)}
  <2>1. is \in UNION {at(n) : n \in Exposing(s)}
    BY DEF ResolveIngressServices
  <2> HIDE DEF Of
  <2>2. PICK n \in Exposing(s) : is \in at(n)
    <3> HIDE DEF at
    <3> QED BY <2>1
  <2>3. PICK h \in IngressHostsByName(s, s.service[n].ingress),
             k \in Canonical(s, s.service[n].host) : is = Of(n, h, k)
    BY <2>2
  <2> QED BY <2>2, <2>3 DEF Services, Exposing
<1>2. s.service[n].ingress \in {""} \cup DOMAIN s.ingress
  BY DEF Sound, ScopeOK, ServiceOK, ServiceHostOK, Services
<1>3. IngressHostsByName(s, s.service[n].ingress) = IngressHost(s, s.service[n].ingress)
        /\ IngressHost(s, s.service[n].ingress) = {SpecKey(s.ingress[s.service[n].ingress].host, 1)}
  BY <1>1, <1>2, IngressPlaced
<1>4. Canonical(s, s.service[n].host) = {SpecKey(s.service[n].host, 1)}
        /\ Host(s, s.service[n].host) = {SpecKey(s.service[n].host, 1)}
  BY ServicePlaced
<1>5. is = Of(n, SpecKey(s.ingress[s.service[n].ingress].host, 1), SpecKey(s.service[n].host, 1))
  <2> HIDE DEF Of
  <2> QED BY <1>1, <1>3, <1>4
<1>6. is.service = n /\ is.ingHost = SpecKey(s.ingress[s.service[n].ingress].host, 1)
        /\ is.svcHost = SpecKey(s.service[n].host, 1)
  BY <1>5
<1> HIDE DEF Of
<1> QED BY <1>1, <1>2, <1>3, <1>4, <1>6

LEMMA BehindGateway ==
  ASSUME NEW s, NEW o, NEW pass, Sound(s, o, pass), NEW rg \in ResolveGateways(s)
  PROVE  /\ rg.gateway \in DOMAIN s.gateway
         /\ s.gateway[rg.gateway].ingress \in DOMAIN s.ingress
         /\ rg.host = SpecKey(s.gateway[rg.gateway].host, 1)
         /\ Host(s, s.gateway[rg.gateway].host) = {rg.host}
         /\ rg.ingHost = SpecKey(s.ingress[s.gateway[rg.gateway].ingress].host, 1)
         /\ IngressHost(s, s.gateway[rg.gateway].ingress) = {rg.ingHost}
         /\ NetworkOf(s, rg.host) = NetworkOf(s, rg.ingHost)
<1>1. PICK g \in DOMAIN s.gateway :
        \E h \in Canonical(s, s.gateway[g].host), i \in IngressHostsByName(s, s.gateway[g].ingress) :
          rg = [gateway |-> g, host |-> h, ingHost |-> i]
  BY DEF ResolveGateways
<1>2. /\ s.gateway[g].ingress \in DOMAIN s.ingress
      /\ Canonical(s, s.gateway[g].host) = {SpecKey(s.gateway[g].host, 1)}
      /\ Host(s, s.gateway[g].host) = {SpecKey(s.gateway[g].host, 1)}
  BY GatewayPlaced
<1>3. IngressHostsByName(s, s.gateway[g].ingress) = IngressHost(s, s.gateway[g].ingress)
        /\ IngressHost(s, s.gateway[g].ingress) = {SpecKey(s.ingress[s.gateway[g].ingress].host, 1)}
  BY <1>2, IngressPlaced
<1>4. SameNetwork(s, Host(s, s.gateway[g].host), IngressHost(s, s.gateway[g].ingress))
  BY DEF Sound, ScopeOK, GatewayOK
<1>5. PICK h \in Canonical(s, s.gateway[g].host), i \in IngressHostsByName(s, s.gateway[g].ingress) :
        rg = [gateway |-> g, host |-> h, ingHost |-> i]
  BY <1>1
<1>6. rg.gateway = g /\ rg.host = h /\ rg.ingHost = i
  BY <1>5
<1>7. h = SpecKey(s.gateway[g].host, 1) /\ i = SpecKey(s.ingress[s.gateway[g].ingress].host, 1)
  BY <1>2, <1>3
<1>8. NetworkOf(s, h) = NetworkOf(s, i)
  BY <1>2, <1>3, <1>4, <1>7 DEF SameNetwork
<1> QED BY <1>2, <1>3, <1>6, <1>7, <1>8

LEMMA ProbedByGateway ==
  ASSUME NEW s, NEW o, NEW pass, Sound(s, o, pass), NEW gs \in ResolveGatewayHealthServices(s)
  PROVE  /\ gs.service \in Services(s) \cap ListedByGateway(s)
         /\ s.service[gs.service].health # 0 /\ s.service[gs.service].ingress = ""
         /\ gs.svcHost = SpecKey(s.service[gs.service].host, 1)
         /\ \E rg \in ResolveGateways(s) :
              /\ gs.service \in s.gateway[rg.gateway].services
              /\ gs.gwHost = rg.ingHost
              /\ gs.port = EffectiveHealthProbesPort(s.gateway[rg.gateway])
         /\ NetworkOf(s, gs.gwHost) = NetworkOf(s, gs.svcHost)
<1> DEFINE Of(n, rg, k) == [service |-> n, gwHost |-> rg.ingHost, svcHost |-> k,
                            port |-> EffectiveHealthProbesPort(s.gateway[rg.gateway])]
           of(rg) == {x \in s.gateway[rg.gateway].services \cap DOMAIN s.service :
                        s.service[x].health # 0 /\ s.service[x].ingress = ""}
           at(rg, n) == {Of(n, rg, k) : k \in Canonical(s, s.service[n].host)}
<1>1. gs \in UNION {UNION {at(rg, n) : n \in of(rg)} : rg \in ResolveGateways(s)}
  BY DEF ResolveGatewayHealthServices
<1>2. PICK rg \in ResolveGateways(s), n \in Services(s) :
        /\ n \in s.gateway[rg.gateway].services
        /\ s.service[n].health # 0 /\ s.service[n].ingress = ""
        /\ \E k \in Canonical(s, s.service[n].host) : gs = Of(n, rg, k)
  <2>1. PICK rg \in ResolveGateways(s) : \E n \in of(rg) : gs \in at(rg, n)
    <3> HIDE DEF of, at
    <3> QED BY <1>1
  <2>2. PICK n \in of(rg) : gs \in at(rg, n)
    BY <2>1
  <2> HIDE DEF Of
  <2> QED BY <2>2 DEF Services
<1>3. /\ Canonical(s, s.service[n].host) = {SpecKey(s.service[n].host, 1)}
      /\ ServiceHost(s, n) = {SpecKey(s.service[n].host, 1)}
  BY ServicePlaced
<1>4. /\ rg.gateway \in DOMAIN s.gateway
      /\ Host(s, s.gateway[rg.gateway].host) = {rg.host}
      /\ NetworkOf(s, rg.host) = NetworkOf(s, rg.ingHost)
  BY BehindGateway
<1>5. SameNetwork(s, Host(s, s.gateway[rg.gateway].host), ServiceHost(s, n))
  BY <1>2, <1>4 DEF Sound, ScopeOK, GatewayOK, ListedOK
<1>6. gs.service = n /\ gs.gwHost = rg.ingHost /\ gs.svcHost = SpecKey(s.service[n].host, 1)
        /\ gs.port = EffectiveHealthProbesPort(s.gateway[rg.gateway])
  <2>1. gs = Of(n, rg, SpecKey(s.service[n].host, 1))
    <3> HIDE DEF Of
    <3> QED BY <1>2, <1>3
  <2> QED BY <2>1
<1>7. NetworkOf(s, gs.gwHost) = NetworkOf(s, gs.svcHost)
  BY <1>3, <1>4, <1>5, <1>6 DEF SameNetwork
<1> HIDE DEF Of
<1> QED BY <1>2, <1>3, <1>4, <1>6, <1>7 DEF ListedByGateway

LEMMA PrivateOpen ==
  ASSUME NEW s, NEW h, NEW all
  PROVE  /\ \A is \in ResolveIngressServices(s) : is.svcHost = h /\ is.ingHost # h =>
              /\ \A r \in s.service[is.service].routes : r.target \in PrivatePorts(s, h, all)
              /\ s.service[is.service].health \in {0} \cup PrivatePorts(s, h, all)
         /\ \A gs \in ResolveGatewayHealthServices(s) : gs.svcHost = h /\ gs.gwHost # h =>
              s.service[gs.service].health \in PrivatePorts(s, h, all)
         /\ \A rg \in ResolveGateways(s) : rg.host = h /\ rg.ingHost # h =>
              GatewayHTTPPort \in PrivatePorts(s, h, all)
         /\ \A p \in ClusterPorts(s, h) : p.port \in PrivatePorts(s, h, all)
         /\ ServicesByHost(s, h) # {} /\ ~all => MTLSPort \in PrivatePorts(s, h, all)
  BY DEF PrivatePorts

LEMMA MeshPortPublic ==
  ASSUME NEW s, NEW h, ServicesByHost(s, h) # {}
  PROVE  MTLSPort \in PublicPorts(s, h, TRUE)
  BY DEF PublicPorts

(* What a host may dial inside a scope: a port of another host of its network. *)
LEMMA LocalHop ==
  ASSUME NEW sc, NEW h, NEW k, NEW port,
         NetworkOf(ResourcesOf(sc), h) = NetworkOf(ResourcesOf(sc), k),
         port \in Firewall(sc, k).public \cup Firewall(sc, k).private
  PROVE  Admits(Hop(sc, h, sc, k, port, Private))
<1> DEFINE hop == Hop(sc, h, sc, k, port, Private)
           s == ResourcesOf(sc)
<1>1. hop.scope = sc /\ hop.callee = sc /\ hop.from = h /\ hop.to = k /\ hop.port = port
        /\ hop.address # Public
  BY DEF Hop, Private, Public
<1>2. NetworkCIDR(s, h) = NetworkCIDR(s, k)
  BY DEF NetworkCIDR, NetworkOf, ComputeOf
<1>3. Firewall(sc, k).source = NetworkCIDR(s, k)
  BY DEF Firewall, FirewallPlan
<1> HIDE DEF hop
<1>4. NetworkCIDR(s, hop.from) \subseteq Firewall(hop.callee, hop.to).source
  BY <1>1, <1>2, <1>3
<1>5. s.network[NetworkOf(s, hop.from)].container = s.network[NetworkOf(s, hop.to)].container
  BY <1>1
<1>6. hop.port \in Firewall(hop.callee, hop.to).public \cup Firewall(hop.callee, hop.to).private
  BY <1>1
<1> HIDE DEF s
<1>7. Admits(hop)
  BY <1>1, <1>4, <1>5, <1>6 DEF Admits, s
<1> QED BY <1>7 DEF hop

LEMMA FirewallIs ==
  ASSUME NEW sc, NEW h
  PROVE  /\ Firewall(sc, h).public = PublicPorts(ResourcesOf(sc), h, sc = ScopeGlobal)
         /\ Firewall(sc, h).private = PrivatePorts(ResourcesOf(sc), h, sc = ScopeGlobal)
  BY DEF Firewall, FirewallPlan

LEMMA MeshPortOpen ==
  ASSUME NEW sc, NEW h, ServicesByHost(ResourcesOf(sc), h) # {}
  PROVE  /\ MTLSPort \in Firewall(sc, h).public \cup Firewall(sc, h).private
         /\ sc = ScopeGlobal => MTLSPort \in Firewall(sc, h).public
<1> DEFINE s == ResourcesOf(sc)
<1>1. CASE sc = ScopeGlobal
  <2>1. Firewall(sc, h).public = PublicPorts(s, h, TRUE)
    BY <1>1, Zenon DEF Firewall, FirewallPlan
  <2>2. MTLSPort \in PublicPorts(s, h, TRUE)
    BY MeshPortPublic
  <2> QED BY <2>1, <2>2
<1>2. CASE sc # ScopeGlobal
  <2>1. Firewall(sc, h).private = PrivatePorts(s, h, sc = ScopeGlobal)
    BY FirewallIs
  <2> DEFINE all == sc = ScopeGlobal
  <2>2. ~all
    BY <1>2
  <2> HIDE DEF all
  <2>3. MTLSPort \in PrivatePorts(s, h, all)
    BY <2>2, PrivateOpen
  <2> QED BY <1>2, <2>1, <2>3 DEF all
<1> QED BY <1>1, <1>2

LEMMA EdgeHopsAdmitted ==
  ASSUME TreeInv, accepted, NEW sc \in Scopes, NEW h, NEW hop \in EdgeHops(sc, h)
  PROVE  Admits(hop)
<1> DEFINE s == ResourcesOf(sc)
           c == Edge(sc, h)
<1>1. Sound(s, OtherOf(sc), PassOf(sc))
  BY ScopesSound
<1>2. \/ \E e \in c.routes \cup c.health : e.peer # h /\ hop = Hop(sc, h, sc, e.peer, e.target, Private)
      \/ \E g \in c.terminations : g.peer # h /\ hop = Hop(sc, h, sc, g.peer, GatewayHTTPPort, Private)
  BY DEF EdgeHops
<1>3. /\ c.routes = IngressRoutesByHost(s, h, Env, SlugOf(sc))
      /\ c.health = IngressHealthByHost(s, h, Env, SlugOf(sc)) \cup GatewayHealthByHost(s, h, Env, SlugOf(sc))
      /\ c.terminations = GatewayTerminations(s, h, SlugOf(sc))
  BY DEF Edge, EdgeConfig
<1>4. ASSUME NEW is \in ResolveIngressServices(s), is.ingHost = h
      PROVE  NetworkOf(s, h) = NetworkOf(s, is.svcHost)
  <2>1. SameNetwork(s, IngressHost(s, s.service[is.service].ingress), Host(s, s.service[is.service].host))
    BY <1>1, BehindIngress DEF Sound, ScopeOK, ServiceOK, ServiceHostOK, Services
  <2> QED BY <1>1, <1>4, <2>1, BehindIngress DEF SameNetwork
<1>5. ASSUME NEW e \in c.routes, e.peer # h PROVE Admits(Hop(sc, h, sc, e.peer, e.target, Private))
  <2>1. PICK is \in ResolveIngressServices(s) : is.ingHost = h /\
          \E r \in s.service[is.service].routes : e.target = r.target /\ e.peer = is.svcHost
    BY <1>3 DEF IngressRoutesByHost
  <2>2. e.target \in PrivatePorts(s, e.peer, sc = ScopeGlobal)
    BY <1>5, <2>1, PrivateOpen
  <2> QED BY <1>4, <2>1, <2>2, FirewallIs, LocalHop
<1>6. ASSUME NEW e \in IngressHealthByHost(s, h, Env, SlugOf(sc)), e.peer # h
      PROVE  Admits(Hop(sc, h, sc, e.peer, e.target, Private))
  <2>1. PICK is \in ResolveIngressServices(s) :
          /\ is.ingHost = h /\ s.service[is.service].health # 0
          /\ e = HealthEntry(s, is.service, is.svcHost, Env, SlugOf(sc))
    BY DEF IngressHealthByHost
  <2>2. e.target = s.service[is.service].health /\ e.peer = is.svcHost
    BY <2>1 DEF HealthEntry
  <2>3. e.target \in PrivatePorts(s, e.peer, sc = ScopeGlobal)
    BY <1>6, <2>1, <2>2, PrivateOpen
  <2> QED BY <1>4, <2>1, <2>2, <2>3, FirewallIs, LocalHop
<1>7. ASSUME NEW e \in GatewayHealthByHost(s, h, Env, SlugOf(sc)), e.peer # h
      PROVE  Admits(Hop(sc, h, sc, e.peer, e.target, Private))
  <2>1. PICK gs \in ResolveGatewayHealthServices(s) :
          gs.gwHost = h /\ e = HealthEntry(s, gs.service, gs.svcHost, Env, SlugOf(sc))
    BY DEF GatewayHealthByHost
  <2>2. e.target = s.service[gs.service].health /\ e.peer = gs.svcHost
    BY <2>1 DEF HealthEntry
  <2>3. e.target \in PrivatePorts(s, e.peer, sc = ScopeGlobal)
    BY <1>7, <2>1, <2>2, PrivateOpen
  <2>4. NetworkOf(s, h) = NetworkOf(s, e.peer)
    BY <1>1, <2>1, <2>2, ProbedByGateway
  <2> QED BY <2>3, <2>4, FirewallIs, LocalHop
<1>8. ASSUME NEW g \in c.terminations, g.peer # h
      PROVE  Admits(Hop(sc, h, sc, g.peer, GatewayHTTPPort, Private))
  <2>1. PICK rg \in ResolveGateways(s) : rg.ingHost = h /\ g.peer = rg.host
    BY <1>3 DEF GatewayTerminations
  <2>2. GatewayHTTPPort \in PrivatePorts(s, g.peer, sc = ScopeGlobal)
    BY <1>8, <2>1, PrivateOpen
  <2>3. NetworkOf(s, h) = NetworkOf(s, g.peer)
    BY <1>1, <2>1, BehindGateway
  <2> QED BY <2>2, <2>3, FirewallIs, LocalHop
<1> HIDE DEF c
<1> QED BY <1>2, <1>3, <1>5, <1>6, <1>7, <1>8

LEMMA DatabaseHopsAdmitted ==
  ASSUME TreeInv, accepted, NEW sc \in Scopes, NEW h, NEW hop \in DatabaseHops(sc, h)
  PROVE  Admits(hop)
<1> DEFINE s == ResourcesOf(sc)
           asked(n) == {x \in s.service[n].grants : x.type = "database"}
           here == {x \in Services(s) : h \in Canonical(s, s.service[x].host)}
<1>1. Sound(s, OtherOf(sc), PassOf(sc))
  BY ScopesSound
<1>0. PICK g \in UNION {asked(n) : n \in here} : \E k \in ClusterHostOf(s, g.name) :
        \E p \in ClusterPorts(s, k) : hop = Hop(sc, h, sc, k, p.port, Private)
  BY DEF DatabaseHops
<1>2. PICK k \in ClusterHostOf(s, g.name) :
        \E p \in ClusterPorts(s, k) : hop = Hop(sc, h, sc, k, p.port, Private)
  BY <1>0
<1>3. PICK n \in Services(s) : h \in Canonical(s, s.service[n].host) /\ g \in s.service[n].grants
        /\ g.type = "database"
  BY <1>0
<1>4. SameNetwork(s, Host(s, s.service[n].host), ClusterHostOf(s, g.name))
  BY <1>1, <1>3 DEF Sound, ScopeOK, ServiceOK, GrantsOK, GrantTargetOK, Services
<1>5. NetworkOf(s, h) = NetworkOf(s, k)
  BY <1>1, <1>2, <1>3, <1>4, ServicePlaced DEF SameNetwork
<1>6. \A p \in ClusterPorts(s, k) : p.port \in PrivatePorts(s, k, sc = ScopeGlobal)
  BY PrivateOpen
<1> QED BY <1>2, <1>5, <1>6, FirewallIs, LocalHop

LEMMA OrderedElements ==
  ASSUME NEW S, IsFiniteSet(S)
  PROVE  /\ Cardinality(S) \in Nat
         /\ SetToSeq(S) \in [1 .. Cardinality(S) -> S]
         /\ \A i, j \in 1 .. Cardinality(S) : SetToSeq(S)[i] = SetToSeq(S)[j] => i = j
<1>1. Cardinality(S) \in Nat /\ ExistsBijection(1 .. Cardinality(S), S)
  BY FS_CardinalityType
<1>2. PICK f \in Bijection(1 .. Cardinality(S), S) : TRUE
  BY <1>1 DEF ExistsBijection
<1>3. f \in [1 .. Cardinality(S) -> S] /\ IsInjective(f)
  BY <1>2 DEF Bijection, Injection, IsInjective
<1>4. SetToSeq(S) \in [1 .. Cardinality(S) -> S] /\ IsInjective(SetToSeq(S))
  BY <1>3 DEF SetToSeq
<1> QED BY <1>1, <1>4 DEF IsInjective

(* A member of a host's mesh proxy is a service there, or the gateway. *)
LEMMA EgressMember ==
  ASSUME NEW s, NEW o, NEW pass, Sound(s, o, pass), NEW h, NEW e \in MeshEgress(s, h)
  PROVE  \/ e.member \in ServicesByHost(s, h)
         \/ e.member = Gateway /\ GatewayMemberByHost(s, h) # {}
<1> DEFINE order == SetToSeq(ServicesByHost(s, h))
<1>1. IsFiniteSet(ServicesByHost(s, h))
  <2>1. IsFiniteSet(DOMAIN s.service)
    BY DEF Sound, IsScope
  <2> QED BY <2>1, FS_Subset DEF ServicesByHost, Pki
<1>2. \A i \in DOMAIN order : order[i] \in ServicesByHost(s, h)
  BY <1>1, OrderedElements
<1> HIDE DEF order
<1> QED BY <1>2 DEF MeshEgress, order

LEMMA MeshHopsAdmitted ==
  ASSUME TreeInv, accepted, NEW sc \in Scopes, NEW h, NEW hop \in MeshHops(sc, h)
  PROVE  Admits(hop)
<1> DEFINE s == ResourcesOf(sc)
           own == CalleesOf(s, sc, Private)
           foreign == CalleesOf(Global, ScopeGlobal, Public)
<1>1. Sound(s, OtherOf(sc), PassOf(sc)) /\ Sound(Global, Regional, "global")
  BY ScopesSound DEF ResourcesOf, ScopeResources, OtherOf, PassOf
<1>2. PICK e \in MeshEgress(s, h) : \E t \in MeshTargets(Regional, Global, sc) :
        Dials(sc, h, e.member, t) /\ hop = Hop(sc, h, t.sni[1], t.host, MTLSPort, t.address)
  BY DEF MeshHops, MeshAt, MeshConfig, ResourcesOf
<1>3. PICK t \in MeshTargets(Regional, Global, sc) :
        Dials(sc, h, e.member, t) /\ hop = Hop(sc, h, t.sni[1], t.host, MTLSPort, t.address)
  BY <1>2
<1>4. t \in own \/ (t \in foreign /\ \A c \in own : c.name # t.name)
  BY <1>3 DEF MeshTargets, ResourcesOf
<1>5. CASE t \in foreign
  <2>1. PICK n \in Services(Global) :
          /\ Global.service[n].mesh # {}
          /\ t = [name |-> n, sni |-> <<ScopeGlobal, n>>, host |-> SpecKey(Global.service[n].host, 1),
                  address |-> Public]
    BY <1>1, <1>5, CalleesAre
  <2>2. n \in ServicesByHost(Global, t.host)
    <3>1. Global.service[n].pki # ""
      BY <1>1, <2>1 DEF Sound, ScopeOK, ServiceOK, MeshOK, Services
    <3>2. Canonical(Global, Global.service[n].host) = {t.host}
      BY <1>1, <2>1, ServicePlaced
    <3> QED BY <2>1, <3>1, <3>2 DEF ServicesByHost, Pki, Services
  <2>3. MTLSPort \in Firewall(ScopeGlobal, t.host).public
    BY <2>2, MeshPortOpen DEF ResourcesOf, ScopeResources
  <2>4. t.sni[1] = ScopeGlobal /\ t.address = Public
    BY <2>1
  <2>5. hop.address = Public /\ hop.port = MTLSPort /\ hop.callee = ScopeGlobal /\ hop.to = t.host
    BY <1>3, <2>4 DEF Hop
  <2> QED BY <2>3, <2>5 DEF Admits
<1>6. CASE t \in own
  <2>1. PICK n \in Services(s) :
          /\ s.service[n].mesh # {}
          /\ t = [name |-> n, sni |-> <<sc, n>>, host |-> SpecKey(s.service[n].host, 1),
                  address |-> Private]
    BY <1>1, <1>6, CalleesAre
  <2>2. ServiceHost(s, n) = {t.host} /\ t.sni = <<sc, n>> /\ t.address = Private /\ t.name = n
    BY <1>1, <2>1, ServicePlaced
  <2>3. n \in ServicesByHost(s, t.host)
    <3>1. s.service[n].pki # ""
      BY <1>1, <2>1 DEF Sound, ScopeOK, ServiceOK, MeshOK, Services
    <3>2. Canonical(s, s.service[n].host) = {t.host}
      BY <1>1, <2>1, ServicePlaced
    <3> QED BY <2>1, <3>1, <3>2 DEF ServicesByHost, Pki, Services
  <2>4. MTLSPort \in Firewall(sc, t.host).public \cup Firewall(sc, t.host).private
    BY <2>3, MeshPortOpen
  <2>5. CASE e.member = Gateway
    <3>1. PICK rg \in ResolveGateways(s) : rg.host = h /\ n \in s.gateway[rg.gateway].services
      BY <1>3, <2>2, <2>5 DEF Dials, GatewayRoutings, ToGatewayNginxRoutes
    <3>2. rg.gateway \in DOMAIN s.gateway /\ Host(s, s.gateway[rg.gateway].host) = {h}
      BY <1>1, <3>1, BehindGateway
    <3>3. SameNetwork(s, Host(s, s.gateway[rg.gateway].host), ServiceHost(s, n))
      BY <1>1, <3>1, <3>2 DEF Sound, ScopeOK, GatewayOK, ListedOK
    <3>4. NetworkOf(s, h) = NetworkOf(s, t.host)
      BY <2>2, <3>2, <3>3 DEF SameNetwork
    <3> QED BY <1>3, <2>2, <2>4, <3>4, LocalHop
  <2>6. CASE e.member # Gateway
    <3>1. e.member \in ServicesByHost(s, h)
      BY <1>1, <2>6, EgressMember
    <3>2. PICK l \in LocalsOf(sc) : l.sni = <<sc, n>> /\ <<sc, e.member>> \in l.callers.out
      BY <1>3, <2>2, <2>6 DEF Dials
    <3>3. PICK m \in s.service[n].mesh :
            l.callers = ExpandAllowedCallers(m.allowed, sc, Regions, Regional, Global)
      BY <3>2, LocalIs
    <3>4. e.member \in m.allowed
      BY <2>1, <3>2, <3>3, AllowedCaller
    <3>5. CallerOK(s, OtherOf(sc), PassOf(sc), n, e.member)
      BY <1>1, <3>4 DEF Sound, ScopeOK, ServiceOK, MeshOK, Services
    <3>6. e.member \in MeshMembers(s) /\ h \in Canonical(s, s.service[e.member].host)
      BY <3>1 DEF ServicesByHost, Pki, MeshMembers, Services
    <3>7. ServiceHost(s, e.member) = {h}
      <4>1. e.member \in Services(s)
        BY <3>6 DEF MeshMembers
      <4>2. /\ Canonical(s, s.service[e.member].host) = {SpecKey(s.service[e.member].host, 1)}
            /\ ServiceHost(s, e.member) = {SpecKey(s.service[e.member].host, 1)}
        BY <1>1, <4>1, ServicePlaced
      <4> QED BY <3>6, <4>2
    <3>8. NetworkOf(s, h) = NetworkOf(s, t.host)
      BY <2>2, <2>6, <3>5, <3>6, <3>7 DEF CallerOK, SameNetwork
    <3> QED BY <1>3, <2>2, <2>4, <3>8, LocalHop
  <2> QED BY <2>5, <2>6
<1> QED BY <1>4, <1>5, <1>6

(* The connections a deploy configures and the firewalls it raises agree,
   for every tree that validates (program.go:2605-2773, program/mesh.go:98-200,
   nginx/config.go). *)
THEOREM HopsAreAdmitted == Spec => []HopsAdmitted
<1>1. TreeInv => HopsAdmitted
  BY EdgeHopsAdmitted, MeshHopsAdmitted, DatabaseHopsAdmitted DEF HopsAdmitted
<1> QED BY <1>1, TreeCorrect, PTL

-----------------------------------------------------------------------------
(* Names of the zone.                                                       *)

LEMMA EndsInZone ==
  ASSUME NEW S, NEW x \in Seq(S)
  PROVE  InZone(x \o BaseDomain)
<1> DEFINE y == x \o BaseDomain
           r == Reverse(y)
           b == Reverse(BaseDomain)
<1>1. BaseDomain \in Seq({"base"}) /\ Len(BaseDomain) = 1 /\ BaseDomain[1] = "base"
  BY DEF BaseDomain
<1>2. Len(x) \in Nat /\ Len(y) = Len(x) + 1 /\ y[Len(y)] = "base"
  <2>1. Len(x) \in Nat
    OBVIOUS
  <2> DEFINE T == S \cup {"base"}
  <2>2. x \in Seq(T) /\ BaseDomain \in Seq(T)
    BY <1>1
  <2> HIDE DEF T
  <2>3. /\ Len(y) = Len(x) + Len(BaseDomain)
        /\ \A i \in 1 .. Len(x) + Len(BaseDomain) :
             y[i] = IF i <= Len(x) THEN x[i] ELSE BaseDomain[i - Len(x)]
    BY <2>2, ConcatProperties
  <2>4. (Len(x) + 1) - Len(x) = 1 /\ Len(x) + 1 \in 1 .. Len(x) + 1 /\ ~(Len(x) + 1 <= Len(x))
    BY <2>1
  <2> HIDE DEF y
  <2> QED BY <1>1, <2>1, <2>2, <2>3, <2>4
<1> HIDE DEF y
<1>3. /\ b = [i \in 1 .. 1 |-> "base"]
      /\ r = [i \in 1 .. Len(y) |-> y[(Len(y) - i) + 1]]
  <2>1. b = [i \in 1 .. 1 |-> BaseDomain[(1 - i) + 1]]
    BY <1>1 DEF Reverse
  <2>2. \A i \in 1 .. 1 : BaseDomain[(1 - i) + 1] = "base"
    BY <1>1
  <2> QED BY <2>1, <2>2 DEF Reverse
<1>4. r[1] = "base" /\ b[1] = "base"
  BY <1>2, <1>3
<1>5. b \in Seq({"base"}) /\ Len(b) = 1
  BY <1>3
<1>6. DOMAIN r = 1 .. Len(y) /\ Len(y) \in Nat
  BY <1>2, <1>3
<1>7. Len(r) = Len(y)
  BY <1>6
<1>8. SubSeq(b, 1, 1) = [i \in 1 .. 1 |-> b[i]] /\ SubSeq(r, 1, 1) = [i \in 1 .. 1 |-> r[i]]
  OBVIOUS
<1>9. SubSeq(b, 1, 1) = SubSeq(r, 1, 1)
  BY <1>4, <1>8
<1>10. IsPrefix(b, r)
  BY <1>2, <1>5, <1>7, <1>9 DEF IsPrefix
<1> QED BY <1>10 DEF InZone, IsSuffix, y

LEMMA RecordsEndInZone ==
  ASSUME NEW env, NEW slug, NEW S, NEW labels \in Seq(S)
  PROVE  InZone(RecordFQDN(env, slug, labels))
<1> DEFINE T == S \cup {env, slug}
           x == labels \o <<env>> \o Slug(slug)
<1>1. labels \in Seq(T) /\ <<env>> \in Seq(T)
  OBVIOUS
<1>2. Slug(slug) \in Seq(T)
  BY DEF Slug
<1> HIDE DEF T
<1>3. x \in Seq(T)
  BY <1>1, <1>2
<1> HIDE DEF x
<1> QED BY <1>3, EndsInZone DEF RecordFQDN, x

LEMMA AppsEndInZone ==
  ASSUME NEW slug, NEW subdomain
  PROVE  InZone(AppFQDN(subdomain, slug))
<1> DEFINE T == {subdomain, slug}
           x == <<subdomain>> \o Slug(slug)
<1>1. <<subdomain>> \in Seq(T) /\ <<slug>> \in Seq(T) /\ <<>> \in Seq(T)
  OBVIOUS
<1> HIDE DEF T
<1>2. x \in Seq(T)
  BY <1>1 DEF Slug
<1> HIDE DEF x
<1> QED BY <1>2, EndsInZone DEF AppFQDN, x

LEMMA ServiceInZone ==
  ASSUME NEW env, NEW slug, NEW n
  PROVE  InZone(ServiceFQDN(env, slug, n))
<1>1. <<n, "svc">> \in Seq({n, "svc"})
  OBVIOUS
<1> QED BY <1>1, RecordsEndInZone DEF ServiceFQDN

LEMMA HostInZone ==
  ASSUME NEW env, NEW slug, NEW c
  PROVE  InZone(HostFQDN(env, slug, c))
<1>1. <<c, "vm">> \in Seq({c, "vm"})
  OBVIOUS
<1> QED BY <1>1, RecordsEndInZone DEF HostFQDN

LEMMA VanityInZone ==
  ASSUME NEW env, NEW slug, NEW v, IsVanity(v), InZone(ExpandVanity(v, "env", "slug"))
  PROVE  InZone(ExpandVanity(v, env, slug))
  BY RecordsEndInZone DEF ExpandVanity, IsVanity

-----------------------------------------------------------------------------
(* A deploy stops for none of its own checks.                               *)

LEMMA LoadedListener ==
  ASSUME NEW r, IsIngress(r) \/ IsGateway(r)
  PROVE  EffectiveHealthProbesPort(NormalizeListener(r)) = NormalizeListener(r).health
<1>1. NormalizeListener(r).health = EffectiveHealthProbesPort(r)
  BY DEF IsIngress, IsGateway, NormalizeListener
<1>2. Or(Or(r.health, 0, DefaultHealthProbesPort), 0, DefaultHealthProbesPort)
        = Or(r.health, 0, DefaultHealthProbesPort)
  BY DEF Or, DefaultHealthProbesPort
<1> QED BY <1>1, <1>2 DEF EffectiveHealthProbesPort

LEMMA ListenersLoaded ==
  ASSUME TreeInv, NEW sc
  PROVE  /\ \A i \in DOMAIN ResourcesOf(sc).ingress :
              EffectiveHealthProbesPort(ResourcesOf(sc).ingress[i]) = ResourcesOf(sc).ingress[i].health
         /\ \A g \in DOMAIN ResourcesOf(sc).gateway :
              EffectiveHealthProbesPort(ResourcesOf(sc).gateway[g]) = ResourcesOf(sc).gateway[g].health
<1>1. ASSUME NEW s, IsScope(s)
      PROVE  /\ \A i \in DOMAIN LoadScope(s).ingress :
                  EffectiveHealthProbesPort(LoadScope(s).ingress[i]) = LoadScope(s).ingress[i].health
             /\ \A g \in DOMAIN LoadScope(s).gateway :
                  EffectiveHealthProbesPort(LoadScope(s).gateway[g]) = LoadScope(s).gateway[g].health
  <2>1. /\ LoadScope(s).ingress = [i \in DOMAIN s.ingress |-> NormalizeListener(s.ingress[i])]
        /\ LoadScope(s).gateway = [g \in DOMAIN s.gateway |-> NormalizeListener(s.gateway[g])]
    BY <1>1 DEF IsScope, LoadScope
  <2>2. /\ \A i \in DOMAIN s.ingress : IsIngress(s.ingress[i])
        /\ \A g \in DOMAIN s.gateway : IsGateway(s.gateway[g])
    BY <1>1 DEF IsScope
  <2> QED BY <2>1, <2>2, LoadedListener
<1>2. IsScope(tree.regional) /\ IsScope(tree.global)
  BY DEF TreeInv, IsTree
<1> QED BY <1>1, <1>2 DEF ResourcesOf, ScopeResources, Regional, Global

LEMMA GatewaysResolve ==
  ASSUME NEW s, NEW o, NEW pass, Sound(s, o, pass)
  PROVE  CheckGatewayFKs(s)
<1> DEFINE Of(g, h, i) == [gateway |-> g, host |-> h, ingHost |-> i]
<1>1. ASSUME NEW g \in DOMAIN s.gateway PROVE \E rg \in ResolveGateways(s) : rg.gateway = g
  <2>1. /\ Canonical(s, s.gateway[g].host) # {}
        /\ s.gateway[g].ingress \in DOMAIN s.ingress
    BY GatewayPlaced
  <2>2. IngressHostsByName(s, s.gateway[g].ingress) # {}
    BY <2>1, IngressPlaced
  <2>3. PICK h \in Canonical(s, s.gateway[g].host), i \in IngressHostsByName(s, s.gateway[g].ingress) : TRUE
    BY <2>1, <2>2
  <2> DEFINE at(k) == {Of(k, a, b) : a \in Canonical(s, s.gateway[k].host),
                                   b \in IngressHostsByName(s, s.gateway[k].ingress)}
  <2>4. ResolveGateways(s) = UNION {at(k) : k \in DOMAIN s.gateway}
    BY DEF ResolveGateways
  <2>5. Of(g, h, i).gateway = g
    OBVIOUS
  <2> HIDE DEF Of
  <2>6. Of(g, h, i) \in at(g)
    BY <2>3
  <2> HIDE DEF at
  <2> QED BY <2>4, <2>5, <2>6
<1>2. \A rg \in ResolveGateways(s) : rg.gateway \in DOMAIN s.gateway
  BY BehindGateway
<1> QED BY <1>1, <1>2 DEF CheckGatewayFKs

LEMMA RecordsStayInZone ==
  ASSUME NEW s, NEW o, NEW pass, Sound(s, o, pass), NEW env, NEW slug
  PROVE  RecordsInZone(DerivedRecords(s, env, slug))
<1>1. ASSUME NEW is \in ResolveIngressServices(s), NEW d \in RouteRecords(s, env, slug, is)
      PROVE  InZone(d.fqdn)
  <2>1. PICK r \in s.service[is.service].routes : d.fqdn \in IngressFQDNs(is.service, r, env, slug)
    BY DEF RouteRecords
  <2>2. IsRoute(r) /\ \A v \in r.vanity : InZone(ExpandVanity(v, "env", "slug"))
    BY BehindIngress, <2>1 DEF Sound, IsScope, IsService, VanityOK, Services
  <2>3. \A v \in r.vanity : InZone(ExpandVanity(v, env, slug))
    BY <2>2, VanityInZone DEF IsRoute
  <2> QED BY <2>1, <2>3, ServiceInZone DEF IngressFQDNs
<1>2. ASSUME NEW d \in DerivedRecords(s, env, slug) PROVE InZone(d.fqdn)
  <2>1. \/ \E c : d.fqdn = HostFQDN(env, slug, c)
        \/ \E is \in ResolveIngressServices(s) : d \in RouteRecords(s, env, slug, is)
        \/ \E n : d.fqdn = ServiceFQDN(env, slug, n)
        \/ \E x : d.fqdn = AppFQDN(x, slug)
    BY DEF DerivedRecords
  <2> QED BY <1>1, <2>1, HostInZone, ServiceInZone, AppsEndInZone
<1> QED BY <1>2 DEF RecordsInZone

(* The two sources of a health port, as validate compares them. *)
LEMMA HealthPortOfGateway ==
  ASSUME TreeInv, accepted, NEW sc, NEW h, NEW p \in GatewayHealthPorts(ResourcesOf(sc), h)
  PROVE  \E g \in DOMAIN ResourcesOf(sc).gateway :
           /\ p = ResourcesOf(sc).gateway[g].health
           /\ IngressHost(ResourcesOf(sc), ResourcesOf(sc).gateway[g].ingress) = {h}
<1> DEFINE s == ResourcesOf(sc)
<1>1. Sound(s, OtherOf(sc), PassOf(sc))
  BY ScopesSound
<1>2. PICK gs \in ResolveGatewayHealthServices(s) : gs.gwHost = h /\ p = gs.port
  BY DEF GatewayHealthPorts
<1>3. PICK rg \in ResolveGateways(s) : h = rg.ingHost /\ p = EffectiveHealthProbesPort(s.gateway[rg.gateway])
  BY <1>1, <1>2, ProbedByGateway
<1> QED BY <1>1, <1>3, BehindGateway, ListenersLoaded

LEMMA HealthPortOfIngress ==
  ASSUME TreeInv, accepted, NEW sc, NEW h, NEW p \in IngressHealthPorts(ResourcesOf(sc), h)
  PROVE  \E i \in IngressesAt(ResourcesOf(sc), h) : p = ResourcesOf(sc).ingress[i].health
<1> DEFINE s == ResourcesOf(sc)
<1>1. Sound(s, OtherOf(sc), PassOf(sc))
  BY ScopesSound
<1>2. PICK i \in DOMAIN s.ingress :
        h \in IngressHostsByName(s, i) /\ p = EffectiveHealthProbesPort(s.ingress[i])
  BY DEF IngressHealthPorts
<1>3. h \in IngressHost(s, i)
  BY <1>1, <1>2, IngressPlaced
<1> QED BY <1>2, <1>3, ListenersLoaded DEF IngressesAt

LEMMA PortsAgree ==
  ASSUME TreeInv, accepted, NEW sc, NEW h
  PROVE  HealthPortsAgree(ResourcesOf(sc), h)
<1> DEFINE s == ResourcesOf(sc)
           G == GatewayHealthPorts(s, h)
           I == IngressHealthPorts(s, h)
<1>1. Sound(s, OtherOf(sc), PassOf(sc))
  BY ScopesSound
<1>2. SUFFICES ASSUME G # {} PROVE Cardinality(G \cup I) = 1
  BY DEF HealthPortsAgree
<1>3. PICK p : p \in G
  BY <1>2
<1>4. PICK g \in DOMAIN s.gateway : p = s.gateway[g].health /\ IngressHost(s, s.gateway[g].ingress) = {h}
  BY <1>3, HealthPortOfGateway
<1>5. \A k \in DOMAIN s.gateway : k = g
  <2>1. IsFiniteSet(DOMAIN s.gateway) /\ Cardinality(DOMAIN s.gateway) = 1
    BY <1>1 DEF Sound, IsScope, ScopeOK, GatewayOK
  <2>2. PICK x : DOMAIN s.gateway = {x}
    BY <2>1, FS_Singleton
  <2> QED BY <2>2
<1>6. \A q \in G : q = p
  BY <1>4, <1>5, HealthPortOfGateway
<1>7. \A q \in I : q = p
  <2>1. \A i \in IngressesAt(s, h) : s.ingress[i].health = s.gateway[g].health
    <3>1. GatewayOK(s, g)
      BY <1>1 DEF Sound, ScopeOK
    <3>2. GatewayHealthOK(s, g)
      BY <3>1 DEF GatewayOK
    <3> QED BY <1>4, <3>2 DEF GatewayHealthOK
  <2> QED BY <1>4, <2>1, HealthPortOfIngress
<1> HIDE DEF G, I
<1>8. G \cup I = {p}
  BY <1>3, <1>6, <1>7
<1> QED BY <1>8, FS_Singleton

(* The routes nginx renders on a host, and what validate knows of them. *)
LEMMA RenderedRoute ==
  ASSUME NEW s, NEW o, NEW pass, Sound(s, o, pass), NEW h, NEW is \in ResolveIngressServices(s),
         is.ingHost = h, NEW r \in s.service[is.service].routes
  PROVE  /\ <<is.service, r>> \in RoutesAt(s, h) /\ <<is.service, r>> \in PortUsers(s, h, r.listen)
         /\ RouteOK(s, is.service, r) /\ IngressHost(s, s.service[is.service].ingress) = {h}
<1> DEFINE n == is.service
<1>1. n \in Services(s) /\ IngressHost(s, s.service[n].ingress) = {h}
  BY BehindIngress
<1>2. RouteOK(s, n, r)
  BY <1>1 DEF Sound, ScopeOK, ServiceOK, Services
<1> HIDE DEF n
<1>3. <<n, r>> \in RoutesAt(s, h)
  BY <1>1 DEF RoutesAt, n
<1>4. <<n, r>> \in PortUsers(s, h, r.listen)
  BY <1>3 DEF PortUsers
<1> QED BY <1>1, <1>2, <1>3, <1>4 DEF n

LEMMA RoutesFinite ==
  ASSUME NEW s, NEW o, NEW pass, Sound(s, o, pass), NEW h
  PROVE  IsFiniteSet(RoutesAt(s, h))
<1> DEFINE N == {n \in Services(s) : h \in IngressHost(s, s.service[n].ingress)}
           of(n) == {<<n, r>> : r \in s.service[n].routes}
           f == [n \in N |-> of(n)]
<1>1. IsFiniteSet(DOMAIN s.service) /\ \A n \in DOMAIN s.service : IsFiniteSet(s.service[n].routes)
  BY DEF Sound, IsScope, IsService
<1>2. IsFiniteSet(N)
  BY <1>1, FS_Subset DEF Services
<1>3. ASSUME NEW n \in N PROVE IsFiniteSet(of(n))
  <2> DEFINE g == [r \in s.service[n].routes |-> <<n, r>>]
  <2>1. IsFiniteSet(s.service[n].routes) /\ DOMAIN g = s.service[n].routes /\ IsFunction(g)
    BY <1>1 DEF IsFunction, Services
  <2>2. \A r \in s.service[n].routes : g[r] = <<n, r>>
    OBVIOUS
  <2> HIDE DEF g
  <2>3. IsFiniteSet({g[r] : r \in s.service[n].routes})
    BY <2>1, FiniteImage
  <2>4. of(n) = {g[r] : r \in s.service[n].routes}
    BY <2>2
  <2> QED BY <2>3, <2>4
<1> HIDE DEF of
<1>4. DOMAIN f = N /\ IsFunction(f) /\ \A n \in N : f[n] = of(n)
  BY DEF IsFunction
<1> HIDE DEF f
<1>5. IsFiniteSet({f[n] : n \in N})
  BY <1>2, <1>4, FiniteImage
<1>6. {f[n] : n \in N} = {of(n) : n \in N}
  BY <1>4
<1>7. IsFiniteSet(UNION {of(n) : n \in N})
  BY <1>3, <1>5, <1>6, FS_UNION
<1> QED BY <1>7 DEF RoutesAt, of

LEMMA AtMostOne ==
  ASSUME NEW S, IsFiniteSet(S), Cardinality(S) <= 1, NEW x \in S, NEW y \in S
  PROVE  x = y
<1>1. S # {} /\ Cardinality(S) \in Nat /\ Cardinality(S) # 0
  BY FS_CardinalityType, FS_EmptySet
<1>2. Cardinality(S) = 1
  BY <1>1
<1> QED BY <1>2, FS_Singleton

LEMMA OneForward ==
  ASSUME NEW s, NEW o, NEW pass, Sound(s, o, pass), NEW h, NEW port,
         Cardinality(ForwardUsers(s, h, port)) <= 1,
         NEW x \in ForwardUsers(s, h, port), NEW y \in ForwardUsers(s, h, port)
  PROVE  x = y
<1>1. IsFiniteSet(ForwardUsers(s, h, port))
  BY RoutesFinite, FS_Subset DEF ForwardUsers, PortUsers
<1> QED BY <1>1, AtMostOne

(* nginx terminates TLS exactly where validate says it does. *)
LEMMA TerminatesTLS ==
  ASSUME NEW s, NEW o, NEW pass, Sound(s, o, pass), NEW h, NEW env, NEW slug,
         Terminating(EdgeConfig(s, h, env, slug))
  PROVE  TLSTerminates(s, h)
<1> DEFINE c == EdgeConfig(s, h, env, slug)
<1>1. /\ c.routes = IngressRoutesByHost(s, h, env, slug) /\ c.apps = IngressAppsByHost(s, h, slug)
      /\ c.terminations = GatewayTerminations(s, h, slug)
  BY DEF EdgeConfig
<1> HIDE DEF c
<1>2. CASE Terminates(c) # {}
  <2>1. PICK e \in IngressRoutesByHost(s, h, env, slug) : e.type = TLSTermination
    BY <1>1, <1>2 DEF Terminates
  <2>2. PICK is \in ResolveIngressServices(s) : is.ingHost = h /\
          \E r \in s.service[is.service].routes : r.type = TLSTermination
    BY <2>1 DEF IngressRoutesByHost
  <2>3. PICK r \in s.service[is.service].routes : r.type = TLSTermination
    BY <2>2
  <2>4. <<is.service, r>> \in RoutesAt(s, h)
    BY <2>2, RenderedRoute
  <2>5. \E nr \in RoutesAt(s, h) : nr[2].type = TLSTermination
    BY <2>3, <2>4
  <2> QED BY <2>5 DEF TLSTerminates
<1>3. CASE c.apps # {}
  <2>1. PICK a \in DOMAIN s.app : h \in IngressHostsByName(s, s.app[a].ingress)
    BY <1>1, <1>3 DEF IngressAppsByHost, ResolveIngressApps
  <2>2. h \in AppHosts(s)
    BY <2>1, IngressPlaced DEF AppHosts
  <2> QED BY <2>2 DEF TLSTerminates
<1>4. CASE c.terminations # {}
  <2>1. PICK rg \in ResolveGateways(s) : rg.ingHost = h
    BY <1>1, <1>4 DEF GatewayTerminations
  <2>2. h \in GatewayIngressHosts(s)
    <3>1. /\ rg.gateway \in DOMAIN s.gateway /\ Host(s, s.gateway[rg.gateway].host) # {}
          /\ h \in IngressHost(s, s.gateway[rg.gateway].ingress)
      BY <2>1, BehindGateway
    <3> QED BY <3>1 DEF GatewayIngressHosts
  <2> QED BY <2>2 DEF TLSTerminates
<1> QED BY <1>2, <1>3, <1>4 DEF Terminating, c

LEMMA HealthPortIs ==
  ASSUME NEW s, NEW h
  PROVE  \/ HealthPort(s, h) \in GatewayHealthPorts(s, h)
         \/ HealthPort(s, h) \in IngressHealthPorts(s, h)
         \/ GatewayHealthPorts(s, h) = {} /\ IngressHealthPorts(s, h) = {}
  BY DEF HealthPort

(* No route listens at the health port of a host that has an ingress. *)
LEMMA HealthPortFree ==
  ASSUME TreeInv, accepted, NEW sc, NEW h,
         NEW is \in ResolveIngressServices(ResourcesOf(sc)), is.ingHost = h
  PROVE  PortUsers(ResourcesOf(sc), h, HealthPort(ResourcesOf(sc), h)) = {}
<1> DEFINE s == ResourcesOf(sc)
           p == HealthPort(s, h)
           i == s.service[is.service].ingress
<1>1. Sound(s, OtherOf(sc), PassOf(sc))
  BY ScopesSound
<1>2. i \in DOMAIN s.ingress /\ IngressHost(s, i) = {h}
  BY <1>1, BehindIngress
<1>3. IngressHealthPorts(s, h) # {}
  <2>1. h \in IngressHostsByName(s, i)
    BY <1>1, <1>2, IngressPlaced
  <2>2. EffectiveHealthProbesPort(s.ingress[i]) \in IngressHealthPorts(s, h)
    BY <1>2, <2>1 DEF IngressHealthPorts
  <2> QED BY <2>2
<1>4. CASE p \in GatewayHealthPorts(s, h)
  <2>1. PICK g \in DOMAIN s.gateway : p = s.gateway[g].health /\ IngressHost(s, s.gateway[g].ingress) = {h}
    BY <1>4, HealthPortOfGateway
  <2> QED BY <1>1, <2>1 DEF Sound, ScopeOK, GatewayOK, GatewayHealthOK
<1>5. CASE p \in IngressHealthPorts(s, h)
  <2>1. PICK j \in IngressesAt(s, h) : p = s.ingress[j].health
    BY <1>5, HealthPortOfIngress
  <2>2. j \in DOMAIN s.ingress /\ h \in IngressHost(s, j)
    BY <2>1 DEF IngressesAt
  <2> QED BY <1>1, <2>1, <2>2 DEF Sound, ScopeOK, IngressOK
<1> QED BY <1>3, <1>4, <1>5, HealthPortIs

LEMMA EdgeRenders ==
  ASSUME TreeInv, accepted, NEW sc, NEW h, NEW slug,
         Cardinality(MixedListens(EdgeConfig(ResourcesOf(sc), h, Env, slug))) <= MaxMixedPorts
  PROVE  Renders(EdgeConfig(ResourcesOf(sc), h, Env, slug))
<1> DEFINE s == ResourcesOf(sc)
           c == EdgeConfig(s, h, Env, slug)
           from(e, is, r) == /\ is.ingHost = h /\ e.service = is.service /\ e.type = r.type
                             /\ e.listen = r.listen /\ e.peer = is.svcHost
                             /\ e = [service |-> is.service, type |-> r.type, listen |-> r.listen,
                                     target |-> r.target, peer |-> is.svcHost,
                                     fqdns |-> IF r.type = TLSTermination
                                               THEN IngressFQDNs(is.service, r, Env, slug) ELSE {}]
<1>1. Sound(s, OtherOf(sc), PassOf(sc))
  BY ScopesSound
<1>2. /\ c.routes = IngressRoutesByHost(s, h, Env, slug)
      /\ c.health = IngressHealthByHost(s, h, Env, slug) \cup GatewayHealthByHost(s, h, Env, slug)
      /\ c.healthPort = HealthPort(s, h)
      /\ c.routings = GatewayRoutings(s, h)
  BY DEF EdgeConfig
<1>3. ASSUME NEW e \in c.routes
      PROVE  \E is \in ResolveIngressServices(s) : \E r \in s.service[is.service].routes : from(e, is, r)
  BY <1>2 DEF IngressRoutesByHost
<1> HIDE DEF c, from
<1>4. \A e \in c.routes : e.type \in {TLSTermination, Forward}
  <2> SUFFICES ASSUME NEW e \in c.routes PROVE e.type \in {TLSTermination, Forward}
    OBVIOUS
  <2>1. PICK is \in ResolveIngressServices(s) : \E r \in s.service[is.service].routes : from(e, is, r)
    BY <1>3
  <2>2. PICK r \in s.service[is.service].routes : from(e, is, r)
    BY <2>1
  <2> QED BY <1>1, <2>2, RenderedRoute DEF RouteOK, from
<1>5. \A e \in c.health : e.paths # {}
  <2>1. ASSUME NEW n \in Services(s), s.service[n].health # 0 PROVE s.service[n].probes # {}
    BY <1>1, <2>1 DEF Sound, ScopeOK, ServiceOK, HealthOK, Services
  <2>2. \A e \in IngressHealthByHost(s, h, Env, slug) : e.paths # {}
    BY <1>1, <2>1, BehindIngress DEF IngressHealthByHost, HealthEntry
  <2>3. \A e \in GatewayHealthByHost(s, h, Env, slug) : e.paths # {}
    <3> SUFFICES ASSUME NEW gs \in ResolveGatewayHealthServices(s),
                        NEW e, e = HealthEntry(s, gs.service, gs.svcHost, Env, slug)
                 PROVE  e.paths # {}
      BY DEF GatewayHealthByHost
    <3>1. gs.service \in Services(s) /\ s.service[gs.service].health # 0
      BY <1>1, ProbedByGateway
    <3> QED BY <2>1, <3>1 DEF HealthEntry
  <2> QED BY <1>2, <2>2, <2>3
<1>6. \A g \in c.routings : \A r \in g.routes : Parsed(r.pattern)
  <2>1. ASSUME NEW n \in Services(s), NEW m \in s.service[n].mesh, NEW p \in m.public PROVE Parsed(p)
    BY <1>1 DEF Sound, ScopeOK, ServiceOK, MeshOK, PathsOK, Services
  <2> QED BY <1>2, <2>1 DEF GatewayRoutings, ToGatewayNginxRoutes, Services
<1>7. \A f, k \in Forwards(c) : f.listen = k.listen => f = k
  <2> SUFFICES ASSUME NEW f \in Forwards(c), NEW k \in Forwards(c), f.listen = k.listen PROVE f = k
    OBVIOUS
  <2>0. f \in c.routes /\ f.type = Forward /\ k \in c.routes /\ k.type = Forward
    BY DEF Forwards
  <2>1. PICK is \in ResolveIngressServices(s) : \E r \in s.service[is.service].routes : from(f, is, r)
    BY <1>3, <2>0
  <2>2. PICK r \in s.service[is.service].routes : from(f, is, r)
    BY <2>1
  <2>3. PICK js \in ResolveIngressServices(s) : \E r1 \in s.service[js.service].routes : from(k, js, r1)
    BY <1>3, <2>0
  <2>4. PICK q \in s.service[js.service].routes : from(k, js, q)
    BY <2>3
  <2>5. /\ is.ingHost = h /\ r.type = Forward /\ r.listen = f.listen
        /\ js.ingHost = h /\ q.type = Forward /\ q.listen = r.listen
    BY <2>0, <2>2, <2>4 DEF from
  <2>6. /\ <<is.service, r>> \in ForwardUsers(s, h, r.listen)
        /\ <<js.service, q>> \in ForwardUsers(s, h, r.listen)
    BY <1>1, <2>5, RenderedRoute DEF ForwardUsers
  <2>7. js.service = is.service /\ q = r
    <3>1. Cardinality(ForwardUsers(s, h, r.listen)) <= 1
      BY <1>1, <2>5, RenderedRoute DEF RouteOK
    <3>2. <<is.service, r>> = <<js.service, q>>
      BY <1>1, <2>6, <3>1, OneForward
    <3> QED BY <3>2
  <2>8. js.svcHost = is.svcHost
    BY <1>1, <2>7, BehindIngress
  <2> QED BY <2>2, <2>4, <2>7, <2>8 DEF from
<1>8. ASSUME NEW f \in Forwards(c)
      PROVE  (Terminating(c) => f.listen # 80) /\ f.listen # c.healthPort
  <2>0. f \in c.routes /\ f.type = Forward
    BY DEF Forwards
  <2>1. PICK is \in ResolveIngressServices(s) : \E r \in s.service[is.service].routes : from(f, is, r)
    BY <1>3, <2>0
  <2>2. PICK r \in s.service[is.service].routes : from(f, is, r)
    BY <2>1
  <2>3. is.ingHost = h /\ r.type = Forward /\ r.listen = f.listen
    BY <2>0, <2>2 DEF from
  <2>4. /\ <<is.service, r>> \in PortUsers(s, h, r.listen)
        /\ r.listen = 80 => ~TLSTerminates(s, h)
    <3>1. <<is.service, r>> \in PortUsers(s, h, r.listen)
      BY <1>1, <2>3, RenderedRoute
    <3>2. RouteOK(s, is.service, r) /\ IngressHost(s, s.service[is.service].ingress) = {h}
      BY <1>1, <2>3, RenderedRoute
    <3> QED BY <2>3, <3>1, <3>2 DEF RouteOK
  <2>5. Terminating(c) => TLSTerminates(s, h)
    BY <1>1, TerminatesTLS DEF c
  <2>6. PortUsers(s, h, c.healthPort) = {}
    BY <1>2, <2>3, HealthPortFree
  <2>7. f.listen # c.healthPort
    BY <2>3, <2>4, <2>6
  <2> QED BY <2>3, <2>4, <2>5, <2>7
<1>9. Cardinality(MixedListens(c)) <= MaxMixedPorts
  BY DEF c
<1>10. Renders(c)
  BY <1>4, <1>5, <1>6, <1>7, <1>8, <1>9 DEF Renders
<1> QED BY <1>10 DEF c

LEMMA SubnetsResolve ==
  ASSUME NEW s, NEW o, NEW pass, Sound(s, o, pass), NEW c \in DOMAIN s.compute,
         \A n \in DOMAIN s.network : DOMAIN s.network[n].subnets # {}
  PROVE  ResolvesNetwork(s, c)
<1>1. s.compute[c].network \in DOMAIN s.network
        /\ s.compute[c].subnet \in {""} \cup DOMAIN s.network[s.compute[c].network].subnets
  BY DEF Sound, ScopeOK, ComputeOK
<1> QED BY <1>1 DEF ResolvesNetwork

LEMMA CallersKept ==
  ASSUME TreeInv, accepted, NEW sc \in Scopes
  PROVE  NoCallerDropped(Regional, Global, sc, Regions)
<1> DEFINE s == ResourcesOf(sc)
<1>1. Sound(s, OtherOf(sc), PassOf(sc))
  BY ScopesSound
<1>2. SUFFICES ASSUME NEW h \in MeshHosts(s), NEW l \in MeshLocal(Regional, Global, sc, Regions, h)
               PROVE  l.callers.dropped = {}
  BY DEF NoCallerDropped, ResourcesOf
<1>3. l \in LocalsOf(sc)
  BY <1>2 DEF LocalsOf, MeshAt, MeshConfig
<1>4. PICK n \in Pki(s) : \E m \in s.service[n].mesh :
        l.callers = ExpandAllowedCallers(m.allowed, sc, Regions, Regional, Global)
  BY <1>3, LocalIs
<1>5. PICK m \in s.service[n].mesh :
        l.callers = ExpandAllowedCallers(m.allowed, sc, Regions, Regional, Global)
  BY <1>4
<1>6. ASSUME NEW a \in m.allowed PROVE Identities(a, sc, Regions, Pki(Regional), Pki(Global)) # {}
  <2>1. CASE a = Gateway \/ sc # ScopeGlobal
    BY <2>1 DEF Identities
  <2>2. CASE a # Gateway /\ sc = ScopeGlobal
    <3>1. CallerOK(s, OtherOf(sc), PassOf(sc), n, a)
      BY <1>1, <1>6 DEF Sound, ScopeOK, ServiceOK, MeshOK, Services, Pki
    <3>2. a \in Pki(Global) \cup Pki(Regional)
      BY <2>2, <3>1 DEF CallerOK, CallerCandidates, MeshMembers, Pki, Services, OtherOf, PassOf,
                        ResourcesOf, ScopeResources
    <3>3. Regions # {}
      BY DEF TreeInv, Accepted, RegionsOK, Regions
    <3>4. \/ \E region \in Regions : <<region, a>> \in Identities(a, sc, Regions, Pki(Regional), Pki(Global))
          \/ <<ScopeGlobal, a>> \in Identities(a, sc, Regions, Pki(Regional), Pki(Global))
      BY <2>2, <3>2, <3>3 DEF Identities
    <3> QED BY <3>4
  <2> QED BY <2>1, <2>2
<1> QED BY <1>5, <1>6 DEF ExpandAllowedCallers

(* What validate does not ask for: that a network has a subnet, and that no
   host has more mixed ports than the loopback range. *)
SubnetsDeclared ==
  \A sc \in Scopes : \A n \in DOMAIN ResourcesOf(sc).network :
    DOMAIN ResourcesOf(sc).network[n].subnets # {}

FewMixed ==
  \A sc \in Scopes : \A h \in Instances(ResourcesOf(sc)) :
    Cardinality(MixedListens(Edge(sc, h))) <= MaxMixedPorts

(* The checks the program keeps for itself never stop the deploy of a tree
   that validates (program.go:463-543, nginx/config.go), if its networks have
   subnets and its hosts at most MaxMixedPorts mixed ports. *)
THEOREM DeployDerives == Spec => [](SubnetsDeclared /\ FewMixed => DeriveCleanly)
<1>1. TreeInv => (SubnetsDeclared /\ FewMixed => DeriveCleanly)
  <2> SUFFICES ASSUME TreeInv, SubnetsDeclared, FewMixed, accepted, NEW sc \in Scopes
               PROVE  /\ ScopeDerives(ResourcesOf(sc), Env, SlugOf(sc))
                      /\ NoCallerDropped(Regional, Global, sc, Regions)
    BY DEF DeriveCleanly
  <2> DEFINE s == ResourcesOf(sc)
  <2>1. Sound(s, OtherOf(sc), PassOf(sc))
    BY ScopesSound
  <2>2. CheckGatewayFKs(s) /\ RecordsInZone(DerivedRecords(s, Env, SlugOf(sc)))
    BY <2>1, GatewaysResolve, RecordsStayInZone
  <2>3. \A c \in DOMAIN s.compute : ResolvesNetwork(s, c)
    BY <2>1, SubnetsResolve DEF SubnetsDeclared
  <2>4. \A h \in Instances(s) : HealthPortsAgree(s, h) /\ Renders(EdgeConfig(s, h, Env, SlugOf(sc)))
    BY PortsAgree, EdgeRenders DEF FewMixed, Edge
  <2>5. ScopeDerives(s, Env, SlugOf(sc))
    BY <2>2, <2>3, <2>4 DEF ScopeDerives
  <2> QED BY <2>5, CallersKept
<1> QED BY <1>1, TreeCorrect, PTL

-----------------------------------------------------------------------------
(* The names of the DNS, of nginx and the ports of the firewall.            *)

LEMMA PublicOpen ==
  ASSUME NEW s, NEW h, NEW all
  PROVE  /\ \A is \in ResolveIngressServices(s) : is.ingHost = h =>
              /\ \A r \in s.service[is.service].routes :
                   /\ r.listen \in PublicPorts(s, h, all)
                   /\ r.type = TLSTermination => 80 \in PublicPorts(s, h, all)
              /\ s.service[is.service].health # 0 =>
                   EffectiveHealthProbesPort(s.ingress[s.service[is.service].ingress]) \in PublicPorts(s, h, all)
         /\ \A ia \in ResolveIngressApps(s) : ia.ingHost = h => {80, 443} \subseteq PublicPorts(s, h, all)
         /\ \A rg \in ResolveGateways(s) : rg.ingHost = h => {80, 443} \subseteq PublicPorts(s, h, all)
         /\ \A gs \in ResolveGatewayHealthServices(s) : gs.gwHost = h => gs.port \in PublicPorts(s, h, all)
<1> DEFINE Opened(is) ==
             {r.listen : r \in s.service[is.service].routes}
               \cup {80 : r \in {x \in s.service[is.service].routes : x.type = TLSTermination}}
               \cup (IF s.service[is.service].health = 0 THEN {}
                     ELSE {EffectiveHealthProbesPort(s.ingress[s.service[is.service].ingress])})
           Here == {x \in ResolveIngressServices(s) : x.ingHost = h}
<1>1. UNION {Opened(is) : is \in Here} \subseteq PublicPorts(s, h, all)
  BY DEF PublicPorts
<1>2. ASSUME NEW is \in ResolveIngressServices(s), is.ingHost = h
      PROVE  Opened(is) \subseteq PublicPorts(s, h, all)
  <2> HIDE DEF Opened
  <2> QED BY <1>1, <1>2
<1>3. \A ia \in ResolveIngressApps(s) : ia.ingHost = h => {80, 443} \subseteq PublicPorts(s, h, all)
  BY DEF PublicPorts
<1>4. \A rg \in ResolveGateways(s) : rg.ingHost = h => {80, 443} \subseteq PublicPorts(s, h, all)
  BY DEF PublicPorts
<1>5. \A gs \in ResolveGatewayHealthServices(s) : gs.gwHost = h => gs.port \in PublicPorts(s, h, all)
  BY DEF PublicPorts
<1>6. ASSUME NEW is \in ResolveIngressServices(s), is.ingHost = h
      PROVE  /\ \A r \in s.service[is.service].routes :
                  /\ r.listen \in Opened(is)
                  /\ r.type = TLSTermination => 80 \in Opened(is)
             /\ s.service[is.service].health # 0 =>
                  EffectiveHealthProbesPort(s.ingress[s.service[is.service].ingress]) \in Opened(is)
  OBVIOUS
<1> HIDE DEF Opened
<1>7. ASSUME NEW is \in ResolveIngressServices(s), is.ingHost = h
      PROVE  /\ \A r \in s.service[is.service].routes :
                  /\ r.listen \in PublicPorts(s, h, all)
                  /\ r.type = TLSTermination => 80 \in PublicPorts(s, h, all)
             /\ s.service[is.service].health # 0 =>
                  EffectiveHealthProbesPort(s.ingress[s.service[is.service].ingress])
                    \in PublicPorts(s, h, all)
  BY <1>2, <1>6, <1>7
<1> QED BY <1>3, <1>4, <1>5, <1>7

(* The parts of a host's configuration that carry a name. *)
LEMMA EdgeParts ==
  ASSUME NEW sc, NEW h
  PROVE  /\ Edge(sc, h).host = h /\ Edge(sc, h).env = Env /\ Edge(sc, h).slug = SlugOf(sc)
         /\ Edge(sc, h).routes = IngressRoutesByHost(ResourcesOf(sc), h, Env, SlugOf(sc))
         /\ Edge(sc, h).apps = IngressAppsByHost(ResourcesOf(sc), h, SlugOf(sc))
         /\ Edge(sc, h).health = IngressHealthByHost(ResourcesOf(sc), h, Env, SlugOf(sc))
                                   \cup GatewayHealthByHost(ResourcesOf(sc), h, Env, SlugOf(sc))
         /\ Edge(sc, h).healthPort = HealthPort(ResourcesOf(sc), h)
         /\ Edge(sc, h).terminations = GatewayTerminations(ResourcesOf(sc), h, SlugOf(sc))
         /\ Edge(sc, h).routings = GatewayRoutings(ResourcesOf(sc), h)
  BY DEF Edge, EdgeConfig

LEMMA ServedNames ==
  ASSUME NEW c, NEW f
  PROVE  f \in ServedFQDNs(c) <=>
           \/ \E r \in Terminates(c) : f \in r.fqdns
           \/ \E a \in c.apps : f = a.fqdn
           \/ \E g \in c.terminations : f = g.fqdn
           \/ \E e \in c.health : f = e.fqdn
           \/ \E r \in Forwards(c) : f = ServiceFQDN(c.env, c.slug, r.service)
<1> DEFINE A(r) == {[port |-> r.listen, fqdn |-> k, of |-> <<r.service, r.target>>] : k \in r.fqdns}
           a(x) == [port |-> 443, fqdn |-> x.fqdn, of |-> <<x.app>>]
           g(x) == [port |-> 443, fqdn |-> x.fqdn, of |-> <<x.gateway>>]
<1>1. \A x : x \in NamedServers(c) <=>
        \/ \E r \in Terminates(c) : x \in A(r)
        \/ \E y \in c.apps : x = a(y)
        \/ \E y \in c.terminations : x = g(y)
  BY DEF NamedServers
<1>2. \A y : a(y).fqdn = y.fqdn /\ g(y).fqdn = y.fqdn
  OBVIOUS
<1>3. \A r : \A k : k \in r.fqdns <=> \E x \in A(r) : x.fqdn = k
  <2> TAKE r
  <2> TAKE k
  <2>1. ASSUME k \in r.fqdns PROVE \E x \in A(r) : x.fqdn = k
    <3>1. [port |-> r.listen, fqdn |-> k, of |-> <<r.service, r.target>>] \in A(r)
      BY <2>1
    <3> QED BY <3>1
  <2> QED BY <2>1
<1> HIDE DEF A, a, g
<1>4. (\E x \in NamedServers(c) : f = x.fqdn) <=>
        \/ \E r \in Terminates(c) : f \in r.fqdns
        \/ \E y \in c.apps : f = y.fqdn
        \/ \E y \in c.terminations : f = y.fqdn
  BY <1>1, <1>2, <1>3
<1> QED BY <1>4 DEF ServedFQDNs

LEMMA RoutesRecorded ==
  ASSUME NEW s, NEW env, NEW slug, NEW is \in ResolveIngressServices(s),
         NEW r \in s.service[is.service].routes, NEW f \in IngressFQDNs(is.service, r, env, slug)
  PROVE  [fqdn |-> f, host |-> is.ingHost] \in DerivedRecords(s, env, slug)
<1>1. [fqdn |-> f, host |-> is.ingHost] \in RouteRecords(s, env, slug, is)
  BY DEF RouteRecords
<1> QED BY <1>1 DEF DerivedRecords

(* A record is one of a host, of an ingress, or of something behind one. *)
LEMMA RecordsAre ==
  ASSUME NEW sc, NEW d \in Records(sc)
  PROVE  LET s == ResourcesOf(sc) IN
         \/ \E c \in DOMAIN s.compute : d.fqdn = HostFQDN(Env, SlugOf(sc), c)
         \/ d.fqdn = AppFQDN(IngressDNSLabel, SlugOf(sc))
         \/ \E is \in ResolveIngressServices(s) : \E r \in s.service[is.service].routes :
              d.host = is.ingHost /\ d.fqdn \in IngressFQDNs(is.service, r, Env, SlugOf(sc))
         \/ \E is \in ResolveIngressServices(s) :
              /\ s.service[is.service].health # 0
              /\ d.host = is.ingHost /\ d.fqdn = ServiceFQDN(Env, SlugOf(sc), is.service)
         \/ \E gs \in ResolveGatewayHealthServices(s) :
              d.host = gs.gwHost /\ d.fqdn = ServiceFQDN(Env, SlugOf(sc), gs.service)
         \/ \E ia \in ResolveIngressApps(s) :
              d.host = ia.ingHost /\ d.fqdn = AppFQDN(s.app[ia.app].subdomain, SlugOf(sc))
         \/ \E rg \in ResolveGateways(s) :
              d.host = rg.ingHost /\ d.fqdn = AppFQDN(s.gateway[rg.gateway].subdomain, SlugOf(sc))
<1> DEFINE s == ResourcesOf(sc)
           slug == SlugOf(sc)
           vms == {[fqdn |-> HostFQDN(Env, slug, c), host |-> SpecKey(c, 1)] : c \in DOMAIN s.compute}
           probes == {[fqdn |-> ServiceFQDN(Env, slug, is.service), host |-> is.ingHost] :
                        is \in {x \in ResolveIngressServices(s) : s.service[x.service].health # 0}}
           behind == {[fqdn |-> ServiceFQDN(Env, slug, gs.service), host |-> gs.gwHost] :
                        gs \in ResolveGatewayHealthServices(s)}
           apps == {[fqdn |-> AppFQDN(s.app[ia.app].subdomain, slug), host |-> ia.ingHost] :
                      ia \in ResolveIngressApps(s)}
           gateways == {[fqdn |-> AppFQDN(s.gateway[rg.gateway].subdomain, slug), host |-> rg.ingHost] :
                          rg \in ResolveGateways(s)}
           doors(i) == {[fqdn |-> AppFQDN(IngressDNSLabel, slug), host |-> h] : h \in IngressHostsByName(s, i)}
<1>1. d \in vms \cup (UNION {RouteRecords(s, Env, slug, is) : is \in ResolveIngressServices(s)})
             \cup probes \cup behind \cup apps \cup gateways
             \cup UNION {doors(i) : i \in DOMAIN s.ingress}
  BY DEF Records, DerivedRecords
<1>2. /\ d \in vms => \E c \in DOMAIN s.compute : d.fqdn = HostFQDN(Env, slug, c)
      /\ d \in probes => \E is \in ResolveIngressServices(s) :
           /\ s.service[is.service].health # 0
           /\ d.host = is.ingHost /\ d.fqdn = ServiceFQDN(Env, slug, is.service)
  OBVIOUS
<1>3. /\ d \in behind => \E gs \in ResolveGatewayHealthServices(s) :
           d.host = gs.gwHost /\ d.fqdn = ServiceFQDN(Env, slug, gs.service)
      /\ d \in apps => \E ia \in ResolveIngressApps(s) :
           d.host = ia.ingHost /\ d.fqdn = AppFQDN(s.app[ia.app].subdomain, slug)
  OBVIOUS
<1>4. /\ d \in gateways => \E rg \in ResolveGateways(s) :
           d.host = rg.ingHost /\ d.fqdn = AppFQDN(s.gateway[rg.gateway].subdomain, slug)
      /\ \A i : d \in doors(i) => d.fqdn = AppFQDN(IngressDNSLabel, slug)
  OBVIOUS
<1>5. \A is : d \in RouteRecords(s, Env, slug, is) => \E r \in s.service[is.service].routes :
        d.host = is.ingHost /\ d.fqdn \in IngressFQDNs(is.service, r, Env, slug)
  BY DEF RouteRecords
<1> HIDE DEF vms, probes, behind, apps, gateways, doors, s, slug
<1> QED BY <1>1, <1>2, <1>3, <1>4, <1>5 DEF s, slug

LEMMA RecordsServed ==
  ASSUME TreeInv, accepted, NEW sc, NEW d \in Records(sc),
         \A c \in DOMAIN ResourcesOf(sc).compute : d.fqdn # HostFQDN(Env, SlugOf(sc), c),
         d.fqdn # AppFQDN(IngressDNSLabel, SlugOf(sc))
  PROVE  d.fqdn \in ServedFQDNs(Edge(sc, d.host))
<1> DEFINE s == ResourcesOf(sc)
           c == Edge(sc, d.host)
           slug == SlugOf(sc)
<1>1. Sound(s, OtherOf(sc), PassOf(sc))
  BY ScopesSound
<1> HIDE DEF c, slug
<1>2. /\ c.env = Env /\ c.slug = slug
      /\ c.routes = IngressRoutesByHost(s, d.host, Env, slug)
      /\ c.apps = IngressAppsByHost(s, d.host, slug)
      /\ c.health = IngressHealthByHost(s, d.host, Env, slug) \cup GatewayHealthByHost(s, d.host, Env, slug)
      /\ c.terminations = GatewayTerminations(s, d.host, slug)
  BY EdgeParts DEF c, slug
<1>3. ASSUME NEW is \in ResolveIngressServices(s), NEW r \in s.service[is.service].routes,
             d.host = is.ingHost, d.fqdn \in IngressFQDNs(is.service, r, Env, slug)
      PROVE  d.fqdn \in ServedFQDNs(c)
  <2> DEFINE e == [service |-> is.service, type |-> r.type, listen |-> r.listen,
                   target |-> r.target, peer |-> is.svcHost,
                   fqdns |-> IF r.type = TLSTermination
                             THEN IngressFQDNs(is.service, r, Env, slug) ELSE {}]
  <2>1. e \in c.routes
    <3> DEFINE Of(js, q) == [service |-> js.service, type |-> q.type, listen |-> q.listen,
                             target |-> q.target, peer |-> js.svcHost,
                             fqdns |-> IF q.type = TLSTermination
                                       THEN IngressFQDNs(js.service, q, Env, slug) ELSE {}]
               at(js) == {Of(js, q) : q \in s.service[js.service].routes}
    <3>1. c.routes = UNION {at(js) : js \in {x \in ResolveIngressServices(s) : x.ingHost = d.host}}
      BY <1>2 DEF IngressRoutesByHost
    <3>2. e = Of(is, r)
      OBVIOUS
    <3> HIDE DEF Of, e
    <3>3. e \in at(is)
      BY <3>2
    <3> HIDE DEF at
    <3> QED BY <1>3, <3>1, <3>3
  <2>2. RouteOK(s, is.service, r)
    BY <1>1, <1>3, RenderedRoute
  <2>3. CASE r.type = TLSTermination
    <3>1. e \in Terminates(c) /\ d.fqdn \in e.fqdns
      BY <1>3, <2>1, <2>3 DEF Terminates
    <3> HIDE DEF e
    <3> QED BY <3>1, ServedNames
  <2>4. CASE r.type = Forward
    <3>1. e \in Forwards(c) /\ e.service = is.service
      BY <2>1, <2>4 DEF Forwards
    <3>2. r.vanity = {}
      BY <2>2, <2>4 DEF RouteOK
    <3>3. d.fqdn = ServiceFQDN(c.env, c.slug, e.service)
      BY <1>2, <1>3, <3>1, <3>2 DEF IngressFQDNs
    <3> HIDE DEF e
    <3> QED BY <3>1, <3>3, ServedNames
  <2>5. r.type = TLSTermination \/ r.type = Forward
    BY <2>2 DEF RouteOK
  <2> QED BY <2>3, <2>4, <2>5
<1>4. ASSUME NEW n, NEW peer, d.fqdn = ServiceFQDN(Env, slug, n),
             HealthEntry(s, n, peer, Env, slug) \in c.health
      PROVE  d.fqdn \in ServedFQDNs(c)
  <2>1. HealthEntry(s, n, peer, Env, slug).fqdn = d.fqdn
    BY <1>4 DEF HealthEntry
  <2> QED BY <1>4, <2>1, ServedNames
<1>5. ASSUME NEW is \in ResolveIngressServices(s), s.service[is.service].health # 0,
             d.host = is.ingHost, d.fqdn = ServiceFQDN(Env, slug, is.service)
      PROVE  d.fqdn \in ServedFQDNs(c)
  <2>1. HealthEntry(s, is.service, is.svcHost, Env, slug) \in c.health
    BY <1>2, <1>5 DEF IngressHealthByHost
  <2> QED BY <1>4, <1>5, <2>1
<1>6. ASSUME NEW gs \in ResolveGatewayHealthServices(s),
             d.host = gs.gwHost, d.fqdn = ServiceFQDN(Env, slug, gs.service)
      PROVE  d.fqdn \in ServedFQDNs(c)
  <2>1. HealthEntry(s, gs.service, gs.svcHost, Env, slug) \in c.health
    BY <1>2, <1>6 DEF GatewayHealthByHost
  <2> QED BY <1>4, <1>6, <2>1
<1>7. ASSUME NEW ia \in ResolveIngressApps(s), d.host = ia.ingHost,
             d.fqdn = AppFQDN(s.app[ia.app].subdomain, slug)
      PROVE  d.fqdn \in ServedFQDNs(c)
  <2>1. [app |-> ia.app, fqdn |-> d.fqdn] \in c.apps
    BY <1>2, <1>7 DEF IngressAppsByHost
  <2> QED BY <2>1, ServedNames
<1>8. ASSUME NEW rg \in ResolveGateways(s), d.host = rg.ingHost,
             d.fqdn = AppFQDN(s.gateway[rg.gateway].subdomain, slug)
      PROVE  d.fqdn \in ServedFQDNs(c)
  <2>1. [gateway |-> rg.gateway, fqdn |-> d.fqdn, peer |-> rg.host] \in c.terminations
    BY <1>2, <1>8 DEF GatewayTerminations
  <2> QED BY <2>1, ServedNames
<1> QED BY <1>3, <1>5, <1>6, <1>7, <1>8, RecordsAre DEF c, slug

LEMMA ServedRecorded ==
  ASSUME TreeInv, accepted, NEW sc, NEW h, NEW f \in ServedFQDNs(Edge(sc, h))
  PROVE  [fqdn |-> f, host |-> h] \in Records(sc)
<1> DEFINE s == ResourcesOf(sc)
           c == Edge(sc, h)
           slug == SlugOf(sc)
<1>1. Sound(s, OtherOf(sc), PassOf(sc)) /\ Records(sc) = DerivedRecords(s, Env, slug)
  BY ScopesSound DEF Records
<1> HIDE DEF c, slug
<1>2. /\ c.env = Env /\ c.slug = slug
      /\ c.routes = IngressRoutesByHost(s, h, Env, slug)
      /\ c.apps = IngressAppsByHost(s, h, slug)
      /\ c.health = IngressHealthByHost(s, h, Env, slug) \cup GatewayHealthByHost(s, h, Env, slug)
      /\ c.terminations = GatewayTerminations(s, h, slug)
  BY EdgeParts DEF c, slug
<1>3. \/ \E e \in Terminates(c) : f \in e.fqdns
      \/ \E a \in c.apps : f = a.fqdn
      \/ \E g \in c.terminations : f = g.fqdn
      \/ \E e \in c.health : f = e.fqdn
      \/ \E e \in Forwards(c) : f = ServiceFQDN(c.env, c.slug, e.service)
  BY ServedNames DEF c
<1>4. ASSUME NEW is \in ResolveIngressServices(s), is.ingHost = h, NEW r \in s.service[is.service].routes,
             f \in IngressFQDNs(is.service, r, Env, slug)
      PROVE  [fqdn |-> f, host |-> h] \in DerivedRecords(s, Env, slug)
  BY <1>4, RoutesRecorded
<1>5. ASSUME NEW e \in Terminates(c), f \in e.fqdns
      PROVE  [fqdn |-> f, host |-> h] \in DerivedRecords(s, Env, slug)
  <2>1. e \in IngressRoutesByHost(s, h, Env, slug) /\ e.type = TLSTermination
    BY <1>2 DEF Terminates
  <2>2. PICK is \in ResolveIngressServices(s) : is.ingHost = h /\ \E r \in s.service[is.service].routes :
          e.type = r.type /\ e.fqdns = IF r.type = TLSTermination
                                       THEN IngressFQDNs(is.service, r, Env, slug) ELSE {}
    BY <2>1 DEF IngressRoutesByHost
  <2>3. PICK r \in s.service[is.service].routes : f \in IngressFQDNs(is.service, r, Env, slug)
    BY <1>5, <2>1, <2>2
  <2> QED BY <1>4, <2>2, <2>3
<1>6. ASSUME NEW e \in Forwards(c), f = ServiceFQDN(c.env, c.slug, e.service)
      PROVE  [fqdn |-> f, host |-> h] \in DerivedRecords(s, Env, slug)
  <2>1. e \in IngressRoutesByHost(s, h, Env, slug)
    BY <1>2 DEF Forwards
  <2>2. PICK is \in ResolveIngressServices(s) : is.ingHost = h /\ \E r \in s.service[is.service].routes :
          e.service = is.service
    BY <2>1 DEF IngressRoutesByHost
  <2>3. PICK r \in s.service[is.service].routes : TRUE
    BY <2>2
  <2>4. f \in IngressFQDNs(is.service, r, Env, slug)
    BY <1>2, <1>6, <2>2 DEF IngressFQDNs
  <2> QED BY <1>4, <2>2, <2>3, <2>4
<1>7. ASSUME NEW a \in c.apps, f = a.fqdn
      PROVE  [fqdn |-> f, host |-> h] \in DerivedRecords(s, Env, slug)
  <2>1. PICK ia \in ResolveIngressApps(s) : ia.ingHost = h /\ f = AppFQDN(s.app[ia.app].subdomain, slug)
    BY <1>2, <1>7 DEF IngressAppsByHost
  <2> QED BY <2>1 DEF DerivedRecords
<1>8. ASSUME NEW g \in c.terminations, f = g.fqdn
      PROVE  [fqdn |-> f, host |-> h] \in DerivedRecords(s, Env, slug)
  <2>1. PICK rg \in ResolveGateways(s) :
          rg.ingHost = h /\ f = AppFQDN(s.gateway[rg.gateway].subdomain, slug)
    BY <1>2, <1>8 DEF GatewayTerminations
  <2> QED BY <2>1 DEF DerivedRecords
<1>9. ASSUME NEW e \in IngressHealthByHost(s, h, Env, slug), f = e.fqdn
      PROVE  [fqdn |-> f, host |-> h] \in DerivedRecords(s, Env, slug)
  <2>1. PICK is \in {x \in ResolveIngressServices(s) : s.service[x.service].health # 0} :
          is.ingHost = h /\ f = ServiceFQDN(Env, slug, is.service)
    BY <1>9 DEF IngressHealthByHost, HealthEntry
  <2> QED BY <2>1 DEF DerivedRecords
<1>10. ASSUME NEW e \in GatewayHealthByHost(s, h, Env, slug), f = e.fqdn
       PROVE  [fqdn |-> f, host |-> h] \in DerivedRecords(s, Env, slug)
  <2>1. PICK gs \in ResolveGatewayHealthServices(s) : gs.gwHost = h /\ f = ServiceFQDN(Env, slug, gs.service)
    BY <1>10 DEF GatewayHealthByHost, HealthEntry
  <2> QED BY <2>1 DEF DerivedRecords
<1> QED BY <1>1, <1>2, <1>3, <1>5, <1>6, <1>7, <1>8, <1>9, <1>10

(* Without a gateway that answers probes, the health port is the ingress's. *)
LEMMA HealthPortOfProbes ==
  ASSUME TreeInv, accepted, NEW sc, NEW h, Edge(sc, h).health # {},
         GatewayHealthPorts(ResourcesOf(sc), h) = {}
  PROVE  /\ GatewayHealthByHost(ResourcesOf(sc), h, Env, SlugOf(sc)) = {}
         /\ \E is \in ResolveIngressServices(ResourcesOf(sc)) :
              /\ is.ingHost = h /\ ResourcesOf(sc).service[is.service].health # 0
              /\ HealthPort(ResourcesOf(sc), h) = EffectiveHealthProbesPort(
                   ResourcesOf(sc).ingress[ResourcesOf(sc).service[is.service].ingress])
<1> DEFINE s == ResourcesOf(sc)
           p == HealthPort(s, h)
<1>1. Sound(s, OtherOf(sc), PassOf(sc))
  BY ScopesSound
<1>2. GatewayHealthByHost(s, h, Env, SlugOf(sc)) = {}
  BY DEF GatewayHealthByHost, GatewayHealthPorts
<1>3. IngressHealthByHost(s, h, Env, SlugOf(sc)) # {}
  BY <1>2, EdgeParts
<1>4. PICK is \in ResolveIngressServices(s) : is.ingHost = h /\ s.service[is.service].health # 0
  BY <1>3 DEF IngressHealthByHost
<1> DEFINE i == s.service[is.service].ingress
<1>5. i \in DOMAIN s.ingress /\ h \in IngressHostsByName(s, i)
  BY <1>1, <1>4, BehindIngress, IngressPlaced
<1>6. PICK x : DOMAIN s.ingress = {x}
  <2>1. IsFiniteSet(DOMAIN s.ingress) /\ Cardinality(DOMAIN s.ingress) = 1
    BY <1>1, <1>5 DEF Sound, IsScope, ScopeOK, IngressOK
  <2> QED BY <2>1, FS_Singleton
<1> HIDE DEF i
<1>7. IngressHealthPorts(s, h) = {EffectiveHealthProbesPort(s.ingress[i])}
  BY <1>5, <1>6 DEF IngressHealthPorts
<1>8. p = EffectiveHealthProbesPort(s.ingress[i])
  BY <1>7 DEF HealthPort
<1> QED BY <1>2, <1>4, <1>8 DEF i

(* The health listener of a host is at a port its firewall opens. *)
LEMMA HealthPortPublic ==
  ASSUME TreeInv, accepted, NEW sc, NEW h, NEW all, Edge(sc, h).health # {}
  PROVE  HealthPort(ResourcesOf(sc), h) \in PublicPorts(ResourcesOf(sc), h, all)
<1> DEFINE s == ResourcesOf(sc)
           p == HealthPort(s, h)
<1>1. CASE GatewayHealthPorts(s, h) # {}
  <2>1. p \in GatewayHealthPorts(s, h)
    BY <1>1 DEF HealthPort
  <2> QED BY <2>1, PublicOpen DEF GatewayHealthPorts
<1>2. CASE GatewayHealthPorts(s, h) = {}
  <2>1. PICK is \in ResolveIngressServices(s) :
          /\ is.ingHost = h /\ s.service[is.service].health # 0
          /\ p = EffectiveHealthProbesPort(s.ingress[s.service[is.service].ingress])
    BY <1>2, HealthPortOfProbes
  <2> HIDE DEF s, p
  <2>2. EffectiveHealthProbesPort(s.ingress[s.service[is.service].ingress]) \in PublicPorts(s, h, all)
    BY <2>1, PublicOpen
  <2>3. p \in PublicPorts(s, h, all)
    BY <2>1, <2>2
  <2> QED BY <2>3 DEF s, p
<1> QED BY <1>1, <1>2

LEMMA AnywhereOpen ==
  ASSUME TreeInv, accepted, NEW sc, NEW h, NEW x \in EdgeSockets(Edge(sc, h)), x.address = Anywhere
  PROVE  x.port \in PublicPorts(ResourcesOf(sc), h, sc = ScopeGlobal)
<1> DEFINE s == ResourcesOf(sc)
           c == Edge(sc, h)
           P == PublicPorts(s, h, sc = ScopeGlobal)
<1>1. Sound(s, OtherOf(sc), PassOf(sc))
  BY ScopesSound
<1>2. \A e \in c.routes : e.listen \in P /\ (e.type = TLSTermination => 80 \in P)
  <2> SUFFICES ASSUME NEW e \in IngressRoutesByHost(s, h, Env, SlugOf(sc))
               PROVE  e.listen \in P /\ (e.type = TLSTermination => 80 \in P)
    BY EdgeParts
  <2>1. PICK is \in ResolveIngressServices(s) : is.ingHost = h /\
          \E r \in s.service[is.service].routes : e.listen = r.listen /\ e.type = r.type
    BY DEF IngressRoutesByHost
  <2> HIDE DEF s
  <2>2. \A r \in s.service[is.service].routes : r.listen \in P /\ (r.type = TLSTermination => 80 \in P)
    BY <2>1, PublicOpen
  <2> QED BY <2>1, <2>2
<1>3. c.apps # {} \/ c.terminations # {} => {80, 443} \subseteq P
  <2>1. c.apps # {} => \E ia \in ResolveIngressApps(s) : ia.ingHost = h
    BY EdgeParts DEF IngressAppsByHost
  <2>2. c.terminations # {} => \E rg \in ResolveGateways(s) : rg.ingHost = h
    BY EdgeParts DEF GatewayTerminations
  <2> HIDE DEF s, c
  <2> QED BY <2>1, <2>2, PublicOpen
<1>4. c.health # {} => c.healthPort \in P
  BY HealthPortPublic, EdgeParts
<1> HIDE DEF c, P
<1>5. TLSListens(c) \subseteq P
  BY <1>2, <1>3 DEF TLSListens, Terminates
<1>6. Terminating(c) => 80 \in P
  BY <1>2, <1>3 DEF Terminating, Terminates
<1>7. \/ x.port \in TLSListens(c)
      \/ c.health # {} /\ x.port = c.healthPort
      \/ Terminating(c) /\ x.port = 80
      \/ \E e \in Forwards(c) : x.port = e.listen
  <2>1. x \in HTTPSockets(c) \/ x \in StreamSockets(c)
    BY DEF EdgeSockets, c
  <2>2. Anywhere # Loopback /\ Anywhere # Private
    BY DEF Anywhere, Loopback, Private
  <2> QED BY <2>1, <2>2 DEF HTTPSockets, StreamSockets, Socket
<1>8. x.port \in P
  BY <1>2, <1>4, <1>5, <1>6, <1>7 DEF Forwards
<1> QED BY <1>8 DEF P

(* DNS, nginx and the firewalls name the same things (program.go:2605-3054,
   nginx/config.go): a name of the DNS has a server on the host it leads
   to, a served name is in the DNS, and the ports nginx holds towards
   everyone are open. *)
THEOREM NamesAreServed == Spec => []NamesServed
<1>1. TreeInv => NamesServed
  <2> SUFFICES ASSUME TreeInv, accepted, NEW sc \in Scopes
               PROVE  LET s == ResourcesOf(sc)
                          unserved == {HostFQDN(Env, SlugOf(sc), c) : c \in DOMAIN s.compute}
                                        \cup {AppFQDN(IngressDNSLabel, SlugOf(sc))}
                      IN /\ \A d \in Records(sc) : d.fqdn \notin unserved => d.fqdn \in ServedFQDNs(Edge(sc, d.host))
                         /\ \A h \in Instances(s) :
                              LET c == Edge(sc, h) IN
                              /\ \A f \in ServedFQDNs(c) : [fqdn |-> f, host |-> h] \in Records(sc)
                              /\ {x.port : x \in {y \in EdgeSockets(c) : y.address = Anywhere}}
                                   \subseteq Firewall(sc, h).public
    BY DEF NamesServed
  <2>1. ASSUME NEW d \in Records(sc),
               d.fqdn \notin {HostFQDN(Env, SlugOf(sc), c) : c \in DOMAIN ResourcesOf(sc).compute}
                               \cup {AppFQDN(IngressDNSLabel, SlugOf(sc))}
        PROVE  d.fqdn \in ServedFQDNs(Edge(sc, d.host))
    BY <2>1, RecordsServed
  <2>2. ASSUME NEW h
        PROVE  {x.port : x \in {y \in EdgeSockets(Edge(sc, h)) : y.address = Anywhere}}
                 \subseteq Firewall(sc, h).public
    BY AnywhereOpen, FirewallIs
  <2> QED BY <2>1, <2>2, ServedRecorded
<1> QED BY <1>1, TreeCorrect, PTL

-----------------------------------------------------------------------------
(* Who binds what.                                                          *)

(* The ranges inforge keeps for itself. *)
LEMMA PortRanges ==
  /\ \A n \in Nat : n <= MaxServices => \A i \in 1 .. n : EgressBase + i - 1 \in EgressRange
  /\ GatewayEgressPort \in EgressRange
  /\ \A n \in Nat : n <= 32 => \A i \in 1 .. n : PortBase + i - 1 \in PostgresRange
  /\ \A n \in Nat : n <= MaxMixedPorts => \A i \in 1 .. n : LoopbackBase + i - 1 \in LoopbackRange
  /\ LoopbackRange \cap EgressRange = {}
  /\ {80, 443, GatewayHTTPPort, DefaultHealthProbesPort} \cap EgressRange = {}
  BY DEF EgressBase, MaxServices, GatewayEgressPort, EgressRange, PortBase, PostgresRange,
         MaxMixedPorts, LoopbackBase, LoopbackRange, GatewayHTTPPort, DefaultHealthProbesPort

LEMMA PortsAreNotZero == 0 \notin Port
  BY DEF Port

LEMMA EgressPorts ==
  ASSUME NEW s, NEW o, NEW pass, Sound(s, o, pass), NEW h,
         Cardinality(ServicesByHost(s, h)) <= MaxServices, NEW e \in MeshEgress(s, h)
  PROVE  e.port \in EgressRange /\ RunsMeshProxy(s, h)
<1> DEFINE S == ServicesByHost(s, h)
           order == SetToSeq(S)
           ports == {[member |-> order[i], port |-> EgressBase + i - 1] : i \in DOMAIN order}
<1>1. IsFiniteSet(S)
  <2>1. IsFiniteSet(DOMAIN s.service)
    BY DEF Sound, IsScope
  <2> QED BY <2>1, FS_Subset DEF ServicesByHost, Pki
<1>2. DOMAIN order = 1 .. Cardinality(S) /\ Cardinality(S) \in Nat /\ \A i \in DOMAIN order : order[i] \in S
  BY <1>1, OrderedElements
<1>3. \/ e \in ports
      \/ e = [member |-> Gateway, port |-> GatewayEgressPort] /\ GatewayMemberByHost(s, h) # {}
  BY DEF MeshEgress
<1> HIDE DEF order
<1>4. CASE e \in ports
  <2>1. PICK i \in DOMAIN order : e.port = EgressBase + i - 1
    BY <1>4
  <2>2. PICK n \in Pki(s) : h \in Canonical(s, s.service[n].host)
    BY <1>2, <2>1 DEF ServicesByHost
  <2>3. n \in MeshMembers(s) /\ h \in ServiceHost(s, n)
    BY <2>2, ServicePlaced DEF Pki, MeshMembers, Services
  <2> HIDE DEF S
  <2>4. e.port \in EgressRange
    BY <1>2, <2>1, PortRanges DEF S
  <2> QED BY <2>3, <2>4 DEF RunsMeshProxy
<1>5. CASE e = [member |-> Gateway, port |-> GatewayEgressPort] /\ GatewayMemberByHost(s, h) # {}
  <2>1. PICK g \in DOMAIN s.gateway : h \in Canonical(s, s.gateway[g].host)
    BY <1>5 DEF GatewayMemberByHost
  <2>2. h \in GatewayHosts(s)
    BY <2>1, GatewayPlaced DEF GatewayHosts
  <2> QED BY <1>5, <2>2, PortRanges DEF RunsMeshProxy
<1> QED BY <1>3, <1>4, <1>5

ClustersAt(s, h) == {c \in DOMAIN s.cluster : h \in Canonical(s, s.cluster[c].host)}

LEMMA PostmasterPorts ==
  ASSUME NEW s, NEW o, NEW pass, Sound(s, o, pass), NEW h,
         Cardinality(ClustersAt(s, h)) <= 32, NEW p \in ClusterPorts(s, h)
  PROVE  p.port \in PostgresRange /\ h \in ClusterHosts(s)
<1> DEFINE S == ClustersAt(s, h)
           order == SetToSeq(S)
<1>1. IsFiniteSet(S)
  <2>1. IsFiniteSet(DOMAIN s.cluster)
    BY DEF Sound, IsScope
  <2> QED BY <2>1, FS_Subset DEF ClustersAt
<1>2. DOMAIN order = 1 .. Cardinality(S) /\ Cardinality(S) \in Nat /\ \A i \in DOMAIN order : order[i] \in S
  BY <1>1, OrderedElements
<1>3. PICK i \in DOMAIN order : p.port = PortBase + i - 1
  BY DEF ClusterPorts, ClustersAt
<1> HIDE DEF order, S
<1>4. p.port \in PostgresRange
  BY <1>2, <1>3, PortRanges DEF S
<1>5. PICK c \in DOMAIN s.cluster : h \in Canonical(s, s.cluster[c].host)
  BY <1>2, <1>3 DEF S, ClustersAt
<1>6. h \in Host(s, s.cluster[c].host)
  BY <1>5, CanonicalIs DEF Host
<1> QED BY <1>4, <1>5, <1>6 DEF ClusterHosts

(* A port a service binds, by the field that names it. *)
LEMMA BindIs ==
  ASSUME NEW s, NEW o, NEW pass, Sound(s, o, pass), NEW h, NEW b \in ServiceBinds(s, h)
  PROVE  /\ b.of \in Services(s) /\ ServiceHost(s, b.of) = {h} /\ Host(s, s.service[b.of].host) = {h}
         /\ \/ b.kind = "target" /\ \E r \in s.service[b.of].routes : b.port = r.target
            \/ b.kind = "health" /\ b.port = s.service[b.of].health /\ b.port # 0
            \/ b.kind = "exposed" /\ \E e \in s.service[b.of].exposed : e.proto = "tcp" /\ b.port = e.port
            \/ b.kind = "mesh" /\ \E m \in s.service[b.of].mesh : b.port = m.port
<1> DEFINE zero == {0}
           targets(n) == {Bind(n, "target", r.target) : r \in s.service[n].routes}
           health(n) == {Bind(n, "health", p) : p \in {s.service[n].health} \ zero}
           exposed(n) == {Bind(n, "exposed", e.port) : e \in {x \in s.service[n].exposed : x.proto = "tcp"}}
           mesh(n) == {Bind(n, "mesh", m.port) : m \in s.service[n].mesh}
<1>1. ServiceBinds(s, h) = UNION {targets(n) \cup health(n) \cup exposed(n) \cup mesh(n) :
                                    n \in {x \in Services(s) : h \in Canonical(s, s.service[x].host)}}
  BY DEF ServiceBinds
<1> HIDE DEF targets, health, exposed, mesh
<1>2. PICK n \in Services(s) : h \in Canonical(s, s.service[n].host)
                               /\ b \in targets(n) \cup health(n) \cup exposed(n) \cup mesh(n)
  BY <1>1
<1>3. ServiceHost(s, n) = {h} /\ Host(s, s.service[n].host) = {h}
  BY <1>2, ServicePlaced
<1>4. CASE b \in targets(n)
  BY <1>3, <1>4 DEF targets, Bind
<1>5. CASE b \in health(n)
  BY <1>3, <1>5 DEF health, Bind
<1>6. CASE b \in exposed(n)
  BY <1>3, <1>6 DEF exposed, Bind
<1>7. CASE b \in mesh(n)
  BY <1>3, <1>7 DEF mesh, Bind
<1> QED BY <1>2, <1>4, <1>5, <1>6, <1>7

(* What validate has checked of every such port. *)
LEMMA BindChecked ==
  ASSUME NEW s, NEW o, NEW pass, Sound(s, o, pass), NEW h, NEW b \in ServiceBinds(s, h)
  PROVE  /\ b.port \in BackendPorts(s.service[b.of]) \ {0}
         /\ TargetUsers(s, h, b.port) \subseteq {b.of}
         /\ PortUsers(s, h, b.port) = {}
         /\ b.kind # "health" => b.port \notin NginxBinds(s, h)
         /\ b.kind # "mesh" => (b.port \in LoopbackRange => ~RunsEdgeNginx(s, h))
         /\ b.port \notin EgressRange
<1> DEFINE n == b.of
           svc == s.service[n]
           H == Host(s, svc.host)
<1>1. /\ n \in Services(s) /\ H = {h}
      /\ \/ b.kind = "target" /\ \E r \in svc.routes : b.port = r.target
         \/ b.kind = "health" /\ b.port = svc.health /\ b.port # 0
         \/ b.kind = "exposed" /\ \E e \in svc.exposed : e.proto = "tcp" /\ b.port = e.port
         \/ b.kind = "mesh" /\ \E m \in svc.mesh : b.port = m.port
  BY BindIs
<1>2. ServiceOK(s, o, pass, tree, n) /\ IsService(svc)
  BY <1>1 DEF Sound, ScopeOK, Services, IsScope
<1> HIDE DEF n
<1>3. CASE b.kind = "target" /\ \E r \in svc.routes : b.port = r.target
  <2>1. PICK r \in svc.routes : b.port = r.target
    BY <1>3
  <2>2. RouteOK(s, n, r)
    BY <1>2 DEF ServiceOK
  <2>3. b.port \in Port /\ svc.ingress # ""
    BY <2>1, <2>2 DEF RouteOK
  <2>4. b.port # 0
    BY <2>3, PortsAreNotZero
  <2>5. b.port \in BackendPorts(svc)
    BY <2>1, <2>3 DEF BackendPorts
  <2>6. /\ FreeOfListens(s, H, b.port) /\ FreeOfNginx(s, H, b.port) /\ FreeOfServices(s, H, n, b.port)
        /\ FreeOfTerminators(s, H, b.port) /\ b.port \notin EgressRange
    BY <2>1, <2>2 DEF RouteOK
  <2> HIDE DEF svc
  <2> QED BY <1>1, <1>3, <2>4, <2>5, <2>6
         DEF FreeOfListens, FreeOfNginx, FreeOfServices, FreeOfTerminators, n, svc
<1>4. CASE b.kind = "health" /\ b.port = svc.health /\ b.port # 0
  <2>1. HealthOK(s, n)
    BY <1>2 DEF ServiceOK
  <2>2. /\ FreeOfListens(s, H, b.port) /\ FreeOfServices(s, H, n, b.port)
        /\ FreeOfTerminators(s, H, b.port) /\ b.port \notin EgressRange
    BY <1>4, <2>1 DEF HealthOK
  <2>3. b.port \in BackendPorts(svc)
    BY <1>4 DEF BackendPorts
  <2> HIDE DEF svc
  <2> QED BY <1>1, <1>4, <2>2, <2>3
         DEF FreeOfListens, FreeOfServices, FreeOfTerminators, n, svc
<1>5. CASE b.kind = "exposed" /\ \E e \in svc.exposed : e.proto = "tcp" /\ b.port = e.port
  <2>1. PICK e \in svc.exposed : e.proto = "tcp" /\ b.port = e.port
    BY <1>5
  <2>2. ExposedOK(s, n, e) /\ IsExposedPort(e)
    BY <1>2 DEF ServiceOK, IsService
  <2>3. b.port # 0
    BY <2>1, <2>2, PortsAreNotZero DEF IsExposedPort
  <2>4. b.port \in BackendPorts(svc)
    BY <2>1 DEF BackendPorts
  <2>5. /\ FreeOfListens(s, H, b.port) /\ FreeOfNginx(s, H, b.port) /\ FreeOfServices(s, H, n, b.port)
        /\ FreeOfTerminators(s, H, b.port) /\ b.port \notin EgressRange
    BY <2>1, <2>2 DEF ExposedOK
  <2> HIDE DEF svc
  <2> QED BY <1>1, <1>5, <2>3, <2>4, <2>5
         DEF FreeOfListens, FreeOfNginx, FreeOfServices, FreeOfTerminators, n, svc
<1>6. CASE b.kind = "mesh" /\ \E m \in svc.mesh : b.port = m.port
  <2>1. PICK m \in svc.mesh : b.port = m.port
    BY <1>6
  <2>2. MeshPortOK(s, n, m)
    BY <1>2 DEF ServiceOK, MeshOK
  <2>3. b.port # 0
    BY <2>1, <2>2, PortsAreNotZero DEF MeshPortOK
  <2>4. b.port \in BackendPorts(svc)
    BY <2>1 DEF BackendPorts
  <2>5. /\ FreeOfListens(s, H, b.port) /\ FreeOfNginx(s, H, b.port) /\ FreeOfServices(s, H, n, b.port)
        /\ b.port \notin EgressRange
    BY <2>1, <2>2 DEF MeshPortOK
  <2> HIDE DEF svc
  <2> QED BY <1>1, <1>6, <2>3, <2>4, <2>5 DEF FreeOfListens, FreeOfNginx, FreeOfServices, n, svc
<1> QED BY <1>1, <1>3, <1>4, <1>5, <1>6

LEMMA BindsApart ==
  ASSUME NEW s, NEW o, NEW pass, Sound(s, o, pass), NEW h,
         NEW b \in ServiceBinds(s, h), NEW d \in ServiceBinds(s, h), b.port = d.port
  PROVE  b.of = d.of /\ b.kind = d.kind
<1>1. b.of = d.of
  <2>1. d.of \in Services(s) /\ h \in ServiceHost(s, d.of) /\ d.port \in BackendPorts(s.service[d.of]) \ {0}
    BY BindIs, BindChecked
  <2>2. d.of \in TargetUsers(s, h, b.port)
    BY <2>1 DEF TargetUsers
  <2> QED BY <2>2, BindChecked
<1> DEFINE n == b.of
           svc == s.service[n]
<1>2. /\ n \in Services(s)
      /\ \/ b.kind = "target" /\ \E r \in svc.routes : b.port = r.target
         \/ b.kind = "health" /\ b.port = svc.health /\ b.port # 0
         \/ b.kind = "exposed" /\ \E e \in svc.exposed : e.proto = "tcp" /\ b.port = e.port
         \/ b.kind = "mesh" /\ \E m \in svc.mesh : b.port = m.port
  BY BindIs
<1>3. \/ d.kind = "target" /\ \E r \in svc.routes : b.port = r.target
      \/ d.kind = "health" /\ b.port = svc.health /\ b.port # 0
      \/ d.kind = "exposed" /\ \E e \in svc.exposed : e.proto = "tcp" /\ b.port = e.port
      \/ d.kind = "mesh" /\ \E m \in svc.mesh : b.port = m.port
  BY <1>1, BindIs
<1> HIDE DEF n
<1>4. ServiceOK(s, o, pass, tree, n)
  BY <1>2 DEF Sound, ScopeOK, Services
<1>5. svc.health # 0 => \A r \in svc.routes : r.target # svc.health
  BY <1>4 DEF ServiceOK, HealthOK
<1>6. \A e \in svc.exposed : e.proto = "tcp" => e.port # svc.health /\ \A r \in svc.routes : r.target # e.port
  BY <1>4 DEF ServiceOK, ExposedOK
<1>7. \A m \in svc.mesh : /\ m.port # svc.health
                          /\ \A r \in svc.routes : m.port # r.target
                          /\ \A e \in svc.exposed : e.proto = "tcp" => m.port # e.port
  BY <1>4 DEF ServiceOK, MeshOK, MeshPortOK
<1> HIDE DEF svc
<1>8. b.kind = d.kind
  BY <1>2, <1>3, <1>5, <1>6, <1>7
<1> QED BY <1>1, <1>8

(* The loopback terminators stay in their range, on a host of an ingress. *)
LEMMA TerminatorsAre ==
  ASSUME TreeInv, accepted, NEW sc, NEW h,
         Cardinality(MixedListens(Edge(sc, h))) <= MaxMixedPorts, NEW t \in Terminators(Edge(sc, h))
  PROVE  t \in LoopbackRange /\ RunsEdgeNginx(ResourcesOf(sc), h)
<1> DEFINE s == ResourcesOf(sc)
           c == Edge(sc, h)
           listens(p) == \E is \in ResolveIngressServices(s) :
                           is.ingHost = h /\ \E r \in s.service[is.service].routes : p = r.listen
           M == MixedListens(c)
<1>1. Sound(s, OtherOf(sc), PassOf(sc))
  BY ScopesSound
<1>2. ASSUME NEW e \in c.routes PROVE listens(e.listen)
  BY EdgeParts DEF IngressRoutesByHost
<1>3. /\ IsFiniteSet(M)
      /\ M # {} => RunsEdgeNginx(s, h)
  <2> DEFINE R == RoutesAt(s, h)
             f == [nr \in R |-> nr[2].listen]
  <2>1. \A p \in M : listens(p)
    BY <1>2 DEF MixedListens, Forwards
  <2>2. \A p \in M : \E nr \in R : p = nr[2].listen
    <3> SUFFICES ASSUME NEW p \in M PROVE \E nr \in R : p = nr[2].listen
      OBVIOUS
    <3>1. PICK is \in ResolveIngressServices(s) :
            is.ingHost = h /\ \E r \in s.service[is.service].routes : p = r.listen
      BY <2>1
    <3>2. PICK r \in s.service[is.service].routes : p = r.listen
      BY <3>1
    <3>3. <<is.service, r>> \in R
      BY <1>1, <3>1, RenderedRoute
    <3> QED BY <3>2, <3>3
  <2>3. IsFiniteSet(R)
    BY <1>1, RoutesFinite
  <2>4. DOMAIN f = R /\ IsFunction(f) /\ \A nr \in R : f[nr] = nr[2].listen
    BY DEF IsFunction
  <2> HIDE DEF f, R
  <2>5. IsFiniteSet({f[nr] : nr \in R})
    BY <2>3, <2>4, FiniteImage
  <2>6. M \subseteq {f[nr] : nr \in R}
    BY <2>2, <2>4
  <2>7. IsFiniteSet(M)
    BY <2>5, <2>6, FS_Subset
  <2>8. ASSUME M # {} PROVE RunsEdgeNginx(s, h)
    <3>1. PICK is \in ResolveIngressServices(s) : is.ingHost = h
      BY <2>1, <2>8
    <3>2. s.service[is.service].ingress \in IngressesAt(s, h)
      BY <1>1, <3>1, BehindIngress DEF IngressesAt
    <3> QED BY <3>2 DEF RunsEdgeNginx
  <2> QED BY <2>7, <2>8
<1>4. PICK i \in 1 .. Cardinality(M) : t = LoopbackBase + i - 1
  BY DEF Terminators
<1>5. Cardinality(M) \in Nat /\ Cardinality(M) # 0
  BY <1>3, <1>4, FS_CardinalityType
<1>6. M # {}
  BY <1>5, FS_EmptySet
<1>7. Cardinality(M) <= MaxMixedPorts
  OBVIOUS
<1> HIDE DEF M
<1> QED BY <1>3, <1>4, <1>5, <1>6, <1>7, PortRanges

(* The sockets of a host's nginx, as validate accounts for them. *)
LEMMA SocketIs ==
  ASSUME TreeInv, accepted, NEW sc, NEW h, NEW x \in EdgeSockets(Edge(sc, h))
  PROVE  LET s == ResourcesOf(sc) IN
         \/ x.port \in Terminators(Edge(sc, h))
         \/ x.port = GatewayHTTPPort /\ x.port \in NginxBinds(s, h)
         \/ \E is \in ResolveIngressServices(s) :
              is.ingHost = h /\ \E r \in s.service[is.service].routes : x.port = r.listen
         \/ x.port \in {80, 443} /\ x.port \in NginxBinds(s, h)
         \/ Edge(sc, h).health # {} /\ x.port = HealthPort(s, h)
<1> DEFINE s == ResourcesOf(sc)
           c == Edge(sc, h)
           listens(p) == \E is \in ResolveIngressServices(s) :
                           is.ingHost = h /\ \E r \in s.service[is.service].routes : p = r.listen
<1>1. Sound(s, OtherOf(sc), PassOf(sc))
  BY ScopesSound
<1>2. ASSUME NEW e \in c.routes PROVE listens(e.listen)
  BY EdgeParts DEF IngressRoutesByHost
<1>3. c.apps # {} => h \in AppHosts(s)
  <2> SUFFICES ASSUME c.apps # {} PROVE h \in AppHosts(s)
    OBVIOUS
  <2>1. PICK a \in DOMAIN s.app : h \in IngressHostsByName(s, s.app[a].ingress)
    BY EdgeParts DEF IngressAppsByHost, ResolveIngressApps
  <2> QED BY <1>1, <2>1, IngressPlaced DEF AppHosts
<1>4. c.terminations # {} => h \in GatewayIngressHosts(s)
  <2> SUFFICES ASSUME c.terminations # {} PROVE h \in GatewayIngressHosts(s)
    OBVIOUS
  <2>1. PICK rg \in ResolveGateways(s) : rg.ingHost = h
    BY EdgeParts DEF GatewayTerminations
  <2>2. /\ rg.gateway \in DOMAIN s.gateway /\ Host(s, s.gateway[rg.gateway].host) # {}
        /\ h \in IngressHost(s, s.gateway[rg.gateway].ingress)
    BY <1>1, <2>1, BehindGateway
  <2> QED BY <2>2 DEF GatewayIngressHosts
<1>5. c.routings # {} => h \in GatewayHosts(s)
  <2> SUFFICES ASSUME c.routings # {} PROVE h \in GatewayHosts(s)
    OBVIOUS
  <2>1. PICK rg \in ResolveGateways(s) : rg.host = h
    BY EdgeParts DEF GatewayRoutings
  <2>2. rg.gateway \in DOMAIN s.gateway /\ h \in Host(s, s.gateway[rg.gateway].host)
    BY <1>1, <2>1, BehindGateway
  <2> QED BY <2>2 DEF GatewayHosts
<1>6. Terminating(c) => TLSTerminates(s, h)
  BY <1>1, TerminatesTLS DEF Edge
<1>7. c.healthPort = HealthPort(s, h) /\ c.host = h
  BY EdgeParts
<1> HIDE DEF c
<1>8. \/ x.port \in Terminators(c)
      \/ c.routings # {} /\ x.port = GatewayHTTPPort
      \/ \E e \in c.routes : x.port = e.listen
      \/ x.port = 443 /\ (c.apps # {} \/ c.terminations # {})
      \/ c.health # {} /\ x.port = c.healthPort
      \/ Terminating(c) /\ x.port = 80
  <2>1. x \in HTTPSockets(c) \/ x \in StreamSockets(c)
    BY DEF EdgeSockets, c
  <2> QED BY <2>1 DEF HTTPSockets, StreamSockets, TLSListens, Terminates, Forwards, Socket, Terminators
<1>9. CASE x.port \in Terminators(c)
  BY <1>9 DEF c
<1>10. CASE c.routings # {} /\ x.port = GatewayHTTPPort
  BY <1>5, <1>10 DEF NginxBinds, ImplicitBinds
<1>11. CASE \E e \in c.routes : x.port = e.listen
  BY <1>2, <1>11 DEF c
<1>12. CASE x.port = 443 /\ (c.apps # {} \/ c.terminations # {})
  BY <1>3, <1>4, <1>12 DEF NginxBinds, ImplicitBinds, c
<1>13. CASE c.health # {} /\ x.port = c.healthPort
  BY <1>7, <1>13 DEF c
<1>14. CASE Terminating(c) /\ x.port = 80
  BY <1>6, <1>14 DEF NginxBinds, ImplicitBinds, c
<1> QED BY <1>8, <1>9, <1>10, <1>11, <1>12, <1>13, <1>14

(* A scope has one gateway at most, and one ingress. *)
LEMMA OneGateway ==
  ASSUME NEW s, NEW o, NEW pass, Sound(s, o, pass), NEW g \in DOMAIN s.gateway, NEW k \in DOMAIN s.gateway
  PROVE  g = k
<1>1. IsFiniteSet(DOMAIN s.gateway) /\ Cardinality(DOMAIN s.gateway) = 1
  BY DEF Sound, IsScope, ScopeOK, GatewayOK
<1>2. PICK x : DOMAIN s.gateway = {x}
  BY <1>1, FS_Singleton
<1> QED BY <1>2

(* The health listener of an ingress's host is at the ingress's port. *)
LEMMA HealthPortOfFront ==
  ASSUME TreeInv, accepted, NEW sc, NEW h, NEW i \in DOMAIN ResourcesOf(sc).ingress,
         h \in IngressHost(ResourcesOf(sc), i)
  PROVE  HealthPort(ResourcesOf(sc), h) = ResourcesOf(sc).ingress[i].health
<1> DEFINE s == ResourcesOf(sc)
           p == HealthPort(s, h)
<1>1. Sound(s, OtherOf(sc), PassOf(sc))
  BY ScopesSound
<1>2. CASE p \in GatewayHealthPorts(s, h)
  <2>1. PICK g \in DOMAIN s.gateway : p = s.gateway[g].health /\ IngressHost(s, s.gateway[g].ingress) = {h}
    BY <1>2, HealthPortOfGateway
  <2>2. GatewayOK(s, g) /\ i \in IngressesAt(s, h)
    BY <1>1 DEF Sound, ScopeOK, IngressesAt
  <2> QED BY <2>1, <2>2 DEF GatewayOK, GatewayHealthOK
<1>3. CASE p \in IngressHealthPorts(s, h)
  <2>1. PICK j \in IngressesAt(s, h) : p = s.ingress[j].health
    BY <1>3, HealthPortOfIngress
  <2>2. IsFiniteSet(DOMAIN s.ingress) /\ Cardinality(DOMAIN s.ingress) = 1
    BY <1>1 DEF Sound, IsScope, ScopeOK, IngressOK
  <2>3. PICK x : DOMAIN s.ingress = {x}
    BY <2>2, FS_Singleton
  <2> QED BY <2>1, <2>3 DEF IngressesAt
<1>4. IngressHealthPorts(s, h) # {}
  <2>1. h \in IngressHostsByName(s, i)
    BY <1>1, IngressPlaced
  <2>2. EffectiveHealthProbesPort(s.ingress[i]) \in IngressHealthPorts(s, h)
    BY <2>1 DEF IngressHealthPorts
  <2> QED BY <2>2
<1> QED BY <1>2, <1>3, <1>4, HealthPortIs

(* Where validate looks for the health listener, unless it is moved. *)
LEMMA HealthListenerBound ==
  ASSUME TreeInv, accepted, NEW sc, NEW h, Edge(sc, h).health # {}
  PROVE  \/ HealthPort(ResourcesOf(sc), h) \in NginxBinds(ResourcesOf(sc), h)
         \/ HealthPort(ResourcesOf(sc), h) \in HealthMovedTo(sc, h)
<1> DEFINE s == ResourcesOf(sc)
           I == IngressHealthByHost(s, h, Env, SlugOf(sc))
           G == GatewayHealthByHost(s, h, Env, SlugOf(sc))
<1>1. Sound(s, OtherOf(sc), PassOf(sc))
  BY ScopesSound
<1>2. CASE I # {}
  <2>1. PICK is \in ResolveIngressServices(s) : is.ingHost = h /\ s.service[is.service].health # 0
    BY <1>2 DEF IngressHealthByHost
  <2> DEFINE n == is.service
  <2>2. /\ n \in Services(s) /\ s.service[n].ingress \in DOMAIN s.ingress
        /\ h \in IngressHost(s, s.service[n].ingress)
    BY <1>1, <2>1, BehindIngress
  <2>3. HealthPort(s, h) = s.ingress[s.service[n].ingress].health
    BY <2>2, HealthPortOfFront
  <2>4. s.service[n].health # 0
    BY <2>1
  <2> HIDE DEF n, s
  <2> QED BY <2>2, <2>3, <2>4 DEF HealthBinds, NginxBinds, s
<1>3. CASE I = {} /\ h \in GatewayHosts(s)
  <2>1. G # {}
    BY <1>3, EdgeParts
  <2>2. PICK gs \in ResolveGatewayHealthServices(s) : gs.gwHost = h
    BY <2>1 DEF GatewayHealthByHost
  <2>3. GatewayHealthPorts(s, h) # {}
    BY <2>2 DEF GatewayHealthPorts
  <2>4. PICK g \in DOMAIN s.gateway : HealthPort(s, h) = s.gateway[g].health
    <3>1. HealthPort(s, h) \in GatewayHealthPorts(s, h)
      BY <2>3 DEF HealthPort
    <3> QED BY <3>1, HealthPortOfGateway
  <2>5. h \in Host(s, s.gateway[g].host)
    BY <1>1, <1>3, OneGateway DEF GatewayHosts
  <2>6. /\ gs.service \in ListedByGateway(s) \cap Services(s)
        /\ s.service[gs.service].health # 0 /\ s.service[gs.service].ingress = ""
    BY <1>1, <2>2, ProbedByGateway DEF ListedByGateway, Services
  <2> HIDE DEF s
  <2> QED BY <2>4, <2>5, <2>6 DEF HealthBinds, NginxBinds, s
<1>4. CASE I = {} /\ h \notin GatewayHosts(s)
  <2>1. G # {}
    BY <1>4, EdgeParts
  <2> QED BY <1>4, <2>1 DEF HealthMovedTo
<1> QED BY <1>2, <1>3, <1>4

LEMMA BindsMissNginx ==
  ASSUME TreeInv, accepted, NEW sc, NEW h, Cardinality(MixedListens(Edge(sc, h))) <= MaxMixedPorts,
         NEW b \in ServiceBinds(ResourcesOf(sc), h)
  PROVE  MissesNginx(sc, h, b)
<1> DEFINE s == ResourcesOf(sc)
           c == Edge(sc, h)
           held == PortsOf(EdgeSockets(c))
           T == Terminators(c)
           I == IngressHealthByHost(s, h, Env, SlugOf(sc))
           G == GatewayHealthByHost(s, h, Env, SlugOf(sc))
           entry(entries) == \E e \in entries : e.service = b.of /\ e.peer = h
           n == b.of
           svc == s.service[n]
<1>1. Sound(s, OtherOf(sc), PassOf(sc))
  BY ScopesSound
<1>2. /\ PortUsers(s, h, b.port) = {}
      /\ b.kind # "health" => b.port \notin NginxBinds(s, h)
      /\ b.kind # "mesh" => (b.port \in LoopbackRange => ~RunsEdgeNginx(s, h))
  BY <1>1, BindChecked
<1>3. ASSUME NEW is \in ResolveIngressServices(s), is.ingHost = h, NEW r \in s.service[is.service].routes
      PROVE  b.port # r.listen
  <2>1. <<is.service, r>> \in PortUsers(s, h, r.listen)
    BY <1>1, <1>3, RenderedRoute
  <2> QED BY <1>2, <2>1
<1>4. ASSUME b.kind # "mesh" PROVE b.port \notin T
  BY <1>2, <1>4, TerminatorsAre
<1>5. c.healthPort = HealthPort(s, h)
  BY EdgeParts
<1>6. ASSUME b.kind # "health" PROVE b.port \notin held \ (HealthMovedTo(sc, h) \cup T)
  <2>1. ASSUME NEW x \in EdgeSockets(c), x.port = b.port, x.port \notin HealthMovedTo(sc, h), x.port \notin T
        PROVE  FALSE
    <3>1. b.port \notin NginxBinds(s, h)
      BY <1>2, <1>6
    <3>2. ~ (c.health # {} /\ x.port = HealthPort(s, h))
      BY <2>1, <3>1, HealthListenerBound
    <3> QED BY <1>3, <2>1, <3>1, <3>2, SocketIs
  <2> HIDE DEF c, T
  <2> QED BY <2>1 DEF PortsOf
<1>7. ASSUME b.kind = "health"
      PROVE  /\ n \in Services(s) /\ Host(s, svc.host) = {h}
             /\ b.port = svc.health /\ b.port # 0 /\ HealthOK(s, n)
  <2>1. n \in Services(s) /\ Host(s, svc.host) = {h} /\ b.port = svc.health /\ b.port # 0
    <3>1. /\ n \in Services(s) /\ Host(s, svc.host) = {h}
          /\ \/ b.kind = "target" \/ b.kind = "exposed" \/ b.kind = "mesh"
             \/ b.kind = "health" /\ b.port = svc.health /\ b.port # 0
      BY <1>1, BindIs
    <3> HIDE DEF svc, n
    <3> QED BY <1>7, <3>1
  <2> QED BY <1>1, <2>1 DEF Sound, ScopeOK, ServiceOK, Services
<1>8. ASSUME b.kind = "health", NEW r \in c.routes PROVE b.port # r.listen
  <2>1. \E is \in ResolveIngressServices(s) :
          is.ingHost = h /\ \E q \in s.service[is.service].routes : r.listen = q.listen
    BY <1>8, EdgeParts DEF IngressRoutesByHost
  <2> QED BY <1>3, <2>1
<1>9. ASSUME b.kind = "health", entry(I) PROVE b.port # c.healthPort
  <2>1. PICK is \in ResolveIngressServices(s) : is.ingHost = h /\ is.service = n
    BY <1>9 DEF IngressHealthByHost, HealthEntry
  <2>2. svc.ingress \in DOMAIN s.ingress /\ IngressHost(s, svc.ingress) = {h}
    BY <1>1, <2>1, BehindIngress
  <2>3. CoLocated(s, svc)
    BY <1>7, <1>9, <2>2 DEF CoLocated
  <2>4. b.port # s.ingress[svc.ingress].health
    BY <1>7, <1>9, <2>3 DEF HealthOK
  <2>5. HealthPort(s, h) = s.ingress[svc.ingress].health
    BY <2>2, HealthPortOfFront
  <2> QED BY <1>5, <2>4, <2>5
<1>10. ASSUME b.kind = "health", entry(G), h \in GatewayHosts(s)
       PROVE  b.port \notin held \ {GatewayHTTPPort}
  <2>1. PICK gs \in ResolveGatewayHealthServices(s) : gs.gwHost = h /\ gs.service = n
    BY <1>10 DEF GatewayHealthByHost, HealthEntry
  <2>2. svc.ingress = "" /\ n \in ListedByGateway(s)
    BY <1>1, <2>1, ProbedByGateway
  <2>3. b.port \notin {80, 443} /\ \A g \in DOMAIN s.gateway : b.port # s.gateway[g].health
    <3>1. Host(s, svc.host) \cap GatewayHosts(s) # {}
      BY <1>7, <1>10
    <3>2. svc.health # 0 /\ b.port = svc.health /\ HealthOK(s, n)
      BY <1>7, <1>10
    <3> HIDE DEF s
    <3>3. svc.health \notin {80, 443} \cup {s.gateway[g].health : g \in DOMAIN s.gateway}
      BY <2>2, <3>1, <3>2 DEF HealthOK
    <3> QED BY <3>2, <3>3
  <2>4. HealthPort(s, h) \in GatewayHealthPorts(s, h)
    BY <2>1 DEF HealthPort, GatewayHealthPorts
  <2>5. b.port # HealthPort(s, h)
    BY <2>3, <2>4, HealthPortOfGateway
  <2>6. ASSUME NEW x \in EdgeSockets(c), x.port = b.port, x.port # GatewayHTTPPort
        PROVE  FALSE
    BY <1>3, <1>4, <1>10, <2>3, <2>5, <2>6, SocketIs
  <2> HIDE DEF c
  <2> QED BY <2>6 DEF PortsOf
<1> HIDE DEF c, held, T, I, G, s
<1>11. b.kind \in {"target", "exposed"} => b.port \notin held \ HealthMovedTo(sc, h)
  BY <1>4, <1>6
<1> QED BY <1>6, <1>8, <1>4, <1>9, <1>10, <1>11 DEF MissesNginx, c, held, T, I, G, s

LEMMA EgressMissesNginx ==
  ASSUME TreeInv, accepted, NEW sc, NEW h, Cardinality(MixedListens(Edge(sc, h))) <= MaxMixedPorts,
         RunsMeshProxy(ResourcesOf(sc), h), NEW x \in EdgeSockets(Edge(sc, h))
  PROVE  x.port \notin EgressRange
<1> DEFINE s == ResourcesOf(sc)
<1>1. Sound(s, OtherOf(sc), PassOf(sc))
  BY ScopesSound
<1>2. ASSUME NEW is \in ResolveIngressServices(s), is.ingHost = h, NEW r \in s.service[is.service].routes
      PROVE  r.listen \notin EgressRange
  <2>1. RouteOK(s, is.service, r) /\ IngressHost(s, s.service[is.service].ingress) = {h}
    BY <1>1, <1>2, RenderedRoute
  <2> QED BY <2>1 DEF RouteOK
<1>3. HealthPort(s, h) \notin EgressRange
  <2>1. CASE HealthPort(s, h) \in GatewayHealthPorts(s, h)
    <3>1. PICK g \in DOMAIN s.gateway : HealthPort(s, h) = s.gateway[g].health
      BY <2>1, HealthPortOfGateway
    <3>2. GatewayOK(s, g)
      BY <1>1 DEF Sound, ScopeOK
    <3>3. GatewayHealthOK(s, g)
      BY <3>2 DEF GatewayOK
    <3> QED BY <3>1, <3>3 DEF GatewayHealthOK
  <2>2. CASE HealthPort(s, h) \in IngressHealthPorts(s, h)
    <3>1. PICK i \in IngressesAt(s, h) : HealthPort(s, h) = s.ingress[i].health
      BY <2>2, HealthPortOfIngress
    <3>2. i \in DOMAIN s.ingress /\ h \in IngressHost(s, i)
      BY <3>1 DEF IngressesAt
    <3> QED BY <1>1, <3>1, <3>2 DEF Sound, ScopeOK, IngressOK
  <2>3. CASE GatewayHealthPorts(s, h) = {} /\ IngressHealthPorts(s, h) = {}
    <3>1. HealthPort(s, h) = DefaultHealthProbesPort
      BY <2>3 DEF HealthPort
    <3> QED BY <3>1, PortRanges
  <2> QED BY <2>1, <2>2, <2>3, HealthPortIs
<1>4. \A t \in Terminators(Edge(sc, h)) : t \in LoopbackRange
  BY TerminatorsAre
<1> QED BY <1>2, <1>3, <1>4, SocketIs, PortRanges

LEMMA ClustersKeepTheirPorts ==
  ASSUME NEW s, NEW o, NEW pass, Sound(s, o, pass), NEW h, Cardinality(ClustersAt(s, h)) <= 32,
         NEW b \in ServiceBinds(s, h), NEW x \in ClusterPorts(s, h)
  PROVE  x.port # b.port
<1> DEFINE svc == s.service[b.of]
<1>1. b.port \in BackendPorts(svc)
  BY BindChecked
<1>2. b.of \in Services(s) /\ Host(s, svc.host) = {h}
  BY BindIs
<1>3. x.port \in PostgresRange /\ h \in ClusterHosts(s)
  BY PostmasterPorts
<1>4. PostgresRangeOK(s, b.of)
  BY <1>2 DEF Sound, ScopeOK, Services, ServiceOK
<1> QED BY <1>1, <1>2, <1>3, <1>4 DEF PostgresRangeOK

(* What validate does not count: members and clusters of a host. *)
FewMeshed ==
  \A sc \in Scopes : \A h \in Instances(ResourcesOf(sc)) :
    Cardinality(ServicesByHost(ResourcesOf(sc), h)) <= MaxServices

FewClusters ==
  \A sc \in Scopes : \A h \in Instances(ResourcesOf(sc)) :
    Cardinality(ClustersAt(ResourcesOf(sc), h)) <= 32

(* On a host no two ports of services, no port of a service or of nginx and
   an egress port of the mesh proxy, and no port of a service and a
   postmaster's are the same, and services miss the sockets of nginx that
   MissesNginx names, the health listener where validate registers it among
   them (validate.go:1138-1187 and 1926-2312 against nginx/config.go,
   program/mesh.go:98-176 and program/dbcluster.go:18-47), if the host has at
   most MaxServices mesh members, 32 clusters and MaxMixedPorts mixed ports:
   as many as their ranges have ports. *)
THEOREM BindsAreExclusive == Spec => [](FewMeshed /\ FewClusters /\ FewMixed => BindsExclusive)
<1>1. TreeInv => (FewMeshed /\ FewClusters /\ FewMixed => BindsExclusive)
  <2> SUFFICES ASSUME TreeInv, FewMeshed, FewClusters, FewMixed
               PROVE  BindsExclusive
    OBVIOUS
  <2>1. ASSUME accepted, NEW sc \in Scopes, NEW h \in Instances(ResourcesOf(sc))
        PROVE  LET s == ResourcesOf(sc)
                   binds == ServiceBinds(s, h)
                   egress == PortsOf(MeshEgress(s, h))
               IN /\ \A b, d \in binds : b.port = d.port => b.of = d.of /\ b.kind = d.kind
                  /\ \A b \in binds : /\ b.port \notin egress \cup PortsOf(ClusterPorts(s, h))
                                      /\ MissesNginx(sc, h, b)
                  /\ PortsOf(EdgeSockets(Edge(sc, h))) \cap egress = {}
    <3> DEFINE s == ResourcesOf(sc)
               binds == ServiceBinds(s, h)
               egress == PortsOf(MeshEgress(s, h))
    <3>1. Sound(s, OtherOf(sc), PassOf(sc))
      BY <2>1, ScopesSound
    <3>2. /\ Cardinality(MixedListens(Edge(sc, h))) <= MaxMixedPorts
          /\ Cardinality(ServicesByHost(s, h)) <= MaxServices
          /\ Cardinality(ClustersAt(s, h)) <= 32
      BY <2>1 DEF FewMeshed, FewClusters, FewMixed
    <3>3. \A p \in egress : p \in EgressRange /\ RunsMeshProxy(s, h)
      BY <3>1, <3>2, EgressPorts DEF PortsOf
    <3>4. ASSUME NEW b \in binds, NEW d \in binds, b.port = d.port
          PROVE  b.of = d.of /\ b.kind = d.kind
      BY <3>1, <3>4, BindsApart
    <3>5. ASSUME NEW b \in binds
          PROVE  b.port \notin egress \cup PortsOf(ClusterPorts(s, h))
      <4>1. b.port \notin egress
        BY <3>1, <3>3, <3>5, BindChecked
      <4>2. ASSUME NEW x \in ClusterPorts(s, h), x.port = b.port
            PROVE  FALSE
        BY <3>1, <3>2, <4>2, ClustersKeepTheirPorts
      <4> QED BY <4>1, <4>2 DEF PortsOf
    <3>6. ASSUME NEW b \in binds
          PROVE  MissesNginx(sc, h, b)
      BY <2>1, <3>2, <3>6, BindsMissNginx
    <3>7. PortsOf(EdgeSockets(Edge(sc, h))) \cap egress = {}
      <4>1. ASSUME NEW x \in EdgeSockets(Edge(sc, h)), x.port \in egress
            PROVE  FALSE
        <5>1. x.port \in EgressRange /\ RunsMeshProxy(s, h)
          BY <3>3, <4>1
        <5> QED BY <2>1, <3>2, <5>1, EgressMissesNginx
      <4> HIDE DEF egress
      <4> QED BY <4>1 DEF PortsOf
    <3> HIDE DEF s
    <3> QED BY <3>4, <3>5, <3>6, <3>7 DEF s
  <2> QED BY <2>1 DEF BindsExclusive
<1> QED BY <1>1, TreeCorrect, PTL

-----------------------------------------------------------------------------
(* Path globs: the walk over two segments misses no string they share.      *)

(* Recursion over rounds and induction on the length of a string are both   *)
(* by least counterexample.                                                 *)

LEMMA LeastNumber ==
  ASSUME NEW S \in SUBSET Nat, S # {}
  PROVE  \E m \in S : \A n \in S : m <= n
<1>1. PICK m \in S : \A n \in S : ~(<<n, m>> \in OpToRel(<, Nat))
  BY NatLessThanWellFounded, WFMin
<1>2. \A n \in S : ~(n < m)
  BY <1>1, Zenon DEF OpToRel
<1> QED BY <1>2

(* The places the walk has seen after k rounds are defined by those before. *)
LEMMA SeenRounds ==
  ASSUME NEW a, NEW b, Rounds(a, b) \in Nat
  PROVE  /\ Seen(a, b)[0] = {<<At(1), At(1)>>}
         /\ \A k \in 1 .. Rounds(a, b) :
              Seen(a, b)[k] = Seen(a, b)[k - 1] \cup UNION {Moves(a, b, s) : s \in Seen(a, b)[k - 1]}
<1> DEFINE K == Rounds(a, b)
           After(known) == known \cup UNION {Moves(a, b, s) : s \in known}
           Stages(f, n) == f = [k \in 0 .. n |-> IF k = 0 THEN {<<At(1), At(1)>>} ELSE After(f[k - 1])]
           none == {n \in Nat : ~ \E f : Stages(f, n)}
<1>1. Seen(a, b) = CHOOSE f : Stages(f, K)
  BY DEF Seen
<1> HIDE DEF After
<1>2. none = {}
  <2> SUFFICES ASSUME none # {} PROVE FALSE
    OBVIOUS
  <2>1. PICK n \in none : \A m \in none : n <= m
    BY LeastNumber
  <2>2. n # 0
    <3> DEFINE f == [k \in 0 .. 0 |-> {<<At(1), At(1)>>}]
    <3>1. Stages(f, 0)
      OBVIOUS
    <3> QED BY <2>1, <3>1
  <2>3. n - 1 \in Nat /\ n - 1 \notin none
    <3>1. n \in Nat
      OBVIOUS
    <3> HIDE DEF none
    <3> QED BY <2>1, <2>2, <3>1
  <2>4. PICK f : Stages(f, n - 1)
    BY <2>3
  <2> DEFINE g == [k \in 0 .. n |-> IF k = n THEN After(f[n - 1]) ELSE f[k]]
  <2>5. ASSUME NEW k \in 0 .. n
        PROVE  g[k] = IF k = 0 THEN {<<At(1), At(1)>>} ELSE After(g[k - 1])
    <3>1. CASE k = n
      <4>1. g[n] = After(f[n - 1]) /\ n - 1 \in 0 .. n /\ n - 1 # n
        BY <2>2, <2>3
      <4>2. g[n - 1] = f[n - 1]
        BY <4>1
      <4> QED BY <2>2, <3>1, <4>1, <4>2
    <3>2. CASE k # n
      <4>1. k \in 0 .. n - 1 /\ g[k] = f[k]
        BY <2>3, <3>2
      <4>2. k # 0 => k - 1 \in 0 .. n /\ k - 1 # n /\ g[k - 1] = f[k - 1]
        BY <2>3, <4>1
      <4>3. f[k] = IF k = 0 THEN {<<At(1), At(1)>>} ELSE After(f[k - 1])
        BY <2>4, <4>1
      <4> QED BY <4>1, <4>2, <4>3
    <3> QED BY <3>1, <3>2
  <2>6. Stages(g, n)
    BY <2>5
  <2> QED BY <2>1, <2>6
<1>3. \E f : Stages(f, K)
  BY <1>2
<1>4. Stages(Seen(a, b), K)
  BY <1>1, <1>3
<1> QED BY <1>4 DEF After

(* How far a place is, and a place of both sides. *)
Score(x) == 2 * x.at + (IF x.loop THEN 1 ELSE 0)
Rank(s) == Score(s[1]) + Score(s[2]) - 4

(* A place seen stays seen. *)
LEMMA SeenStays ==
  ASSUME NEW a, NEW b, Rounds(a, b) \in Nat, NEW k \in 0 .. Rounds(a, b), NEW l \in k .. Rounds(a, b)
  PROVE  Seen(a, b)[k] \subseteq Seen(a, b)[l]
<1> DEFINE seen(n) == Seen(a, b)[n]
           lost == {n \in Nat : n >= k /\ n <= Rounds(a, b) /\ ~(seen(k) \subseteq seen(n))}
<1>1. ASSUME NEW n \in 1 .. Rounds(a, b)
      PROVE  seen(n - 1) \subseteq seen(n)
  BY <1>1, SeenRounds
<1> HIDE DEF seen
<1>2. lost = {}
  <2> SUFFICES ASSUME lost # {} PROVE FALSE
    OBVIOUS
  <2>1. PICK n \in lost : \A m \in lost : n <= m
    BY LeastNumber
  <2>2. n \in Nat /\ n >= k /\ n <= Rounds(a, b) /\ ~(seen(k) \subseteq seen(n)) /\ n # k
    OBVIOUS
  <2>3. n - 1 \in Nat /\ n - 1 \notin lost
    <3> HIDE DEF lost
    <3> QED BY <2>1, <2>2
  <2>4. seen(k) \subseteq seen(n - 1)
    BY <2>2, <2>3
  <2> QED BY <1>1, <2>2, <2>4
<1> QED BY <1>2 DEF seen

(* A move that gets further is made in the round of its rank at the latest. *)
LEMMA SeenMoves ==
  ASSUME NEW a, NEW b, Rounds(a, b) \in Nat, NEW s, NEW t \in Moves(a, b, s),
         Rank(s) \in Nat, Rank(t) \in Nat, Rank(s) < Rank(t), Rank(t) <= Rounds(a, b),
         s \in Seen(a, b)[Rank(s)]
  PROVE  t \in Seen(a, b)[Rank(t)]
<1>1. s \in Seen(a, b)[Rank(t) - 1]
  <2>1. Rank(s) \in 0 .. Rounds(a, b) /\ Rank(t) - 1 \in Rank(s) .. Rounds(a, b)
    OBVIOUS
  <2> QED BY <2>1, SeenStays
<1>2. Rank(t) \in 1 .. Rounds(a, b)
  OBVIOUS
<1> HIDE DEF Rank
<1> QED BY <1>1, <1>2, SeenRounds

(* by says which element of seg takes each character of str. *)
Covers(by, seg, str) ==
  /\ by \in [DOMAIN str -> DOMAIN seg]
  /\ \A j \in DOMAIN str : seg[by[j]] \in {"*", str[j]}
  /\ \A j, k \in DOMAIN str : j < k => /\ by[j] <= by[k]
                                       /\ (by[j] = by[k] => seg[by[j]] = "*")
  /\ \A i \in DOMAIN seg : \E j \in DOMAIN str : by[j] = i

(* Where one side stands before the j-th character. *)
Place(by, seg, str, j) ==
  IF j > Len(str) THEN At(Len(seg) + 1)
  ELSE IF j > 1 /\ by[j - 1] = by[j] THEN Looping(by[j])
  ELSE At(by[j])

LEMMA Lists ==
  ASSUME NEW s, IsList(s)
  PROVE  Len(s) \in Nat /\ DOMAIN s = 1 .. Len(s)
  BY DEF IsList

LEMMA PlaceStarts ==
  ASSUME NEW seg, NEW str, IsList(seg), IsList(str), NEW by, Covers(by, seg, str)
  PROVE  Place(by, seg, str, 1) = At(1)
<1>1. Len(seg) \in Nat /\ DOMAIN seg = 1 .. Len(seg) /\ Len(str) \in Nat /\ DOMAIN str = 1 .. Len(str)
  BY Lists
<1>2. CASE Len(str) = 0
  <2>1. Len(seg) = 0
    BY <1>1, <1>2 DEF Covers
  <2> QED BY <1>1, <1>2, <2>1 DEF Place
<1>3. CASE Len(str) # 0
  <2>1. 1 \in DOMAIN str /\ by[1] \in 1 .. Len(seg)
    BY <1>1, <1>3 DEF Covers
  <2>2. PICK j \in DOMAIN str : by[j] = 1
    BY <1>1, <2>1 DEF Covers
  <2>3. by[1] = 1
    BY <1>1, <2>1, <2>2 DEF Covers
  <2> QED BY <1>1, <1>3, <2>3 DEF Place
<1> QED BY <1>2, <1>3

(* One element after another takes a character. *)
LEMMA NextTaker ==
  ASSUME NEW seg, NEW str, IsList(seg), IsList(str), NEW by, Covers(by, seg, str), NEW j \in DOMAIN str
  PROVE  /\ by[j] \in 1 .. Len(seg)
         /\ j = Len(str) => by[j] = Len(seg)
         /\ j # Len(str) => /\ j + 1 \in DOMAIN str
                            /\ by[j + 1] = by[j] \/ by[j + 1] = by[j] + 1
                            /\ by[j + 1] = by[j] => seg[by[j]] = "*"
<1>1. Len(seg) \in Nat /\ DOMAIN seg = 1 .. Len(seg) /\ Len(str) \in Nat /\ DOMAIN str = 1 .. Len(str)
  BY Lists
<1>2. by[j] \in 1 .. Len(seg) /\ j \in 1 .. Len(str)
  BY <1>1 DEF Covers
<1>3. ASSUME by[j] # Len(seg)
      PROVE  /\ j + 1 \in DOMAIN str
             /\ by[j + 1] <= by[j] + 1
  <2>1. by[j] + 1 \in DOMAIN seg
    BY <1>1, <1>2, <1>3
  <2>2. PICK k \in DOMAIN str : by[k] = by[j] + 1
    BY <2>1 DEF Covers
  <2>3. k > j
    BY <1>1, <1>2, <2>2 DEF Covers
  <2>4. j + 1 \in DOMAIN str /\ by[j + 1] \in 1 .. Len(seg)
    BY <1>1, <1>2, <2>3 DEF Covers
  <2>5. k = j + 1 \/ j + 1 < k
    BY <1>1, <1>2, <2>3
  <2>6. j + 1 < k => by[j + 1] <= by[k]
    BY <2>4 DEF Covers
  <2> QED BY <1>2, <2>2, <2>4, <2>5, <2>6
<1>4. ASSUME j # Len(str)
      PROVE  /\ j + 1 \in DOMAIN str /\ by[j + 1] \in 1 .. Len(seg)
             /\ by[j] <= by[j + 1]
             /\ by[j + 1] = by[j] => seg[by[j]] = "*"
  BY <1>1, <1>2, <1>4 DEF Covers
<1>5. j = Len(str) => by[j] = Len(seg)
  BY <1>1, <1>2, <1>3
<1>6. j # Len(str) => by[j + 1] = by[j] \/ by[j + 1] = by[j] + 1
  BY <1>2, <1>3, <1>4
<1> QED BY <1>2, <1>4, <1>5, <1>6

(* Between two places of one side is one character, then at most a skip. *)
LEMMA PlaceSteps ==
  ASSUME NEW seg, NEW str, IsList(seg), IsList(str), NEW by, Covers(by, seg, str), NEW j \in DOMAIN str,
         NEW x, x = Place(by, seg, str, j), NEW y, y = Place(by, seg, str, j + 1)
  PROVE  /\ ~Ended(seg, x) /\ seg[x.at] \in {"*", str[j]}
         /\ Score(x) \in 2 .. 2 * Len(seg) + 2 /\ Score(y) \in 2 .. 2 * Len(seg) + 2
         /\ \E z \in Steps(seg, x) :
              /\ Score(z) \in 2 .. 2 * Len(seg) + 2
              /\ z = x \/ Score(x) < Score(z)
              /\ z = y \/ (y \in Skips(z) /\ Score(z) < Score(y))
<1>1. Len(seg) \in Nat /\ Len(str) \in Nat /\ DOMAIN str = 1 .. Len(str)
  BY Lists
<1> DEFINE i == by[j]
<1>2. i \in 1 .. Len(seg) /\ j \in 1 .. Len(str)
  BY <1>1, NextTaker
<1>3. seg[i] \in {"*", str[j]}
  BY DEF Covers
<1>4. x = At(i) \/ (x = Looping(i) /\ seg[i] = "*")
  <2>1. CASE j > 1 /\ by[j - 1] = by[j]
    <3>1. j - 1 \in DOMAIN str /\ j - 1 < j
      BY <1>1, <1>2, <2>1
    <3>2. seg[i] = "*"
      BY <2>1, <3>1 DEF Covers
    <3> QED BY <1>1, <1>2, <2>1, <3>2 DEF Place
  <2>2. CASE ~(j > 1 /\ by[j - 1] = by[j])
    BY <1>1, <1>2, <2>2 DEF Place
  <2> QED BY <2>1, <2>2
<1>5. y = At(i + 1) \/ (y = Looping(i) /\ seg[i] = "*")
  <2>1. CASE j = Len(str)
    <3>1. i = Len(seg)
      BY <2>1, NextTaker
    <3> QED BY <1>1, <2>1, <3>1 DEF Place
  <2>2. CASE j # Len(str)
    <3>1. /\ j + 1 \in DOMAIN str
          /\ by[j + 1] = i \/ by[j + 1] = i + 1
          /\ by[j + 1] = i => seg[i] = "*"
      BY <2>2, NextTaker
    <3>2. ~(j + 1 > Len(str)) /\ j + 1 > 1 /\ (j + 1) - 1 = j
      BY <1>1, <1>2, <3>1
    <3> QED BY <1>2, <3>1, <3>2 DEF Place
  <2> QED BY <2>1, <2>2
<1> HIDE DEF i
<1>6. /\ Score(At(i)) = 2 * i /\ Score(Looping(i)) = 2 * i + 1 /\ Score(At(i + 1)) = 2 * i + 2
      /\ At(i).at = i /\ Looping(i).at = i /\ ~At(i).loop /\ Looping(i).loop
      /\ Exit(At(i)) = At(i + 1) /\ Exit(Looping(i)) = At(i + 1)
  BY <1>2 DEF Score, At, Looping, Exit
<1>7. x.at = i /\ ~Ended(seg, x)
  BY <1>1, <1>2, <1>4, <1>6 DEF Ended
<1> DEFINE z == IF seg[i] # "*" THEN Exit(x) ELSE IF x.loop THEN IF y = x THEN x ELSE Exit(x) ELSE Looping(i)
<1>8. z \in Steps(seg, x)
  BY <1>7 DEF Steps
<1>9. /\ Score(z) \in 2 .. 2 * Len(seg) + 2
      /\ z = x \/ Score(x) < Score(z)
      /\ z = y \/ (y \in Skips(z) /\ Score(z) < Score(y))
  <2>1. CASE seg[i] # "*"
    BY <1>1, <1>2, <1>4, <1>5, <1>6, <2>1
  <2>2. CASE seg[i] = "*" /\ x = At(i)
    BY <1>1, <1>2, <1>5, <1>6, <2>2 DEF Skips
  <2>3. CASE seg[i] = "*" /\ x = Looping(i)
    BY <1>1, <1>2, <1>5, <1>6, <2>3
  <2> QED BY <1>4, <2>1, <2>2, <2>3
<1>10. Score(x) \in 2 .. 2 * Len(seg) + 2 /\ Score(y) \in 2 .. 2 * Len(seg) + 2
  BY <1>1, <1>2, <1>4, <1>5, <1>6
<1> HIDE DEF z
<1> QED BY <1>3, <1>7, <1>8, <1>9, <1>10

LEMMA WalkFollows ==
  ASSUME NEW a, NEW b, NEW str, IsList(a), IsList(b), IsList(str), NEW f, NEW g,
         Covers(f, a, str), Covers(g, b, str), NEW j \in DOMAIN str,
         NEW s, s = <<Place(f, a, str, j), Place(g, b, str, j)>>,
         NEW t, t = <<Place(f, a, str, j + 1), Place(g, b, str, j + 1)>>,
         s \in Seen(a, b)[Rank(s)]
  PROVE  t \in Seen(a, b)[Rank(t)]
<1> DEFINE x == s[1]
           y == s[2]
<1>0. Len(a) \in Nat /\ Len(b) \in Nat /\ Rounds(a, b) = 2 * Len(a) + 2 * Len(b)
  BY Lists DEF Rounds
<1>1. PICK v \in Steps(a, x) :
        /\ ~Ended(a, x) /\ a[x.at] \in {"*", str[j]}
        /\ Score(x) \in 2 .. 2 * Len(a) + 2 /\ Score(t[1]) \in 2 .. 2 * Len(a) + 2
        /\ Score(v) \in 2 .. 2 * Len(a) + 2
        /\ v = x \/ Score(x) < Score(v)
        /\ v = t[1] \/ (t[1] \in Skips(v) /\ Score(v) < Score(t[1]))
  BY PlaceSteps
<1>2. PICK w \in Steps(b, y) :
        /\ ~Ended(b, y) /\ b[y.at] \in {"*", str[j]}
        /\ Score(y) \in 2 .. 2 * Len(b) + 2 /\ Score(t[2]) \in 2 .. 2 * Len(b) + 2
        /\ Score(w) \in 2 .. 2 * Len(b) + 2
        /\ w = y \/ Score(y) < Score(w)
        /\ w = t[2] \/ (t[2] \in Skips(w) /\ Score(w) < Score(t[2]))
  BY PlaceSteps
<1> DEFINE m == <<v, w>>
           n == <<t[1], w>>
<1>3. s = <<x, y>> /\ t = <<t[1], t[2]>>
  OBVIOUS
<1>4. m \in Moves(a, b, s)
  <2>1. Agree(a[x.at], b[y.at])
    BY <1>1, <1>2 DEF Agree
  <2> QED BY <1>1, <1>2, <2>1 DEF Moves
<1>5. n = m \/ n \in Moves(a, b, m)
  BY <1>1 DEF Moves
<1>6. t = n \/ t \in Moves(a, b, n)
  BY <1>2, <1>3 DEF Moves
<1>7. /\ m[1] = v /\ m[2] = w /\ n[1] = t[1] /\ n[2] = w
      /\ Rank(s) = Score(x) + Score(y) - 4
      /\ Rank(m) = Score(v) + Score(w) - 4
      /\ Rank(n) = Score(t[1]) + Score(w) - 4
      /\ Rank(t) = Score(t[1]) + Score(t[2]) - 4
  BY DEF Rank
<1>8. /\ Rank(s) \in 0 .. Rounds(a, b) /\ Rank(m) \in 0 .. Rounds(a, b)
      /\ Rank(n) \in 0 .. Rounds(a, b) /\ Rank(t) \in 0 .. Rounds(a, b)
      /\ Rounds(a, b) \in Nat
  <2>1. ASSUME NEW k \in 2 .. 2 * Len(a) + 2, NEW l \in 2 .. 2 * Len(b) + 2
        PROVE  k + l - 4 \in 0 .. Rounds(a, b)
    BY <1>0
  <2>2. Rounds(a, b) \in Nat
    BY <1>0
  <2> HIDE DEF m, n, x, y
  <2>3. /\ Score(x) + Score(y) - 4 \in 0 .. Rounds(a, b)
        /\ Score(v) + Score(w) - 4 \in 0 .. Rounds(a, b)
        /\ Score(t[1]) + Score(w) - 4 \in 0 .. Rounds(a, b)
        /\ Score(t[1]) + Score(t[2]) - 4 \in 0 .. Rounds(a, b)
    BY <1>1, <1>2, <2>1
  <2> QED BY <1>7, <2>2, <2>3
<1>9. m = s \/ Rank(s) < Rank(m)
  BY <1>1, <1>2, <1>3, <1>7
<1>10. n = m \/ Rank(m) < Rank(n)
  BY <1>1, <1>2, <1>7
<1>11. t = n \/ Rank(n) < Rank(t)
  BY <1>1, <1>2, <1>3, <1>7
<1> HIDE DEF m, n, x, y
<1>12. m \in Seen(a, b)[Rank(m)]
  BY <1>4, <1>8, <1>9, SeenMoves
<1>13. n \in Seen(a, b)[Rank(n)]
  BY <1>5, <1>8, <1>10, <1>12, SeenMoves
<1> QED BY <1>6, <1>8, <1>11, <1>13, SeenMoves

(* The walk misses no string both segments match. *)
LEMMA WalkIsComplete ==
  ASSUME NEW a, NEW b, NEW str, IsList(a), IsList(b), IsList(str),
         SegmentMatches(a, str), SegmentMatches(b, str)
  PROVE  SegmentsOverlap(a, b)
<1>1. PICK f : Covers(f, a, str)
  BY DEF SegmentMatches, Covers
<1>2. PICK g : Covers(g, b, str)
  BY DEF SegmentMatches, Covers
<1>3. /\ Len(a) \in Nat /\ Len(b) \in Nat /\ Len(str) \in Nat /\ DOMAIN str = 1 .. Len(str)
      /\ Rounds(a, b) = 2 * (Len(a) + Len(b)) /\ Rounds(a, b) \in Nat
  BY Lists DEF Rounds
<1> DEFINE s(j) == <<Place(f, a, str, j), Place(g, b, str, j)>>
           missed == {j \in Nat : j >= 1 /\ j <= Len(str) + 1 /\ s(j) \notin Seen(a, b)[Rank(s(j))]}
<1>4. s(1) = <<At(1), At(1)>>
  BY <1>1, <1>2, PlaceStarts
<1>5. Rank(<<At(1), At(1)>>) = 0
  BY DEF Rank, Score, At
<1>6. s(1) \in Seen(a, b)[Rank(s(1))]
  BY <1>3, <1>4, <1>5, SeenRounds
<1>7. ASSUME NEW j \in DOMAIN str, s(j) \in Seen(a, b)[Rank(s(j))]
      PROVE  s(j + 1) \in Seen(a, b)[Rank(s(j + 1))]
  BY <1>1, <1>2, <1>7, WalkFollows
<1>8. s(Len(str) + 1) = <<At(Len(a) + 1), At(Len(b) + 1)>>
  BY <1>3 DEF Place
<1> HIDE DEF s
<1>9. missed = {}
  <2> SUFFICES ASSUME missed # {} PROVE FALSE
    OBVIOUS
  <2>1. PICK j \in missed : \A k \in missed : j <= k
    BY LeastNumber
  <2>2. j \in Nat /\ j >= 1 /\ j <= Len(str) + 1 /\ s(j) \notin Seen(a, b)[Rank(s(j))]
    OBVIOUS
  <2>3. j # 1
    BY <1>6, <2>2
  <2>4. j - 1 \in DOMAIN str /\ j - 1 \in Nat /\ j - 1 >= 1 /\ j - 1 <= Len(str) + 1 /\ (j - 1) + 1 = j
    BY <1>3, <2>2, <2>3
  <2>5. j - 1 \notin missed
    <3> HIDE DEF missed
    <3> QED BY <2>1, <2>4
  <2>6. s(j - 1) \in Seen(a, b)[Rank(s(j - 1))]
    BY <2>4, <2>5
  <2>7. s((j - 1) + 1) \in Seen(a, b)[Rank(s((j - 1) + 1))]
    BY <1>7, <2>4, <2>6
  <2> QED BY <2>2, <2>4, <2>7
<1>10. s(Len(str) + 1) \in Seen(a, b)[Rank(s(Len(str) + 1))]
  BY <1>3, <1>9
<1>11. Rank(<<At(Len(a) + 1), At(Len(b) + 1)>>) = Rounds(a, b)
  BY <1>3 DEF Rank, Score, At
<1> QED BY <1>8, <1>10, <1>11 DEF SegmentsOverlap

(* Two globs that do not overlap have no path in common. *)
LEMMA OverlapIsComplete ==
  ASSUME NEW p, NEW q, NEW path, IsGlob(p), IsGlob(q), IsPath(path), Matches(p, path), Matches(q, path)
  PROVE  Overlaps(p, q)
<1>1. /\ Len(p.segments) \in Nat /\ DOMAIN p.segments = 1 .. Len(p.segments)
      /\ Len(q.segments) \in Nat /\ DOMAIN q.segments = 1 .. Len(q.segments)
      /\ Len(path) \in Nat /\ DOMAIN path = 1 .. Len(path)
  BY Lists DEF IsGlob, IsPath
<1>2. ASSUME NEW i \in DOMAIN p.segments, i \in DOMAIN q.segments
      PROVE  SegmentsOverlap(p.segments[i], q.segments[i])
  <2>1. i \in DOMAIN path
    BY <1>1 DEF Matches
  <2>2. IsList(p.segments[i]) /\ IsList(q.segments[i]) /\ IsList(path[i])
    BY <1>2, <2>1 DEF IsGlob, IsPath
  <2>3. SegmentMatches(p.segments[i], path[i]) /\ SegmentMatches(q.segments[i], path[i])
    BY <1>2 DEF Matches
  <2> QED BY <2>2, <2>3, WalkIsComplete
<1>3. /\ Len(p.segments) < Len(q.segments) => p.tail
      /\ Len(q.segments) < Len(p.segments) => q.tail
  BY <1>1 DEF Matches
<1> QED BY <1>1, <1>2, <1>3 DEF Overlaps

(* A route of a gateway's nginx is a public path of a listed service. *)
LEMMA RoutedByGateway ==
  ASSUME NEW s, NEW o, NEW pass, Sound(s, o, pass), NEW h, NEW g \in GatewayRoutings(s, h)
  PROVE  \E k \in DOMAIN s.gateway :
           /\ g.probes = s.gateway[k].probes
           /\ \A r \in g.routes : /\ r.service \in s.gateway[k].services /\ r.service \in Services(s)
                                  /\ \E m \in s.service[r.service].mesh : r.pattern \in m.public
<1>1. PICK rg \in ResolveGateways(s) :
        /\ g.probes = s.gateway[rg.gateway].probes
        /\ g.routes = ToGatewayNginxRoutes(s, rg.gateway)
  BY DEF GatewayRoutings
<1> DEFINE k == rg.gateway
           of(n, p) == [service |-> n, pattern |-> p]
<1>2. k \in DOMAIN s.gateway
  BY BehindGateway
<1>3. ToGatewayNginxRoutes(s, k) =
        UNION {UNION {{of(n, p) : p \in m.public} : m \in s.service[n].mesh} :
                 n \in s.gateway[k].services \cap DOMAIN s.service}
  BY DEF ToGatewayNginxRoutes
<1>4. \A n, p : of(n, p).service = n /\ of(n, p).pattern = p
  OBVIOUS
<1> HIDE DEF of
<1>5. ASSUME NEW r \in ToGatewayNginxRoutes(s, k)
      PROVE  /\ r.service \in s.gateway[k].services /\ r.service \in Services(s)
             /\ \E m \in s.service[r.service].mesh : r.pattern \in m.public
  <2>1. PICK n \in s.gateway[k].services \cap DOMAIN s.service :
          r \in UNION {{of(n, p) : p \in m.public} : m \in s.service[n].mesh}
    BY <1>3
  <2>2. PICK m \in s.service[n].mesh : \E p \in m.public : r = of(n, p)
    BY <2>1
  <2>3. r.service = n /\ r.pattern \in m.public
    BY <1>4, <2>2
  <2> QED BY <2>1, <2>2, <2>3 DEF Services
<1> QED BY <1>1, <1>2, <1>5

(* For every set of paths: one a client asks a gateway for belongs to at most
   one service, is internal to none, shadows no probe, and its service lets
   the gateway in (validate.go:2477-2755 and pathglob.go:162-265 against
   program.go:2290-2354 and program/mesh.go:25-140). *)
THEOREM PathsHaveOneOwner == Spec => []OneOwnerPerPath
<1>1. TreeInv => OneOwnerPerPath
  <2> SUFFICES ASSUME TreeInv
               PROVE  OneOwnerPerPath
    OBVIOUS
  <2>1. ASSUME accepted, NEW sc \in Scopes, NEW h \in MeshHosts(ResourcesOf(sc)),
               NEW g \in GatewayRoutings(ResourcesOf(sc), h), NEW path \in Paths
        PROVE  LET hit == {r \in g.routes : Matches(r.pattern, path)} IN
               /\ \A q, r \in hit : q.service = r.service
               /\ hit # {} => path \notin g.probes
               /\ \A r \in hit :
                    /\ \A m \in ResourcesOf(sc).service[r.service].mesh :
                         \A p \in m.internal : ~Matches(p, path)
                    /\ \E l \in LocalsOf(sc) : l.service = r.service /\ <<sc, Gateway>> \in l.callers.out
    <3> DEFINE s == ResourcesOf(sc)
               hit == {r \in g.routes : Matches(r.pattern, path)}
    <3>1. Sound(s, OtherOf(sc), PassOf(sc))
      BY <2>1, ScopesSound
    <3>2. IsPath(path)
      BY <2>1, EditsAssumption
    <3>3. PICK k \in DOMAIN s.gateway :
            /\ g.probes = s.gateway[k].probes
            /\ \A r \in g.routes : /\ r.service \in s.gateway[k].services /\ r.service \in Services(s)
                                   /\ \E m \in s.service[r.service].mesh : r.pattern \in m.public
      BY <2>1, <3>1, RoutedByGateway
    <3>4. GatewayOK(s, k)
      BY <3>1, <3>3 DEF Sound, ScopeOK
    <3>5. ASSUME NEW r \in hit
          PROVE  /\ r.service \in s.gateway[k].services \cap Services(s)
                 /\ r.pattern \in PublicPaths(s, r.service) /\ IsGlob(r.pattern) /\ Matches(r.pattern, path)
      <4>1. PICK m \in s.service[r.service].mesh : r.pattern \in m.public
        BY <3>3, <3>5
      <4>2. r.service \in DOMAIN s.service /\ IsMesh(m)
        BY <3>1, <3>3, <3>5, <4>1 DEF Sound, IsScope, IsService, Services
      <4> QED BY <3>3, <3>5, <4>1, <4>2 DEF IsMesh, PublicPaths
    <3>6. ASSUME NEW q \in hit, NEW r \in hit, q.service # r.service
          PROVE  FALSE
      <4>1. ~Overlaps(q.pattern, r.pattern)
        BY <3>4, <3>5, <3>6 DEF GatewayOK
      <4> QED BY <3>2, <3>5, <3>6, <4>1, OverlapIsComplete
    <3>7. hit # {} => path \notin g.probes
      BY <3>3, <3>4, <3>5 DEF GatewayOK
    <3>8. ASSUME NEW r \in hit, NEW m \in s.service[r.service].mesh, NEW p \in m.internal, Matches(p, path)
          PROVE  FALSE
      <4>1. IsMesh(m) /\ r.pattern \in m.public /\ PathsOK(m)
        <5>1. r.service \in DOMAIN s.service /\ IsService(s.service[r.service])
          BY <3>1, <3>5, <3>8 DEF Sound, IsScope, Services
        <5>2. MeshOK(s, OtherOf(sc), PassOf(sc), r.service)
          BY <3>1, <5>1 DEF Sound, ScopeOK, ServiceOK
        <5>3. PICK w \in s.service[r.service].mesh : r.pattern \in w.public
          BY <3>3, <3>8
        <5>4. w = m
          BY <5>1, <5>3, <3>8 DEF IsService
        <5> QED BY <5>1, <5>2, <5>3, <5>4, <3>8 DEF IsService, MeshOK
      <4>2. IsGlob(p) /\ ~Overlaps(r.pattern, p)
        BY <3>8, <4>1 DEF IsMesh, PathsOK
      <4> QED BY <3>2, <3>5, <3>8, <4>2, OverlapIsComplete
    <3>9. ASSUME NEW r \in hit
          PROVE  \E l \in LocalsOf(sc) : l.service = r.service /\ <<sc, Gateway>> \in l.callers.out
      <4>1. r.service \in s.gateway[k].services /\ r.service \in Services(s)
        BY <3>5, <3>9
      <4>2. PICK m \in s.service[r.service].mesh : Gateway \in m.allowed
        BY <3>4, <4>1 DEF GatewayOK, ListedOK
      <4>3. PICK l \in LocalsOf(sc) :
              /\ l.service = r.service
              /\ l.callers = ExpandAllowedCallers(m.allowed, sc, Regions, Regional, Global)
        BY <2>1, <4>1, <4>2, LocalOf
      <4>4. <<sc, Gateway>> \in Identities(Gateway, sc, Regions, Pki(Regional), Pki(Global))
        BY DEF Identities
      <4> QED BY <4>2, <4>3, <4>4 DEF ExpandAllowedCallers
    <3> HIDE DEF s
    <3> QED BY <3>6, <3>7, <3>8, <3>9 DEF s
  <2> QED BY <2>1 DEF OneOwnerPerPath
<1> QED BY <1>1, TreeCorrect, PTL
=============================================================================
