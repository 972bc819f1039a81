----------------------------- MODULE MCScopePlan -----------------------------
(* A regional scope with three hosts on two networks, an ingress, a        *)
(* gateway on a host of its own, an app, a database and three services; a  *)
(* global scope with two services on one host.                             *)
EXTENDS ScopePlan

Glob(segments, tail) == [segments |-> segments, tail |-> tail]
Orders == Glob(<<<<"v">>, <<"o">>>>, FALSE)
OrdersTail == Glob(<<<<"v">>>>, TRUE)
Starred == Glob(<<<<"v">>, <<"*", "i">>>>, FALSE)
Internal == Glob(<<<<"i">>>>, FALSE)
Items == Glob(<<<<"v">>, <<"o", "o", "o", "*">>>>, FALSE)

Networks ==
  [n1 |-> Network({1, 2, 3}, [s1 |-> {1, 2}]),
   n2 |-> [Network({7, 8}, [s2 |-> {7}]) EXCEPT !.container = "other"]]

RegionalScope ==
  [EmptyScope EXCEPT
     !.network = Networks,
     !.compute = [a |-> Compute("n1", "small"), b |-> Compute("n1", "small"),
                  c |-> Compute("n2", "small")],
     !.ingress = [edge |-> Ingress("a")],
     !.gateway = [gw |-> [GatewayOn("b", "edge", "mesh", "gate") EXCEPT
                            !.services = {"api"}, !.probes = {<<<<"h">>>>}]],
     !.app = [web |-> App("edge", "www")],
     !.cluster = [pg |-> Cluster("b")],
     !.database = [db |-> Database("pg")],
     !.service =
       [api |-> [Service("b", "mesh") EXCEPT
                   !.mesh = {Mesh(9001, {Orders}, {Internal}, {Gateway, "shop"})},
                   !.health = 9002, !.probes = {<<<<"h">>>>}],
        shop |-> [Service("a", "mesh") EXCEPT
                    !.ingress = "edge", !.routes = {Route(TLSTermination, 443, 8080, {})},
                    !.grants = {Grant("database", "db", "rw")}],
        job |-> [Service("b", "mesh") EXCEPT
                   !.exposed = {ExposedPort("tcp", 9004)},
                   !.mesh = {Mesh(9003, {Starred}, {}, {Gateway})}]]]

GlobalScope ==
  [EmptyScope EXCEPT
     !.network = [n9 |-> Network({9}, [s9 |-> {9}])],
     !.compute = [g |-> Compute("n9", "small")],
     !.service =
       [auth |-> [Service("g", "mesh") EXCEPT !.mesh = {Mesh(9005, {}, {Internal}, {"shop"})}],
        mail |-> [Service("g", "mesh") EXCEPT !.mesh = {Mesh(9006, {}, {Internal}, {"auth"})}]]]

Tree ==
  [regional |-> RegionalScope, global |-> GlobalScope,
   regions |-> [r1 |-> [slug |-> "r1", providers |-> {"cloud"}, dns |-> "cloud"],
                r2 |-> [slug |-> "r2", providers |-> {"cloud"}, dns |-> "cloud"]],
   globalBlock |-> {[placement |-> "r1", providers |-> {"cloud"}]},
   secrets |-> [state |-> "read", entries |-> {}],
   pki |-> [state |-> "read",
            trees |-> [mesh |-> [topology |-> "two-tier",
                                 intermediates |-> {"r1", "r2", "global"}]]],
   defaults |-> [compute |-> "cloud", database |-> SelfHosted],
   sizes |-> {"small"}]

(* Other layouts: the gateway beside its ingress and a passthrough on the  *)
(* port of the ingress; api behind the ingress, from another host; the     *)
(* ingress on the host of the database.                                    *)
With(scope) == [Tree EXCEPT !.regional = scope]

Layouts ==
  {Tree,
   With([RegionalScope EXCEPT
     !.gateway.gw.host = "a",
     !.service.shop.routes = @ \cup {Route(Forward, 443, 8081, {})}]),
   With([RegionalScope EXCEPT
     !.service.api.ingress = "edge",
     !.service.api.routes = {Route(TLSTermination, 444, 8082, {}), Route(Forward, 445, 8083, {})}]),
   With([RegionalScope EXCEPT
     !.ingress.edge.host = "b", !.gateway.gw.services = {"api", "job"},
     !.service.job.mesh = {Mesh(9003, {Items}, {}, {Gateway, "api"})}])}

EditedVanities ==
  {[bare |-> TRUE, labels |-> <<"store">>], [bare |-> FALSE, labels |-> <<"store", "base">>],
   [bare |-> FALSE, labels |-> <<"store", "elsewhere">>]}
EditedPatterns == {{Orders}, {OrdersTail}, {Starred}, {Items}}
AskedPaths == {<<<<"v">>, <<"o">>>>, <<<<"v">>, <<"o", "i">>>>, <<<<"v">>, <<"o", "o", "o", "i">>>>,
               <<<<"i">>>>, <<<<"h">>>>}

(* The walk finds no overlap that is none: segments of up to three elements   *)
(* it says overlap have a string in common.                                  *)
Strings(chars, n) == UNION {[1 .. k -> chars] : k \in 0 .. n}

ASSUME NoFalseOverlap ==
  \A a, b \in Strings({"x", "y", "*"}, 3) :
    SegmentsOverlap(a, b) => \E str \in Strings({"x", "y"}, 5) : SegmentMatches(a, str) /\ SegmentMatches(b, str)
=============================================================================
