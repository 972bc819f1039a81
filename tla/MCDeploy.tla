------------------------------ MODULE MCDeploy ------------------------------
(***************************************************************************)
(* A global host with one service and a regional host with one, then two,  *)
(* then one service again.                                                 *)
(***************************************************************************)
EXTENDS Deploy, TLC
CONSTANTS hg, hr, g, a, b

OnHosts == g :> hg @@ a :> hr @@ b :> hr

Is(unit, body, secret, callers) ==
    [unit |-> unit, body |-> body, secret |-> secret, callers |-> callers]

(* b joins a host whose proxy runs, the other services change shape or callers,
   then b leaves and the shape changes back; no map and no content returns to
   what an earlier version had. *)
JoinAndLeave == <<
    [agent |-> 1, svc |-> g :> Is(1, 1, TRUE, {}) @@ a :> Is(1, 1, TRUE, {})],
    [agent |-> 1, svc |-> g :> Is(1, 2, TRUE, {a, b}) @@ a :> Is(2, 2, FALSE, {b}) @@ b :> Is(1, 1, TRUE, {})],
    [agent |-> 2, svc |-> g :> Is(2, 2, TRUE, {a}) @@ a :> Is(3, 3, TRUE, {a})]>>

ASSUME JoinAndLeaveReturnsNothing == NothingReturns

=============================================================================
