------------------------------ MODULE Database ------------------------------
(***************************************************************************)
(* One logical database of a self-hosted Postgres cluster: the roles a     *)
(* deploy mints in it (internal/pgrole, run on the host by psql without a  *)
(* transaction), the tables its services create meanwhile, the backups its *)
(* timer uploads and prunes (internal/dbbackup) and `inforge db restore`.  *)
(*                                                                         *)
(* A mint is a list of statements, executed one by one, that may stop      *)
(* anywhere. The engine re-runs a role's mint only when its declared       *)
(* permission differs from the one recorded by the last mint that ended    *)
(* well, and mints of one database follow one another (lastMint).          *)
(*                                                                         *)
(* Sequences are treated as tables and left out, with passwords and with   *)
(* CONNECT and USAGE, which Postgres grants to PUBLIC as well.             *)
(***************************************************************************)
EXTENDS Integers, Sequences, FiniteSets

CONSTANTS Services,     \* login roles, one for each service with a grant
          Tables,
          Keep,         \* retention: backup.keep
          Batch,        \* keys one delete-objects call takes (1000)
          MaxEvents     \* bound: changed grants, failed mints, backups and restores together

Groups == {"ro", "rw"}
Grants == {"none", "ro", "rw"}
Owner == "owner"            \* the database's NOLOGIN owner role
Superuser == "postgres"
Absent == "absent"

ASSUME DatabaseAssumption ==
    /\ Services \cap (Groups \union {Owner, Superuser, Absent}) = {}
    /\ Keep \in Nat \ {0} /\ Batch \in Nat \ {0}

VARIABLES
    catalog,    \* what Postgres knows: see EmptyCatalog
    wanted,     \* [Services -> Grants]: the grants the sources declare
    minted,     \* [Services -> Grants]: the mint recorded in the engine's state
    deploying,  \* a deploy is running
    job,        \* the mint or drop it executes: whose, and the statements left
    dirty,      \* history: services whose last whole mint something has overtaken
    bucket,     \* the backup objects, oldest first
    oneshot,    \* the backup unit: "idle", "prune"
    spent       \* how much of the bound is used up

catalogVars == <<catalog, wanted, minted, deploying, job>>
bucketVars == <<bucket, oneshot>>
vars == <<catalogVars, dirty, bucketVars, spent>>

NoJob == [role |-> Absent, todo |-> <<>>]

(* roles: the login roles; owner, acl: of each table; create: who may      *)
(* create tables; member: of the reader and writer groups; defaults: the   *)
(* roles whose new tables reach each group (ALTER DEFAULT PRIVILEGES).     *)
EmptyCatalog ==
    [roles |-> {}, owner |-> [t \in Tables |-> Absent], acl |-> {},
     create |-> {}, member |-> {}, defaults |-> {}]

Init ==
    /\ catalog = EmptyCatalog
    /\ wanted \in [Services -> Grants]
    /\ minted = [s \in Services |-> "none"]
    /\ deploying = FALSE /\ job = NoJob
    /\ dirty = {}
    /\ bucket = <<>> /\ oneshot = "idle"
    /\ spent = 0

Exists(t) == catalog.owner[t] # Absent
Owned(c, s) == {t \in Tables : c.owner[t] = s}

----------------------------------------------------------------------------
(* Roles: the statements of a mint and of a drop.                          *)

Revokes == <<"revokeTables", "revokeCreate", "revokeGroups", "revokeDefaults">>

(* Mutant: the mint grants on top of what the role has.                    *)
MintRoleAdditive(p) ==
    IF p = "rw" THEN <<"login", "create", "joinRw", "grantRw", "defaultRo", "defaultRw">>
    ELSE <<"login", "reassign", "joinRo", "grantRo">>

(* MintRoleSQL: revoke everything, then grant; a reader first gives up the *)
(* tables it owns, because a REVOKE does not reach ownership.              *)
MintRole(p) ==
    IF p = "rw"
    THEN <<"login">> \o Revokes \o <<"create", "joinRw", "grantRw", "defaultRo", "defaultRw">>
    ELSE <<"login", "reassign">> \o Revokes \o <<"joinRo", "grantRo">>

(* Mutant: the drop does not clear the role's privileges in the database.  *)
DropRoleAlone == <<"reassign", "dropRole">>

(* DropRoleScript: cleared in this database, then dropped cluster-wide.    *)
DropRole == <<"reassign", "dropOwned", "dropRole">>

Existing(c) == {t \in Tables : c.owner[t] # Absent}
Entries(ts, who, privileges) == ts \X {who} \X privileges
HeldBy(c, s) == {e \in c.acl : e[2] = s}

(* What one statement does to the catalog.  DROP OWNED drops the tables    *)
(* the role got since they were reassigned, too.                           *)
Execute(c, s, statement) ==
    CASE statement = "login" -> [c EXCEPT !.roles = @ \union {s}]
      [] statement = "reassign" ->
            [c EXCEPT !.owner = [t \in Tables |-> IF @[t] = s THEN Owner ELSE @[t]]]
      [] statement = "revokeTables" -> [c EXCEPT !.acl = @ \ HeldBy(c, s)]
      [] statement = "revokeCreate" -> [c EXCEPT !.create = @ \ {s}]
      [] statement = "revokeGroups" -> [c EXCEPT !.member = @ \ ({s} \X Groups)]
      [] statement = "revokeDefaults" -> [c EXCEPT !.defaults = @ \ ({s} \X Groups)]
      [] statement = "create" -> [c EXCEPT !.create = @ \union {s}]
      [] statement = "joinRo" -> [c EXCEPT !.member = @ \union {<<s, "ro">>}]
      [] statement = "joinRw" -> [c EXCEPT !.member = @ \union {<<s, "rw">>}]
      [] statement = "grantRo" -> [c EXCEPT !.acl = @ \union Entries(Existing(c), s, {"read"})]
      [] statement = "grantRw" ->
            [c EXCEPT !.acl = @ \union Entries(Existing(c), s, {"read", "write"})]
      [] statement = "defaultRo" -> [c EXCEPT !.defaults = @ \union {<<s, "ro">>}]
      [] statement = "defaultRw" -> [c EXCEPT !.defaults = @ \union {<<s, "rw">>}]
      [] statement = "dropOwned" ->
            [c EXCEPT !.owner = [t \in Tables |-> IF @[t] = s THEN Absent ELSE @[t]],
                      !.acl = {e \in @ \ HeldBy(c, s) : e[1] \notin Owned(c, s)},
                      !.create = @ \ {s}, !.defaults = @ \ ({s} \X Groups)]
      [] statement = "dropRole" -> [c EXCEPT !.roles = @ \ {s}, !.member = @ \ ({s} \X Groups)]

(* Postgres refuses to drop a role something still depends on.             *)
Droppable(c, s) ==
    /\ Owned(c, s) = {} /\ HeldBy(c, s) = {}
    /\ s \notin c.create /\ c.defaults \cap ({s} \X Groups) = {}

----------------------------------------------------------------------------
(* Deploys.                                                                *)

(* The operator edits a service's grant.                                   *)
ChangeGrant(s, p) ==
    /\ ~deploying /\ spent < MaxEvents /\ p # wanted[s]
    /\ wanted' = [wanted EXCEPT ![s] = p]
    /\ spent' = spent + 1
    /\ UNCHANGED <<catalog, minted, deploying, job, dirty, bucketVars>>

BeginDeploy ==
    /\ ~deploying
    /\ deploying' = TRUE
    /\ UNCHANGED <<catalog, wanted, minted, job, dirty, bucketVars, spent>>

Pending == {s \in Services : wanted[s] # minted[s]}

(* The engine starts the next mint; deletions come after them.             *)
BeginJob(s) ==
    /\ deploying /\ job = NoJob /\ s \in Pending
    /\ wanted[s] = "none" => \A r \in Pending : wanted[r] = "none"
    /\ job' = [role |-> s, todo |-> IF wanted[s] = "none" THEN DropRole ELSE MintRole(wanted[s])]
    /\ dirty' = dirty \ {s}
    /\ UNCHANGED <<catalog, wanted, minted, deploying, bucketVars, spent>>

(* psql executes the next statement; behind the last one the engine        *)
(* records the mint.                                                       *)
Statement ==
    LET s == job.role
        next == Head(job.todo)
    IN  /\ job # NoJob
        /\ next = "dropRole" => Droppable(catalog, s)
        /\ catalog' = Execute(catalog, s, next)
        /\ IF Len(job.todo) = 1
           THEN job' = NoJob /\ minted' = [minted EXCEPT ![s] = wanted[s]]
           ELSE job' = [job EXCEPT !.todo = Tail(@)] /\ UNCHANGED minted
        /\ UNCHANGED <<wanted, deploying, dirty, bucketVars, spent>>

(* A statement fails, or the connection breaks: ON_ERROR_STOP leaves what  *)
(* was done, the engine's state keeps the old mint, the deploy fails.      *)
JobFails ==
    /\ job # NoJob
    /\ \/ spent < MaxEvents /\ spent' = spent + 1
       \/ Head(job.todo) = "dropRole" /\ ~Droppable(catalog, job.role) /\ UNCHANGED spent
    /\ job' = NoJob /\ deploying' = FALSE
    /\ dirty' = dirty \union {job.role}
    /\ UNCHANGED <<catalog, wanted, minted, bucketVars>>

EndDeploy ==
    /\ deploying /\ Pending = {}
    /\ deploying' = FALSE
    /\ UNCHANGED <<catalog, wanted, minted, job, dirty, bucketVars, spent>>

(* A running service's migration creates a table: it owns it, and its      *)
(* default privileges reach the groups. One created beside a mint may miss *)
(* what the mint has still to do.                                          *)
CreateTable(s, t) ==
    /\ minted[s] # "none" /\ s \in catalog.roles /\ s \in catalog.create /\ ~Exists(t)
    /\ catalog' = [catalog EXCEPT
          !.owner[t] = s,
          !.acl = @ \union Entries({t}, s, {"read", "write"})
                    \union (IF <<s, "ro">> \in catalog.defaults
                            THEN Entries({t}, "ro", {"read"}) ELSE {})
                    \union (IF <<s, "rw">> \in catalog.defaults
                            THEN Entries({t}, "rw", {"read", "write"}) ELSE {})]
    /\ dirty' = IF job = NoJob /\ s \notin dirty THEN dirty ELSE Services
    /\ UNCHANGED <<wanted, minted, deploying, job, bucketVars, spent>>

----------------------------------------------------------------------------
(* Backups.                                                                *)

(* What pg_dump sees, in one snapshot.                                     *)
Snapshot == [owner |-> catalog.owner, acl |-> catalog.acl,
             create |-> catalog.create, defaults |-> catalog.defaults]

(* Mutant: without pipefail a broken dump goes on to the prune.            *)
DumpNoPipefail(result) ==
    /\ oneshot = "idle" /\ spent < MaxEvents /\ job = NoJob
    /\ bucket' = IF result = "nothing" THEN bucket
                 ELSE Append(bucket, [id |-> spent, whole |-> result = "whole",
                                      tables |-> Snapshot])
    /\ oneshot' = IF result = "nothing" THEN "idle" ELSE "prune"
    /\ spent' = spent + 1
    /\ UNCHANGED <<catalogVars, dirty>>

(* BackupScript streams pg_dump through gzip into the bucket. When pg_dump *)
(* dies, gzip and the upload still end in order: a truncated object stays, *)
(* pipefail fails the unit and the prune is not reached. An upload that    *)
(* fails leaves nothing. (Bound: no dump is taken during a mint.)          *)
Dump(result) ==
    /\ oneshot = "idle" /\ spent < MaxEvents /\ job = NoJob
    /\ bucket' = IF result = "nothing" THEN bucket
                 ELSE Append(bucket, [id |-> spent, whole |-> result = "whole",
                                      tables |-> Snapshot])
    /\ oneshot' = IF result = "whole" THEN "prune" ELSE "idle"
    /\ spent' = spent + 1
    /\ UNCHANGED <<catalogVars, dirty>>

(* The prune lists the keys, possibly only the first pages of them, and    *)
(* deletes all but the last Keep of what it saw, in one call.              *)
Prune(listed) ==
    LET excess == listed - Keep
    IN  /\ oneshot = "prune" /\ excess > 0 /\ excess <= Batch
        /\ bucket' = SubSeq(bucket, excess + 1, Len(bucket))
        /\ oneshot' = "idle"
        /\ UNCHANGED <<catalogVars, dirty, spent>>

(* Nothing to delete, or the deletion failed: retention is best-effort.    *)
SkipPrune ==
    /\ oneshot = "prune"
    /\ oneshot' = "idle"
    /\ UNCHANGED <<catalogVars, dirty, bucket, spent>>

----------------------------------------------------------------------------
(* Restores.                                                               *)

(* pg_restore --clean: the dump's tables are dropped and created again     *)
(* with the owners and privileges of the dump, as far as the roles exist;  *)
(* other tables stay. From a truncated dump the privileges, which come     *)
(* last, are not reached.                                                  *)
Restored(c, dump, whole) ==
    LET back == {t \in Tables : dump.owner[t] # Absent}
        known(who) == who \in c.roles \union Groups
    IN  [c EXCEPT
          !.owner = [t \in Tables |->
              IF t \notin back THEN @[t]
              ELSE IF dump.owner[t] \in c.roles \union {Owner} THEN dump.owner[t] ELSE Superuser],
          !.acl = {e \in @ : e[1] \notin back}
                  \union (IF whole THEN {e \in dump.acl : e[1] \in back /\ known(e[2])} ELSE {}),
          !.create = IF whole THEN @ \union (dump.create \cap c.roles) ELSE @,
          !.defaults = IF whole THEN @ \union {d \in dump.defaults : d[1] \in c.roles} ELSE @]

Restore(dump, whole) ==
    /\ ~deploying /\ spent < MaxEvents
    /\ catalog' = Restored(catalog, dump, whole)
    /\ dirty' = Services
    /\ spent' = spent + 1
    /\ UNCHANGED <<wanted, minted, deploying, job, bucketVars>>

(* inforge db restore: the newest object, or the one --from-key names.     *)
RestoreKey(i) == Restore(bucket[i].tables, bucket[i].whole)

(* --from-dump: a dump made elsewhere, whose owners are unknown here.      *)
RestoreForeign(t) ==
    Restore([owner |-> [u \in Tables |-> IF u = t THEN Superuser ELSE Absent],
             acl |-> {}, create |-> {}, defaults |-> {}], TRUE)

Next ==
    \/ \E s \in Services, p \in Grants : ChangeGrant(s, p)
    \/ BeginDeploy \/ EndDeploy
    \/ \E s \in Services : BeginJob(s)
    \/ Statement \/ JobFails
    \/ \E s \in Services, t \in Tables : CreateTable(s, t)
    \/ \E result \in {"whole", "truncated", "nothing"} : Dump(result)
    \/ \E listed \in 0..Len(bucket) : Prune(listed)
    \/ SkipPrune
    \/ \E i \in DOMAIN bucket : RestoreKey(i)
    \/ \E t \in Tables : RestoreForeign(t)

Spec == Init /\ [][Next]_vars

----------------------------------------------------------------------------
(* Properties.                                                             *)

(* What a role can do with a table, by its own entries or through a group. *)
Granted(s, t, privilege) ==
    \/ <<t, s, privilege>> \in catalog.acl
    \/ \E g \in Groups : <<s, g>> \in catalog.member /\ <<t, g, privilege>> \in catalog.acl
CanWrite(s, t) == Granted(s, t, "write") \/ catalog.owner[t] = s

AsDeclared(s) ==
    \A t \in Existing(catalog) :
        CASE minted[s] = "rw" -> Granted(s, t, "read") /\ Granted(s, t, "write")
          [] minted[s] = "ro" -> Granted(s, t, "read") /\ ~CanWrite(s, t)
          [] minted[s] = "none" -> catalog.owner[t] # s /\ HeldBy(catalog, s) = {}

(* A mint is declarative: whatever the role was before (a writer that      *)
(* owned tables, a role left half-revoked by a failed mint, a role that    *)
(* was dropped), and whichever tables any service creates afterwards, it   *)
(* can do what its last mint declares on every table, and no more.         *)
MintIsDeclarative ==
    \A s \in Services \ dirty : job.role # s => AsDeclared(s)

(* A role that has been cleared in its database can be dropped, so a       *)
(* service that was removed leaves no login behind and its deploy ends.    *)
ClearedIsDroppable ==
    job # NoJob /\ job.role \notin dirty /\ Head(job.todo) = "dropRole"
        => Droppable(catalog, job.role)

HasWhole(objects) == \E i \in DOMAIN objects : objects[i].whole

(* Once a backup has succeeded, there is always a whole one to restore:    *)
(* truncated dumps, failed deletions and partial listings do not cost the  *)
(* last good one.  And the Keep newest objects survive every prune,        *)
(* however much of the bucket it saw.                                      *)
BackupsSurvive ==
    [][/\ HasWhole(bucket) => HasWhole(bucket')
       /\ \A i \in DOMAIN bucket : i > Len(bucket) - Keep
             => \E j \in DOMAIN bucket' : bucket'[j].id = bucket[i].id]_vars
=============================================================================
