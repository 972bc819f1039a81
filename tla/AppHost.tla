------------------------------ MODULE AppHost ------------------------------
(***************************************************************************)
(* One app's folder on its ingress host: the per-SHA bundle directories    *)
(* and the `current` symlink nginx serves, under the shell scripts that    *)
(* provisioning, releases and rollbacks run there over SSH                 *)
(* (internal/app/app.go, cmd/inforge/release.go, program.appProvisionScript). *)
(*                                                                         *)
(* A script is a chain of commands joined by &&: each command is a step,   *)
(* any of them may fail (or the SSH session drop), and a script that stops *)
(* undoes nothing.  Nothing on the host serialises two scripts.            *)
(***************************************************************************)
EXTENDS Integers, FiniteSets

CONSTANTS
    Bundles,      \* the per-SHA bundles
    Built,        \* SHA -> mtime its archive gives the bundle directory
    KeepReleases, \* surplus bundles the GC retains
    Scripts,      \* concurrent release or rollback runs
    Placeholder,  \* the seeded bundle
    Nothing       \* no such file

ASSUME AppHostAssumption ==
    /\ Built \in [Bundles -> Nat]
    /\ \A s, t \in Bundles : s # t => Built[s] # Built[t]
    /\ KeepReleases \in Nat
    /\ Placeholder \notin Bundles /\ Nothing \notin Bundles \cup {Placeholder}

VARIABLES
    bundle,  \* SHA -> "absent", "partial" (being extracted, or left so) or "complete"
    current, \* target of the `current` symlink
    tmp,     \* target of `.current.tmp`, one fixed name for every script
    seed,    \* the provisioning script: next command
    at,      \* script -> next command
    sha,     \* script -> the SHA it delivers
    kind,    \* script -> "release" or "rollback"
    gc,      \* script -> what its GC found: the target it spares, what it removes
    overlapped \* history: two scripts were once under way together

appVars == <<bundle, current, tmp, seed, at, sha, kind, gc, overlapped>>
memory == <<sha, kind, gc, overlapped>>

NoGC == [spare |-> Nothing, doomed |-> {}]

(* The host before the first provisioning. *)
AppInit ==
    /\ bundle = [s \in Bundles |-> "absent"]
    /\ current = Nothing
    /\ tmp = Nothing
    /\ seed = "idle"
    /\ at = [r \in Scripts |-> "idle"]
    /\ sha = [r \in Scripts |-> Nothing]
    /\ kind = [r \in Scripts |-> Nothing]
    /\ gc = [r \in Scripts |-> NoGC]
    /\ overlapped = FALSE

Continue(r, command) == at' = [at EXCEPT ![r] = command]

-----------------------------------------------------------------------------
(* Provisioning: create `current` when nothing occupies it.                 *)

SeedTest ==
    /\ seed = "idle"
    /\ seed' = IF current = Nothing THEN "link" ELSE "idle"
    /\ UNCHANGED <<bundle, current, tmp, at, memory>>

(* Mutant: ln -sfn *)
SeedLinkForce ==
    /\ seed = "link"
    /\ current' = Placeholder
    /\ seed' = "idle"
    /\ UNCHANGED <<bundle, tmp, at, memory>>

(* ln -s without -f: when `current` appeared meanwhile it is left alone *)
SeedLink ==
    /\ seed = "link"
    /\ current' = IF current = Nothing THEN Placeholder ELSE current
    /\ seed' = "idle"
    /\ UNCHANGED <<bundle, tmp, at, memory>>

-----------------------------------------------------------------------------
(* Release and rollback.                                                    *)

Start(r, k, s, command) ==
    /\ at[r] = "idle"
    /\ kind' = [kind EXCEPT ![r] = k]
    /\ sha' = [sha EXCEPT ![r] = s]
    /\ Continue(r, command)
    /\ overlapped' = (overlapped \/ \E q \in Scripts : at[q] # "idle")
    /\ UNCHANGED <<bundle, current, tmp, seed, gc>>

Release(r) == \E s \in Bundles : Start(r, "release", s, "extract")
Rollback(r) == \E s \in Bundles : Start(r, "rollback", s, "test")

(* mkdir -p, then tar starts to write into the directory, in place when the
   SHA was released before *)
Extract(r) ==
    /\ at[r] = "extract"
    /\ bundle' = [bundle EXCEPT ![sha[r]] = "partial"]
    /\ Continue(r, "extracting")
    /\ UNCHANGED <<current, tmp, seed, memory>>

(* tar cannot finish in a directory that was removed under it *)
Extracted(r) ==
    /\ at[r] = "extracting"
    /\ bundle[sha[r]] # "absent"
    /\ bundle' = [bundle EXCEPT ![sha[r]] = "complete"]
    /\ Continue(r, "nginx -t")
    /\ UNCHANGED <<current, tmp, seed, memory>>

(* A rollback only asserts that the directory exists *)
TestDir(r) ==
    /\ at[r] = "test"
    /\ bundle[sha[r]] # "absent"
    /\ Continue(r, "nginx -t")
    /\ UNCHANGED <<bundle, current, tmp, seed, memory>>

NginxTest(r) ==
    /\ at[r] = "nginx -t"
    /\ Continue(r, "ln")
    /\ UNCHANGED <<bundle, current, tmp, seed, memory>>

(* Mutant: a staging link left by a failed script is not replaced *)
StageLinkKeep(r) ==
    /\ at[r] = "ln"
    /\ tmp' = IF tmp = Nothing THEN sha[r] ELSE tmp
    /\ Continue(r, "mv")
    /\ UNCHANGED <<bundle, current, seed, memory>>

(* SwapCurrentScript: ln -sfn <sha> .current.tmp ... *)
StageLink(r) ==
    /\ at[r] = "ln"
    /\ tmp' = sha[r]
    /\ Continue(r, "mv")
    /\ UNCHANGED <<bundle, current, seed, memory>>

(* ... && mv -T .current.tmp current, which fails when another script has
   moved the link away *)
PublishLink(r) ==
    /\ at[r] = "mv"
    /\ tmp # Nothing
    /\ current' = tmp
    /\ tmp' = Nothing
    /\ Continue(r, "reload")
    /\ UNCHANGED <<bundle, seed, sha, kind, gc, overlapped>>

Reload(r) ==
    /\ at[r] = "reload"
    /\ Continue(r, IF kind[r] = "release" THEN "readlink" ELSE "done")
    /\ UNCHANGED <<bundle, current, tmp, seed, memory>>

(* GCReleasesScript: the spared target is read before the listing *)
GCReadlink(r) ==
    /\ at[r] = "readlink"
    /\ gc' = [gc EXCEPT ![r] = [spare |-> current, doomed |-> {}]]
    /\ Continue(r, "ls")
    /\ UNCHANGED <<bundle, current, tmp, seed, sha, kind, overlapped>>

(* ls -1dt, newest mtime first, and all but the first KeepReleases.  tar
   leaves the mtime of the packaged directory, so a finished bundle is as old
   as its build; one whose extraction has not ended may be of any age. *)
Surplus(found) ==
    {doomed \in SUBSET found :
       /\ Cardinality(found \ doomed) <= KeepReleases
       /\ doomed # {} => Cardinality(found \ doomed) = KeepReleases
       /\ \A s \in found \ doomed, t \in doomed :
            bundle[s] = "complete" /\ bundle[t] = "complete" => Built[s] > Built[t]}

List(r, found) ==
    /\ at[r] = "ls"
    /\ \E doomed \in Surplus(found) : gc' = [gc EXCEPT ![r] = [spare |-> gc[r].spare, doomed |-> doomed]]
    /\ Continue(r, "rm")
    /\ UNCHANGED <<bundle, current, tmp, seed, sha, kind, overlapped>>

Delivered == {s \in Bundles : bundle[s] # "absent"}
GCList(r) == List(r, Delivered \ {gc[r].spare})

GCRemove(r) ==
    /\ at[r] = "rm"
    /\ \E s \in gc[r].doomed :
         /\ bundle' = [bundle EXCEPT ![s] = "absent"]
         /\ gc' = [gc EXCEPT ![r] = [spare |-> gc[r].spare, doomed |-> gc[r].doomed \ {s}]]
    /\ UNCHANGED <<current, tmp, seed, at, sha, kind, overlapped>>

GCDone(r) ==
    /\ at[r] = "rm"
    /\ gc[r].doomed = {}
    /\ Continue(r, "done")
    /\ UNCHANGED <<bundle, current, tmp, seed, memory>>

(* The script has ended, by its last command or by any that failed *)
Reset(r) ==
    /\ Continue(r, "idle")
    /\ sha' = [sha EXCEPT ![r] = Nothing]
    /\ kind' = [kind EXCEPT ![r] = Nothing]
    /\ gc' = [gc EXCEPT ![r] = NoGC]
    /\ UNCHANGED <<bundle, current, tmp, seed, overlapped>>

Succeed(r) == at[r] = "done" /\ Reset(r)
Fail(r) == at[r] \notin {"idle", "done"} /\ Reset(r)

AppNext ==
    \/ SeedTest \/ SeedLink
    \/ \E r \in Scripts :
         \/ Release(r) \/ Rollback(r) \/ Extract(r) \/ Extracted(r) \/ TestDir(r)
         \/ NginxTest(r) \/ StageLink(r) \/ PublishLink(r) \/ Reload(r)
         \/ GCReadlink(r) \/ GCList(r) \/ GCRemove(r) \/ GCDone(r)
         \/ Succeed(r) \/ Fail(r)

AppSpec == AppInit /\ [][AppNext]_appVars

-----------------------------------------------------------------------------
(* Properties.                                                              *)

(* While scripts run one at a time, whichever of their commands fail and
   whatever a failed script left behind, the document root exists, for a GC never
   removes the bundle `current` names (app.go:82-87), and what a script reports
   as done is what is served, although the staging name `.current.tmp` is shared
   (app.go:61-66). *)
AloneIsServed ==
    ~overlapped =>
        /\ current \in Bundles => bundle[current] # "absent"
        /\ \A r \in Scripts : at[r] = "done" => current = sha[r]

(* Once there is a document root there always is one, and a provisioning run
   never moves it off a release, whatever runs beside it (app.go:68-75,
   57-58). *)
CurrentNeverLost ==
    [][/\ current # Nothing => current' # Nothing
       /\ current' = Placeholder => current \in {Nothing, Placeholder}]_appVars

=============================================================================
