------------------------------ MODULE MeshTrust ------------------------------
(***************************************************************************)
(* One two-tier mesh PKI: the operators' commands on its committed store   *)
(* (cmd/inforge/pki.go, internal/pki), the renew runs that mint leaves     *)
(* from it and push them to the mesh (internal/meshcert, sshpush.go), and  *)
(* what the pushed material lets two members verify of each other.         *)
(*                                                                         *)
(* A certificate is who issued it and whose key it certifies; a member     *)
(* presents its leaf alone, so the verifier needs, in its own bundle, an   *)
(* intermediate with the key that signed the leaf and the self-signed root *)
(* that issued that intermediate (OpenSSL builds no partial chain).        *)
(***************************************************************************)
EXTENDS Integers, Sequences

CONSTANTS
    Regions,    \* abstract regions of the region table
    Global,     \* the scope of global services
    Members,    \* mesh hosts, and services with mtls files of their own
    ScopeOf,    \* member -> the scope its leaf is minted in
    Direct,     \* the members whose leaf a release refreshes too (mtls_files)
    Renewers,   \* concurrent renew or deploy-baseline runs
    MaxRoots,   \* bound: roots ever generated
    MaxKeys,    \* bound: intermediate keys ever generated
    NoCert,     \* a scope without intermediate
    NoMaterial  \* a member without leaf.age, or one that is down or serves placeholders

Scopes == Regions \cup {Global}

ASSUME MeshAssumption ==
    /\ Global \notin Regions
    /\ ScopeOf \in [Members -> Scopes]
    /\ Direct \subseteq Members
    /\ MaxRoots \in Nat /\ MaxKeys \in Nat

(* Root 0 is none yet; an intermediate names its scope, its key, its issuer *)
Certs == [scope : Scopes, key : 1..MaxKeys, issuer : 1..MaxRoots]
ASSUME NoCertAssumption == NoCert \notin Certs

Stores == [root : 0..MaxRoots, prevRoots : SUBSET (1..MaxRoots),
           inter : [Scopes -> Certs \cup {NoCert}], prevInter : SUBSET Certs]
Materials == [leaf : 1..MaxKeys, inters : SUBSET Certs, roots : SUBSET (1..MaxRoots)]
ASSUME NoMaterialAssumption == NoMaterial \notin Materials \cup Members

VARIABLES
    store,    \* the committed store file
    keys,     \* the intermediate keys generated so far: key -> its scope
    roots,    \* roots generated so far
    run,      \* renewer -> its phase, the store it loaded, members left, whether all went well
    staged,   \* member -> the material in its leaf.age
    loaded,   \* member -> the material its proxy or service runs with
    reissued  \* history: the scopes whose intermediate key was ever replaced

vars == <<store, keys, roots, run, staged, loaded, reissued>>
fleet == <<run, staged, loaded>>

EmptyStore == [root |-> 0, prevRoots |-> {}, inter |-> [s \in Scopes |-> NoCert], prevInter |-> {}]
NoRun == [at |-> "idle", store |-> EmptyStore, todo |-> {}, host |-> NoMaterial, ok |-> TRUE]

Init ==
    /\ store = EmptyStore
    /\ keys = <<>> /\ roots = 0
    /\ run = [r \in Renewers |-> NoRun]
    /\ staged = [m \in Members |-> NoMaterial]
    /\ loaded = [m \in Members |-> NoMaterial]
    /\ reissued = {}

-----------------------------------------------------------------------------
(* The operators' commands: each loads the store, checks, and saves it.     *)

Overlap(st) == st.prevRoots # {}

(* pki add --topology two-tier: a first root, under the next fresh name *)
AddPki ==
    /\ store.root = 0
    /\ roots < MaxRoots
    /\ roots' = roots + 1
    /\ store' = [store EXCEPT !.root = roots']
    /\ UNCHANGED <<keys, reissued, fleet>>

(* mintScopeIntermediate: a fresh key, signed by the current root *)
MintIntermediate(s) ==
    /\ store.root # 0
    /\ Len(keys) < MaxKeys
    /\ keys' = Append(keys, s)
    /\ store' = [store EXCEPT !.inter = [store.inter EXCEPT ![s] =
                    [scope |-> s, key |-> Len(keys'), issuer |-> store.root]]]

(* Mutant: no overlap guard *)
AddIntermediateAnytime(s) ==
    /\ store.inter[s] = NoCert
    /\ MintIntermediate(s)
    /\ UNCHANGED <<roots, reissued, fleet>>

(* pki intermediate: a scope that has none, never during an overlap *)
AddIntermediate(s) ==
    /\ store.inter[s] = NoCert
    /\ ~Overlap(store)
    /\ MintIntermediate(s)
    /\ UNCHANGED <<roots, reissued, fleet>>

(* pki rotate --intermediate, recover-intermediate: reissueIntermediate *)
ReissueIntermediate(s) ==
    /\ store.inter[s] # NoCert
    /\ ~Overlap(store)
    /\ MintIntermediate(s)
    /\ reissued' = reissued \cup {s}
    /\ UNCHANGED <<roots, fleet>>

(* pki rotate --root: every intermediate is signed again, over its own key,
   by a new root; the old root and the old certificates are retained *)
(* Mutant: the old certificate is kept *)
ReSignedNot(c, root) == c
ReSigned(c, root) == [scope |-> c.scope, key |-> c.key, issuer |-> root]

(* Mutant: a scope without intermediate is retained too *)
RotateRootBlank ==
    /\ store.root # 0
    /\ ~Overlap(store)
    /\ roots < MaxRoots
    /\ roots' = roots + 1
    /\ store' = [root |-> roots',
                 prevRoots |-> {store.root},
                 inter |-> [s \in Scopes |-> IF store.inter[s] = NoCert THEN NoCert
                                             ELSE ReSigned(store.inter[s], roots')],
                 prevInter |-> {store.inter[s] : s \in Scopes}]
    /\ UNCHANGED <<keys, reissued, fleet>>
RotateRoot ==
    /\ store.root # 0
    /\ ~Overlap(store)
    /\ roots < MaxRoots
    /\ roots' = roots + 1
    /\ store' = [root |-> roots',
                 prevRoots |-> {store.root},
                 inter |-> [s \in Scopes |-> IF store.inter[s] = NoCert THEN NoCert
                                             ELSE ReSigned(store.inter[s], roots')],
                 prevInter |-> {store.inter[s] : s \in Scopes} \ {NoCert}]
    /\ UNCHANGED <<keys, reissued, fleet>>

(* pki rotate --root --finalize *)
Finalize ==
    /\ Overlap(store)
    /\ store' = [store EXCEPT !.prevRoots = {}, !.prevInter = {}]
    /\ UNCHANGED <<keys, roots, reissued, fleet>>

-----------------------------------------------------------------------------
(* Minting and pushing.                                                     *)

(* meshcert.TrustSet: the regional boundary *)
(* Mutant: no regional boundary *)
TrustSetAll(s) == Scopes
TrustSet(s) == IF s = Global THEN Scopes ELSE {s, Global}

(* Store.TrustBundle over that set: its intermediates and every root *)
Bundle(st, s) == [inters |-> {st.inter[t] : t \in TrustSet(s)}, roots |-> {st.root} \cup st.prevRoots]

CanMint(st, s) == \A t \in TrustSet(s) : st.inter[t] # NoCert

(* renewMeshCertsAs: a leaf from the scope's intermediate, and the bundle *)
Mint(st, s) ==
    [leaf |-> st.inter[s].key, inters |-> Bundle(st, s).inters, roots |-> Bundle(st, s).roots]

(* A run loads the store once, then pushes member by member; todo is the
   whole fleet for renew and the deploy baseline, and one mtls_files service
   for the mint that precedes its release *)
StartRun(r) ==
    /\ run[r].at = "idle"
    /\ store.root # 0
    /\ \E todo \in {Members} \cup {{m} : m \in Direct} :
         run' = [run EXCEPT ![r] = [at |-> IF todo = Members THEN "renew" ELSE "release",
                                    store |-> store, todo |-> todo, host |-> NoMaterial, ok |-> TRUE]]
    /\ UNCHANGED <<store, keys, roots, reissued, staged, loaded>>

(* A member whose material cannot be assembled is skipped whole; the other
   members are still served, and the run reports failure *)
SkipMember(r) ==
    /\ run[r].at \in {"renew", "release"} /\ run[r].host = NoMaterial
    /\ \E m \in run[r].todo :
         /\ ~CanMint(run[r].store, ScopeOf[m])
         /\ run' = [run EXCEPT ![r] = [run[r] EXCEPT !.todo = run[r].todo \ {m}, !.ok = FALSE]]
    /\ UNCHANGED <<store, keys, roots, reissued, staged, loaded>>

(* pushHostSecrets writes leaf.age (staged, then renamed into place) ... *)
WriteLeaf(r) ==
    /\ run[r].at \in {"renew", "release"} /\ run[r].host = NoMaterial
    /\ \E m \in run[r].todo :
         /\ CanMint(run[r].store, ScopeOf[m])
         /\ staged' = [staged EXCEPT ![m] = Mint(run[r].store, ScopeOf[m])]
         /\ run' = [run EXCEPT ![r] = [run[r] EXCEPT !.todo = run[r].todo \ {m},
                                        !.host = IF run[r].at = "renew" THEN m ELSE NoMaterial]]
    /\ UNCHANGED <<store, keys, roots, reissued, loaded>>

(* ... and, in a full run, projects it and reloads the unit if it is running *)
ReloadMember(r) ==
    /\ run[r].host # NoMaterial
    /\ \/ loaded' = [loaded EXCEPT ![run[r].host] = staged[run[r].host]]
       \/ loaded[run[r].host] = NoMaterial /\ UNCHANGED loaded
    /\ run' = [run EXCEPT ![r] = [run[r] EXCEPT !.host = NoMaterial]]
    /\ UNCHANGED <<store, keys, roots, reissued, staged>>

(* Mutant: the error is dropped *)
FailPushSilently(r) ==
    /\ run[r].at \in {"renew", "release"}
    /\ run[r].host # NoMaterial
    /\ run' = [run EXCEPT ![r] = [run[r] EXCEPT !.host = NoMaterial]]
    /\ UNCHANGED <<store, keys, roots, reissued, staged, loaded>>

(* Any call to a member may fail: the error is kept, the run goes on *)
FailPush(r) ==
    /\ run[r].at \in {"renew", "release"}
    /\ \/ /\ run[r].host # NoMaterial
          /\ run' = [run EXCEPT ![r] = [run[r] EXCEPT !.host = NoMaterial, !.ok = FALSE]]
       \/ /\ run[r].host = NoMaterial
          /\ \E m \in run[r].todo :
               run' = [run EXCEPT ![r] = [run[r] EXCEPT !.todo = run[r].todo \ {m}, !.ok = FALSE]]
    /\ UNCHANGED <<store, keys, roots, reissued, staged, loaded>>

FinishRun(r) ==
    /\ run[r].at \in {"renew", "release"}
    /\ run[r].todo = {} /\ run[r].host = NoMaterial
    /\ run' = [run EXCEPT ![r] = IF run[r].ok /\ run[r].at = "renew"
                                 THEN [run[r] EXCEPT !.at = "renewed"] ELSE NoRun]
    /\ UNCHANGED <<store, keys, roots, reissued, staged, loaded>>

(* The next command starts; a run may also be killed between two calls *)
EndRun(r) ==
    /\ run[r].at # "idle"
    /\ run' = [run EXCEPT ![r] = NoRun]
    /\ UNCHANGED <<store, keys, roots, reissued, staged, loaded>>

(* A start of the unit, after a reboot or a release: it projects leaf.age
   again (ExecStartPre, runBoot) before it serves *)
Restart(m) ==
    /\ loaded' = [loaded EXCEPT ![m] = staged[m]]
    /\ UNCHANGED <<store, keys, roots, reissued, run, staged>>

(* The unit stops, or the host is down *)
Stop(m) ==
    /\ loaded[m] # NoMaterial
    /\ loaded' = [loaded EXCEPT ![m] = NoMaterial]
    /\ UNCHANGED <<store, keys, roots, reissued, run, staged>>

Custody == AddPki \/ RotateRoot \/ Finalize \/ \E s \in Scopes : AddIntermediate(s) \/ ReissueIntermediate(s)
Pushing(r) == StartRun(r) \/ SkipMember(r) \/ WriteLeaf(r) \/ ReloadMember(r)
                \/ FailPush(r) \/ FinishRun(r) \/ EndRun(r)
Next == Custody \/ (\E r \in Renewers : Pushing(r)) \/ (\E m \in Members : Restart(m) \/ Stop(m))
Spec == Init /\ [][Next]_vars

-----------------------------------------------------------------------------
(* Properties.                                                              *)

Runs == [at : {"idle", "renew", "release", "renewed"}, store : Stores, todo : SUBSET Members,
         host : Members \cup {NoMaterial}, ok : BOOLEAN]

(* Shape of the state. *)
TypeOK ==
    /\ store \in Stores
    /\ keys \in Seq(Scopes) /\ Len(keys) <= MaxKeys
    /\ roots \in 0..MaxRoots
    /\ run \in [Renewers -> Runs]
    /\ staged \in [Members -> Materials \cup {NoMaterial}]
    /\ loaded \in [Members -> Materials \cup {NoMaterial}]
    /\ reissued \subseteq Scopes

(* a accepts b's leaf; a should trust b: their regions are the same, or one
   of them is global (ADR-0024) *)
Verifies(a, b) == \E c \in loaded[a].inters : c.key = loaded[b].leaf /\ c.issuer \in loaded[a].roots
Serving == {m \in Members : loaded[m] # NoMaterial}
Trusts(a, b) == ScopeOf[a] = Global \/ ScopeOf[b] \in {ScopeOf[a], Global}

(* Root rotations, begun and finalized at any moment and mixed with renewals
   from any version of the store, are invisible to the mesh: members that
   should trust each other verify each other as long as nobody replaced the
   key of the presenter's scope (pki.go:494-509, x509.go ReSignIntermediate). *)
RootRotationInvisible ==
    \A a, b \in Serving : Trusts(a, b) /\ ScopeOf[b] \notin reissued => Verifies(a, b)

(* No region ever accepts another region's leaf (ADR-0024, meshcert.go:138-140). *)
RegionalBoundary == \A a, b \in Serving : ~Trusts(a, b) => ~Verifies(a, b)

(* In an overlap a consumer of either root can validate every scope: its
   current key is certified by the new root and by the old one, so nothing
   was minted under the new root alone (no-intermediate-remint rule,
   pki.go:256-262, 423-428). *)
OverlapServesBothRoots ==
    \A s \in Scopes, old \in store.prevRoots : store.inter[s] # NoCert =>
        /\ store.inter[s].issuer = store.root
        /\ \E c \in store.prevInter : c.scope = s /\ c.key = store.inter[s].key /\ c.issuer = old

(* After a renew that reported no failure, with no other run beside it, every
   member runs, or will start, on a leaf of the key the store had when the run
   began: nobody still presents a leaf of a key burned before (pki.go:391-397). *)
RenewedIsFresh ==
    \A r \in Renewers, m \in Members : run[r].at = "renewed" =>
        /\ staged[m] # NoMaterial /\ staged[m].leaf = run[r].store.inter[ScopeOf[m]].key
        /\ loaded[m] # NoMaterial => loaded[m].leaf = staged[m].leaf
=============================================================================
