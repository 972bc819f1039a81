--------------------------- MODULE MeshTrustProofs ---------------------------
(***************************************************************************)
(* What holds of MeshTrust for any regions, members and renew runs.  The   *)
(* inductive invariant follows every key wherever it went: into the store, *)
(* into the snapshot a run works from, into the bundles and leaves that    *)
(* members stage or run with.                                              *)
(***************************************************************************)
EXTENDS MeshTrust, TLAPS

(* The keys generated for each scope; of a scope never reissued, its key *)
Known == [s \in Scopes |-> {k \in 1..Len(keys) :
    keys[k] = s /\ (s \notin reissued => store.inter[s] # NoCert /\ store.inter[s].key = k)}]

(* Every intermediate of a store is signed by the store's own root *)
StoreGood(known, st) ==
    \A s \in Scopes : st.inter[s] # NoCert =>
        st.inter[s].scope = s /\ st.inter[s].issuer = st.root /\ st.inter[s].key \in known[s]

(* A bundle covers its member's trust set, with certificates it can anchor *)
MaterialGood(known, m, x) == x # NoMaterial =>
    /\ x.leaf \in known[ScopeOf[m]]
    /\ \A c \in x.inters :
         c.issuer \in x.roots /\ c.scope \in TrustSet(ScopeOf[m]) /\ c.key \in known[c.scope]
    /\ \A t \in TrustSet(ScopeOf[m]) : \E c \in x.inters : c.scope = t

FleetGood ==
    /\ \A r \in Renewers : StoreGood(Known, run[r].store)
    /\ \A m \in Members : MaterialGood(Known, m, staged[m]) /\ MaterialGood(Known, m, loaded[m])

Inv == TypeOK /\ StoreGood(Known, store) /\ FleetGood

-----------------------------------------------------------------------------
(* The records the actions build. *)

LEMMA EmptyStoreType == EmptyStore \in Stores
  BY MeshAssumption DEF EmptyStore, Stores

LEMMA NoRunType == NoRun \in Runs
  BY EmptyStoreType DEF NoRun, Runs

(* A trust set is made of scopes and holds the member's own. *)
LEMMA TrustSetScopes ==
  ASSUME NEW s \in Scopes PROVE TrustSet(s) \subseteq Scopes /\ s \in TrustSet(s)
  BY DEF TrustSet, Scopes

(* The material minted from a good store is well-formed and good. *)
LEMMA MintGood ==
  ASSUME NEW known, NEW st \in Stores, StoreGood(known, st), NEW m \in Members, CanMint(st, ScopeOf[m])
  PROVE  Mint(st, ScopeOf[m]) \in Materials /\ MaterialGood(known, m, Mint(st, ScopeOf[m]))
<1> DEFINE s == ScopeOf[m]
<1> DEFINE x == Mint(st, s)
<1>1. s \in Scopes /\ TrustSet(s) \subseteq Scopes /\ s \in TrustSet(s)
  BY MeshAssumption, TrustSetScopes
<1>2. \A t \in TrustSet(s) : st.inter[t] # NoCert /\ st.inter[t] \in Certs
  BY <1>1 DEF CanMint, Stores
<1>3. x.leaf = st.inter[s].key /\ x.inters = {st.inter[t] : t \in TrustSet(s)} /\ x.roots = {st.root} \cup st.prevRoots
  BY DEF Mint, Bundle
<1>4. st.root \in 1..MaxRoots
  BY <1>1, <1>2 DEF StoreGood, Certs
<1>5. x \in Materials
  BY <1>1, <1>2, <1>4 DEF Mint, Bundle, Materials, Stores, Certs
<1>6. MaterialGood(known, m, x)
  <2>1. x.leaf \in known[s]
    BY <1>1, <1>2, <1>3 DEF StoreGood
  <2>2. ASSUME NEW c \in x.inters
        PROVE  c.issuer \in x.roots /\ c.scope \in TrustSet(s) /\ c.key \in known[c.scope]
    <3>1. PICK t \in TrustSet(s) : c = st.inter[t]
      BY <1>3
    <3>2. c.scope = t /\ c.issuer = st.root /\ c.key \in known[t]
      BY <3>1, <1>1, <1>2 DEF StoreGood
    <3> QED BY <3>1, <3>2, <1>3
  <2>3. ASSUME NEW t \in TrustSet(s) PROVE \E c \in x.inters : c.scope = t
    BY <1>1, <1>2, <1>3 DEF StoreGood
  <2> QED BY <2>1, <2>2, <2>3 DEF MaterialGood
<1> QED BY <1>5, <1>6

-----------------------------------------------------------------------------
(* Initially nothing is known. *)
LEMMA Initially == Init => Inv /\ OverlapServesBothRoots
<1> SUFFICES ASSUME Init PROVE Inv /\ OverlapServesBothRoots
  OBVIOUS
<1>1. TypeOK
  BY EmptyStoreType, NoRunType, MeshAssumption DEF Init, TypeOK
<1>2. StoreGood(Known, EmptyStore)
  BY DEF StoreGood, EmptyStore
<1>3. FleetGood
  BY <1>2 DEF Init, FleetGood, MaterialGood, NoRun
<1>4. OverlapServesBothRoots
  BY DEF Init, EmptyStore, OverlapServesBothRoots
<1> QED BY <1>1, <1>2, <1>3, <1>4 DEF Inv, Init

-----------------------------------------------------------------------------
(* The operators' commands. *)

(* A certificate signed again is a certificate. *)
LEMMA ReSignedType ==
  ASSUME NEW c \in Certs, NEW root \in 1..MaxRoots
  PROVE  ReSigned(c, root) \in Certs /\ ReSigned(c, root) # NoCert
  BY NoCertAssumption DEF ReSigned, Certs

(* The certificate a fresh key is minted with. *)
LEMMA FreshCert ==
  ASSUME TypeOK, NEW s \in Scopes, store.root # 0, Len(keys) < MaxKeys
  PROVE  /\ Append(keys, s) \in Seq(Scopes)
         /\ Len(Append(keys, s)) = Len(keys) + 1 /\ Len(keys) + 1 \in 1..MaxKeys
         /\ [scope |-> s, key |-> Len(Append(keys, s)), issuer |-> store.root] \in Certs
         /\ [scope |-> s, key |-> Len(Append(keys, s)), issuer |-> store.root] # NoCert
<1>1. store.root \in 1..MaxRoots /\ MaxRoots \in Nat /\ MaxKeys \in Nat
  BY MeshAssumption DEF TypeOK, Stores
<1>2. keys \in Seq(Scopes) /\ Len(keys) \in Nat
  BY DEF TypeOK
<1>3. Append(keys, s) \in Seq(Scopes) /\ Len(Append(keys, s)) = Len(keys) + 1
  BY <1>2
<1>4. Len(keys) + 1 \in 1..MaxKeys
  BY <1>1, <1>2
<1> QED BY <1>1, <1>3, <1>4, NoCertAssumption DEF Certs

(* What minting for scope s leaves in the store. *)
LEMMA MintStep ==
  ASSUME TypeOK, NEW s \in Scopes, MintIntermediate(s)
  PROVE  /\ store' \in Stores /\ keys' \in Seq(Scopes) /\ Len(keys') <= MaxKeys
         /\ store'.root = store.root /\ store'.prevRoots = store.prevRoots
         /\ store'.prevInter = store.prevInter
         /\ store'.inter[s] = [scope |-> s, key |-> Len(keys'), issuer |-> store.root]
         /\ store'.inter[s] # NoCert
         /\ \A t \in Scopes \ {s} : store'.inter[t] = store.inter[t]
         /\ Len(keys') \in 1..Len(keys') /\ keys'[Len(keys')] = s
         /\ \A k \in 1..Len(keys) : k \in 1..Len(keys') /\ keys'[k] = keys[k]
<1> DEFINE c == [scope |-> s, key |-> Len(Append(keys, s)), issuer |-> store.root]
<1>1. store.root # 0 /\ Len(keys) < MaxKeys /\ keys' = Append(keys, s)
      /\ store' = [store EXCEPT !.inter = [store.inter EXCEPT ![s] = c]]
  BY DEF MintIntermediate
<1>2. /\ Append(keys, s) \in Seq(Scopes) /\ c \in Certs /\ c # NoCert
      /\ Len(Append(keys, s)) = Len(keys) + 1 /\ Len(keys) + 1 \in 1..MaxKeys
  BY <1>1, FreshCert
<1> HIDE DEF c
<1>3. store \in Stores /\ keys \in Seq(Scopes) /\ Len(keys) \in Nat
  BY DEF TypeOK
<1>4. store'.root = store.root /\ store'.prevRoots = store.prevRoots /\ store'.prevInter = store.prevInter
      /\ store'.inter = [store.inter EXCEPT ![s] = c]
  BY <1>1, <1>3 DEF Stores
<1>5. store' \in Stores
  BY <1>1, <1>2, <1>3 DEF Stores
<1>6. store'.inter[s] = c /\ \A t \in Scopes \ {s} : store'.inter[t] = store.inter[t]
  BY <1>3, <1>4 DEF Stores
<1>7. keys'[Len(keys')] = s /\ \A k \in 1..Len(keys) : k \in 1..Len(keys') /\ keys'[k] = keys[k]
  BY <1>1, <1>2, <1>3
<1>8. Len(keys') <= MaxKeys /\ Len(keys') \in 1..Len(keys')
  BY <1>1, <1>2, <1>3
<1> QED BY <1>1, <1>2, <1>4, <1>5, <1>6, <1>7, <1>8 DEF c

(* What a root rotation leaves in the store. *)
LEMMA RotateStep ==
  ASSUME TypeOK, RotateRoot
  PROVE  /\ store' \in Stores /\ roots' \in 1..MaxRoots
         /\ store'.root = roots' /\ store'.prevRoots = {store.root}
         /\ \A s \in Scopes : store.inter[s] = NoCert => store'.inter[s] = NoCert
         /\ \A s \in Scopes : store.inter[s] # NoCert =>
              /\ store'.inter[s] = ReSigned(store.inter[s], roots') /\ store'.inter[s] # NoCert
              /\ store.inter[s] \in store'.prevInter
<1>1. store \in Stores /\ roots \in 0..MaxRoots /\ MaxRoots \in Nat /\ store.root \in 1..MaxRoots
  BY MeshAssumption DEF TypeOK, RotateRoot, Stores
<1>2. roots' \in 1..MaxRoots
  BY <1>1 DEF RotateRoot
<1>3. \A s \in Scopes : store.inter[s] # NoCert =>
         store.inter[s] \in Certs /\ ReSigned(store.inter[s], roots') \in Certs
         /\ ReSigned(store.inter[s], roots') # NoCert
  BY <1>1, <1>2, ReSignedType DEF Stores
<1> DEFINE inter == [s \in Scopes |-> IF store.inter[s] = NoCert THEN NoCert
                                      ELSE ReSigned(store.inter[s], roots')]
<1> DEFINE old == {store.inter[s] : s \in Scopes} \ {NoCert}
<1>4. store' = [root |-> roots', prevRoots |-> {store.root}, inter |-> inter, prevInter |-> old]
  BY DEF RotateRoot
<1>5. inter \in [Scopes -> Certs \cup {NoCert}]
  BY <1>3
<1>6. old \in SUBSET Certs
  BY <1>3
<1>7. \A s \in Scopes : store.inter[s] # NoCert => store.inter[s] \in old
  OBVIOUS
<1>8. \A s \in Scopes : inter[s] = IF store.inter[s] = NoCert THEN NoCert ELSE ReSigned(store.inter[s], roots')
  OBVIOUS
<1> HIDE DEF inter, old
<1>9. store' \in Stores
  BY <1>1, <1>2, <1>4, <1>5, <1>6 DEF Stores
<1> QED BY <1>2, <1>3, <1>4, <1>7, <1>8, <1>9

(* No command makes a known key unknown. *)
LEMMA KnownStays ==
  ASSUME TypeOK, Custody
  PROVE  \A s \in Scopes : Known[s] \subseteq Known'[s]
<1>1. SUFFICES ASSUME NEW s \in Scopes, NEW k \in Known[s] PROVE k \in Known'[s]
  OBVIOUS
<1>2. k \in 1..Len(keys) /\ keys[k] = s /\ (s \notin reissued => store.inter[s] # NoCert /\ store.inter[s].key = k)
  BY <1>1 DEF Known
<1>3. SUFFICES /\ k \in 1..Len(keys') /\ keys'[k] = s
               /\ s \notin reissued' => store'.inter[s] # NoCert /\ store'.inter[s].key = k
  BY <1>1 DEF Known
<1>4. CASE AddPki
  BY <1>2, <1>4 DEF AddPki, TypeOK, Stores
<1>5. CASE RotateRoot
  <2>1. keys' = keys /\ reissued' = reissued
    BY <1>5 DEF RotateRoot
  <2>2. store.inter[s] # NoCert => store'.inter[s] # NoCert /\ store'.inter[s] = ReSigned(store.inter[s], roots')
    BY <1>5, RotateStep
  <2>3. store.inter[s] # NoCert => store'.inter[s].key = store.inter[s].key
    BY <2>2 DEF ReSigned
  <2> QED BY <1>2, <2>1, <2>2, <2>3
<1>6. CASE Finalize
  BY <1>2, <1>6 DEF Finalize, TypeOK, Stores
<1>7. ASSUME NEW t \in Scopes, MintIntermediate(t), t \in reissued' \/ store.inter[t] = NoCert,
             reissued \subseteq reissued'
      PROVE  /\ k \in 1..Len(keys') /\ keys'[k] = s
             /\ s \notin reissued' => store'.inter[s] # NoCert /\ store'.inter[s].key = k
  <2>1. k \in 1..Len(keys') /\ keys'[k] = s
    BY <1>2, <1>7, MintStep
  <2>2. ASSUME s \notin reissued' PROVE store'.inter[s] = store.inter[s]
    <3>1. s \notin reissued /\ store.inter[s] # NoCert
      BY <1>2, <1>7, <2>2
    <3>2. s \in Scopes \ {t}
      BY <1>7, <2>2, <3>1
    <3> QED BY <1>7, <3>2, MintStep
  <2>3. s \notin reissued' => s \notin reissued
    BY <1>7
  <2> QED BY <1>2, <2>1, <2>2, <2>3
<1>8. ASSUME NEW t \in Scopes, AddIntermediate(t)
      PROVE  /\ k \in 1..Len(keys') /\ keys'[k] = s
             /\ s \notin reissued' => store'.inter[s] # NoCert /\ store'.inter[s].key = k
  BY <1>7, <1>8 DEF AddIntermediate
<1>9. ASSUME NEW t \in Scopes, ReissueIntermediate(t)
      PROVE  /\ k \in 1..Len(keys') /\ keys'[k] = s
             /\ s \notin reissued' => store'.inter[s] # NoCert /\ store'.inter[s].key = k
  <2>1. MintIntermediate(t) /\ reissued' = reissued \cup {t}
    BY <1>9 DEF ReissueIntermediate
  <2>2. reissued \subseteq reissued' /\ t \in reissued'
    BY <2>1
  <2> QED BY <1>7, <2>1, <2>2
<1> QED BY <1>4, <1>5, <1>6, <1>8, <1>9 DEF Custody

(* What was good stays good while keys only become known. *)
LEMMA GoodStays ==
  ASSUME NEW known, NEW wider, \A s \in Scopes : known[s] \subseteq wider[s]
  PROVE  /\ \A st : StoreGood(known, st) => StoreGood(wider, st)
         /\ \A m \in Members, x \in Materials \cup {NoMaterial} : MaterialGood(known, m, x) => MaterialGood(wider, m, x)
<1>1. ASSUME NEW st, StoreGood(known, st) PROVE StoreGood(wider, st)
  BY <1>1 DEF StoreGood
<1>2. ASSUME NEW m \in Members, NEW x \in Materials \cup {NoMaterial}, MaterialGood(known, m, x)
      PROVE  MaterialGood(wider, m, x)
  <2>1. ScopeOf[m] \in Scopes
    BY MeshAssumption
  <2>2. x # NoMaterial => \A c \in x.inters : c.scope \in Scopes
    BY DEF Materials, Certs
  <2> QED BY <1>2, <2>1, <2>2 DEF MaterialGood
<1> QED BY <1>1, <1>2

(* The store a command leaves is of its type, and good. *)
LEMMA StoreStep ==
  ASSUME TypeOK, StoreGood(Known, store), Custody
  PROVE  /\ store' \in Stores /\ keys' \in Seq(Scopes) /\ Len(keys') <= MaxKeys
         /\ roots' \in 0..MaxRoots /\ reissued' \subseteq Scopes
         /\ StoreGood(Known', store')
<1> DEFINE Goal == /\ store' \in Stores /\ keys' \in Seq(Scopes) /\ Len(keys') <= MaxKeys
                   /\ roots' \in 0..MaxRoots /\ reissued' \subseteq Scopes
                   /\ StoreGood(Known', store')
<1>1. StoreGood(Known', store)
  BY KnownStays, GoodStays
<1>2. /\ store \in Stores /\ keys \in Seq(Scopes) /\ Len(keys) <= MaxKeys
      /\ roots \in 0..MaxRoots /\ reissued \subseteq Scopes /\ MaxRoots \in Nat
  BY MeshAssumption DEF TypeOK
<1>3. CASE AddPki
  <2>1. /\ store' = [store EXCEPT !.root = roots'] /\ roots' = roots + 1 /\ roots < MaxRoots /\ store.root = 0
        /\ keys' = keys /\ reissued' = reissued
    BY <1>3 DEF AddPki
  <2>2. roots' \in 0..MaxRoots
    BY <1>2, <2>1
  <2>3. store' \in Stores /\ store'.inter = store.inter
    BY <1>2, <2>1, <2>2 DEF Stores
  <2>4. ASSUME NEW s \in Scopes, store.inter[s] # NoCert PROVE FALSE
    <3>1. store.inter[s] \in Certs /\ store.inter[s].issuer = 0
      BY <1>1, <1>2, <2>1, <2>4 DEF StoreGood, Stores
    <3> QED BY <3>1 DEF Certs
  <2>5. StoreGood(Known', store')
    BY <2>3, <2>4 DEF StoreGood
  <2> QED BY <1>2, <2>1, <2>2, <2>3, <2>5
<1>4. CASE RotateRoot
  <2>1. keys' = keys /\ reissued' = reissued
    BY <1>4 DEF RotateRoot
  <2>2. store' \in Stores /\ roots' \in 1..MaxRoots /\ store'.root = roots'
    BY <1>4, RotateStep
  <2>3. ASSUME NEW s \in Scopes, store'.inter[s] # NoCert
        PROVE  store'.inter[s].scope = s /\ store'.inter[s].issuer = store'.root /\ store'.inter[s].key \in Known'[s]
    <3>1. store.inter[s] # NoCert /\ store'.inter[s] = ReSigned(store.inter[s], roots')
      BY <1>4, <2>3, RotateStep
    <3>2. store.inter[s].scope = s /\ store.inter[s].key \in Known'[s]
      BY <1>1, <3>1 DEF StoreGood
    <3> QED BY <2>2, <3>1, <3>2 DEF ReSigned
  <2>4. StoreGood(Known', store')
    BY <2>3 DEF StoreGood
  <2> QED BY <1>2, <2>1, <2>2, <2>4
<1>5. CASE Finalize
  <2>1. /\ keys' = keys /\ reissued' = reissued /\ roots' = roots /\ store' \in Stores
        /\ store'.root = store.root /\ store'.inter = store.inter
    BY <1>2, <1>5 DEF Finalize, Stores
  <2>2. StoreGood(Known', store')
    BY <1>1, <2>1 DEF StoreGood
  <2> QED BY <1>2, <2>1, <2>2
<1>6. ASSUME NEW t \in Scopes, MintIntermediate(t), roots' = roots
      PROVE  /\ store' \in Stores /\ keys' \in Seq(Scopes) /\ Len(keys') <= MaxKeys /\ StoreGood(Known', store')
  <2>1. ASSUME NEW s \in Scopes, store'.inter[s] # NoCert
        PROVE  store'.inter[s].scope = s /\ store'.inter[s].issuer = store'.root /\ store'.inter[s].key \in Known'[s]
    <3>1. CASE s = t
      <4>1. store'.inter[s] = [scope |-> s, key |-> Len(keys'), issuer |-> store.root] /\ store'.root = store.root
        BY <1>6, <3>1, MintStep
      <4>2. Len(keys') \in 1..Len(keys') /\ keys'[Len(keys')] = s
        BY <1>6, <3>1, MintStep
      <4>3. Len(keys') \in Known'[s]
        BY <2>1, <4>1, <4>2 DEF Known
      <4> QED BY <4>1, <4>3
    <3>2. CASE s # t
      <4>1. store'.inter[s] = store.inter[s] /\ store'.root = store.root
        <5>1. \A u \in Scopes \ {t} : store'.inter[u] = store.inter[u]
          BY <1>6, MintStep
        <5>2. store'.root = store.root
          BY <1>6, MintStep
        <5> QED BY <3>2, <5>1, <5>2
      <4> QED BY <1>1, <2>1, <4>1 DEF StoreGood
    <3> QED BY <3>1, <3>2
  <2>2. StoreGood(Known', store')
    BY <2>1 DEF StoreGood
  <2> QED BY <1>6, <2>2, MintStep
<1>7. ASSUME NEW t \in Scopes, AddIntermediate(t) PROVE Goal
  BY <1>2, <1>6, <1>7 DEF AddIntermediate
<1>8. ASSUME NEW t \in Scopes, ReissueIntermediate(t) PROVE Goal
  BY <1>2, <1>6, <1>8 DEF ReissueIntermediate
<1> QED BY <1>3, <1>4, <1>5, <1>7, <1>8 DEF Custody

(* A command keeps the invariant: the fleet does not move. *)
LEMMA CustodyStep ==
  ASSUME Inv, Custody
  PROVE  Inv'
<1>1. TypeOK /\ StoreGood(Known, store) /\ FleetGood
  BY DEF Inv
<1>2. run' = run /\ staged' = staged /\ loaded' = loaded
  BY DEF Custody, AddPki, RotateRoot, Finalize, AddIntermediate, ReissueIntermediate, fleet
<1>3. TypeOK' /\ StoreGood(Known', store')
  BY <1>1, <1>2, StoreStep DEF TypeOK
<1>4. FleetGood'
  <2>1. ASSUME NEW r \in Renewers PROVE StoreGood(Known', run'[r].store)
    BY <1>1, <1>2, KnownStays, GoodStays DEF FleetGood
  <2>2. ASSUME NEW m \in Members PROVE MaterialGood(Known', m, staged'[m]) /\ MaterialGood(Known', m, loaded'[m])
    <3>1. staged[m] \in Materials \cup {NoMaterial} /\ loaded[m] \in Materials \cup {NoMaterial}
      BY <1>1 DEF TypeOK
    <3>2. MaterialGood(Known, m, staged[m]) /\ MaterialGood(Known, m, loaded[m])
      BY <1>1 DEF FleetGood
    <3> QED BY <1>1, <1>2, <3>1, <3>2, KnownStays, GoodStays
  <2> QED BY <2>1, <2>2 DEF FleetGood
<1> QED BY <1>3, <1>4 DEF Inv
-----------------------------------------------------------------------------
(* The renew runs and the restarts. The keys and the store do not move.     *)

(* Loading a store, or forgetting it, keeps the run's snapshot good; only   *)
(* minting and reloading touch the material.                                *)
LEMMA PushingStep ==
  ASSUME Inv, NEW r \in Renewers, Pushing(r)
  PROVE  Inv'
<1>1. TypeOK /\ StoreGood(Known, store) /\ FleetGood
  BY DEF Inv
<1>2. store' = store /\ keys' = keys /\ roots' = roots /\ reissued' = reissued
  BY DEF Pushing, StartRun, SkipMember, WriteLeaf, ReloadMember, FailPush, FinishRun, EndRun
<1>3. Known' = Known
  BY <1>2 DEF Known
<1>4. run[r] \in Runs /\ run[r].store \in Stores /\ store \in Stores
  BY <1>1 DEF TypeOK, Runs
<1>5. StoreGood(Known, EmptyStore)
  BY DEF StoreGood, EmptyStore
<1>6. SUFFICES /\ run' \in [Renewers -> Runs] /\ \A q \in Renewers : StoreGood(Known, run'[q].store)
               /\ staged' \in [Members -> Materials \cup {NoMaterial}]
               /\ loaded' \in [Members -> Materials \cup {NoMaterial}]
               /\ \A m \in Members : MaterialGood(Known, m, staged'[m]) /\ MaterialGood(Known, m, loaded'[m])
  BY <1>1, <1>2, <1>3 DEF Inv, TypeOK, FleetGood
<1>7. ASSUME NEW x \in Runs, StoreGood(Known, x.store), run' = [run EXCEPT ![r] = x]
      PROVE  run' \in [Renewers -> Runs] /\ \A q \in Renewers : StoreGood(Known, run'[q].store)
  BY <1>1, <1>7 DEF TypeOK, FleetGood
<1>8. /\ staged \in [Members -> Materials \cup {NoMaterial}]
      /\ loaded \in [Members -> Materials \cup {NoMaterial}]
      /\ \A m \in Members : MaterialGood(Known, m, staged[m]) /\ MaterialGood(Known, m, loaded[m])
  BY <1>1 DEF TypeOK, FleetGood
<1>9. CASE StartRun(r)
  <2>1. PICK todo \in {Members} \cup {{m} : m \in Direct} :
          run' = [run EXCEPT ![r] = [at |-> IF todo = Members THEN "renew" ELSE "release",
                                     store |-> store, todo |-> todo, host |-> NoMaterial, ok |-> TRUE]]
    BY <1>9 DEF StartRun
  <2>2. todo \subseteq Members
    BY MeshAssumption
  <2> DEFINE x == [at |-> IF todo = Members THEN "renew" ELSE "release",
                   store |-> store, todo |-> todo, host |-> NoMaterial, ok |-> TRUE]
  <2>3. x \in Runs /\ x.store = store
    BY <1>4, <2>2 DEF Runs
  <2> HIDE DEF x
  <2>4. run' \in [Renewers -> Runs] /\ \A q \in Renewers : StoreGood(Known, run'[q].store)
    BY <1>1, <1>7, <2>1, <2>3 DEF x
  <2> QED BY <1>8, <1>9, <2>4 DEF StartRun
<1>10. StoreGood(Known, run[r].store)
  BY <1>1 DEF FleetGood
<1>11. CASE SkipMember(r)
  <2>1. PICK m \in run[r].todo :
          run' = [run EXCEPT ![r] = [run[r] EXCEPT !.todo = run[r].todo \ {m}, !.ok = FALSE]]
    BY <1>11 DEF SkipMember
  <2>2. [run[r] EXCEPT !.todo = run[r].todo \ {m}, !.ok = FALSE] \in Runs
        /\ [run[r] EXCEPT !.todo = run[r].todo \ {m}, !.ok = FALSE].store = run[r].store
    BY <1>4 DEF Runs
  <2> QED BY <1>7, <1>8, <1>10, <1>11, <2>1, <2>2 DEF SkipMember
<1>12. CASE WriteLeaf(r)
  <2>1. PICK m \in run[r].todo :
          /\ CanMint(run[r].store, ScopeOf[m])
          /\ staged' = [staged EXCEPT ![m] = Mint(run[r].store, ScopeOf[m])]
          /\ run' = [run EXCEPT ![r] = [run[r] EXCEPT !.todo = run[r].todo \ {m},
                                         !.host = IF run[r].at = "renew" THEN m ELSE NoMaterial]]
    BY <1>12 DEF WriteLeaf
  <2>2. m \in Members
    BY <1>4 DEF Runs
  <2>3. Mint(run[r].store, ScopeOf[m]) \in Materials /\ MaterialGood(Known, m, Mint(run[r].store, ScopeOf[m]))
    BY <1>4, <1>10, <2>1, <2>2, MintGood
  <2> DEFINE host == IF run[r].at = "renew" THEN m ELSE NoMaterial
  <2>4. [run[r] EXCEPT !.todo = run[r].todo \ {m}, !.host = host] \in Runs
        /\ [run[r] EXCEPT !.todo = run[r].todo \ {m}, !.host = host].store = run[r].store
    BY <1>4, <2>2 DEF Runs
  <2>5. run' \in [Renewers -> Runs] /\ \A q \in Renewers : StoreGood(Known, run'[q].store)
    BY <1>7, <1>10, <2>1, <2>4
  <2>6. loaded' = loaded
    BY <1>12 DEF WriteLeaf
  <2> HIDE DEF host
  <2>7. staged' \in [Members -> Materials \cup {NoMaterial}]
        /\ \A n \in Members : staged'[n] = IF n = m THEN Mint(run[r].store, ScopeOf[m]) ELSE staged[n]
    BY <1>8, <2>1, <2>2, <2>3
  <2> QED BY <1>8, <2>3, <2>5, <2>6, <2>7
<1>13. CASE ReloadMember(r)
  <2>1. run' = [run EXCEPT ![r] = [run[r] EXCEPT !.host = NoMaterial]] /\ staged' = staged
        /\ \/ loaded' = [loaded EXCEPT ![run[r].host] = staged[run[r].host]]
           \/ loaded' = loaded
    BY <1>13 DEF ReloadMember
  <2>2. [run[r] EXCEPT !.host = NoMaterial] \in Runs /\ [run[r] EXCEPT !.host = NoMaterial].store = run[r].store
    BY <1>4 DEF Runs
  <2>3. run[r].host \in Members
    BY <1>4, <1>13 DEF Runs, ReloadMember
  <2> QED BY <1>7, <1>8, <1>10, <2>1, <2>2, <2>3
<1>14. CASE FailPush(r)
  <2>1. CASE run' = [run EXCEPT ![r] = [run[r] EXCEPT !.host = NoMaterial, !.ok = FALSE]]
    <3>1. [run[r] EXCEPT !.host = NoMaterial, !.ok = FALSE] \in Runs
          /\ [run[r] EXCEPT !.host = NoMaterial, !.ok = FALSE].store = run[r].store
      BY <1>4 DEF Runs
    <3> QED BY <1>7, <1>8, <1>10, <1>14, <2>1, <3>1 DEF FailPush
  <2>2. ASSUME NEW m \in run[r].todo,
               run' = [run EXCEPT ![r] = [run[r] EXCEPT !.todo = run[r].todo \ {m}, !.ok = FALSE]]
        PROVE  run' \in [Renewers -> Runs] /\ \A q \in Renewers : StoreGood(Known, run'[q].store)
    <3>1. [run[r] EXCEPT !.todo = run[r].todo \ {m}, !.ok = FALSE] \in Runs
          /\ [run[r] EXCEPT !.todo = run[r].todo \ {m}, !.ok = FALSE].store = run[r].store
      BY <1>4 DEF Runs
    <3> QED BY <1>7, <1>10, <2>2, <3>1
  <2> QED BY <1>8, <1>14, <2>1, <2>2 DEF FailPush
<1>15. NoRun \in Runs /\ StoreGood(Known, NoRun.store)
  BY <1>5, NoRunType DEF NoRun
<1>16. CASE FinishRun(r)
  <2>1. [run[r] EXCEPT !.at = "renewed"] \in Runs /\ [run[r] EXCEPT !.at = "renewed"].store = run[r].store
    BY <1>4 DEF Runs
  <2>2. \/ run' = [run EXCEPT ![r] = [run[r] EXCEPT !.at = "renewed"]]
        \/ run' = [run EXCEPT ![r] = NoRun]
    BY <1>16 DEF FinishRun
  <2>3. run' \in [Renewers -> Runs] /\ \A q \in Renewers : StoreGood(Known, run'[q].store)
    BY <1>7, <1>10, <1>15, <2>1, <2>2
  <2> QED BY <1>8, <1>16, <2>3 DEF FinishRun
<1>17. CASE EndRun(r)
  BY <1>7, <1>8, <1>15, <1>17 DEF EndRun
<1> QED BY <1>9, <1>11, <1>12, <1>13, <1>14, <1>16, <1>17 DEF Pushing

(* A restart runs with what was staged, a stopped unit with nothing. *)
LEMMA RestartStep ==
  ASSUME Inv, NEW m \in Members, Restart(m) \/ Stop(m)
  PROVE  Inv'
<1>1. TypeOK /\ StoreGood(Known, store) /\ FleetGood
  BY DEF Inv
<1>2. /\ store' = store /\ keys' = keys /\ roots' = roots /\ reissued' = reissued
      /\ run' = run /\ staged' = staged
      /\ loaded' = [loaded EXCEPT ![m] = staged[m]] \/ loaded' = [loaded EXCEPT ![m] = NoMaterial]
  BY DEF Restart, Stop
<1>3. Known' = Known
  BY <1>2 DEF Known
<1>4. loaded' \in [Members -> Materials \cup {NoMaterial}]
      /\ \A n \in Members : loaded'[n] \in {staged[n], loaded[n], NoMaterial}
  BY <1>1, <1>2 DEF TypeOK
<1>5. \A n \in Members : MaterialGood(Known, n, NoMaterial)
  BY DEF MaterialGood
<1>6. \A n \in Members : MaterialGood(Known, n, loaded'[n])
  BY <1>1, <1>4, <1>5 DEF FleetGood
<1> QED BY <1>1, <1>2, <1>3, <1>4, <1>6 DEF Inv, TypeOK, FleetGood

(* The invariant holds in every reachable state. *)
THEOREM Invariance == Spec => []Inv
<1>1. Init => Inv
  BY Initially
<1>2. Inv /\ [Next]_vars => Inv'
  <2>1. SUFFICES ASSUME Inv, [Next]_vars PROVE Inv'
    OBVIOUS
  <2>2. CASE UNCHANGED vars
    <3>1. /\ store' = store /\ keys' = keys /\ roots' = roots /\ reissued' = reissued
          /\ run' = run /\ staged' = staged /\ loaded' = loaded
      BY <2>2 DEF vars
    <3>2. Known' = Known
      BY <3>1 DEF Known
    <3> QED BY <2>1, <3>1, <3>2 DEF Inv, TypeOK, FleetGood
  <2> QED BY <2>1, <2>2, CustodyStep, PushingStep, RestartStep DEF Next
<1> QED BY <1>1, <1>2, PTL DEF Spec

(* Every store, run and piece of material has its shape. *)
THEOREM MeshTypeCorrect == Spec => []TypeOK
BY Invariance, PTL DEF Inv

(* Root rotation is invisible: whatever versions of the store two members'
   material was minted from, a member verifies whoever it should trust,
   unless that scope's key was replaced. *)
THEOREM RotationInvisible == Spec => []RootRotationInvisible
<1>1. Inv => RootRotationInvisible
  <2>1. SUFFICES ASSUME Inv, NEW a \in Serving, NEW b \in Serving, Trusts(a, b), ScopeOf[b] \notin reissued
                 PROVE  Verifies(a, b)
    BY DEF RootRotationInvisible
  <2>2. MaterialGood(Known, a, loaded[a]) /\ MaterialGood(Known, b, loaded[b]) /\ a \in Members /\ b \in Members
        /\ loaded[a] # NoMaterial /\ loaded[b] # NoMaterial
    BY <2>1 DEF Inv, FleetGood, Serving
  <2>3. ScopeOf[b] \in Scopes /\ loaded[b].leaf \in Known[ScopeOf[b]]
    BY <2>2, MeshAssumption DEF MaterialGood
  <2>4. PICK c \in loaded[a].inters : c.scope = ScopeOf[b]
    <3>1. ScopeOf[b] \in TrustSet(ScopeOf[a])
      BY <2>1, <2>3 DEF Trusts, TrustSet
    <3> QED BY <2>2, <3>1 DEF MaterialGood
  <2>5. c.issuer \in loaded[a].roots /\ c.key \in Known[ScopeOf[b]]
    BY <2>2, <2>4 DEF MaterialGood
  <2>6. c.key = store.inter[ScopeOf[b]].key /\ loaded[b].leaf = store.inter[ScopeOf[b]].key
    BY <2>1, <2>3, <2>5 DEF Known
  <2> QED BY <2>4, <2>5, <2>6 DEF Verifies
<1> QED BY <1>1, Invariance, PTL

(* The regional boundary: no region accepts another region's leaf. *)
THEOREM BoundaryHolds == Spec => []RegionalBoundary
<1>1. Inv => RegionalBoundary
  <2>1. SUFFICES ASSUME Inv, NEW a \in Serving, NEW b \in Serving, Verifies(a, b)
                 PROVE  Trusts(a, b)
    BY DEF RegionalBoundary
  <2>2. MaterialGood(Known, a, loaded[a]) /\ MaterialGood(Known, b, loaded[b]) /\ a \in Members /\ b \in Members
        /\ loaded[a] # NoMaterial /\ loaded[b] # NoMaterial
    BY <2>1 DEF Inv, FleetGood, Serving
  <2>3. ScopeOf[a] \in Scopes /\ ScopeOf[b] \in Scopes /\ loaded[b].leaf \in Known[ScopeOf[b]]
    BY <2>2, MeshAssumption DEF MaterialGood
  <2>4. PICK c \in loaded[a].inters : c.key = loaded[b].leaf
    BY <2>1 DEF Verifies
  <2>5. c.scope \in TrustSet(ScopeOf[a]) /\ c.key \in Known[c.scope]
    BY <2>2, <2>4 DEF MaterialGood
  <2>6. c.scope \in Scopes
    BY <2>3, <2>5, TrustSetScopes
  <2>7. keys[c.key] = c.scope /\ keys[c.key] = ScopeOf[b]
    BY <2>3, <2>4, <2>5, <2>6 DEF Known
  <2> QED BY <2>5, <2>7 DEF Trusts, TrustSet
<1> QED BY <1>1, Invariance, PTL

(* During an overlap every scope's current key is certified by both roots. *)
THEOREM OverlapServed == Spec => []OverlapServesBothRoots
<1>1. Inv /\ OverlapServesBothRoots /\ [Next]_vars => OverlapServesBothRoots'
  <2>1. SUFFICES ASSUME Inv, OverlapServesBothRoots, [Next]_vars PROVE OverlapServesBothRoots'
    OBVIOUS
  <2>2. TypeOK /\ store \in Stores /\ StoreGood(Known, store)
    BY <2>1 DEF Inv, TypeOK
  <2>3. CASE store' = store
    BY <2>1, <2>3 DEF OverlapServesBothRoots
  <2>4. CASE store'.prevRoots = {}
    BY <2>4 DEF OverlapServesBothRoots
  <2>5. CASE RotateRoot
    <3>1. SUFFICES ASSUME NEW s \in Scopes, NEW old \in store'.prevRoots, store'.inter[s] # NoCert
                   PROVE  /\ store'.inter[s].issuer = store'.root
                          /\ \E c \in store'.prevInter : c.scope = s /\ c.key = store'.inter[s].key /\ c.issuer = old
      BY DEF OverlapServesBothRoots
    <3>2. store.inter[s] # NoCert /\ store'.inter[s] = ReSigned(store.inter[s], roots')
          /\ store.inter[s] \in store'.prevInter /\ old = store.root /\ store'.root = roots'
      BY <2>2, <2>5, <3>1, RotateStep
    <3>3. store.inter[s].scope = s /\ store.inter[s].issuer = store.root
      BY <2>2, <3>2 DEF StoreGood
    <3> QED BY <3>2, <3>3 DEF ReSigned
  <2>6. CASE Custody
    <3>1. CASE AddPki
      <4>1. store'.inter = store.inter /\ store.root = 0
        BY <2>2, <3>1 DEF AddPki, Stores
      <4>2. ASSUME NEW s \in Scopes, store.inter[s] # NoCert PROVE FALSE
        <5>1. store.inter[s] \in Certs /\ store.inter[s].issuer = 0
          BY <2>2, <4>1, <4>2 DEF StoreGood, Stores
        <5> QED BY <5>1 DEF Certs
      <4> QED BY <4>1, <4>2 DEF OverlapServesBothRoots
    <3>2. CASE Finalize
      BY <2>2, <2>4, <3>2 DEF Finalize, Stores
    <3>3. ASSUME NEW t \in Scopes, MintIntermediate(t), ~Overlap(store) PROVE store'.prevRoots = {}
      BY <2>2, <3>3, MintStep DEF Overlap
    <3> QED BY <2>4, <2>5, <2>6, <3>1, <3>2, <3>3 DEF Custody, AddIntermediate, ReissueIntermediate
  <2>7. CASE \E r \in Renewers : Pushing(r)
    BY <2>3, <2>7 DEF Pushing, StartRun, SkipMember, WriteLeaf, ReloadMember, FailPush, FinishRun, EndRun
  <2>8. CASE \E m \in Members : Restart(m) \/ Stop(m)
    BY <2>3, <2>8 DEF Restart, Stop
  <2> QED BY <2>1, <2>3, <2>6, <2>7, <2>8 DEF Next, vars
<1> QED BY <1>1, Initially, Invariance, PTL DEF Spec

-----------------------------------------------------------------------------
(* A renew with no other run beside it.  Until it has failed somewhere, the  *)
(* members it has dealt with hold a leaf of its store's key, and run with it *)
(* or will start with it, the one being reloaded excepted.                   *)

Staged(r, m) == staged[m] # NoMaterial /\ staged[m].leaf = run[r].store.inter[ScopeOf[m]].key
Settled(m) == loaded[m] # NoMaterial => loaded[m].leaf = staged[m].leaf

Renewing(r) ==
    run[r].at \in {"renew", "renewed"} /\ run[r].ok =>
        \A m \in Members \ run[r].todo : Staged(r, m) /\ (m # run[r].host => Settled(m))
Complete(r) ==
    run[r].at = "renewed" => run[r].todo = {} /\ run[r].host = NoMaterial /\ run[r].ok
Renewal == \A r \in Renewers : Renewing(r) /\ Complete(r)

(* A run that failed, or that does not renew, promises nothing. *)
LEMMA Failed ==
  ASSUME NEW r \in Renewers,
         run'[r].at \in {"idle", "release"} \/ (run'[r].at = "renew" /\ run'[r].ok = FALSE)
  PROVE  Renewing(r)' /\ Complete(r)'
  BY DEF Renewing, Complete

LEMMA RenewalStep ==
  ASSUME \A q, r \in Renewers : q = r, Inv, Renewal, [Next]_vars
  PROVE  Renewal'
<1> SUFFICES ASSUME NEW r \in Renewers PROVE Renewing(r)' /\ Complete(r)'
  BY DEF Renewal
<1>a. TypeOK
  BY DEF Inv
<1>0. Renewing(r) /\ Complete(r) /\ run[r] \in Runs
  BY <1>a DEF Renewal, TypeOK
<1> USE <1>a
<1>1. CASE Custody
  BY <1>0, <1>1 DEF Custody, AddPki, RotateRoot, Finalize, AddIntermediate, ReissueIntermediate,
       fleet, Renewing, Complete, Staged, Settled
<1>2. CASE \E q \in Renewers : Pushing(q)
  <2>0. Pushing(r)
    BY <1>2
  <2>1. CASE StartRun(r)
    <3>1. PICK todo \in {Members} \cup {{m} : m \in Direct} :
             run' = [run EXCEPT ![r] = [at |-> IF todo = Members THEN "renew" ELSE "release",
                                        store |-> store, todo |-> todo, host |-> NoMaterial, ok |-> TRUE]]
      BY <2>1 DEF StartRun
    <3>2. run'[r].at \in {"renew", "release"} /\ (run'[r].at = "renew" => run'[r].todo = Members)
      <4>1. run'[r] = [at |-> IF todo = Members THEN "renew" ELSE "release",
                       store |-> store, todo |-> todo, host |-> NoMaterial, ok |-> TRUE]
        BY <3>1 DEF TypeOK
      <4> QED BY <4>1
    <3>3. Complete(r)'
      BY <3>2 DEF Complete
    <3> QED BY <3>2, <3>3 DEF Renewing
  <2>2. CASE SkipMember(r)
    <3>1. run'[r].at \in {"renew", "release"} /\ run'[r].ok = FALSE
      <4>1. PICK m \in run[r].todo : run'[r] = [run[r] EXCEPT !.todo = run[r].todo \ {m}, !.ok = FALSE]
        BY <2>2 DEF SkipMember, TypeOK
      <4> QED BY <1>0, <2>2, <4>1 DEF SkipMember, Runs
    <3> QED BY <3>1, Failed
  <2>3. CASE WriteLeaf(r)
    <3>1. PICK m \in run[r].todo :
            /\ CanMint(run[r].store, ScopeOf[m])
            /\ staged' = [staged EXCEPT ![m] = Mint(run[r].store, ScopeOf[m])]
            /\ run' = [run EXCEPT ![r] = [run[r] EXCEPT !.todo = run[r].todo \ {m},
                                        !.host = IF run[r].at = "renew" THEN m ELSE NoMaterial]]
      BY <2>3 DEF WriteLeaf
    <3>2. m \in Members /\ run[r].host = NoMaterial /\ run[r].at \in {"renew", "release"} /\ loaded' = loaded
      BY <1>0, <2>3, <3>1 DEF WriteLeaf, Runs
    <3>3. /\ run'[r].at = run[r].at /\ run'[r].ok = run[r].ok /\ run'[r].store = run[r].store
          /\ run'[r].todo = run[r].todo \ {m}
          /\ run[r].at = "renew" => run'[r].host = m
      <4>1. run'[r] = [run[r] EXCEPT !.todo = run[r].todo \ {m},
                                     !.host = IF run[r].at = "renew" THEN m ELSE NoMaterial]
        BY <3>1 DEF TypeOK
      <4> QED BY <1>0, <4>1 DEF Runs
    <3>4. staged'[m].leaf = run[r].store.inter[ScopeOf[m]].key /\ \A n \in Members \ {m} : staged'[n] = staged[n]
      BY <3>1, <3>2 DEF TypeOK, Mint
    <3>5. staged'[m] # NoMaterial
      <4>1. staged'[m] = Mint(run[r].store, ScopeOf[m])
        BY <3>1, <3>2 DEF TypeOK
      <4>2. run[r].store \in Stores /\ StoreGood(Known, run[r].store)
        BY <1>0 DEF Runs, Inv, FleetGood
      <4>3. Mint(run[r].store, ScopeOf[m]) \in Materials
        BY <3>1, <3>2, <4>2, MintGood
      <4> QED BY <4>1, <4>3, NoMaterialAssumption
    <3>6. ASSUME run'[r].at = "renew", run'[r].ok, NEW n \in Members \ run'[r].todo
          PROVE  Staged(r, n)' /\ (n # run'[r].host => Settled(n)')
      <4>1. CASE n = m
        BY <3>3, <3>4, <3>5, <3>6, <4>1 DEF Staged
      <4>2. CASE n # m
        <5>1. Staged(r, n) /\ Settled(n)
          BY <1>0, <3>2, <3>3, <3>6, <4>2, NoMaterialAssumption DEF Renewing
        <5> QED BY <3>2, <3>3, <3>4, <4>2, <5>1 DEF Staged, Settled
      <4> QED BY <4>1, <4>2
    <3> QED BY <3>2, <3>3, <3>6 DEF Renewing, Complete
  <2>4. CASE ReloadMember(r)
    <3>1. run[r].host \in Members /\ run[r].host # NoMaterial /\ staged' = staged
      BY <1>0, <2>4 DEF ReloadMember, Runs
    <3>2. /\ run'[r].at = run[r].at /\ run'[r].ok = run[r].ok /\ run'[r].store = run[r].store
          /\ run'[r].todo = run[r].todo /\ run'[r].host = NoMaterial
      <4>1. run'[r] = [run[r] EXCEPT !.host = NoMaterial]
        BY <2>4 DEF ReloadMember, TypeOK
      <4> QED BY <1>0, <4>1 DEF Runs
    <3>3. /\ \A n \in Members \ {run[r].host} : loaded'[n] = loaded[n]
          /\ loaded'[run[r].host] \in {staged[run[r].host], NoMaterial}
      <4>1. \/ loaded' = [loaded EXCEPT ![run[r].host] = staged[run[r].host]]
            \/ loaded[run[r].host] = NoMaterial /\ loaded' = loaded
        BY <2>4 DEF ReloadMember
      <4> QED BY <3>1, <4>1 DEF TypeOK
    <3>4. Complete(r)'
      BY <1>0, <3>1, <3>2 DEF Complete
    <3>5. ASSUME run'[r].at = "renew", run'[r].ok, NEW n \in Members \ run'[r].todo
          PROVE  Staged(r, n)' /\ Settled(n)'
      <4>1. Staged(r, n) /\ (n # run[r].host => Settled(n))
        BY <1>0, <3>2, <3>5 DEF Renewing
      <4> QED BY <3>1, <3>2, <3>3, <4>1 DEF Staged, Settled
    <3>6. run'[r].at # "renewed"
      BY <1>0, <3>1, <3>2 DEF Complete
    <3> QED BY <3>4, <3>5, <3>6 DEF Renewing
  <2>5. CASE FailPush(r)
    <3>1. run'[r].at \in {"renew", "release"} /\ run'[r].ok = FALSE
      <4>1. \/ run'[r] = [run[r] EXCEPT !.host = NoMaterial, !.ok = FALSE]
            \/ \E m \in run[r].todo : run'[r] = [run[r] EXCEPT !.todo = run[r].todo \ {m}, !.ok = FALSE]
        BY <2>5 DEF FailPush, TypeOK
      <4> QED BY <1>0, <2>5, <4>1 DEF FailPush, Runs
    <3> QED BY <3>1, Failed
  <2>6. CASE FinishRun(r)
    <3>1. CASE run[r].ok /\ run[r].at = "renew"
      <4>1. /\ run'[r].at = "renewed" /\ run'[r].store = run[r].store /\ run'[r].ok = run[r].ok
            /\ run'[r].todo = {} /\ run'[r].host = NoMaterial /\ run[r].todo = {} /\ run[r].host = NoMaterial
            /\ UNCHANGED <<staged, loaded>>
        <5>1. run'[r] = [run[r] EXCEPT !.at = "renewed"]
          BY <2>6, <3>1 DEF FinishRun, TypeOK
        <5> QED BY <1>0, <2>6, <5>1 DEF FinishRun, Runs
      <4>2. Complete(r)'
        BY <3>1, <4>1 DEF Complete
      <4> QED BY <1>0, <3>1, <4>1, <4>2, NoMaterialAssumption DEF Renewing, Staged, Settled
    <3>2. CASE ~(run[r].ok /\ run[r].at = "renew")
      <4>1. run'[r].at = "idle"
        BY <2>6, <3>2 DEF FinishRun, NoRun, TypeOK
      <4> QED BY <4>1, Failed
    <3> QED BY <3>1, <3>2
  <2>7. CASE EndRun(r)
    <3>1. run'[r].at = "idle"
      BY <2>7 DEF EndRun, NoRun, TypeOK
    <3> QED BY <3>1, Failed
  <2> QED BY <2>0, <2>1, <2>2, <2>3, <2>4, <2>5, <2>6, <2>7 DEF Pushing
<1>3. CASE \E m \in Members : Restart(m) \/ Stop(m)
  <2>1. UNCHANGED <<run, staged>>
    BY <1>3 DEF Restart, Stop
  <2>2. \A n \in Members : loaded'[n] \in {loaded[n], staged[n], NoMaterial}
    BY <1>3 DEF Restart, Stop, TypeOK
  <2> QED BY <1>0, <2>1, <2>2 DEF Renewing, Complete, Staged, Settled
<1>4. CASE UNCHANGED vars
  BY <1>0, <1>4 DEF vars, Renewing, Complete, Staged, Settled
<1> QED BY <1>1, <1>2, <1>3, <1>4 DEF Next

(* After a renew that reported no failure, with no other beside it, nobody
   presents, or will start with, a leaf of a key burned before (pki.go:391-397). *)
THEOREM RenewalIsFresh ==
  ASSUME \A q, r \in Renewers : q = r
  PROVE  Spec => []RenewedIsFresh
<1>1. Init => Renewal
  BY DEF Init, NoRun, Renewal, Renewing, Complete
<1>2. Inv /\ Renewal /\ [Next]_vars => Renewal'
  BY RenewalStep
<1>3. Renewal => RenewedIsFresh
  BY NoMaterialAssumption DEF Renewal, Renewing, Complete, Staged, Settled, RenewedIsFresh
<1> QED BY <1>1, <1>2, <1>3, Invariance, PTL DEF Spec
=============================================================================
