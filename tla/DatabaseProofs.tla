---------------------------- MODULE DatabaseProofs ----------------------------
(***************************************************************************)
(* What holds of Database for every set of services and tables, every      *)
(* retention and any number of changes, failures, backups and restores.    *)
(***************************************************************************)
EXTENDS Database, TLAPS

-----------------------------------------------------------------------------
(* What one statement changes, and for whom.                                *)

Owners == Services \cup {Owner, Superuser, Absent}
Privileges == Tables \X (Services \cup Groups) \X {"read", "write"}
Dumps == [owner : [Tables -> Owners], acl : SUBSET Privileges,
          create : SUBSET Services, defaults : SUBSET (Services \X Groups)]
Catalogs == [roles : SUBSET Services, owner : [Tables -> Owners], acl : SUBSET Privileges,
             create : SUBSET Services, member : SUBSET (Services \X Groups),
             defaults : SUBSET (Services \X Groups)]
Objects == [id : Nat, whole : BOOLEAN, tables : Dumps]

(* What a statement of psql makes of the catalog, one statement a line. *)
LEMMA Executes ==
  ASSUME NEW c \in Catalogs, NEW s \in Services
  PROVE  /\ Execute(c, s, "login") = [c EXCEPT !.roles = c.roles \cup {s}]
         /\ Execute(c, s, "reassign") =
               [c EXCEPT !.owner = [t \in Tables |-> IF c.owner[t] = s THEN Owner ELSE c.owner[t]]]
         /\ Execute(c, s, "revokeTables") = [c EXCEPT !.acl = c.acl \ HeldBy(c, s)]
         /\ Execute(c, s, "revokeCreate") = [c EXCEPT !.create = c.create \ {s}]
         /\ Execute(c, s, "revokeGroups") = [c EXCEPT !.member = c.member \ ({s} \X Groups)]
         /\ Execute(c, s, "revokeDefaults") = [c EXCEPT !.defaults = c.defaults \ ({s} \X Groups)]
         /\ Execute(c, s, "create") = [c EXCEPT !.create = c.create \cup {s}]
         /\ Execute(c, s, "joinRo") = [c EXCEPT !.member = c.member \cup {<<s, "ro">>}]
         /\ Execute(c, s, "joinRw") = [c EXCEPT !.member = c.member \cup {<<s, "rw">>}]
         /\ Execute(c, s, "grantRo") = [c EXCEPT !.acl = c.acl \cup Entries(Existing(c), s, {"read"})]
         /\ Execute(c, s, "grantRw") = [c EXCEPT !.acl = c.acl \cup Entries(Existing(c), s, {"read", "write"})]
         /\ Execute(c, s, "defaultRo") = [c EXCEPT !.defaults = c.defaults \cup {<<s, "ro">>}]
         /\ Execute(c, s, "defaultRw") = [c EXCEPT !.defaults = c.defaults \cup {<<s, "rw">>}]
         /\ Execute(c, s, "dropOwned") = [c EXCEPT !.owner = [t \in Tables |-> IF c.owner[t] = s THEN Absent ELSE c.owner[t]],
                                                   !.acl = {e \in c.acl \ HeldBy(c, s) : e[1] \notin Owned(c, s)}, !.create = c.create \ {s},
                                                   !.defaults = c.defaults \ ({s} \X Groups)]
         /\ Execute(c, s, "dropRole") = [c EXCEPT !.roles = c.roles \ {s}, !.member = c.member \ ({s} \X Groups)]
BY DEF Execute, Catalogs

Statements == {"login", "reassign", "revokeTables", "revokeCreate", "revokeGroups", "revokeDefaults",
               "create", "joinRo", "joinRw", "grantRo", "grantRw", "defaultRo", "defaultRw",
               "dropOwned", "dropRole"}

LEMMA Apart ==
  ASSUME NEW s \in Services
  PROVE  s \notin Groups /\ s # Owner /\ s # Superuser /\ s # Absent /\ Owner # Absent /\ Superuser # Absent
         /\ Owner # Superuser
BY DatabaseAssumption DEF Owner, Superuser, Absent

(* The other roles: a statement of s touches only what s has, so the entries,
   memberships and defaults of everyone else stay, but those of a table that is
   dropped; and so do the other tables. *)
SameEntries(c, d, r) ==
    \A t \in Tables, p \in {"read", "write"} :
        /\ <<t, r, p>> \in d.acl => <<t, r, p>> \in c.acl
        /\ <<t, r, p>> \in c.acl /\ t \in Existing(d) => <<t, r, p>> \in d.acl
SameFor(c, d, r) ==
    /\ SameEntries(c, d, r)
    /\ \A t \in Tables : c.owner[t] = r <=> d.owner[t] = r
    /\ r \in c.create <=> r \in d.create
    /\ \A g \in Groups : /\ <<r, g>> \in c.member <=> <<r, g>> \in d.member
                         /\ <<r, g>> \in c.defaults <=> <<r, g>> \in d.defaults
SameTables(c, d) ==
    /\ Existing(d) \subseteq Existing(c)
    /\ \A g \in Groups : SameEntries(c, d, g)

LEMMA EntriesAre ==
  ASSUME NEW c, NEW s, NEW ps
  PROVE  \A t, r, p : <<t, r, p>> \in Entries(Existing(c), s, ps) <=>
            t \in Existing(c) /\ r = s /\ p \in ps
BY DEF Entries

(* A change confined to what s has is none for the others. *)
Confined(c, d, s) ==
    /\ d \in Catalogs
    /\ \A t \in Tables : d.owner[t] = IF c.owner[t] = s THEN d.owner[t] ELSE c.owner[t]
    /\ \A t \in Tables : c.owner[t] = s => d.owner[t] \in {s, Owner, Absent}
    /\ \A t, r, p : r # s => /\ <<t, r, p>> \in d.acl => <<t, r, p>> \in c.acl
                             /\ <<t, r, p>> \in c.acl /\ t \in Existing(d) => <<t, r, p>> \in d.acl
    /\ \A r : r # s => (r \in c.create <=> r \in d.create)
    /\ \A r, g : r # s => /\ <<r, g>> \in c.member <=> <<r, g>> \in d.member
                          /\ <<r, g>> \in c.defaults <=> <<r, g>> \in d.defaults

LEMMA ConfinedEffect ==
  ASSUME NEW c \in Catalogs, NEW d, NEW s \in Services, Confined(c, d, s)
  PROVE  SameTables(c, d) /\ \A r \in Services \ {s} : SameFor(c, d, r)
<1>1. Existing(d) \subseteq Existing(c)
  BY Apart DEF Confined, Existing
<1>2. \A r \in Services \ {s}, t \in Tables : c.owner[t] = r <=> d.owner[t] = r
  BY Apart DEF Confined
<1>3. s \notin Groups
  BY Apart
<1>4. ASSUME NEW r, r # s PROVE SameEntries(c, d, r)
  BY <1>4 DEF Confined, SameEntries
<1>5. SameTables(c, d)
  <2>1. \A g \in Groups : g # s
    BY <1>3
  <2> QED BY <1>1, <1>4, <2>1 DEF SameTables
<1>6. ASSUME NEW r \in Services \ {s} PROVE SameFor(c, d, r)
  <2>1. /\ SameEntries(c, d, r)
        /\ \A t \in Tables : c.owner[t] = r <=> d.owner[t] = r
    BY <1>2, <1>4
  <2>2. /\ r \in c.create <=> r \in d.create
        /\ \A g \in Groups : /\ <<r, g>> \in c.member <=> <<r, g>> \in d.member
                             /\ <<r, g>> \in c.defaults <=> <<r, g>> \in d.defaults
    BY DEF Confined
  <2> QED BY <2>1, <2>2 DEF SameFor
<1> QED BY <1>5, <1>6

LEMMA StatementEffect ==
  ASSUME NEW c \in Catalogs, NEW s \in Services, NEW x \in Statements
  PROVE  Confined(c, Execute(c, s, x), s)
<1>c. /\ c.roles \in SUBSET Services /\ c.owner \in [Tables -> Owners] /\ c.acl \in SUBSET Privileges
      /\ c.create \in SUBSET Services /\ c.member \in SUBSET (Services \X Groups)
      /\ c.defaults \in SUBSET (Services \X Groups)
  BY DEF Catalogs
<1>g. \A g \in Groups : <<s, g>> \in Services \X Groups
  OBVIOUS
<1>r. ASSUME NEW R \in SUBSET Services PROVE Confined(c, [c EXCEPT !.roles = R], s)
  BY DEF Confined, Catalogs
<1>o. ASSUME NEW O \in [Tables -> Owners],
             \A t \in Tables : O[t] = IF c.owner[t] = s THEN Owner ELSE c.owner[t]
      PROVE  Confined(c, [c EXCEPT !.owner = O], s)
  <2>1. [c EXCEPT !.owner = O] \in Catalogs /\ [c EXCEPT !.owner = O].owner = O
    BY DEF Catalogs
  <2>2. \A t \in Tables : c.owner[t] # s => O[t] = c.owner[t]
    BY <1>o
  <2>3. \A t \in Tables : c.owner[t] = s => O[t] = Owner
    BY <1>o
  <2> QED BY <2>1, <2>2, <2>3 DEF Confined, Catalogs
<1>a. ASSUME NEW A \in SUBSET Privileges, \A t, r, p : r # s => (<<t, r, p>> \in c.acl <=> <<t, r, p>> \in A)
      PROVE  Confined(c, [c EXCEPT !.acl = A], s)
  BY <1>a DEF Confined, Catalogs
<1>k. ASSUME NEW S \in SUBSET Services, \A r : r # s => (r \in c.create <=> r \in S)
      PROVE  Confined(c, [c EXCEPT !.create = S], s)
  BY <1>k DEF Confined, Catalogs
<1>m. ASSUME NEW M \in SUBSET (Services \X Groups), \A r, g : r # s => (<<r, g>> \in c.member <=> <<r, g>> \in M)
      PROVE  Confined(c, [c EXCEPT !.member = M], s)
  BY <1>m DEF Confined, Catalogs
<1>d. ASSUME NEW D \in SUBSET (Services \X Groups), \A r, g : r # s => (<<r, g>> \in c.defaults <=> <<r, g>> \in D)
      PROVE  Confined(c, [c EXCEPT !.defaults = D], s)
  BY <1>d DEF Confined, Catalogs
<1>h. /\ c.acl \ HeldBy(c, s) \in SUBSET Privileges
      /\ \A t, r, p : r # s => (<<t, r, p>> \in c.acl <=> <<t, r, p>> \in c.acl \ HeldBy(c, s))
  BY <1>c DEF HeldBy
<1>x. \A r, g : r # s => <<r, g>> \notin {s} \X Groups
  OBVIOUS
<1>1. CASE x = "login"
  <2>1. Confined(c, [c EXCEPT !.roles = c.roles \cup {s}], s)
    BY <1>c, <1>r
  <2> QED BY <1>1, <2>1, Executes
<1>2. CASE x = "reassign"
  <2>1. [t \in Tables |-> IF c.owner[t] = s THEN Owner ELSE c.owner[t]] \in [Tables -> Owners]
    BY <1>c DEF Owners
  <2>2. Confined(c, [c EXCEPT !.owner = [t \in Tables |-> IF c.owner[t] = s THEN Owner ELSE c.owner[t]]], s)
    BY <1>o, <2>1
  <2> QED BY <1>2, <2>2, Executes
<1>3. CASE x = "revokeTables"
  BY <1>3, <1>h, <1>a, Executes
<1>4. CASE x = "revokeCreate"
  <2>1. Confined(c, [c EXCEPT !.create = c.create \ {s}], s)
    BY <1>c, <1>k
  <2> QED BY <1>4, <2>1, Executes
<1>5. CASE x = "revokeGroups"
  <2>1. Confined(c, [c EXCEPT !.member = c.member \ ({s} \X Groups)], s)
    BY <1>c, <1>x, <1>m
  <2> QED BY <1>5, <2>1, Executes
<1>6. CASE x = "revokeDefaults"
  <2>1. Confined(c, [c EXCEPT !.defaults = c.defaults \ ({s} \X Groups)], s)
    BY <1>c, <1>x, <1>d
  <2> QED BY <1>6, <2>1, Executes
<1>7. CASE x = "create"
  <2>1. Confined(c, [c EXCEPT !.create = c.create \cup {s}], s)
    BY <1>c, <1>k
  <2> QED BY <1>7, <2>1, Executes
<1>y. ASSUME NEW g \in Groups
      PROVE  /\ Confined(c, [c EXCEPT !.member = c.member \cup {<<s, g>>}], s)
             /\ Confined(c, [c EXCEPT !.defaults = c.defaults \cup {<<s, g>>}], s)
  <2>1. \A r, h : r # s => <<r, h>> \notin {<<s, g>>}
    OBVIOUS
  <2>2. c.member \cup {<<s, g>>} \in SUBSET (Services \X Groups)
        /\ c.defaults \cup {<<s, g>>} \in SUBSET (Services \X Groups)
    BY <1>c
  <2>3. Confined(c, [c EXCEPT !.member = c.member \cup {<<s, g>>}], s)
    BY <2>1, <2>2, <1>m
  <2>4. Confined(c, [c EXCEPT !.defaults = c.defaults \cup {<<s, g>>}], s)
    BY <2>1, <2>2, <1>d
  <2> QED BY <2>3, <2>4
<1>8. CASE x \in {"joinRo", "joinRw", "defaultRo", "defaultRw"}
  <2>1. "ro" \in Groups /\ "rw" \in Groups
    BY DEF Groups
  <2>2. /\ Confined(c, [c EXCEPT !.member = c.member \cup {<<s, "ro">>}], s)
        /\ Confined(c, [c EXCEPT !.member = c.member \cup {<<s, "rw">>}], s)
        /\ Confined(c, [c EXCEPT !.defaults = c.defaults \cup {<<s, "ro">>}], s)
        /\ Confined(c, [c EXCEPT !.defaults = c.defaults \cup {<<s, "rw">>}], s)
    BY <2>1, <1>y
  <2>3. CASE x = "joinRo"
    BY <2>2, <2>3, Executes
  <2>4. CASE x = "joinRw"
    BY <2>2, <2>4, Executes
  <2>5. CASE x = "defaultRo"
    BY <2>2, <2>5, Executes
  <2>6. CASE x = "defaultRw"
    BY <2>2, <2>6, Executes
  <2> QED BY <1>8, <2>3, <2>4, <2>5, <2>6
<1>z. ASSUME NEW ps \in SUBSET {"read", "write"}
      PROVE  Confined(c, [c EXCEPT !.acl = c.acl \cup Entries(Existing(c), s, ps)], s)
  <2>1. \A t, r, p : r # s => <<t, r, p>> \notin Entries(Existing(c), s, ps)
    BY EntriesAre
  <2>2. Entries(Existing(c), s, ps) \subseteq Privileges
    <3>1. Existing(c) \subseteq Tables
      BY DEF Existing
    <3> QED BY <3>1 DEF Entries, Privileges
  <2>3. c.acl \cup Entries(Existing(c), s, ps) \in SUBSET Privileges
    BY <1>c, <2>2
  <2> QED BY <2>1, <2>3, <1>a
<1>9. CASE x \in {"grantRo", "grantRw"}
  <2>1. /\ Confined(c, [c EXCEPT !.acl = c.acl \cup Entries(Existing(c), s, {"read"})], s)
        /\ Confined(c, [c EXCEPT !.acl = c.acl \cup Entries(Existing(c), s, {"read", "write"})], s)
    BY <1>z
  <2>2. CASE x = "grantRo"
    BY <2>1, <2>2, Executes
  <2>3. CASE x = "grantRw"
    BY <2>1, <2>3, Executes
  <2> QED BY <1>9, <2>2, <2>3
<1>10. CASE x = "dropOwned"
  <2>1. Execute(c, s, x) = [c EXCEPT !.owner = [t \in Tables |-> IF c.owner[t] = s THEN Absent ELSE c.owner[t]],
                                     !.acl = {e \in c.acl \ HeldBy(c, s) : e[1] \notin Owned(c, s)}, !.create = c.create \ {s},
                                     !.defaults = c.defaults \ ({s} \X Groups)]
    BY <1>10, Executes
  <2> DEFINE d == Execute(c, s, x)
  <2>2. /\ d.roles = c.roles /\ d.member = c.member /\ d.create = c.create \ {s}
        /\ d.owner = [t \in Tables |-> IF c.owner[t] = s THEN Absent ELSE c.owner[t]]
        /\ d.acl = {e \in c.acl \ HeldBy(c, s) : e[1] \notin Owned(c, s)}
        /\ d.defaults = c.defaults \ ({s} \X Groups)
    BY <2>1 DEF Catalogs
  <2>3. d \in Catalogs
    <3>1. [t \in Tables |-> IF c.owner[t] = s THEN Absent ELSE c.owner[t]] \in [Tables -> Owners]
      BY <1>c DEF Owners
    <3> QED BY <1>c, <2>1, <3>1 DEF Catalogs
  <2> HIDE DEF d
  <2>4. \A t, r, p : r # s => /\ <<t, r, p>> \in d.acl => <<t, r, p>> \in c.acl
                              /\ <<t, r, p>> \in c.acl /\ t \in Existing(d) => <<t, r, p>> \in d.acl
    <3> SUFFICES ASSUME NEW t, NEW r, NEW p, r # s
                 PROVE  /\ <<t, r, p>> \in d.acl => <<t, r, p>> \in c.acl
                        /\ <<t, r, p>> \in c.acl /\ t \in Existing(d) => <<t, r, p>> \in d.acl
      OBVIOUS
    <3>1. t \in Existing(d) => t \notin Owned(c, s)
      BY <2>2 DEF Existing, Owned
    <3>2. <<t, r, p>> \in c.acl => <<t, r, p>> \in c.acl \ HeldBy(c, s)
      BY <1>h
    <3> QED BY <2>2, <3>1, <3>2
  <2>5. \A r : r # s => (r \in c.create <=> r \in d.create)
    BY <2>2
  <2>6. \A r, g : r # s => /\ <<r, g>> \in c.member <=> <<r, g>> \in d.member
                           /\ <<r, g>> \in c.defaults <=> <<r, g>> \in d.defaults
    BY <1>x, <2>2
  <2>7. Confined(c, d, s)
    BY <2>2, <2>3, <2>4, <2>5, <2>6, Apart DEF Confined
  <2> QED BY <2>7 DEF d
<1>11. CASE x = "dropRole"
  <2>1. Execute(c, s, x) = [c EXCEPT !.roles = c.roles \ {s}, !.member = c.member \ ({s} \X Groups)]
    BY <1>11, Executes
  <2> QED BY <1>c, <1>x, <2>1 DEF Confined, Catalogs
<1> QED BY <1>1, <1>2, <1>3, <1>4, <1>5, <1>6, <1>7, <1>8, <1>9, <1>10, <1>11 DEF Statements

-----------------------------------------------------------------------------
(* A role its mint has settled, and one whose mint is under way.            *)

(* What the last mint of s, for the grant p, still guarantees: a writer
   reaches every table by its own entries or by the writers' group, and its
   own new tables reach both groups; a reader owns nothing, creates nothing,
   and reaches every table likewise; a dropped role has nothing. *)
Settled(c, s, p) ==
    /\ p = "rw" =>
        /\ <<s, "rw">> \in c.member /\ <<s, "ro">> \in c.defaults /\ <<s, "rw">> \in c.defaults
        /\ \A t \in Existing(c), a \in {"read", "write"} : <<t, s, a>> \in c.acl \/ <<t, "rw", a>> \in c.acl
    /\ p = "ro" =>
        /\ \A t \in Tables : c.owner[t] # s /\ <<t, s, "write">> \notin c.acl
        /\ s \notin c.create /\ <<s, "ro">> \in c.member /\ <<s, "rw">> \notin c.member
        /\ \A t \in Existing(c) : <<t, s, "read">> \in c.acl \/ <<t, "ro", "read">> \in c.acl
    /\ p = "none" =>
        /\ \A t \in Tables : c.owner[t] # s /\ \A a \in {"read", "write"} : <<t, s, a>> \notin c.acl
        /\ s \notin c.create

(* What the statements behind it have done, when the last n of a job for the
   grant p are still to come. *)
Midway(c, s, p, n) ==
    /\ p = "rw" =>
        /\ n <= 3 => <<s, "rw">> \in c.member
        /\ n <= 2 => \A t \in Existing(c), a \in {"read", "write"} : <<t, s, a>> \in c.acl
        /\ n <= 1 => <<s, "ro">> \in c.defaults
    /\ p = "ro" =>
        /\ n <= 6 => \A t \in Tables : c.owner[t] # s
        /\ n <= 5 => \A t \in Tables : <<t, s, "write">> \notin c.acl
        /\ n <= 4 => s \notin c.create
        /\ n <= 3 => <<s, "rw">> \notin c.member
        /\ n <= 1 => <<s, "ro">> \in c.member
    /\ p = "none" =>
        /\ n <= 2 => \A t \in Tables : c.owner[t] # s
        /\ n <= 1 => /\ \A t \in Tables, a \in {"read", "write"} : <<t, s, a>> \notin c.acl
                     /\ s \notin c.create
                     /\ \A g \in Groups : <<s, g>> \notin c.defaults

Plan(p) == IF p = "none" THEN DropRole ELSE MintRole(p)

LEMMA WriterPlan ==
  /\ Plan("rw") \in Seq(Statements) /\ Len(Plan("rw")) = 10
  /\ Plan("rw")[1] = "login" /\ Plan("rw")[2] = "revokeTables" /\ Plan("rw")[3] = "revokeCreate"
  /\ Plan("rw")[4] = "revokeGroups" /\ Plan("rw")[5] = "revokeDefaults" /\ Plan("rw")[6] = "create"
  /\ Plan("rw")[7] = "joinRw" /\ Plan("rw")[8] = "grantRw" /\ Plan("rw")[9] = "defaultRo"
  /\ Plan("rw")[10] = "defaultRw"
<1>1. Revokes \in Seq(Statements)
  BY DEF Revokes, Statements
<1>2. <<"login">> \in Seq(Statements) /\ <<"create", "joinRw", "grantRw", "defaultRo", "defaultRw">> \in Seq(Statements)
  BY DEF Statements
<1>3. Plan("rw") = <<"login">> \o Revokes \o <<"create", "joinRw", "grantRw", "defaultRo", "defaultRw">>
  BY DEF Plan, MintRole
<1>4. Plan("rw") \in Seq(Statements)
  <2>1. \A u, v \in Seq(Statements) : u \o v \in Seq(Statements)
    OBVIOUS
  <2> QED BY <1>1, <1>2, <1>3, <2>1
<1> QED BY <1>3, <1>4 DEF Revokes

LEMMA ReaderPlan ==
  /\ Plan("ro") \in Seq(Statements) /\ Len(Plan("ro")) = 8
  /\ Plan("ro")[1] = "login" /\ Plan("ro")[2] = "reassign" /\ Plan("ro")[3] = "revokeTables"
  /\ Plan("ro")[4] = "revokeCreate" /\ Plan("ro")[5] = "revokeGroups" /\ Plan("ro")[6] = "revokeDefaults"
  /\ Plan("ro")[7] = "joinRo" /\ Plan("ro")[8] = "grantRo"
<1>1. Revokes \in Seq(Statements)
  BY DEF Revokes, Statements
<1>2. <<"login", "reassign">> \in Seq(Statements) /\ <<"joinRo", "grantRo">> \in Seq(Statements)
  BY DEF Statements
<1>3. Plan("ro") = <<"login", "reassign">> \o Revokes \o <<"joinRo", "grantRo">>
  BY DEF Plan, MintRole
<1>4. Plan("ro") \in Seq(Statements)
  <2>1. \A u, v \in Seq(Statements) : u \o v \in Seq(Statements)
    OBVIOUS
  <2> QED BY <1>1, <1>2, <1>3, <2>1
<1> QED BY <1>3, <1>4 DEF Revokes

LEMMA DropPlan ==
  /\ Plan("none") \in Seq(Statements) /\ Len(Plan("none")) = 3
  /\ Plan("none")[1] = "reassign" /\ Plan("none")[2] = "dropOwned" /\ Plan("none")[3] = "dropRole"
<1>1. <<"reassign", "dropOwned", "dropRole">> \in Seq(Statements)
  BY DEF Statements
<1> QED BY <1>1 DEF Plan, DropRole

(* What is settled for one role stays settled beside another role's job. *)
LEMMA OthersSettled ==
  ASSUME NEW c, NEW d, NEW r \in Services, NEW p \in Grants, Settled(c, r, p), SameTables(c, d), SameFor(c, d, r)
  PROVE  Settled(d, r, p)
<1>1. "ro" \in Groups /\ "rw" \in Groups /\ Existing(c) \subseteq Tables
  BY DEF Groups, Existing
<1> QED BY <1>1 DEF Settled, SameTables, SameFor, SameEntries

(* Each statement of a writer's mint, of a reader's, of a drop. *)
LEMMA WriterStatement ==
  ASSUME NEW c \in Catalogs, NEW s \in Services, NEW n \in 1..10, Midway(c, s, "rw", n)
  PROVE  LET d == Execute(c, s, Plan("rw")[11 - n])
         IN  (n > 1 => Midway(d, s, "rw", n - 1)) /\ (n = 1 => Settled(d, s, "rw"))
<1>1. CASE n \in 5..10
  BY <1>1 DEF Midway
<1>2. CASE n = 4
  <2>0. Plan("rw")[11 - n] = "joinRw"
    BY <1>2, WriterPlan
  <2>e. Execute(c, s, "joinRw") = [c EXCEPT !.member = c.member \cup {<<s, "rw">>}]
    BY Executes
  <2>1. Execute(c, s, Plan("rw")[11 - n]) = [c EXCEPT !.member = c.member \cup {<<s, "rw">>}]
    BY <2>0, <2>e
  <2> QED BY <1>2, <2>1 DEF Midway, Catalogs
<1>3. CASE n = 3
  <2> DEFINE d == Execute(c, s, Plan("rw")[11 - n])
  <2>0. Plan("rw")[11 - n] = "grantRw"
    BY <1>3, WriterPlan
  <2>e. Execute(c, s, "grantRw") = [c EXCEPT !.acl = c.acl \cup Entries(Existing(c), s, {"read", "write"})]
    BY Executes
  <2>1. d = [c EXCEPT !.acl = c.acl \cup Entries(Existing(c), s, {"read", "write"})]
    BY <2>0, <2>e
  <2> HIDE DEF d
  <2>2. d.acl = c.acl \cup Entries(Existing(c), s, {"read", "write"}) /\ d.member = c.member
        /\ Existing(d) = Existing(c)
    BY <2>1 DEF Catalogs, Existing
  <2>3. \A t \in Existing(d), a \in {"read", "write"} : <<t, s, a>> \in d.acl
    BY <2>2, EntriesAre
  <2> QED BY <1>3, <2>2, <2>3 DEF Midway, d
<1>4. CASE n = 2
  <2>0. Plan("rw")[11 - n] = "defaultRo"
    BY <1>4, WriterPlan
  <2>e. Execute(c, s, "defaultRo") = [c EXCEPT !.defaults = c.defaults \cup {<<s, "ro">>}]
    BY Executes
  <2>1. Execute(c, s, Plan("rw")[11 - n]) = [c EXCEPT !.defaults = c.defaults \cup {<<s, "ro">>}]
    BY <2>0, <2>e
  <2> QED BY <1>4, <2>1 DEF Midway, Catalogs, Existing
<1>5. CASE n = 1
  <2>0. Plan("rw")[11 - n] = "defaultRw"
    BY <1>5, WriterPlan
  <2>e. Execute(c, s, "defaultRw") = [c EXCEPT !.defaults = c.defaults \cup {<<s, "rw">>}]
    BY Executes
  <2>1. Execute(c, s, Plan("rw")[11 - n]) = [c EXCEPT !.defaults = c.defaults \cup {<<s, "rw">>}]
    BY <2>0, <2>e
  <2> QED BY <1>5, <2>1 DEF Midway, Settled, Catalogs, Existing
<1> QED BY <1>1, <1>2, <1>3, <1>4, <1>5

LEMMA ReaderStatement ==
  ASSUME NEW c \in Catalogs, NEW s \in Services, NEW n \in 1..8, Midway(c, s, "ro", n)
  PROVE  LET d == Execute(c, s, Plan("ro")[9 - n])
         IN  (n > 1 => Midway(d, s, "ro", n - 1)) /\ (n = 1 => Settled(d, s, "ro"))
<1>1. CASE n = 8
  BY <1>1 DEF Midway
<1>2. CASE n = 7
  <2>0. Plan("ro")[9 - n] = "reassign"
    BY <1>2, ReaderPlan
  <2>e. Execute(c, s, "reassign") =
          [c EXCEPT !.owner = [t \in Tables |-> IF c.owner[t] = s THEN Owner ELSE c.owner[t]]]
    BY Executes
  <2>1. Execute(c, s, Plan("ro")[9 - n]) =
          [c EXCEPT !.owner = [t \in Tables |-> IF c.owner[t] = s THEN Owner ELSE c.owner[t]]]
    BY <2>0, <2>e
  <2> QED BY <1>2, <2>1, Apart DEF Midway, Catalogs
<1>3. CASE n = 6
  <2>0. Plan("ro")[9 - n] = "revokeTables"
    BY <1>3, ReaderPlan
  <2>e. Execute(c, s, "revokeTables") = [c EXCEPT !.acl = c.acl \ HeldBy(c, s)]
    BY Executes
  <2>1. Execute(c, s, Plan("ro")[9 - n]) = [c EXCEPT !.acl = c.acl \ HeldBy(c, s)]
    BY <2>0, <2>e
  <2> QED BY <1>3, <2>1 DEF Midway, Catalogs, HeldBy
<1>4. CASE n = 5
  <2>0. Plan("ro")[9 - n] = "revokeCreate"
    BY <1>4, ReaderPlan
  <2>e. Execute(c, s, "revokeCreate") = [c EXCEPT !.create = c.create \ {s}]
    BY Executes
  <2>1. Execute(c, s, Plan("ro")[9 - n]) = [c EXCEPT !.create = c.create \ {s}]
    BY <2>0, <2>e
  <2> QED BY <1>4, <2>1 DEF Midway, Catalogs
<1>5. CASE n = 4
  <2>0. Plan("ro")[9 - n] = "revokeGroups"
    BY <1>5, ReaderPlan
  <2>e. Execute(c, s, "revokeGroups") = [c EXCEPT !.member = c.member \ ({s} \X Groups)]
    BY Executes
  <2>1. Execute(c, s, Plan("ro")[9 - n]) = [c EXCEPT !.member = c.member \ ({s} \X Groups)]
    BY <2>0, <2>e
  <2>2. <<s, "rw">> \in {s} \X Groups
    BY DEF Groups
  <2> QED BY <1>5, <2>1, <2>2 DEF Midway, Catalogs
<1>6. CASE n = 3
  <2>0. Plan("ro")[9 - n] = "revokeDefaults"
    BY <1>6, ReaderPlan
  <2>e. Execute(c, s, "revokeDefaults") = [c EXCEPT !.defaults = c.defaults \ ({s} \X Groups)]
    BY Executes
  <2>1. Execute(c, s, Plan("ro")[9 - n]) = [c EXCEPT !.defaults = c.defaults \ ({s} \X Groups)]
    BY <2>0, <2>e
  <2> QED BY <1>6, <2>1 DEF Midway, Catalogs
<1>7. CASE n = 2
  <2>0. Plan("ro")[9 - n] = "joinRo"
    BY <1>7, ReaderPlan
  <2>e. Execute(c, s, "joinRo") = [c EXCEPT !.member = c.member \cup {<<s, "ro">>}]
    BY Executes
  <2>1. Execute(c, s, Plan("ro")[9 - n]) = [c EXCEPT !.member = c.member \cup {<<s, "ro">>}]
    BY <2>0, <2>e
  <2>2. <<s, "rw">> # <<s, "ro">>
    OBVIOUS
  <2> QED BY <1>7, <2>1, <2>2 DEF Midway, Catalogs
<1>8. CASE n = 1
  <2> DEFINE d == Execute(c, s, Plan("ro")[9 - n])
  <2>0. Plan("ro")[9 - n] = "grantRo"
    BY <1>8, ReaderPlan
  <2>e. Execute(c, s, "grantRo") = [c EXCEPT !.acl = c.acl \cup Entries(Existing(c), s, {"read"})]
    BY Executes
  <2>1. d = [c EXCEPT !.acl = c.acl \cup Entries(Existing(c), s, {"read"})]
    BY <2>0, <2>e
  <2> HIDE DEF d
  <2>2. d.acl = c.acl \cup Entries(Existing(c), s, {"read"}) /\ d.member = c.member /\ d.create = c.create
        /\ d.owner = c.owner /\ Existing(d) = Existing(c)
    BY <2>1 DEF Catalogs, Existing
  <2>3. \A t \in Existing(d) : <<t, s, "read">> \in d.acl
    BY <2>2, EntriesAre
  <2>4. \A t \in Tables : <<t, s, "write">> \notin d.acl
    BY <1>8, <2>2, EntriesAre DEF Midway
  <2> QED BY <1>8, <2>2, <2>3, <2>4 DEF Midway, Settled, d
<1> QED BY <1>1, <1>2, <1>3, <1>4, <1>5, <1>6, <1>7, <1>8

LEMMA DropStatement ==
  ASSUME NEW c \in Catalogs, NEW s \in Services, NEW n \in 1..3, Midway(c, s, "none", n)
  PROVE  LET d == Execute(c, s, Plan("none")[4 - n])
         IN  (n > 1 => Midway(d, s, "none", n - 1)) /\ (n = 1 => Settled(d, s, "none"))
<1>1. CASE n = 3
  <2>0. Plan("none")[4 - n] = "reassign"
    BY <1>1, DropPlan
  <2>e. Execute(c, s, "reassign") =
          [c EXCEPT !.owner = [t \in Tables |-> IF c.owner[t] = s THEN Owner ELSE c.owner[t]]]
    BY Executes
  <2>1. Execute(c, s, Plan("none")[4 - n]) =
          [c EXCEPT !.owner = [t \in Tables |-> IF c.owner[t] = s THEN Owner ELSE c.owner[t]]]
    BY <2>0, <2>e
  <2> QED BY <1>1, <2>1, Apart DEF Midway, Catalogs
<1>2. CASE n = 2
  <2>0. Plan("none")[4 - n] = "dropOwned"
    BY <1>2, DropPlan
  <2>e. Execute(c, s, "dropOwned") =
          [c EXCEPT !.owner = [t \in Tables |-> IF c.owner[t] = s THEN Absent ELSE c.owner[t]],
                    !.acl = {e \in c.acl \ HeldBy(c, s) : e[1] \notin Owned(c, s)}, !.create = c.create \ {s},
                    !.defaults = c.defaults \ ({s} \X Groups)]
    BY Executes
  <2>1. Execute(c, s, Plan("none")[4 - n]) =
          [c EXCEPT !.owner = [t \in Tables |-> IF c.owner[t] = s THEN Absent ELSE c.owner[t]],
                    !.acl = {e \in c.acl \ HeldBy(c, s) : e[1] \notin Owned(c, s)}, !.create = c.create \ {s},
                    !.defaults = c.defaults \ ({s} \X Groups)]
    BY <2>0, <2>e
  <2> DEFINE d == Execute(c, s, Plan("none")[4 - n])
  <2>2. /\ d.owner = [t \in Tables |-> IF c.owner[t] = s THEN Absent ELSE c.owner[t]]
        /\ d.acl \subseteq c.acl \ HeldBy(c, s) /\ d.create = c.create \ {s}
        /\ d.defaults = c.defaults \ ({s} \X Groups)
    BY <2>1 DEF Catalogs
  <2> HIDE DEF d
  <2>3. \A t, a : <<t, s, a>> \notin d.acl
    BY <2>2 DEF HeldBy
  <2>4. \A g \in Groups : <<s, g>> \notin d.defaults
    BY <2>2
  <2>5. \A t \in Tables : d.owner[t] # s
    BY <2>2, Apart
  <2> QED BY <1>2, <2>2, <2>3, <2>4, <2>5 DEF Midway, d
<1>3. CASE n = 1
  <2>0. Plan("none")[4 - n] = "dropRole"
    BY <1>3, DropPlan
  <2>e. Execute(c, s, "dropRole") = [c EXCEPT !.roles = c.roles \ {s}, !.member = c.member \ ({s} \X Groups)]
    BY Executes
  <2>1. Execute(c, s, Plan("none")[4 - n]) = [c EXCEPT !.roles = c.roles \ {s}, !.member = c.member \ ({s} \X Groups)]
    BY <2>0, <2>e
  <2> DEFINE d == Execute(c, s, Plan("none")[4 - n])
  <2>2. d.owner = c.owner /\ d.acl = c.acl /\ d.create = c.create
    BY <2>1 DEF Catalogs
  <2> HIDE DEF d
  <2> QED BY <1>3, <2>2 DEF Midway, Settled, d
<1> QED BY <1>1, <1>2, <1>3

-----------------------------------------------------------------------------
(* The invariant.                                                           *)

(* The statements left of a job are the last ones of its plan. *)
Underway(j) ==
    /\ j.role \in Services /\ wanted[j.role] # minted[j.role]
    /\ j = [role |-> j.role, todo |-> j.todo]
    /\ j.todo \in Seq(Statements) /\ Len(j.todo) \in 1..Len(Plan(wanted[j.role]))
    /\ \A i \in 1..Len(j.todo) :
          j.todo[i] = Plan(wanted[j.role])[Len(Plan(wanted[j.role])) - Len(j.todo) + i]

Shape ==
    /\ catalog \in Catalogs
    /\ wanted \in [Services -> Grants] /\ minted \in [Services -> Grants]
    /\ deploying \in BOOLEAN /\ dirty \in SUBSET Services /\ spent \in Nat
    /\ bucket \in Seq(Objects)
    /\ job = NoJob \/ (deploying /\ Underway(job))

(* The readers' group never writes, in the catalog or in a dump of it. *)
ReadersRead ==
    \A t \in Tables : /\ <<t, "ro", "write">> \notin catalog.acl
                      /\ \A i \in DOMAIN bucket : <<t, "ro", "write">> \notin bucket[i].tables.acl

Kept ==
    /\ \A s \in Services \ dirty : job.role # s => Settled(catalog, s, minted[s])
    /\ job # NoJob /\ job.role \notin dirty => Midway(catalog, job.role, wanted[job.role], Len(job.todo))

Inv == Shape /\ ReadersRead /\ Kept

LEMMA PlanTypes ==
  ASSUME NEW p \in Grants
  PROVE  Plan(p) \in Seq(Statements) /\ Len(Plan(p)) \in Nat \ {0}
<1>1. CASE p = "rw"
  BY <1>1, WriterPlan
<1>2. CASE p = "ro"
  BY <1>2, ReaderPlan
<1>3. CASE p = "none"
  BY <1>3, DropPlan
<1> QED BY <1>1, <1>2, <1>3 DEF Grants

LEMMA DatabaseInitial == Init => Inv
<1> SUFFICES ASSUME Init PROVE Inv
  OBVIOUS
<1>1. catalog \in Catalogs
  BY DEF Init, EmptyCatalog, Catalogs, Owners
<1>2. Shape
  <2>1. "none" \in Grants /\ minted \in [Services -> Grants] /\ wanted \in [Services -> Grants]
    BY DEF Init, Grants
  <2>2. bucket \in Seq(Objects) /\ deploying = FALSE /\ job = NoJob /\ dirty = {} /\ spent = 0
    BY DEF Init
  <2> QED BY <1>1, <2>1, <2>2 DEF Shape
<1>3. ReadersRead
  BY DEF Init, EmptyCatalog, ReadersRead
<1>4. Kept
  BY Apart DEF Init, EmptyCatalog, Kept, Settled
<1> QED BY <1>2, <1>3, <1>4 DEF Inv

LEMMA BeginJobStep == ASSUME Inv, NEW s \in Services, BeginJob(s) PROVE Inv'
<1>1. /\ job' = [role |-> s, todo |-> Plan(wanted[s])] /\ dirty' = dirty \ {s} /\ job = NoJob /\ deploying
      /\ wanted[s] # minted[s]
      /\ UNCHANGED <<catalog, wanted, minted, deploying, bucket, spent>>
  BY DEF BeginJob, Pending, Plan, bucketVars
<1>2. wanted[s] \in Grants /\ Plan(wanted[s]) \in Seq(Statements) /\ Len(Plan(wanted[s])) \in Nat \ {0}
  BY PlanTypes DEF Inv, Shape
<1>3. Underway(job)'
  BY <1>1, <1>2 DEF Underway
<1>4. Shape'
  BY <1>1, <1>3 DEF Inv, Shape
<1>5. Midway(catalog, s, wanted[s], Len(Plan(wanted[s])))
  <2>1. CASE wanted[s] = "rw"
    BY <2>1, WriterPlan DEF Midway
  <2>2. CASE wanted[s] = "ro"
    BY <2>2, ReaderPlan DEF Midway
  <2>3. CASE wanted[s] = "none"
    BY <2>3, DropPlan DEF Midway
  <2> QED BY <1>2, <2>1, <2>2, <2>3 DEF Grants
<1>6. NoJob.role = Absent /\ \A r \in Services : r # Absent
  BY Apart DEF NoJob
<1>7. Kept'
  BY <1>1, <1>5, <1>6 DEF Kept, Inv
<1> QED BY <1>1, <1>4, <1>7 DEF Inv, ReadersRead

(* The next statement, and what it leaves to do. *)
LEMMA NextStatement ==
  ASSUME Inv, job # NoJob
  PROVE  LET s == job.role
             n == Len(job.todo)
             p == wanted[s]
         IN  /\ s \in Services /\ p \in Grants /\ deploying
             /\ n \in 1..Len(Plan(p)) /\ Head(job.todo) = Plan(p)[Len(Plan(p)) + 1 - n]
             /\ Head(job.todo) \in Statements
<1>1. Underway(job) /\ deploying
  BY DEF Inv, Shape
<1>2. job.role \in Services /\ wanted[job.role] \in Grants
  BY <1>1 DEF Underway, Inv, Shape
<1>3. Plan(wanted[job.role]) \in Seq(Statements) /\ Len(Plan(wanted[job.role])) \in Nat
  BY <1>2, PlanTypes
<1>4. Head(job.todo) = job.todo[1] /\ 1 \in 1..Len(job.todo) /\ job.todo \in Seq(Statements)
  BY <1>1 DEF Underway
<1> QED BY <1>1, <1>2, <1>3, <1>4 DEF Underway

LEMMA StatementMidway ==
  ASSUME NEW c \in Catalogs, NEW s \in Services, NEW p \in Grants, NEW n \in 1..Len(Plan(p)), Midway(c, s, p, n)
  PROVE  LET d == Execute(c, s, Plan(p)[Len(Plan(p)) + 1 - n])
         IN  (n > 1 => Midway(d, s, p, n - 1)) /\ (n = 1 => Settled(d, s, p))
<1>1. CASE p = "rw"
  <2>e. Plan(p) = Plan("rw")
    BY <1>1
  <2>0. Len(Plan(p)) = 10
    BY <2>e, WriterPlan
  <2>1. Len(Plan(p)) + 1 - n = 11 - n /\ n \in 1..10
    BY <2>0
  <2> QED BY <1>1, <2>1, WriterStatement
<1>2. CASE p = "ro"
  <2>e. Plan(p) = Plan("ro")
    BY <1>2
  <2>0. Len(Plan(p)) = 8
    BY <2>e, ReaderPlan
  <2>1. Len(Plan(p)) + 1 - n = 9 - n /\ n \in 1..8
    BY <2>0
  <2> QED BY <1>2, <2>1, ReaderStatement
<1>3. CASE p = "none"
  <2>e. Plan(p) = Plan("none")
    BY <1>3
  <2>0. Len(Plan(p)) = 3
    BY <2>e, DropPlan
  <2>1. Len(Plan(p)) + 1 - n = 4 - n /\ n \in 1..3
    BY <2>0
  <2> QED BY <1>3, <2>1, DropStatement
<1> QED BY <1>1, <1>2, <1>3 DEF Grants

LEMMA StatementStep == ASSUME Inv, Statement PROVE Inv'
<1> DEFINE s == job.role
           n == Len(job.todo)
           p == wanted[s]
           x == Head(job.todo)
<1>1. /\ job # NoJob /\ catalog' = Execute(catalog, s, x)
      /\ UNCHANGED <<wanted, deploying, dirty, bucket, spent>>
      /\ \/ n = 1 /\ job' = NoJob /\ minted' = [minted EXCEPT ![s] = p]
         \/ n # 1 /\ job' = [job EXCEPT !.todo = Tail(job.todo)] /\ minted' = minted
  BY DEF Statement, bucketVars
<1>2. /\ s \in Services /\ p \in Grants /\ deploying /\ n \in 1..Len(Plan(p))
      /\ x = Plan(p)[Len(Plan(p)) + 1 - n] /\ x \in Statements
  BY <1>1, NextStatement
<1>3. catalog \in Catalogs /\ Confined(catalog, catalog', s) /\ catalog' \in Catalogs
  BY <1>1, <1>2, StatementEffect DEF Inv, Shape, Confined
<1>4. SameTables(catalog, catalog') /\ \A r \in Services \ {s} : SameFor(catalog, catalog', r)
  BY <1>2, <1>3, ConfinedEffect
<1>5. ReadersRead'
  BY <1>1, <1>4 DEF Inv, ReadersRead, SameTables, SameEntries, Groups
<1>6. ASSUME NEW r \in Services \ dirty, r # s PROVE Settled(catalog', r, minted[r])
  BY <1>1, <1>4, <1>6, OthersSettled DEF Inv, Kept, Shape
<1>7. ASSUME s \notin dirty
      PROVE  (n > 1 => Midway(catalog', s, p, n - 1)) /\ (n = 1 => Settled(catalog', s, p))
  BY <1>1, <1>2, <1>3, <1>7, StatementMidway DEF Inv, Kept
<1>8. CASE n = 1
  <2>1. job' = NoJob /\ minted' = [minted EXCEPT ![s] = p]
    BY <1>1, <1>8
  <2>2. minted' \in [Services -> Grants] /\ minted'[s] = p /\ \A r \in Services \ {s} : minted'[r] = minted[r]
    BY <1>2, <2>1 DEF Inv, Shape
  <2>3. Shape'
    BY <1>1, <1>3, <2>1, <2>2 DEF Inv, Shape
  <2>4. Kept'
    BY <1>1, <1>6, <1>7, <1>8, <2>1, <2>2 DEF Kept
  <2> QED BY <1>5, <2>3, <2>4 DEF Inv
<1>9. CASE n # 1
  <2>1. job' = [job EXCEPT !.todo = Tail(job.todo)] /\ minted' = minted
    BY <1>1, <1>9
  <2>2. Underway(job)
    BY <1>1 DEF Inv, Shape
  <2>3. job'.role = s /\ job'.todo = Tail(job.todo) /\ job' = [role |-> s, todo |-> Tail(job.todo)]
    BY <2>1, <2>2 DEF Underway
  <2>l. Len(Plan(p)) \in Nat
    BY <1>2, PlanTypes
  <2>n. n \in Nat /\ n >= 1 /\ n <= Len(Plan(p))
    BY <1>2, <2>l
  <2>4. /\ Tail(job.todo) \in Seq(Statements) /\ Len(Tail(job.todo)) = n - 1 /\ n - 1 \in 1..Len(Plan(p))
        /\ \A i \in 1..(n - 1) : Tail(job.todo)[i] = job.todo[i + 1]
    <3>1. job.todo \in Seq(Statements)
      BY <2>2 DEF Underway
    <3>2. n - 1 \in 1..Len(Plan(p))
      <4> HIDE DEF n, p
      <4> QED BY <1>9, <2>l, <2>n
    <3> QED BY <2>n, <3>1, <3>2
  <2>5. Underway(job)'
    <3>2. ASSUME NEW i \in 1..(n - 1) PROVE Tail(job.todo)[i] = Plan(p)[Len(Plan(p)) - (n - 1) + i]
      <4>1. i + 1 \in 1..n /\ Len(Plan(p)) - n + (i + 1) = Len(Plan(p)) - (n - 1) + i
        BY <2>n
      <4> QED BY <2>2, <2>4, <4>1 DEF Underway
    <3> QED BY <1>1, <1>2, <2>1, <2>2, <2>3, <2>4, <3>2 DEF Underway
  <2>6. Shape'
    BY <1>1, <1>2, <1>3, <2>1, <2>5 DEF Inv, Shape
  <2>7. n > 1
    <3> HIDE DEF n, p
    <3>1. n # 1 /\ n \in Nat /\ n >= 1
      BY <1>9, <2>n
    <3> QED BY <3>1
  <2>8. Kept'
    BY <1>1, <1>6, <1>7, <2>1, <2>3, <2>4, <2>7 DEF Kept
  <2> QED BY <1>5, <2>6, <2>8 DEF Inv
<1> QED BY <1>8, <1>9

(* A new table is its creator's, and reaches the groups through the creator's
   default privileges. *)
LEMMA NewTable ==
  ASSUME Inv, NEW s \in Services, NEW t \in Tables, CreateTable(s, t)
  PROVE  /\ catalog' \in Catalogs
         /\ catalog.owner[t] = Absent /\ catalog'.owner = [catalog.owner EXCEPT ![t] = s]
         /\ s \in catalog.create /\ catalog'.create = catalog.create
         /\ catalog'.member = catalog.member /\ catalog'.defaults = catalog.defaults
         /\ \A u, r, a : <<u, r, a>> \in catalog'.acl <=>
              \/ <<u, r, a>> \in catalog.acl
              \/ u = t /\ r = s /\ a \in {"read", "write"}
              \/ u = t /\ r = "ro" /\ a = "read" /\ <<s, "ro">> \in catalog.defaults
              \/ u = t /\ r = "rw" /\ a \in {"read", "write"} /\ <<s, "rw">> \in catalog.defaults
<1> DEFINE own == Entries({t}, s, {"read", "write"})
           ro == IF <<s, "ro">> \in catalog.defaults THEN Entries({t}, "ro", {"read"}) ELSE {}
           rw == IF <<s, "rw">> \in catalog.defaults THEN Entries({t}, "rw", {"read", "write"}) ELSE {}
<1>1. catalog \in Catalogs
  BY DEF Inv, Shape
<1>2. catalog' = [catalog EXCEPT !.owner = [catalog.owner EXCEPT ![t] = s], !.acl = catalog.acl \cup own \cup ro \cup rw]
      /\ catalog.owner[t] = Absent /\ s \in catalog.create
  BY <1>1 DEF CreateTable, Exists, Catalogs
<1>3. \A u, r, a : /\ <<u, r, a>> \in own <=> u = t /\ r = s /\ a \in {"read", "write"}
                   /\ <<u, r, a>> \in ro <=> u = t /\ r = "ro" /\ a = "read" /\ <<s, "ro">> \in catalog.defaults
                   /\ <<u, r, a>> \in rw <=> u = t /\ r = "rw" /\ a \in {"read", "write"} /\ <<s, "rw">> \in catalog.defaults
  BY DEF Entries
<1>4. own \subseteq Privileges /\ ro \subseteq Privileges /\ rw \subseteq Privileges
  BY DEF Entries, Privileges, Groups
<1> HIDE DEF own, ro, rw
<1>5. [catalog.owner EXCEPT ![t] = s] \in [Tables -> Owners]
  BY <1>1 DEF Catalogs, Owners
<1>6. catalog.acl \cup own \cup ro \cup rw \in SUBSET Privileges
  BY <1>1, <1>4 DEF Catalogs
<1>7. /\ catalog'.owner = [catalog.owner EXCEPT ![t] = s] /\ catalog'.acl = catalog.acl \cup own \cup ro \cup rw
      /\ catalog'.create = catalog.create /\ catalog'.member = catalog.member /\ catalog'.defaults = catalog.defaults
  BY <1>1, <1>2 DEF Catalogs
<1>8. catalog' \in Catalogs
  BY <1>1, <1>2, <1>5, <1>6 DEF Catalogs
<1> QED BY <1>2, <1>3, <1>7, <1>8

LEMMA CreateTableStep ==
  ASSUME Inv, NEW s \in Services, NEW t \in Tables, CreateTable(s, t)
  PROVE  Inv'
<1>0. /\ catalog \in Catalogs /\ minted \in [Services -> Grants] /\ dirty \in SUBSET Services
      /\ UNCHANGED <<wanted, minted, deploying, job, bucket, spent>>
      /\ dirty' = IF job = NoJob /\ s \notin dirty THEN dirty ELSE Services
  BY DEF Inv, Shape, CreateTable, bucketVars
<1>1. /\ catalog' \in Catalogs
      /\ catalog.owner[t] = Absent /\ catalog'.owner = [catalog.owner EXCEPT ![t] = s]
      /\ s \in catalog.create /\ catalog'.create = catalog.create
      /\ catalog'.member = catalog.member /\ catalog'.defaults = catalog.defaults
  BY NewTable
<1>2. \A u, r, a : <<u, r, a>> \in catalog'.acl <=>
         \/ <<u, r, a>> \in catalog.acl
         \/ u = t /\ r = s /\ a \in {"read", "write"}
         \/ u = t /\ r = "ro" /\ a = "read" /\ <<s, "ro">> \in catalog.defaults
         \/ u = t /\ r = "rw" /\ a \in {"read", "write"} /\ <<s, "rw">> \in catalog.defaults
  BY NewTable
<1>3. s # "ro" /\ s # "rw" /\ \A r \in Services : r \notin Groups
  BY Apart DEF Groups
<1>4. Underway(job) => Underway(job)'
  BY <1>0 DEF Underway
<1>5. Shape'
  BY <1>0, <1>1, <1>4 DEF Inv, Shape
<1>6. ReadersRead'
  <2>1. \A u \in Tables : <<u, "ro", "write">> \notin catalog.acl
    BY DEF Inv, ReadersRead
  <2>2. \A u \in Tables : <<u, "ro", "write">> \notin catalog'.acl
    <3>1. SUFFICES ASSUME NEW u \in Tables, <<u, "ro", "write">> \in catalog'.acl PROVE FALSE
      OBVIOUS
    <3>2. "ro" # s /\ "ro" # "rw" /\ "write" # "read" /\ <<u, "ro", "write">> \notin catalog.acl
      BY <1>3, <2>1
    <3> QED BY <1>2, <3>1, <3>2
  <2> QED BY <1>0, <2>2 DEF Inv, ReadersRead
<1>7. CASE job = NoJob /\ s \notin dirty
  <2>1. dirty' = dirty /\ job' = NoJob /\ NoJob.role = Absent /\ \A r \in Services : r # Absent
    BY <1>0, <1>7, Apart DEF NoJob
  <2>2. \A r \in Services \ dirty : minted[r] \in Grants /\ Settled(catalog, r, minted[r])
    BY <1>0, <1>7, <2>1 DEF Inv, Kept
  <2>3. minted[s] = "rw" /\ <<s, "ro">> \in catalog.defaults /\ <<s, "rw">> \in catalog.defaults
    <3>1. minted[s] \in Grants /\ Settled(catalog, s, minted[s])
      BY <1>7, <2>2
    <3> QED BY <1>1, <3>1 DEF Settled, Grants
  <2>4. /\ \A u \in Tables : catalog'.owner[u] = IF u = t THEN s ELSE catalog.owner[u]
        /\ Existing(catalog') = Existing(catalog) \cup {t} /\ Existing(catalog) \subseteq Tables
    <3>1. \A u \in Tables : catalog'.owner[u] = IF u = t THEN s ELSE catalog.owner[u]
      BY <1>0, <1>1 DEF Catalogs
    <3> QED BY <2>1, <3>1 DEF Existing
  <2>5. ASSUME NEW r \in Services \ dirty PROVE Settled(catalog', r, minted[r])
    <3>1. Settled(catalog, r, minted[r]) /\ r # "ro" /\ r # "rw"
      BY <1>3, <2>2 DEF Groups
    <3>2. CASE minted[r] = "rw"
      <4>1. ASSUME NEW u \in Existing(catalog'), NEW a \in {"read", "write"}
            PROVE  <<u, r, a>> \in catalog'.acl \/ <<u, "rw", a>> \in catalog'.acl
        BY <1>2, <2>3, <2>4, <3>1, <3>2 DEF Settled
      <4> QED BY <1>1, <3>1, <3>2, <4>1 DEF Settled
    <3>3. CASE minted[r] = "ro"
      <4>1. r # s
        BY <2>3, <3>3
      <4>2. \A u \in Tables : catalog'.owner[u] # r /\ <<u, r, "write">> \notin catalog'.acl
        BY <1>2, <2>4, <3>1, <3>3, <4>1 DEF Settled
      <4>3. \A u \in Existing(catalog') : <<u, r, "read">> \in catalog'.acl \/ <<u, "ro", "read">> \in catalog'.acl
        BY <1>2, <2>3, <2>4, <3>1, <3>3 DEF Settled
      <4> QED BY <1>1, <3>1, <3>3, <4>2, <4>3 DEF Settled
    <3>4. CASE minted[r] = "none"
      <4>1. r # s
        BY <2>3, <3>4
      <4>2. \A u \in Tables, a \in {"read", "write"} : catalog'.owner[u] # r /\ <<u, r, a>> \notin catalog'.acl
        BY <1>2, <2>4, <3>1, <3>4, <4>1 DEF Settled
      <4> QED BY <1>1, <3>1, <3>4, <4>2 DEF Settled
    <3> QED BY <2>2, <3>2, <3>3, <3>4 DEF Grants
  <2>6. Kept'
    BY <1>0, <2>1, <2>5 DEF Kept
  <2> QED BY <1>5, <1>6, <2>6 DEF Inv
<1>8. CASE ~(job = NoJob /\ s \notin dirty)
  <2>1. dirty' = Services /\ job' = job /\ (job # NoJob => job.role \in Services)
    BY <1>0, <1>8 DEF Inv, Shape, Underway
  <2> QED BY <1>5, <1>6, <2>1 DEF Inv, Kept
<1> QED BY <1>7, <1>8

(* A restore brings back what some dump held: nothing is claimed of a service
   until its next mint, but the catalog keeps its form. *)
LEMMA RestoredForm ==
  ASSUME NEW c \in Catalogs, NEW dump \in Dumps, NEW whole \in BOOLEAN,
         \A t \in Tables : <<t, "ro", "write">> \notin c.acl /\ <<t, "ro", "write">> \notin dump.acl
  PROVE  /\ Restored(c, dump, whole) \in Catalogs
         /\ \A t \in Tables : <<t, "ro", "write">> \notin Restored(c, dump, whole).acl
<1> DEFINE d == Restored(c, dump, whole)
           back == {t \in Tables : dump.owner[t] # Absent}
           owners == [t \in Tables |->
              IF t \notin back THEN c.owner[t]
              ELSE IF dump.owner[t] \in c.roles \union {Owner} THEN dump.owner[t] ELSE Superuser]
           acls == {e \in c.acl : e[1] \notin back}
                  \union (IF whole THEN {e \in dump.acl : e[1] \in back /\ e[2] \in c.roles \union Groups} ELSE {})
           creates == IF whole THEN c.create \union (dump.create \cap c.roles) ELSE c.create
           defs == IF whole THEN c.defaults \union {x \in dump.defaults : x[1] \in c.roles} ELSE c.defaults
<1>1. d = [c EXCEPT !.owner = owners, !.acl = acls, !.create = creates, !.defaults = defs]
  BY DEF Restored, Catalogs
<1>2. owners \in [Tables -> Owners]
  BY DEF Catalogs, Dumps, Owners
<1>3. acls \in SUBSET Privileges /\ acls \subseteq c.acl \cup dump.acl
  BY DEF Catalogs, Dumps
<1>4. creates \in SUBSET Services /\ defs \in SUBSET (Services \X Groups)
  BY DEF Catalogs, Dumps
<1> HIDE DEF owners, acls, creates, defs, d
<1>5. d \in Catalogs /\ d.acl = acls
  BY <1>1, <1>2, <1>3, <1>4 DEF Catalogs
<1> QED BY <1>3, <1>5 DEF d

LEMMA RestoreStep ==
  ASSUME Inv, NEW dump \in Dumps, NEW whole \in BOOLEAN, \A t \in Tables : <<t, "ro", "write">> \notin dump.acl,
         Restore(dump, whole)
  PROVE  Inv'
<1>1. /\ catalog' = Restored(catalog, dump, whole) /\ dirty' = Services /\ spent' = spent + 1
      /\ UNCHANGED <<wanted, minted, deploying, job, bucket>>
  BY DEF Restore, bucketVars
<1>2. catalog' \in Catalogs /\ \A t \in Tables : <<t, "ro", "write">> \notin catalog'.acl
  BY <1>1, RestoredForm DEF Inv, Shape, ReadersRead
<1>3. job # NoJob => job.role \in Services
  BY DEF Inv, Shape, Underway
<1>4. Underway(job) => Underway(job)'
  BY <1>1 DEF Underway
<1> QED BY <1>1, <1>2, <1>3, <1>4 DEF Inv, Shape, ReadersRead, Kept

(* A dump is a snapshot of the catalog. *)
LEMMA DumpStep == ASSUME Inv, NEW result \in {"whole", "truncated", "nothing"}, Dump(result) PROVE Inv'
<1>1. /\ spent' = spent + 1 /\ UNCHANGED <<catalog, wanted, minted, deploying, job, dirty>>
      /\ bucket' = IF result = "nothing" THEN bucket
                   ELSE Append(bucket, [id |-> spent, whole |-> result = "whole", tables |-> Snapshot])
  BY DEF Dump, catalogVars
<1>2. Snapshot \in Dumps /\ Snapshot.acl = catalog.acl
  BY DEF Snapshot, Dumps, Catalogs, Inv, Shape
<1>3. [id |-> spent, whole |-> result = "whole", tables |-> Snapshot] \in Objects
      /\ [id |-> spent, whole |-> result = "whole", tables |-> Snapshot].tables.acl = catalog.acl
  BY <1>2 DEF Objects, Inv, Shape
<1>4. bucket' \in Seq(Objects) /\ \A i \in DOMAIN bucket' :
         bucket'[i].tables.acl = catalog.acl \/ (i \in DOMAIN bucket /\ bucket'[i] = bucket[i])
  BY <1>1, <1>3 DEF Inv, Shape
<1>5. Underway(job) => Underway(job)'
  BY <1>1 DEF Underway
<1> QED BY <1>1, <1>4, <1>5 DEF Inv, Shape, ReadersRead, Kept

(* What a prune keeps: the newest, in their order. *)
LEMMA PruneKeeps ==
  ASSUME Inv, NEW listed \in 0..Len(bucket), Prune(listed)
  PROVE  /\ listed - Keep \in 1..(Len(bucket) - Keep) /\ Len(bucket) \in Nat
         /\ bucket' \in Seq(Objects) /\ Len(bucket') = Len(bucket) - (listed - Keep)
         /\ \A i \in 1..Len(bucket') : bucket'[i] = bucket[i + (listed - Keep)]
<1>1. bucket \in Seq(Objects) /\ Len(bucket) \in Nat /\ Keep \in Nat \ {0}
      /\ bucket' = SubSeq(bucket, (listed - Keep) + 1, Len(bucket)) /\ listed - Keep > 0
  BY DatabaseAssumption DEF Prune, Inv, Shape
<1>2. listed - Keep \in 1..(Len(bucket) - Keep)
  BY <1>1
<1> HIDE DEF Prune
<1> QED BY <1>1, <1>2

LEMMA PruneStep == ASSUME Inv, NEW listed \in 0..Len(bucket), Prune(listed) PROVE Inv'
<1>1. UNCHANGED <<catalog, wanted, minted, deploying, job, dirty, spent>>
  BY DEF Prune, catalogVars
<1>2. bucket' \in Seq(Objects)
      /\ \A i \in DOMAIN bucket' : bucket'[i] = bucket[i + (listed - Keep)] /\ i + (listed - Keep) \in DOMAIN bucket
  <2>1. bucket \in Seq(Objects) /\ DOMAIN bucket = 1..Len(bucket)
    BY DEF Inv, Shape
  <2>2. /\ listed - Keep \in 1..(Len(bucket) - Keep) /\ Len(bucket) \in Nat
        /\ bucket' \in Seq(Objects) /\ Len(bucket') = Len(bucket) - (listed - Keep)
        /\ \A i \in 1..Len(bucket') : bucket'[i] = bucket[i + (listed - Keep)]
    BY PruneKeeps
  <2>3. DOMAIN bucket' = 1..Len(bucket') /\ Keep \in Nat
    BY <2>2, DatabaseAssumption
  <2> QED BY <2>1, <2>2, <2>3
<1>3. Underway(job) => Underway(job)'
  BY <1>1 DEF Underway
<1> QED BY <1>1, <1>2, <1>3 DEF Inv, Shape, ReadersRead, Kept

LEMMA DatabaseStep == ASSUME Inv, [Next]_vars PROVE Inv'
<1>0. (Underway(job) /\ job' = job /\ wanted' = wanted /\ minted' = minted) => Underway(job)'
  BY DEF Underway
<1>1. ASSUME NEW s \in Services, NEW p \in Grants, ChangeGrant(s, p) PROVE Inv'
  <2>1. /\ ~deploying /\ wanted' = [wanted EXCEPT ![s] = p] /\ spent' = spent + 1
        /\ UNCHANGED <<catalog, minted, deploying, job, dirty, bucket>>
    BY <1>1 DEF ChangeGrant, bucketVars
  <2>2. job = NoJob
    BY <2>1 DEF Inv, Shape
  <2> QED BY <2>1, <2>2 DEF Inv, Shape, ReadersRead, Kept
<1>2. CASE BeginDeploy
  <2>1. deploying' = TRUE /\ UNCHANGED <<catalog, wanted, minted, job, dirty, bucket, spent>>
    BY <1>2 DEF BeginDeploy, bucketVars
  <2> QED BY <1>0, <2>1 DEF Inv, Shape, ReadersRead, Kept
<1>3. CASE EndDeploy
  <2>1. deploying' = FALSE /\ Pending = {} /\ UNCHANGED <<catalog, wanted, minted, job, dirty, bucket, spent>>
    BY <1>3 DEF EndDeploy, bucketVars
  <2>2. job = NoJob
    BY <2>1 DEF Inv, Shape, Underway, Pending
  <2> QED BY <2>1, <2>2 DEF Inv, Shape, ReadersRead, Kept
<1>4. CASE JobFails
  <2>1. /\ job # NoJob /\ job' = NoJob /\ deploying' = FALSE /\ dirty' = dirty \cup {job.role}
        /\ spent' \in {spent, spent + 1} /\ UNCHANGED <<catalog, wanted, minted, bucket>>
    BY <1>4 DEF JobFails, bucketVars
  <2>2. job.role \in Services
    BY <2>1 DEF Inv, Shape, Underway
  <2>3. spent' \in Nat /\ dirty' \in SUBSET Services
    BY <2>1, <2>2 DEF Inv, Shape
  <2>4. \A s \in Services \ dirty' : Settled(catalog, s, minted[s])
    BY <2>1 DEF Inv, Kept
  <2>5. Shape'
    BY <2>1, <2>3 DEF Inv, Shape
  <2>6. Kept'
    BY <2>1, <2>4 DEF Kept
  <2> QED BY <2>1, <2>5, <2>6 DEF Inv, ReadersRead
<1>5. CASE SkipPrune \/ UNCHANGED vars
  <2>1. UNCHANGED <<catalog, wanted, minted, deploying, job, dirty, bucket, spent>>
    BY <1>5 DEF SkipPrune, vars, catalogVars, bucketVars
  <2> QED BY <1>0, <2>1 DEF Inv, Shape, ReadersRead, Kept
<1>6. ASSUME NEW i \in DOMAIN bucket, RestoreKey(i) PROVE Inv'
  <2>1. bucket[i].tables \in Dumps /\ bucket[i].whole \in BOOLEAN
    <3>1. bucket[i] \in Objects
      BY DEF Inv, Shape
    <3> QED BY <3>1 DEF Objects
  <2> QED BY <1>6, <2>1, RestoreStep DEF RestoreKey, Inv, ReadersRead
<1>7. ASSUME NEW t \in Tables, RestoreForeign(t) PROVE Inv'
  <2> DEFINE dump == [owner |-> [u \in Tables |-> IF u = t THEN Superuser ELSE Absent],
                      acl |-> {}, create |-> {}, defaults |-> {}]
  <2>1. dump \in Dumps /\ dump.acl = {}
    BY DEF Dumps, Owners
  <2>2. Restore(dump, TRUE)
    BY <1>7 DEF RestoreForeign
  <2> HIDE DEF dump
  <2> QED BY <2>1, <2>2, RestoreStep
<1> QED BY <1>1, <1>2, <1>3, <1>4, <1>5, <1>6, <1>7,
           BeginJobStep, StatementStep, CreateTableStep, DumpStep, PruneStep DEF Next

(* The invariant holds in every reachable state. *)
THEOREM DatabaseInvariance == Spec => []Inv
BY DatabaseInitial, DatabaseStep, PTL DEF Spec

(* A mint is declarative: whatever a role was before, and whatever tables any
   service creates afterwards, it can do what its last mint declares on every
   table and no more (pgrole.go, MintRoleSQL). *)
THEOREM MintIsDeclarativeAlways == Spec => []MintIsDeclarative
<1>1. Inv => MintIsDeclarative
  <2>1. SUFFICES ASSUME Inv, NEW s \in Services \ dirty, job.role # s, NEW t \in Existing(catalog)
                 PROVE  /\ minted[s] = "rw" => Granted(s, t, "read") /\ Granted(s, t, "write")
                        /\ minted[s] = "ro" => Granted(s, t, "read") /\ ~CanWrite(s, t)
                        /\ minted[s] = "none" => catalog.owner[t] # s /\ HeldBy(catalog, s) = {}
    <3>1. minted \in [Services -> Grants] /\ Inv => \A s \in Services : minted[s] \in {"none", "ro", "rw"}
      BY DEF Grants
    <3> QED BY <3>1 DEF MintIsDeclarative, AsDeclared, Inv, Shape
  <2>2. Settled(catalog, s, minted[s]) /\ t \in Tables /\ s \in Services /\ catalog \in Catalogs
    BY <2>1 DEF Inv, Kept, Shape, Existing
  <2>3. CASE minted[s] = "rw"
    BY <2>1, <2>2, <2>3 DEF Settled, Granted, Groups
  <2>4. CASE minted[s] = "ro"
    <3>1. Granted(s, t, "read")
      BY <2>1, <2>2, <2>4 DEF Settled, Granted, Groups
    <3>2. <<t, s, "write">> \notin catalog.acl /\ <<s, "rw">> \notin catalog.member /\ catalog.owner[t] # s
      BY <2>2, <2>4 DEF Settled
    <3>3. <<t, "ro", "write">> \notin catalog.acl
      BY <2>1, <2>2 DEF Inv, ReadersRead
    <3> QED BY <2>4, <3>1, <3>2, <3>3 DEF Granted, CanWrite, Groups
  <2>5. CASE minted[s] = "none"
    <3>1. \A u \in Tables : catalog.owner[u] # s /\ \A a \in {"read", "write"} : <<u, s, a>> \notin catalog.acl
      BY <2>2, <2>5 DEF Settled
    <3>2. ASSUME NEW e \in HeldBy(catalog, s) PROVE FALSE
      <4>1. e \in Privileges /\ e \in catalog.acl /\ e[2] = s
        BY <2>2, <3>2 DEF HeldBy, Catalogs
      <4>2. e = <<e[1], s, e[3]>> /\ e[1] \in Tables /\ e[3] \in {"read", "write"}
        BY <4>1 DEF Privileges
      <4> QED BY <3>1, <4>1, <4>2
    <3> QED BY <2>2, <2>5, <3>1, <3>2
  <2> QED BY <2>3, <2>4, <2>5
<1> QED BY <1>1, DatabaseInvariance, PTL

(* A role that has been cleared in its database can be dropped, whatever any
   service did between the statements of the drop (pgrole.go, DropRoleScript). *)
THEOREM ClearedIsDroppableAlways == Spec => []ClearedIsDroppable
<1>1. Inv => ClearedIsDroppable
  <2>1. SUFFICES ASSUME Inv, job # NoJob, job.role \notin dirty, Head(job.todo) = "dropRole"
                 PROVE  Droppable(catalog, job.role)
    BY DEF ClearedIsDroppable
  <2> DEFINE s == job.role
             n == Len(job.todo)
             p == wanted[s]
  <2>2. /\ s \in Services /\ p \in Grants
        /\ n \in 1..Len(Plan(p)) /\ Head(job.todo) = Plan(p)[Len(Plan(p)) + 1 - n]
    BY <2>1, NextStatement
  <2>3. Midway(catalog, s, p, n) /\ catalog \in Catalogs
    BY <2>1 DEF Inv, Kept, Shape
  <2> HIDE DEF n, p, s
  <2>4. p = "none" /\ n = 1
    <3>1. CASE p = "rw"
      <4>1. Len(Plan(p)) = 10 /\ Plan(p) = Plan("rw")
        BY <3>1, WriterPlan
      <4>2. n \in 1..10 /\ Plan("rw")[11 - n] = "dropRole"
        BY <2>1, <2>2, <4>1
      <4> QED BY <4>2, WriterPlan
    <3>2. CASE p = "ro"
      <4>1. Len(Plan(p)) = 8 /\ Plan(p) = Plan("ro")
        BY <3>2, ReaderPlan
      <4>2. n \in 1..8 /\ Plan("ro")[9 - n] = "dropRole"
        BY <2>1, <2>2, <4>1
      <4> QED BY <4>2, ReaderPlan
    <3>3. CASE p = "none"
      <4>1. Len(Plan(p)) = 3 /\ Plan(p) = Plan("none")
        BY <3>3, DropPlan
      <4>2. n \in 1..3 /\ Plan("none")[4 - n] = "dropRole"
        BY <2>1, <2>2, <4>1
      <4>3. n = 1
        BY <4>2, DropPlan
      <4> QED BY <3>3, <4>3
    <3> QED BY <2>2, <3>1, <3>2, <3>3 DEF Grants
  <2>5. /\ \A t \in Tables : catalog.owner[t] # s
        /\ \A t \in Tables, a \in {"read", "write"} : <<t, s, a>> \notin catalog.acl
        /\ s \notin catalog.create /\ \A g \in Groups : <<s, g>> \notin catalog.defaults
    BY <2>3, <2>4 DEF Midway
  <2>6. ASSUME NEW e \in HeldBy(catalog, s) PROVE FALSE
    <3>1. e \in Privileges /\ e \in catalog.acl /\ e[2] = s
      BY <2>3, <2>6 DEF HeldBy, Catalogs
    <3>2. e = <<e[1], s, e[3]>> /\ e[1] \in Tables /\ e[3] \in {"read", "write"}
      BY <3>1 DEF Privileges
    <3> QED BY <2>5, <3>1, <3>2
  <2>7. catalog.defaults \cap ({s} \X Groups) = {}
    BY <2>5
  <2> QED BY <2>5, <2>6, <2>7 DEF Droppable, Owned, s
<1> QED BY <1>1, DatabaseInvariance, PTL

-----------------------------------------------------------------------------
(* Backups.                                                                 *)

(* A prune follows a whole dump, which is then the newest object. *)
PruneFollowsWhole == oneshot = "prune" => Len(bucket) > 0 /\ bucket[Len(bucket)].whole

(* Once a backup has succeeded there is always a whole one to restore, and the
   Keep newest survive every prune, truncated dumps, failed deletions and
   partial listings included (backup.go, BackupScript). *)
THEOREM BackupsSurviveAlways == Spec => BackupsSurvive
<1>1. Init => PruneFollowsWhole
  BY DEF Init, PruneFollowsWhole
<1>2. Inv /\ PruneFollowsWhole /\ [Next]_vars =>
        /\ PruneFollowsWhole'
        /\ HasWhole(bucket) => HasWhole(bucket')
        /\ \A i \in DOMAIN bucket : i > Len(bucket) - Keep => \E j \in DOMAIN bucket' : bucket'[j].id = bucket[i].id
  <2>1. SUFFICES ASSUME Inv, PruneFollowsWhole, [Next]_vars
                 PROVE  /\ PruneFollowsWhole'
                        /\ HasWhole(bucket) => HasWhole(bucket')
                        /\ \A i \in DOMAIN bucket : i > Len(bucket) - Keep =>
                              \E j \in DOMAIN bucket' : bucket'[j].id = bucket[i].id
    OBVIOUS
  <2>b. bucket \in Seq(Objects) /\ DOMAIN bucket = 1..Len(bucket) /\ Len(bucket) \in Nat /\ Keep \in Nat \ {0}
    BY <2>1, DatabaseAssumption DEF Inv, Shape
  <2>2. CASE bucket' = bucket /\ oneshot' \in {oneshot, "idle"}
    BY <2>1, <2>2 DEF PruneFollowsWhole
  <2>3. ASSUME NEW result \in {"whole", "truncated", "nothing"}, Dump(result), bucket' # bucket
        PROVE  /\ PruneFollowsWhole'
               /\ HasWhole(bucket) => HasWhole(bucket')
               /\ \A i \in DOMAIN bucket : \E j \in DOMAIN bucket' : bucket'[j].id = bucket[i].id
    <3> DEFINE o == [id |-> spent, whole |-> result = "whole", tables |-> Snapshot]
    <3>1. bucket' = Append(bucket, o) /\ oneshot' = IF result = "whole" THEN "prune" ELSE "idle"
      BY <2>3 DEF Dump
    <3>2. o.whole = (result = "whole")
      OBVIOUS
    <3> HIDE DEF o
    <3>3. /\ Len(bucket') = Len(bucket) + 1 /\ bucket'[Len(bucket')] = o /\ DOMAIN bucket' = 1..Len(bucket')
          /\ \A i \in DOMAIN bucket : i \in DOMAIN bucket' /\ bucket'[i] = bucket[i]
      BY <2>b, <3>1
    <3>4. PruneFollowsWhole'
      <4>1. Len(bucket') > 0
        BY <2>b, <3>3
      <4> QED BY <3>1, <3>2, <3>3, <4>1 DEF PruneFollowsWhole
    <3> QED BY <3>3, <3>4 DEF HasWhole
  <2>4. ASSUME NEW listed \in 0..Len(bucket), Prune(listed)
        PROVE  /\ PruneFollowsWhole'
               /\ HasWhole(bucket) => HasWhole(bucket')
               /\ \A i \in DOMAIN bucket : i > Len(bucket) - Keep =>
                     \E j \in DOMAIN bucket' : bucket'[j].id = bucket[i].id
    <3>1. oneshot = "prune" /\ oneshot' = "idle"
      BY <2>4 DEF Prune
    <3> DEFINE k == listed - Keep
    <3>2. /\ k \in 1..(Len(bucket) - Keep) /\ Len(bucket') = Len(bucket) - k /\ bucket' \in Seq(Objects)
          /\ \A i \in 1..Len(bucket') : bucket'[i] = bucket[i + k]
      BY <2>1, <2>4, PruneKeeps
    <3> HIDE DEF k
    <3>3. DOMAIN bucket' = 1..Len(bucket')
      BY <3>2
    <3>4. ASSUME NEW i \in DOMAIN bucket, i > Len(bucket) - Keep
          PROVE  i - k \in DOMAIN bucket' /\ bucket'[i - k] = bucket[i]
      <4>1. i - k \in 1..Len(bucket') /\ (i - k) + k = i
        BY <2>b, <3>2, <3>4
      <4> QED BY <3>2, <3>3, <4>1
    <3>5. Len(bucket) \in DOMAIN bucket /\ Len(bucket) > Len(bucket) - Keep /\ bucket[Len(bucket)].whole
      BY <2>1, <2>b, <3>1 DEF PruneFollowsWhole
    <3>6. HasWhole(bucket')
      BY <3>4, <3>5 DEF HasWhole
    <3> QED BY <3>1, <3>4, <3>6 DEF PruneFollowsWhole
  <2>5. (\E result \in {"whole", "truncated", "nothing"} : Dump(result)) /\ bucket' = bucket
          => oneshot' \in {oneshot, "idle"}
    <3>1. ASSUME NEW result \in {"whole", "truncated", "nothing"}, Dump(result), bucket' = bucket
          PROVE  oneshot' = "idle"
      <4>1. CASE result = "nothing"
        BY <3>1, <4>1 DEF Dump
      <4>2. CASE result # "nothing"
        <5>1. bucket' = Append(bucket, [id |-> spent, whole |-> result = "whole", tables |-> Snapshot])
          BY <3>1, <4>2 DEF Dump
        <5>2. Len(bucket') = Len(bucket) + 1
          BY <2>b, <5>1
        <5> QED BY <2>b, <3>1, <5>2
      <4> QED BY <4>1, <4>2
    <3> QED BY <3>1
  <2>6. CASE SkipPrune
    BY <2>2, <2>6 DEF SkipPrune
  <2>7. (/\ ~(\E result \in {"whole", "truncated", "nothing"} : Dump(result))
         /\ ~(\E listed \in 0..Len(bucket) : Prune(listed)) /\ ~SkipPrune) => bucket' = bucket /\ oneshot' = oneshot
    BY <2>1 DEF Next, ChangeGrant, BeginDeploy, EndDeploy, BeginJob, Statement, JobFails, CreateTable,
       RestoreKey, RestoreForeign, Restore, bucketVars, vars
  <2> QED BY <2>2, <2>3, <2>4, <2>5, <2>6, <2>7
<1> QED BY <1>1, <1>2, DatabaseInvariance, PTL DEF Spec, BackupsSurvive
=============================================================================
