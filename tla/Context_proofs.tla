---------------------------- MODULE Context_proofs ----------------------------
(***************************************************************************)
(* Proofs about what a planning is given: the ledger of context frames,    *)
(* the packs compaction makes of them, the work modes that are selected    *)
(* and the definitions these come from. All four choose by order, the      *)
(* newest, the least important or the best, so the lemmas about orders     *)
(* come first: what the models CHOOSE exists.                              *)
(***************************************************************************)
EXTENDS ContextLedger, ContextPacks, WorkModes, Definitions, WellFoundedInduction,
        FiniteSetTheorems, SequenceTheorems, TLAPS

-----------------------------------------------------------------------------
(* The least and the greatest number of a set, for CHOOSE.                 *)

Less == {p \in Nat \X Nat : p[1] < p[2]}

LEMMA LessIsFounded == IsWellFoundedOn(Less, Nat)
BY NatLessThanWellFounded, Zenon DEF OpToRel, Less

LEMMA LeastOf == ASSUME NEW T \in SUBSET Nat, T # {} PROVE \E x \in T : \A y \in T : x <= y
<1>1. \E x \in T : \A y \in T : <<y, x>> \notin Less
  BY LessIsFounded, WFMin
<1>2. \A x, y \in Nat : <<y, x>> \notin Less => x <= y
  BY DEF Less
<1> QED BY <1>1, <1>2

LEMMA GreatestOf ==
    ASSUME NEW n \in Nat, NEW T \in SUBSET (0 .. n), T # {}
    PROVE  \E x \in T : \A y \in T : y <= x
<1> DEFINE U == {m \in Nat : n - m \in T}
<1>1. U \in SUBSET Nat /\ U # {}
  <2>1. PICK x \in T : TRUE
    OBVIOUS
  <2>2. x \in 0 .. n /\ n - x \in Nat /\ n - (n - x) = x
    OBVIOUS
  <2> QED BY <2>1, <2>2
<1>2. PICK m \in U : \A k \in U : m <= k
  <2> HIDE DEF U
  <2> QED BY <1>1, LeastOf
<1>3. n - m \in T
  OBVIOUS
<1>4. ASSUME NEW y \in T PROVE y <= n - m
  <2>1. y \in 0 .. n /\ n - y \in Nat /\ n - (n - y) = y
    OBVIOUS
  <2>2. m <= n - y
    BY <1>2, <2>1
  <2> QED BY <2>1, <2>2
<1> QED BY <1>3, <1>4

-----------------------------------------------------------------------------
(* The library of definitions.                                             *)

-----------------------------------------------------------------------------
(* Types.                                                                  *)

Tables == [Ids -> Definition \cup {NoDefinition}]

LEMMA StoredTyped ==
    ASSUME NEW t \in Tables, NEW d \in Stored(t)
    PROVE  d \in Ids /\ t[d] \in Definition /\ t[d].name \in Names /\ t[d].live \in BOOLEAN
<1>1. d \in Ids /\ t[d] \in Definition
  BY DEF Stored, Tables
<1> QED BY <1>1 DEF Definition

\* The version a new definition gets is the next of its name, and one that
\* the bound leaves room for or the first that it does not.
LEMMA NextVersionTyped ==
    ASSUME rows \in Tables, NEW n \in Names
    PROVE  NextVersion(n) \in 1 .. MaxVersion + 1
<1>1. Versions(n) \in SUBSET (0 .. MaxVersion) /\ Versions(n) \subseteq 1 .. MaxVersion
  <2>1. \A d \in Stored(rows) : rows[d].version \in 1 .. MaxVersion
    BY StoredTyped DEF Definition
  <2> QED BY <2>1, DefinitionsAssumption DEF Versions
<1>2. \E v \in 1 .. MaxVersion + 1 :
         \/ Versions(n) = {} /\ v = 1
         \/ v - 1 \in Versions(n) /\ \A w \in Versions(n) : w < v
  <2>1. CASE Versions(n) = {}
    BY <2>1, DefinitionsAssumption
  <2>2. CASE Versions(n) # {}
    <3>1. PICK x \in Versions(n) : \A y \in Versions(n) : y <= x
      BY <1>1, <2>2, GreatestOf, DefinitionsAssumption
    <3>2. x \in 1 .. MaxVersion /\ x + 1 \in 1 .. MaxVersion + 1 /\ (x + 1) - 1 = x
      BY <1>1, DefinitionsAssumption
    <3>3. \A w \in Versions(n) : w < x + 1
      BY <1>1, <3>1, <3>2, DefinitionsAssumption
    <3> QED BY <3>2, <3>3
  <2> QED BY <2>1, <2>2
<1> QED BY <1>2 DEF NextVersion

LEMMA AddedTyped ==
    ASSUME rows \in Tables, NEW id \in Ids, id \notin Stored(rows), NEW n \in Names,
           NextVersion(n) <= MaxVersion
    PROVE  /\ Added(id, n) \in Tables
           /\ \A d \in Ids \ {id} : Added(id, n)[d] = rows[d]
           /\ id \in Stored(Added(id, n))
           /\ Added(id, n)[id].name = n /\ Added(id, n)[id].live = FALSE
<1>1. [name |-> n, version |-> NextVersion(n), live |-> FALSE] \in Definition
  BY NextVersionTyped, DefinitionsAssumption DEF Definition
<1>2. NoDefinition \notin Definition
  BY DEF NoDefinition, Definition
<1> QED BY <1>1, <1>2 DEF Added, Tables, Stored

\* set_definition_active moves the liveness of one name and nothing else.
LEMMA ActivatedOne ==
    ASSUME NEW t \in Tables, NEW id \in Stored(t)
    PROVE  /\ Activated(t, id) \in Tables
           /\ Stored(Activated(t, id)) = Stored(t)
           /\ \A d \in Stored(t) :
                /\ Activated(t, id)[d].name = t[d].name
                /\ t[d].name # t[id].name => Activated(t, id)[d] = t[d]
                /\ t[d].name = t[id].name => (Activated(t, id)[d].live <=> d = id)
<1>1. NoDefinition \notin Definition
  BY DEF NoDefinition, Definition
<1>2. \A d \in Stored(t), b \in BOOLEAN :
         /\ [t[d] EXCEPT !.live = b] \in Definition
         /\ [t[d] EXCEPT !.live = b].name = t[d].name /\ [t[d] EXCEPT !.live = b].live = b
  BY StoredTyped DEF Definition
<1>3. \A d \in Ids : d \notin Stored(t) => t[d] = NoDefinition
  BY DEF Stored
<1>4. \A d \in Ids : Activated(t, id)[d] =
         IF d \in Stored(t) /\ t[d].name = t[id].name THEN [t[d] EXCEPT !.live = (d = id)] ELSE t[d]
  BY DEF Activated
<1>5. DOMAIN Activated(t, id) = Ids
  BY DEF Activated
<1>6. ASSUME NEW d \in Ids
      PROVE  /\ Activated(t, id)[d] \in Definition \cup {NoDefinition}
             /\ Activated(t, id)[d] # NoDefinition <=> d \in Stored(t)
  <2>1. CASE d \in Stored(t)
    <3>1. (d = id) \in BOOLEAN /\ t[d] \in Definition
      BY <2>1, StoredTyped
    <3>2. Activated(t, id)[d] \in Definition
      BY <1>2, <1>4, <2>1, <3>1
    <3> QED BY <1>1, <2>1, <3>2
  <2>2. CASE d \notin Stored(t)
    BY <1>3, <1>4, <2>2
  <2> QED BY <2>1, <2>2
<1>7. Activated(t, id) \in Tables
  BY <1>5, <1>6 DEF Activated, Tables
<1>8. Stored(Activated(t, id)) = Stored(t)
  BY <1>6 DEF Stored
<1>9. \A d \in Stored(t) : d \in Ids
  BY DEF Stored
<1> QED BY <1>2, <1>4, <1>7, <1>8, <1>9

\* After activating each of S one of each of their names is live.
LEMMA ActivatedAll ==
    ASSUME NEW t \in Tables, NEW S \in SUBSET Stored(t), NEW r \in ActivatedEach(t, S)
    PROVE  /\ r \in Tables
           /\ Stored(r) = Stored(t)
           /\ \A d \in Stored(t) :
                /\ r[d].name = t[d].name
                /\ (\A e \in S : t[e].name # t[d].name) => r[d] = t[d]
           /\ \A d, e \in Stored(t) :
                r[d].live /\ r[e].live /\ t[d].name = t[e].name /\ (\E f \in S : t[f].name = t[d].name)
                => d = e
<1>1. PICK last \in SUBSET S :
         /\ \A e \in S : \E l \in last : {k \in last : t[k].name = t[e].name} = {l}
         /\ r = [d \in Ids |-> IF d \in Stored(t) /\ \E e \in S : t[e].name = t[d].name
                               THEN [t[d] EXCEPT !.live = (d \in last)] ELSE t[d]]
  BY DEF ActivatedEach
<1>2. NoDefinition \notin Definition
  BY DEF NoDefinition, Definition
<1>3. \A d \in Stored(t), b \in BOOLEAN :
         /\ [t[d] EXCEPT !.live = b] \in Definition
         /\ [t[d] EXCEPT !.live = b].name = t[d].name /\ [t[d] EXCEPT !.live = b].live = b
  BY StoredTyped DEF Definition
<1>4. \A d \in Ids : d \notin Stored(t) => t[d] = NoDefinition
  BY DEF Stored
<1>5. \A d \in Ids : r[d] =
         IF d \in Stored(t) /\ \E e \in S : t[e].name = t[d].name
         THEN [t[d] EXCEPT !.live = (d \in last)] ELSE t[d]
  BY <1>1
<1>6. ASSUME NEW d \in Ids
      PROVE  /\ r[d] \in Definition \cup {NoDefinition}
             /\ r[d] # NoDefinition <=> d \in Stored(t)
  <2>1. CASE d \in Stored(t)
    <3>1. (d \in last) \in BOOLEAN /\ t[d] \in Definition
      BY <2>1, StoredTyped
    <3>0. [t[d] EXCEPT !.live = (d \in last)] \in Definition
      BY <1>3, <2>1, <3>1
    <3>2. r[d] \in Definition
      BY <1>5, <3>0, <3>1
    <3> QED BY <1>2, <2>1, <3>2
  <2>2. CASE d \notin Stored(t)
    BY <1>4, <1>5, <2>2
  <2> QED BY <2>1, <2>2
<1>7. r \in Tables
  <2>1. r = [d \in Ids |-> r[d]]
    BY <1>1
  <2> QED BY <1>6, <2>1 DEF Tables
<1>8. Stored(r) = Stored(t)
  BY <1>6 DEF Stored
<1>9. \A d \in Stored(t) : d \in Ids
  BY DEF Stored
<1>10. ASSUME NEW d \in Stored(t), NEW e \in Stored(t), NEW f \in S, r[d].live, r[e].live,
              t[d].name = t[e].name, t[f].name = t[d].name
       PROVE  d = e
  <2>0. (d \in last) \in BOOLEAN /\ (e \in last) \in BOOLEAN
    OBVIOUS
  <2>1. r[d] = [t[d] EXCEPT !.live = (d \in last)] /\ r[e] = [t[e] EXCEPT !.live = (e \in last)]
    BY <1>5, <1>9, <1>10
  <2>2. d \in last /\ e \in last
    BY <1>3, <1>10, <2>0, <2>1
  <2>3. PICK l \in last : {k \in last : t[k].name = t[f].name} = {l}
    BY <1>1
  <2> QED BY <1>10, <2>2, <2>3
<1>11. ASSUME NEW d \in Stored(t)
       PROVE  /\ r[d].name = t[d].name
              /\ (\A e \in S : t[e].name # t[d].name) => r[d] = t[d]
  <2>1. (d \in last) \in BOOLEAN
    OBVIOUS
  <2>2. [t[d] EXCEPT !.live = (d \in last)].name = t[d].name
    BY <1>3, <2>1
  <2> QED BY <1>5, <1>9, <2>2
<1> QED BY <1>7, <1>8, <1>10, <1>11

(* The rows of a bundle that come in are new, and lie beside the old ones. *)
LEMMA InsertedTyped ==
    ASSUME DefinitionsTypeOK, NEW b \in backups, NEW S \in SUBSET NewRows(b)
    PROVE  /\ Inserted(b, S) \in Tables
           /\ Stored(Inserted(b, S)) = Stored(rows) \cup S
           /\ S \cap Stored(rows) = {}
           /\ S \subseteq Stored(b.rows) /\ b.rows \in Tables
           /\ \A d \in S : Inserted(b, S)[d] = b.rows[d]
           /\ \A d \in Stored(rows) : Inserted(b, S)[d] = rows[d]
<1>1. b.rows \in Tables /\ rows \in Tables
  BY DEF DefinitionsTypeOK, Bundle, Tables
<1>2. S \subseteq Stored(b.rows) /\ S \cap Stored(rows) = {} /\ S \subseteq Ids
  BY DEF NewRows, Stored
<1>3. \A d \in Ids : Inserted(b, S)[d] = IF d \in S THEN b.rows[d] ELSE rows[d]
  BY DEF Inserted
<1>4. Inserted(b, S) \in Tables
  BY <1>1 DEF Inserted, Tables
<1>5. Stored(Inserted(b, S)) = Stored(rows) \cup S
  BY <1>2, <1>3 DEF Stored
<1>6. \A d \in Stored(rows) : d \in Ids /\ d \notin S
  BY <1>2 DEF Stored
<1> QED BY <1>1, <1>2, <1>3, <1>4, <1>5, <1>6

LibraryInv == DefinitionsTypeOK /\ OneLiveVersion /\ LinksResolve

LEMMA LibraryStart == DefinitionsInit => LibraryInv
<1> SUFFICES ASSUME DefinitionsInit PROVE LibraryInv
  OBVIOUS
<1>1. rows \in [Ids -> Definition \cup {NoDefinition}] /\ Stored(rows) = {}
  BY DEF DefinitionsInit, Stored
<1>2. backups \subseteq Bundle
  BY DefinitionsAssumption DEF DefinitionsInit
<1> QED BY <1>1, <1>2 DEF DefinitionsInit, LibraryInv, DefinitionsTypeOK, OneLiveVersion, LinksResolve

LEMMA CreateKeeps ==
    ASSUME LibraryInv, NEW id \in Ids, NEW n \in Names, NEW activate \in BOOLEAN,
           CreateDefinition(id, n, activate)
    PROVE  LibraryInv'
<1>0. rows \in Tables /\ unsettled \subseteq Names
  BY DEF LibraryInv, DefinitionsTypeOK, Tables
<1>1. id \notin Stored(rows) /\ NextVersion(n) <= MaxVersion /\ UNCHANGED <<links, backups>>
  BY DEF CreateDefinition
<1> DEFINE t == Added(id, n)
<1>2. /\ t \in Tables /\ id \in Stored(t) /\ t[id].name = n /\ t[id].live = FALSE
      /\ \A d \in Ids \ {id} : t[d] = rows[d]
  BY <1>0, <1>1, AddedTyped
<1>3. Stored(t) = Stored(rows) \cup {id} /\ \A d \in Stored(rows) : d # id /\ t[d] = rows[d]
  <2> HIDE DEF t
  <2> QED BY <1>1, <1>2 DEF Stored
<1> HIDE DEF t
<1>4. /\ rows' \in Tables /\ Stored(rows') = Stored(t)
      /\ unsettled' \subseteq Names
      /\ \A d, e \in Stored(t) :
            rows'[d].live /\ rows'[e].live /\ rows'[d].name = rows'[e].name =>
               d = e \/ rows'[d].name \in unsettled'
  <2>1. CASE activate
    <3>1. rows' = Activated(t, id) /\ unsettled' = unsettled \ {n}
      BY <2>1 DEF CreateDefinition, t
    <3>2. /\ rows' \in Tables /\ Stored(rows') = Stored(t)
          /\ \A d \in Stored(t) :
                /\ rows'[d].name = t[d].name
                /\ t[d].name # n => rows'[d] = t[d]
                /\ t[d].name = n => (rows'[d].live <=> d = id)
      BY <1>2, <3>1, ActivatedOne
    <3>3. \A d \in Stored(t) : d # id => d \in Stored(rows) /\ t[d] = rows[d]
      BY <1>3
    <3>4. ASSUME NEW d \in Stored(t), NEW e \in Stored(t), rows'[d].live, rows'[e].live,
                 rows'[d].name = rows'[e].name, d # e
          PROVE  rows'[d].name \in unsettled'
      <4>1. t[d].name = t[e].name /\ rows'[d].name = t[d].name
        BY <3>2, <3>4
      <4>2. t[d].name # n
        BY <3>2, <3>4, <4>1
      <4>3. d # id /\ e # id
        BY <1>2, <4>1, <4>2
      <4>4. /\ d \in Stored(rows) /\ e \in Stored(rows)
            /\ rows'[d] = rows[d] /\ rows'[e] = rows[e]
        BY <3>2, <3>3, <4>1, <4>2, <4>3
      <4>5. rows[d].name \in unsettled
        BY <3>4, <4>4 DEF LibraryInv, OneLiveVersion
      <4> QED BY <3>1, <4>1, <4>2, <4>4, <4>5
    <3>5. unsettled' \subseteq Names
      BY <1>0, <3>1
    <3> QED BY <3>2, <3>4, <3>5
  <2>2. CASE ~activate
    <3>1. rows' = t /\ unsettled' = unsettled
      BY <2>2 DEF CreateDefinition, t
    <3> QED BY <1>0, <1>2, <1>3, <3>1 DEF LibraryInv, OneLiveVersion
  <2> QED BY <2>1, <2>2
<1>5. LinksResolve'
  BY <1>1, <1>3, <1>4 DEF LibraryInv, LinksResolve
<1> QED BY <1>1, <1>4, <1>5 DEF LibraryInv, DefinitionsTypeOK, Tables, OneLiveVersion

LEMMA ActivateKeeps ==
    ASSUME LibraryInv, NEW id \in Ids, Activate(id) PROVE LibraryInv'
<1>0. rows \in Tables /\ unsettled \subseteq Names
  BY DEF LibraryInv, DefinitionsTypeOK, Tables
<1>1. id \in Stored(rows) /\ rows' = Activated(rows, id) /\ unsettled' = unsettled \ {rows[id].name}
      /\ UNCHANGED <<links, backups>>
  BY DEF Activate
<1>2. /\ rows' \in Tables /\ Stored(rows') = Stored(rows)
      /\ \A d \in Stored(rows) :
            /\ rows'[d].name = rows[d].name
            /\ rows[d].name # rows[id].name => rows'[d] = rows[d]
            /\ rows[d].name = rows[id].name => (rows'[d].live <=> d = id)
  BY <1>0, <1>1, ActivatedOne
<1>3. ASSUME NEW d \in Stored(rows'), NEW e \in Stored(rows'), rows'[d].live, rows'[e].live,
             rows'[d].name = rows'[e].name, d # e
      PROVE  rows'[d].name \in unsettled'
  <2>1. /\ d \in Stored(rows) /\ e \in Stored(rows)
        /\ rows'[d].name = rows[d].name /\ rows'[e].name = rows[e].name
    BY <1>2, <1>3
  <2>2. rows[d].name # rows[id].name
    BY <1>2, <1>3, <2>1
  <2>3. rows[d].name \in unsettled
    BY <1>2, <1>3, <2>1, <2>2 DEF LibraryInv, OneLiveVersion
  <2> QED BY <1>1, <2>1, <2>2, <2>3
<1>4. LinksResolve'
  BY <1>1, <1>2 DEF LibraryInv, LinksResolve
<1> QED BY <1>0, <1>1, <1>2, <1>3, <1>4 DEF LibraryInv, DefinitionsTypeOK, Tables, OneLiveVersion

LEMMA DeleteKeeps ==
    ASSUME LibraryInv, NEW id \in Ids, DeleteDefinition(id) PROVE LibraryInv'
<1>0. rows \in Tables /\ links \subseteq Ids \X Ids
  BY DEF LibraryInv, DefinitionsTypeOK, Tables
<1>1. rows' = [rows EXCEPT ![id] = NoDefinition] /\ UNCHANGED <<backups, unsettled>>
      /\ links' = {l \in links : id \notin {l[1], l[2]}}
  BY DEF DeleteDefinition
<1>2. /\ rows' \in Tables /\ Stored(rows') = Stored(rows) \ {id}
      /\ \A d \in Stored(rows') : rows'[d] = rows[d]
  BY <1>0, <1>1 DEF Tables, Stored
<1>3. ASSUME NEW d \in Stored(rows'), NEW e \in Stored(rows'), rows'[d].live, rows'[e].live,
             rows'[d].name = rows'[e].name, d # e
      PROVE  rows'[d].name \in unsettled'
  <2>1. /\ d \in Stored(rows) /\ e \in Stored(rows)
        /\ rows'[d] = rows[d] /\ rows'[e] = rows[e]
    BY <1>2
  <2> QED BY <1>1, <1>3, <2>1 DEF LibraryInv, OneLiveVersion
<1>4. LinksResolve'
  BY <1>1, <1>2 DEF LibraryInv, LinksResolve
<1> QED BY <1>0, <1>1, <1>2, <1>3, <1>4 DEF LibraryInv, DefinitionsTypeOK, Tables, OneLiveVersion

LEMMA ExportKeeps == ASSUME LibraryInv, ExportBundle PROVE LibraryInv'
<1>1. [rows |-> rows, links |-> links] \in Bundle
  BY DEF LibraryInv, DefinitionsTypeOK, Bundle
<1>2. backups' \subseteq Bundle
  BY <1>1, DefinitionsAssumption DEF ExportBundle
<1> QED BY <1>2 DEF ExportBundle, LibraryInv, DefinitionsTypeOK, OneLiveVersion, LinksResolve, Stored

(* A finished import activates what it brings, a cut one leaves its names  *)
(* unsettled.                                                              *)
LEMMA ImportKeeps == ASSUME LibraryInv, NEW b \in backups, ImportBundle(b) PROVE LibraryInv'
<1> DEFINE new == NewRows(b)
           t == Inserted(b, new)
           S == {d \in new : t[d].live}
<1>1. /\ rows' \in ActivatedEach(t, S) /\ UNCHANGED backups
      /\ links' = links \cup {l \in b.links : {l[1], l[2]} \subseteq Stored(t)}
      /\ unsettled' = unsettled \ {t[d].name : d \in S}
  BY DEF ImportBundle
<1>2. /\ t \in Tables /\ Stored(t) = Stored(rows) \cup new
      /\ \A d \in Stored(rows) : t[d] = rows[d]
  BY InsertedTyped DEF LibraryInv
<1>3. S \in SUBSET Stored(t)
  BY <1>2
<1>s. \A d \in S : t[d].live /\ d \in new
  OBVIOUS
<1>n. \A d \in new \ S : ~t[d].live
  OBVIOUS
<1>l. b.links \subseteq Ids \X Ids /\ unsettled \subseteq Names /\ links \subseteq Ids \X Ids
  BY DEF LibraryInv, DefinitionsTypeOK, Bundle
<1> HIDE DEF S, t, new
<1>4. /\ rows' \in Tables /\ Stored(rows') = Stored(t)
      /\ \A d \in Stored(t) :
           /\ rows'[d].name = t[d].name
           /\ (\A e \in S : t[e].name # t[d].name) => rows'[d] = t[d]
      /\ \A d, e \in Stored(t) :
            rows'[d].live /\ rows'[e].live /\ t[d].name = t[e].name
            /\ (\E f \in S : t[f].name = t[d].name) => d = e
  BY <1>1, <1>2, <1>3, ActivatedAll
<1>5. ASSUME NEW d \in Stored(rows'), NEW e \in Stored(rows'), rows'[d].live, rows'[e].live,
             rows'[d].name = rows'[e].name, d # e
      PROVE  rows'[d].name \in unsettled'
  <2>1. t[d].name = t[e].name /\ rows'[d].name = t[d].name
    BY <1>4, <1>5
  <2>2. \A f \in S : t[f].name # t[d].name
    BY <1>4, <1>5, <2>1
  <2>3. t[d].live /\ t[e].live
    BY <1>4, <1>5, <2>1, <2>2
  <2>4. d \in Stored(rows) /\ e \in Stored(rows)
    BY <1>2, <1>4, <1>n, <2>1, <2>2, <2>3
  <2>5. t[d].name \in unsettled
    BY <1>2, <1>5, <2>1, <2>3, <2>4 DEF LibraryInv, OneLiveVersion
  <2> QED BY <1>1, <2>1, <2>2, <2>5
<1>6. LinksResolve'
  BY <1>1, <1>2, <1>4 DEF LibraryInv, LinksResolve
<1>7. links' \subseteq Ids \X Ids /\ unsettled' \subseteq Names
  BY <1>1, <1>l
<1> QED BY <1>1, <1>4, <1>5, <1>6, <1>7 DEF LibraryInv, DefinitionsTypeOK, Tables, OneLiveVersion

LEMMA CutKeeps == ASSUME LibraryInv, NEW b \in backups, ImportCut(b) PROVE LibraryInv'
<1>1. PICK S \in SUBSET NewRows(b) :
         /\ rows' = Inserted(b, S) /\ UNCHANGED <<links, backups>>
         /\ unsettled' = unsettled \cup {b.rows[d].name : d \in {e \in S : b.rows[e].live}}
  BY DEF ImportCut
<1>2. /\ rows' \in Tables /\ Stored(rows') = Stored(rows) \cup S
      /\ S \cap Stored(rows) = {} /\ S \subseteq Stored(b.rows) /\ b.rows \in Tables
      /\ \A d \in S : rows'[d] = b.rows[d]
      /\ \A d \in Stored(rows) : rows'[d] = rows[d]
  BY <1>1, InsertedTyped DEF LibraryInv
<1>3. unsettled' \subseteq Names
  <2>1. \A d \in S : b.rows[d].name \in Names
    BY <1>2, StoredTyped
  <2> QED BY <1>1, <2>1 DEF LibraryInv, DefinitionsTypeOK
<1>4. OneLiveVersion'
  BY <1>1, <1>2 DEF LibraryInv, OneLiveVersion
<1>5. LinksResolve'
  BY <1>1, <1>2 DEF LibraryInv, LinksResolve
<1> QED BY <1>1, <1>2, <1>3, <1>4, <1>5 DEF LibraryInv, DefinitionsTypeOK, Tables

LEMMA LibraryKept == LibraryInv /\ [DefinitionsNext]_definitionVars => LibraryInv'
<1> SUFFICES ASSUME LibraryInv, [DefinitionsNext]_definitionVars PROVE LibraryInv'
  OBVIOUS
<1>1. CASE UNCHANGED definitionVars
  BY <1>1 DEF definitionVars, LibraryInv, DefinitionsTypeOK, OneLiveVersion, LinksResolve, Stored
<1> QED BY <1>1, CreateKeeps, ActivateKeeps, DeleteKeeps, ExportKeeps, ImportKeeps, CutKeeps
       DEF DefinitionsNext

(* The library's tables and the bundles keep their types.                  *)
THEOREM DefinitionsTypeCorrect == DefinitionsSpec => []DefinitionsTypeOK
<1>1. LibraryInv => DefinitionsTypeOK
  BY DEF LibraryInv
<1> QED BY <1>1, LibraryStart, LibraryKept, PTL DEF DefinitionsSpec

(* OneLiveVersion: for any library and any bundles, whatever is created,   *)
(* activated, deleted, imported and cut, a name has two live versions only *)
(* while an import of it is half done ("exactly one is ever live").        *)
THEOREM OneVersionIsLive == DefinitionsSpec => []OneLiveVersion
<1>1. LibraryInv => OneLiveVersion
  BY DEF LibraryInv
<1> QED BY <1>1, LibraryStart, LibraryKept, PTL DEF DefinitionsSpec

(* LinksResolve: no import adds and no deletion leaves a link one end of   *)
(* which is not in the library ("so no dangling wiring survives").         *)
THEOREM LinksStayResolved == DefinitionsSpec => []LinksResolve
<1>1. LibraryInv => LinksResolve
  BY DEF LibraryInv
<1> QED BY <1>1, LibraryStart, LibraryKept, PTL DEF DefinitionsSpec

-----------------------------------------------------------------------------
(* The ledger of context frames.                                           *)

-----------------------------------------------------------------------------
(* The invariant.                                                          *)

Places == [time : 1 .. clock, id : 1 .. MaxEvents + points, kind : Kinds]

\* Times do not run ahead of the clock, and the cursor stands at an event that
\* no frame is after.
CursorStands ==
    /\ clock \in Nat \ {0} /\ points \in Nat
    /\ events \subseteq Places /\ framed \subseteq events
    /\ upTo \in Keys
    /\ upTo = Start \/ \E e \in events : Key(e) = upTo
    /\ \A f \in framed : ~Before(upTo, f)

PassesOver ==
    \A e \in events : e.kind \notin {"silent", "compaction"} =>
        \/ e \in framed \/ Later(e)
        \/ \E f \in events : f # e /\ f.time = e.time

Shown(f) == Visible(f) /\ f.kind # "compaction"

\* What a checkpoint that ends at `end' and covers these frames accounts for.
AccountsFor(end, covered) ==
    /\ end \in Keys /\ ~Before(upTo, end)
    /\ \A f \in framed : Shown(f) => f \in covered \/ Before(end, f)

LedgerInv ==
    /\ CursorStands /\ PassesOver
    /\ DOMAIN under = Compactors
    /\ AccountsFor(latest.end, latest.covered)
    /\ \A c \in Compactors : under[c].on =>
          /\ under[c].frames \subseteq framed
          /\ AccountsFor(CursorEnd(under[c].frames), under[c].covered \cup under[c].frames)

-----------------------------------------------------------------------------
(* The newest of several events.                                           *)

LEMMA BeforeOrder ==
    ASSUME NEW a, NEW b, NEW c, a.time \in Nat, b.time \in Nat, c.time \in Nat,
           a.id \in Nat, b.id \in Nat, c.id \in Nat
    PROVE  /\ ~Before(a, b) /\ Before(a, c) => Before(b, c)
           /\ ~Before(a, b) /\ ~Before(c, a) => ~Before(c, b)
           /\ ~Before(a, a)
           /\ Before(a, b) => ~Before(b, a)
BY DEF Before

LEMMA NewestIs ==
    ASSUME NEW t \in Nat, NEW n \in Nat, NEW S, S # {},
           \A e \in S : e.time \in 0 .. t /\ e.id \in 0 .. n
    PROVE  Newest(S) \in S /\ \A f \in S : ~Before(Newest(S), f)
<1>. DEFINE times == {i \in 0 .. t : \E e \in S : e.time = i}
<1>1. times \in SUBSET (0 .. t) /\ times # {}
    OBVIOUS
<1>2. PICK x \in times : \A y \in times : y <= x
  <2>. HIDE DEF times
  <2>. QED BY <1>1, GreatestOf
<1>. DEFINE ids == {i \in 0 .. n : \E e \in S : e.time = x /\ e.id = i}
<1>3. ids \in SUBSET (0 .. n) /\ ids # {}
    BY <1>2
<1>4. PICK z \in ids : \A y \in ids : y <= z
  <2>. HIDE DEF ids, times
  <2>. QED BY <1>3, GreatestOf
<1>5. PICK e \in S : e.time = x /\ e.id = z
    BY <1>4
<1>6. ASSUME NEW f \in S PROVE ~Before(e, f)
  <2>1. f.time <= x /\ (f.time = x => f.id <= z)
    BY <1>2, <1>4
  <2>. HIDE DEF ids, times
  <2>2. /\ x \in Nat /\ z \in Nat /\ f.time \in Nat /\ f.id \in Nat
    BY <1>5
  <2>. QED BY <1>5, <2>1, <2>2 DEF Before
<1>. HIDE DEF ids, times
<1>7. \E g \in S : \A f \in S : ~Before(g, f)
    BY <1>6
<1>. QED BY <1>7 DEF Newest

LEMMA KeyTyped ==
    ASSUME NEW e, e.time \in Nat, e.id \in Nat
    PROVE  Key(e) \in Keys /\ Key(e).time = e.time /\ Key(e).id = e.id
BY DEF Key, Keys

LEMMA EventsTyped ==
    ASSUME CursorStands
    PROVE  /\ MaxEvents + points \in Nat /\ clock \in Nat
           /\ upTo.time \in 0 .. clock /\ upTo.id \in 0 .. MaxEvents + points
           /\ \A e \in events :
                 /\ e.time \in 1 .. clock /\ e.id \in 1 .. MaxEvents + points /\ e.kind \in Kinds
                 /\ e.time \in 0 .. clock /\ e.id \in 0 .. MaxEvents + points
                 /\ e.time \in Nat /\ e.id \in Nat
<1>1. MaxEvents + points \in Nat /\ clock \in Nat
    BY LedgerAssumption DEF CursorStands
<1>. DEFINE n == MaxEvents + points
<1>. HIDE DEF n
<1>2. \A e \in events : e.time \in 1 .. clock /\ e.id \in 1 .. n /\ e.kind \in Kinds
    BY DEF CursorStands, Places, n
<1>3. n \in Nat
    BY <1>1 DEF n
<1>4. upTo.time \in 0 .. clock /\ upTo.id \in 0 .. n
    BY <1>1, <1>2, <1>3 DEF CursorStands, Start, Key
<1>. QED BY <1>1, <1>2, <1>3, <1>4 DEF n

\* The cursor of a compaction is Start or stands at one of its frames.
LEMMA CursorEndIs ==
    ASSUME CursorStands, NEW F \in SUBSET events
    PROVE  CursorEnd(F) = Start \/ \E f \in F : CursorEnd(F) = Key(f)
<1>. DEFINE real == {f \in F : f.kind # "compaction"}
<1>. SUFFICES ASSUME real # {} PROVE \E f \in F : CursorEnd(F) = Key(f)
    BY DEF CursorEnd
<1>1. CursorEnd(F) = Key(Newest(real))
    BY DEF CursorEnd
<1>2. \A e \in real : e.time \in 0 .. clock /\ e.id \in 0 .. MaxEvents + points
    BY EventsTyped
<1>3. clock \in Nat /\ MaxEvents + points \in Nat
    BY EventsTyped
<1>4. Newest(real) \in real
  <2>. HIDE DEF real
  <2>. QED BY <1>2, <1>3, NewestIs
<1>. QED BY <1>1, <1>4

LEMMA CursorEndTyped ==
    ASSUME CursorStands, NEW F \in SUBSET framed
    PROVE  CursorEnd(F) \in Keys /\ ~Before(upTo, CursorEnd(F))
<1>1. CASE CursorEnd(F) = Start
  <2>1. ~Before(upTo, Start) /\ Start \in Keys
    BY EventsTyped DEF Before, Start, Keys
  <2>. QED BY <1>1, <2>1
<1>2. ASSUME NEW f \in F, CursorEnd(F) = Key(f) PROVE CursorEnd(F) \in Keys /\ ~Before(upTo, CursorEnd(F))
  <2>1. f \in events /\ ~Before(upTo, f)
    BY DEF CursorStands
  <2>2. Key(f) \in Keys /\ Key(f).time = f.time /\ Key(f).id = f.id
    BY <2>1, EventsTyped, KeyTyped
  <2>. QED BY <1>2, <2>1, <2>2 DEF Before
<1>3. F \in SUBSET events
    BY DEF CursorStands
<1>. QED BY <1>1, <1>2, <1>3, CursorEndIs

CursorsEnd == \A F \in SUBSET framed : CursorEnd(F) \in Keys /\ ~Before(upTo, CursorEnd(F))

LEMMA CursorEndAll == CursorStands => CursorsEnd
BY CursorEndTyped DEF CursorsEnd

LEMMA CursorEndNext == CursorStands' => CursorsEnd'
BY CursorEndAll, PTL

-----------------------------------------------------------------------------
(* Restoring.                                                              *)

LEMMA AccountsStay ==
    ASSUME CursorStands, CursorStands', ~Before(upTo', upTo),
           \A f \in framed' : f \in framed \/ Before(upTo, f) \/ ~Shown(f),
           NEW end, NEW covered, AccountsFor(end, covered)
    PROVE  /\ ~Before(upTo', end)
           /\ \A f \in framed' : Shown(f) => f \in covered \/ Before(end, f)
<1>1. end.time \in Nat /\ end.id \in Nat /\ ~Before(upTo, end)
    BY DEF AccountsFor, Keys
<1>2. upTo.time \in Nat /\ upTo.id \in Nat /\ upTo'.time \in Nat /\ upTo'.id \in Nat
    BY DEF CursorStands, Keys
<1>3. ~Before(upTo', end)
    BY <1>1, <1>2, BeforeOrder
<1>4. ASSUME NEW f \in framed', Shown(f) PROVE f \in covered \/ Before(end, f)
  <2>1. CASE f \in framed
    BY <1>4, <2>1 DEF AccountsFor
  <2>2. CASE Before(upTo, f)
    <3>1. f.time \in Nat /\ f.id \in Nat
        BY DEF CursorStands, Places
    <3>2. Before(end, f)
        BY <1>1, <1>2, <2>2, <3>1, BeforeOrder
    <3>. QED BY <3>2
  <2>. QED BY <1>4, <2>1, <2>2
<1>. QED BY <1>3, <1>4

LEMMA MaterializedTyped ==
    ASSUME CursorStands
    PROVE  /\ framed \subseteq Materialized /\ Materialized \subseteq events
           /\ \A f \in Materialized : f \in framed \/ Before(upTo, f)
           /\ \A e \in events : e.kind # "silent" /\ Later(e) => e \in Materialized
BY DEF CursorStands, Materialized, Later

LEMMA MaterializeStands ==
    ASSUME CursorStands, Materialize, UNCHANGED <<clock, points, events>>
    PROVE  CursorStands' /\ ~Before(upTo', upTo)
<1>. DEFINE new == {e \in events : Later(e)}
<1>1. framed' = Materialized /\ upTo' = IF new # {} THEN Key(Newest(new)) ELSE upTo
    BY DEF Materialize
<1>2. upTo.time \in Nat /\ upTo.id \in Nat
    BY EventsTyped
<1>3. CASE new = {}
  <2>1. framed' = framed /\ upTo' = upTo
    BY <1>1, <1>3 DEF Materialized
  <2>2. ~Before(upTo, upTo)
    BY <1>2, BeforeOrder
  <2>. QED BY <2>1, <2>2 DEF CursorStands, Places, Keys, Start, Key, Before
<1>4. CASE new # {}
  <2>1. /\ clock \in Nat /\ MaxEvents + points \in Nat
        /\ \A e \in new : e.time \in 0 .. clock /\ e.id \in 0 .. MaxEvents + points
    BY EventsTyped
  <2>2. Newest(new) \in new /\ \A f \in new : ~Before(Newest(new), f)
    <3>. HIDE DEF new
    <3>. QED BY <1>4, <2>1, NewestIs
  <2>. DEFINE top == Newest(new)
  <2>3. top \in events /\ Before(upTo, top) /\ top.time \in Nat /\ top.id \in Nat
    BY <2>2, EventsTyped DEF Later
  <2>4. upTo' = Key(top) /\ Key(top) \in Keys /\ upTo'.time = top.time /\ upTo'.id = top.id
    BY <1>1, <1>4, <2>3, KeyTyped
  <2>5. \A f \in new : ~Before(top, f)
    BY <2>2
  <2>. HIDE DEF top
  <2>6. ~Before(upTo', upTo)
    BY <2>3, <2>4 DEF Before, Keys, CursorStands
  <2>7. ASSUME NEW f \in Materialized PROVE ~Before(upTo', f)
    <3>1. f \in events /\ f.time \in Nat /\ f.id \in Nat
        BY MaterializedTyped, EventsTyped
    <3>2. CASE f \in framed
      <4>1. ~Before(upTo, f)
        BY <3>2 DEF CursorStands
      <4>2. upTo.time \in Nat /\ upTo.id \in Nat /\ upTo'.time \in Nat /\ upTo'.id \in Nat
        BY <2>3, <2>4, <1>2
      <4>. QED BY <2>6, <3>1, <4>1, <4>2, BeforeOrder
    <3>3. CASE f \notin framed
      <4>1. f \in new
        BY <3>1, <3>3, MaterializedTyped DEF Later
      <4>. QED BY <2>4, <2>5, <4>1 DEF Before
    <3>. QED BY <3>2, <3>3
  <2>8. framed' \subseteq events' /\ events' \subseteq Places' /\ clock' \in Nat \ {0} /\ points' \in Nat
    BY <1>1, MaterializedTyped DEF CursorStands, Places
  <2>9. upTo' \in Keys /\ \E e \in events' : Key(e) = upTo'
    BY <2>3, <2>4
  <2>10. \A f \in framed' : ~Before(upTo', f)
    BY <1>1, <2>7
  <2>. QED BY <2>6, <2>8, <2>9, <2>10 DEF CursorStands, Key
<1>. QED BY <1>3, <1>4

LEMMA MaterializePasses ==
    ASSUME CursorStands, PassesOver, Materialized \subseteq framed', UNCHANGED events
    PROVE  PassesOver'
<1>. SUFFICES ASSUME NEW e \in events, e.kind \notin {"silent", "compaction"}, e \notin framed'
              PROVE  \E f \in events : f # e /\ f.time = e.time
    BY DEF PassesOver
<1>1. e \notin framed /\ ~Later(e)
    BY MaterializedTyped
<1>. QED BY <1>1 DEF PassesOver

LEMMA MaterializeAccounts ==
    ASSUME CursorStands, Materialize, UNCHANGED <<clock, points, events>>,
           NEW end, NEW covered, AccountsFor(end, covered)
    PROVE  /\ end \in Keys /\ ~Before(upTo', end)
           /\ \A f \in framed' : Shown(f) => f \in covered \/ Before(end, f)
<1>1. \A f \in framed' : f \in framed \/ Before(upTo, f) \/ ~Shown(f)
    BY MaterializedTyped DEF Materialize
<1>2. end \in Keys
    BY DEF AccountsFor
<1>. QED BY <1>1, <1>2, MaterializeStands, AccountsStay

-----------------------------------------------------------------------------
(* The steps.                                                              *)

LEMMA LedgerRestore ==
    ASSUME LedgerInv, Restore
    PROVE  LedgerInv'
<1>1. CursorStands /\ PassesOver /\ Materialize /\ UNCHANGED <<clock, events, latest, points, under>>
    BY DEF LedgerInv, Restore
<1>2. CursorStands'
    BY <1>1, MaterializeStands
<1>3. PassesOver'
    BY <1>1, MaterializePasses DEF Materialize
<1>4. AccountsFor(latest.end, latest.covered)'
    BY <1>1, MaterializeAccounts DEF LedgerInv, AccountsFor
<1>5. framed \subseteq framed'
    BY <1>1, MaterializedTyped DEF Materialize
<1>6. ASSUME NEW c \in Compactors, under'[c].on
      PROVE  /\ under'[c].frames \subseteq framed'
             /\ AccountsFor(CursorEnd(under[c].frames), under[c].covered \cup under[c].frames)'
  <2>. DEFINE end == CursorEnd(under[c].frames)  covered == under[c].covered \cup under[c].frames
  <2>1. under[c].frames \subseteq framed /\ AccountsFor(end, covered)
    BY <1>1, <1>6 DEF LedgerInv
  <2>2. CursorEnd(under'[c].frames) = end /\ under'[c].covered \cup under'[c].frames = covered
    BY <1>1
  <2>. HIDE DEF end, covered
  <2>3. end \in Keys /\ ~Before(upTo', end) /\ \A f \in framed' : Shown(f) => f \in covered \/ Before(end, f)
    BY <1>1, <2>1, MaterializeAccounts
  <2>. QED BY <1>1, <1>5, <2>1, <2>2, <2>3 DEF AccountsFor
<1>7. DOMAIN under' = Compactors
    BY <1>1 DEF LedgerInv
<1>. QED BY <1>2, <1>3, <1>4, <1>6, <1>7 DEF LedgerInv

LEMMA LedgerBegin ==
    ASSUME LedgerInv, NEW c \in Compactors, BeginCompact(c)
    PROVE  LedgerInv'
<1>. DEFINE frames == ActiveFrames(Materialized)
            run == [on |-> TRUE, frames |-> frames, history |-> latest.history,
                    covered |-> latest.covered, before |-> plan]
<1>1. /\ CursorStands /\ PassesOver /\ Materialize /\ UNCHANGED <<clock, events, latest, points>>
      /\ under' = [under EXCEPT ![c] = run] /\ DOMAIN under = Compactors /\ framed' = Materialized
    BY DEF LedgerInv, BeginCompact, Materialize
<1>2. CursorStands'
    BY <1>1, MaterializeStands
<1>3. PassesOver'
    BY <1>1, MaterializePasses DEF Materialize
<1>4. /\ latest.end \in Keys /\ ~Before(upTo', latest.end)
      /\ \A f \in framed' : Shown(f) => f \in latest.covered \/ Before(latest.end, f)
    BY <1>1, MaterializeAccounts DEF LedgerInv
<1>5. framed \subseteq framed'
    BY <1>1, MaterializedTyped
<1>6. frames \subseteq framed'
    BY <1>1 DEF ActiveFrames, AfterCursor
<1>7. \A f \in framed' : Shown(f) => f \in latest.covered \cup frames
    BY <1>1, <1>4 DEF ActiveFrames, AfterCursor, Shown
<1>8. /\ under'[c].frames = frames /\ under'[c].covered = latest.covered
      /\ \A d \in Compactors \ {c} : under'[d] = under[d]
      /\ DOMAIN under' = Compactors
    BY <1>1
<1>. HIDE DEF frames, run
<1>9. CursorEnd(frames) \in Keys /\ ~Before(upTo', CursorEnd(frames))
  <2>1. \A F \in SUBSET framed' : CursorEnd(F) \in Keys /\ ~Before(upTo', CursorEnd(F))
    BY <1>2, CursorEndNext DEF CursorsEnd
  <2>. QED BY <1>6, <2>1
<1>10. ASSUME NEW d \in Compactors, under'[d].on
       PROVE  /\ under'[d].frames \subseteq framed'
              /\ AccountsFor(CursorEnd(under[d].frames), under[d].covered \cup under[d].frames)'
  <2>1. CASE d = c
    BY <1>6, <1>7, <1>8, <1>9, <2>1 DEF AccountsFor
  <2>2. CASE d # c
    <3>. DEFINE end == CursorEnd(under[d].frames)  covered == under[d].covered \cup under[d].frames
    <3>1. under[d].frames \subseteq framed /\ AccountsFor(end, covered)
        BY <1>8, <1>10, <2>2 DEF LedgerInv
    <3>2. CursorEnd(under'[d].frames) = end /\ under'[d].covered \cup under'[d].frames = covered
        BY <1>8, <2>2
    <3>. HIDE DEF end, covered
    <3>3. end \in Keys /\ ~Before(upTo', end) /\ \A f \in framed' : Shown(f) => f \in covered \/ Before(end, f)
        BY <1>1, <3>1, MaterializeAccounts
    <3>4. under'[d].frames \subseteq framed'
        BY <1>5, <1>8, <2>2, <3>1
    <3>. QED BY <3>2, <3>3, <3>4 DEF AccountsFor
  <2>. QED BY <2>1, <2>2
<1>11. AccountsFor(latest.end, latest.covered)'
    BY <1>1, <1>4 DEF AccountsFor
<1>. QED BY <1>2, <1>3, <1>8, <1>10, <1>11 DEF LedgerInv

\* The checkpoint's event and the restore after it.
LEMMA InstallStands ==
    ASSUME LedgerInv, NEW c \in Compactors, Install(c)
    PROVE  CursorStands' /\ ~Before(upTo', upTo)
<1>. DEFINE run == under[c]  end == CursorEnd(run.frames)
            row == [time |-> IF end = Start THEN clock ELSE end.time,
                    id |-> MaxEvents + points + 1, kind |-> "compaction"]
            all == (events \cup {row}) \cup {upTo}
            top == Newest(all)
            m == MaxEvents + points'
<1>1. /\ CursorStands /\ run.on /\ points' = points + 1 /\ UNCHANGED clock
      /\ events' = events \cup {row}
      /\ framed' = Materialized \cup (IF Later(row) THEN {row} ELSE {})
      /\ upTo' = Key(top)
    BY DEF LedgerInv, Install
<1>2. run.frames \subseteq framed
    BY <1>1 DEF LedgerInv
<1>3. /\ m \in Nat /\ MaxEvents + points \in Nat /\ m = MaxEvents + points + 1 /\ clock \in Nat \ {0}
      /\ points' \in Nat
    BY <1>1, LedgerAssumption DEF CursorStands
<1>4. /\ upTo.time \in 0 .. clock /\ upTo.id \in 0 .. m /\ upTo.time \in Nat /\ upTo.id \in Nat
      /\ \A e \in events : e.time \in 1 .. clock /\ e.id \in 1 .. m /\ e.kind \in Kinds
    BY <1>1, <1>3, EventsTyped
<1>. HIDE DEF m
<1>5. end = Start \/ end.time \in 1 .. clock
  <2>1. run.frames \in SUBSET events
    BY <1>1, <1>2 DEF CursorStands
  <2>2. end = Start \/ \E f \in run.frames : end = Key(f)
    BY <1>1, <2>1, CursorEndIs
  <2>3. \A f \in events : Key(f).time \in 1 .. clock
    BY <1>4 DEF Key
  <2>. QED BY <2>1, <2>2, <2>3
<1>. HIDE DEF end, run
<1>6. row.time \in 1 .. clock /\ row.id = m /\ row.id \in 1 .. m /\ row.kind \in Kinds
    BY <1>3, <1>5 DEF Kinds, FrameKinds
<1>7. \A e \in events \cup {row} : e.time \in 1 .. clock /\ e.id \in 1 .. m /\ e.kind \in Kinds
    BY <1>4, <1>6
<1>8. row \in [time : 1 .. clock, id : 1 .. m, kind : Kinds]
    BY <1>6
<1>9. events' \subseteq Places'
  <2>1. events \subseteq [time : 1 .. clock, id : 1 .. m, kind : Kinds]
    BY <1>1, <1>3 DEF CursorStands, Places
  <2>. QED BY <1>1, <1>8, <2>1 DEF Places, m
<1>. HIDE DEF row
<1>10. \A e \in all : e.time \in 0 .. clock /\ e.id \in 0 .. m
    BY <1>4, <1>7
<1>11. top \in all /\ \A f \in all : ~Before(top, f)
  <2>1. all # {} /\ clock \in Nat
    BY <1>3
  <2>. HIDE DEF all
  <2>. QED BY <1>3, <1>10, <2>1, NewestIs
<1>12. top.time \in Nat /\ top.id \in Nat
    BY <1>3, <1>10, <1>11
<1>13. top \in events \cup {row} \/ top = upTo
    BY <1>11
<1>14. \A f \in events \cup {row} : ~Before(top, f)
    BY <1>11
<1>15. ~Before(top, upTo)
    BY <1>11
<1>. HIDE DEF top, all
<1>16. upTo' \in Keys /\ upTo'.time = top.time /\ upTo'.id = top.id
    BY <1>1, <1>12, KeyTyped
<1>17. ~Before(upTo', upTo) /\ \A f \in events' : ~Before(upTo', f)
    BY <1>1, <1>14, <1>15, <1>16 DEF Before
<1>18. upTo' = Start \/ \E e \in events' : Key(e) = upTo'
  <2>1. CASE top \in events \cup {row}
    BY <1>1, <2>1
  <2>2. CASE top = upTo
    <3>1. upTo' = upTo
        BY <1>1, <2>2 DEF CursorStands, Keys, Key
    <3>. QED BY <1>1, <3>1 DEF CursorStands
  <2>. QED BY <1>13, <2>1, <2>2
<1>19. framed' \subseteq events'
    BY <1>1, MaterializedTyped
<1>20. clock' \in Nat \ {0}
    BY <1>1, <1>3
<1>. QED BY <1>3, <1>9, <1>16, <1>17, <1>18, <1>19, <1>20 DEF CursorStands, Key

LEMMA LedgerInstall ==
    ASSUME LedgerInv, NEW c \in Compactors, Install(c)
    PROVE  LedgerInv'
<1>. DEFINE run == under[c]  end == CursorEnd(run.frames)
            row == [time |-> IF end = Start THEN clock ELSE end.time,
                    id |-> MaxEvents + points + 1, kind |-> "compaction"]
<1>1. /\ CursorStands /\ PassesOver /\ run.on
      /\ events' = events \cup {row} /\ row.kind = "compaction"
      /\ Materialized \subseteq framed' /\ framed' \subseteq Materialized \cup {row}
      /\ latest'.end = end /\ latest'.covered = run.covered \cup run.frames
      /\ under' = [under EXCEPT ![c] = NoRun] /\ DOMAIN under = Compactors
    BY DEF LedgerInv, Install
<1>2. AccountsFor(end, run.covered \cup run.frames)
    BY <1>1 DEF LedgerInv
<1>. HIDE DEF row, end, run
<1>3. CursorStands' /\ ~Before(upTo', upTo)
    BY InstallStands
<1>4. \A f \in framed' : f \in framed \/ Before(upTo, f) \/ ~Shown(f)
    BY <1>1, MaterializedTyped DEF Shown
<1>5. PassesOver'
  <2>. SUFFICES ASSUME NEW e \in events', e.kind \notin {"silent", "compaction"}, e \notin framed'
                PROVE  \E f \in events' : f # e /\ f.time = e.time
    BY DEF PassesOver
  <2>1. e \in events /\ e \notin framed /\ ~Later(e)
    BY <1>1, MaterializedTyped
  <2>2. \E f \in events : f # e /\ f.time = e.time
    BY <1>1, <2>1 DEF PassesOver
  <2>. QED BY <1>1, <2>2
<1>6. AccountsFor(latest.end, latest.covered)'
  <2>1. end \in Keys
    BY <1>2 DEF AccountsFor
  <2>2. /\ ~Before(upTo', end)
        /\ \A f \in framed' : Shown(f) => f \in run.covered \cup run.frames \/ Before(end, f)
    BY <1>1, <1>2, <1>3, <1>4, AccountsStay
  <2>. QED BY <1>1, <2>1, <2>2 DEF AccountsFor
<1>7. /\ under'[c] = NoRun /\ NoRun.on = FALSE /\ DOMAIN under' = Compactors
      /\ \A d \in Compactors \ {c} : under'[d] = under[d]
    BY <1>1 DEF NoRun
<1>8. ASSUME NEW d \in Compactors, under'[d].on
      PROVE  /\ under'[d].frames \subseteq framed'
             /\ AccountsFor(CursorEnd(under[d].frames), under[d].covered \cup under[d].frames)'
  <2>. DEFINE to == CursorEnd(under[d].frames)  covered == under[d].covered \cup under[d].frames
  <2>1. d # c
    BY <1>7, <1>8
  <2>2. under[d].frames \subseteq framed /\ AccountsFor(to, covered)
    BY <1>7, <1>8, <2>1 DEF LedgerInv
  <2>3. CursorEnd(under'[d].frames) = to /\ under'[d].covered \cup under'[d].frames = covered
    BY <1>7, <2>1
  <2>4. under'[d].frames \subseteq framed'
    BY <1>1, <1>7, <2>1, <2>2, MaterializedTyped
  <2>. HIDE DEF to, covered
  <2>5. to \in Keys
    BY <2>2 DEF AccountsFor
  <2>6. ~Before(upTo', to) /\ \A f \in framed' : Shown(f) => f \in covered \/ Before(to, f)
    BY <1>1, <1>3, <1>4, <2>2, AccountsStay
  <2>. QED BY <2>3, <2>4, <2>5, <2>6 DEF AccountsFor
<1>. QED BY <1>3, <1>5, <1>6, <1>7, <1>8 DEF LedgerInv

\* A new event has the clock's time: the cursor is before it, or stands at
\* another one of that time.
LEMMA EmitKeeps ==
    ASSUME CursorStands, PassesOver, NEW kind \in Kinds, Emit(kind),
           UNCHANGED <<clock, framed, upTo, points>>
    PROVE  CursorStands' /\ PassesOver'
<1>1. PICK i \in FreeIds : events' = events \cup {[time |-> clock, id |-> i, kind |-> kind]}
    BY DEF Emit
<1>. DEFINE new == [time |-> clock, id |-> i, kind |-> kind]
<1>2. /\ clock \in Nat \ {0} /\ points \in Nat /\ MaxEvents \in Nat
      /\ i \in 1 .. MaxEvents /\ \A e \in events : e.id # i
    BY LedgerAssumption DEF CursorStands, FreeIds
<1>3. new \in Places /\ new.time = clock /\ new.id = i /\ new.id \in Nat
  <2>1. i \in 1 .. MaxEvents + points /\ clock \in 1 .. clock
    BY <1>2
  <2>. QED BY <1>2, <2>1 DEF Places
<1>. HIDE DEF new
<1>4. events' = events \cup {new}
    BY <1>1 DEF new
<1>5. CursorStands'
    BY <1>3, <1>4 DEF CursorStands, Places, Before, Start, Key
<1>6. Later(new) \/ \E f \in events : f # new /\ f.time = new.time
  <2>1. CASE upTo.time < clock
    BY <1>3, <2>1 DEF Later, Before
  <2>2. CASE ~(upTo.time < clock)
    <3>1. upTo.time = clock
        BY <2>2, EventsTyped
    <3>2. upTo # Start
        BY <1>2, <3>1 DEF Start
    <3>3. PICK f \in events : Key(f) = upTo
        BY <3>2 DEF CursorStands
    <3>4. f.time = clock /\ f.id # new.id
        BY <1>2, <1>3, <3>1, <3>3 DEF Key
    <3>. QED BY <1>3, <3>4
  <2>. QED BY <2>1, <2>2
<1>7. PassesOver'
  <2>. SUFFICES ASSUME NEW e \in events', e.kind \notin {"silent", "compaction"}
                PROVE  \/ e \in framed \/ Later(e)
                       \/ \E f \in events' : f # e /\ f.time = e.time
    BY DEF PassesOver, Later
  <2>1. CASE e \in events
    BY <1>4, <2>1 DEF PassesOver
  <2>2. CASE e = new
    BY <1>4, <1>6, <2>2
  <2>. QED BY <1>4, <2>1, <2>2
<1>. QED BY <1>5, <1>7

LEMMA LedgerInvNext == LedgerInv /\ [LedgerNext]_ledgerVars => LedgerInv'
<1>. SUFFICES ASSUME LedgerInv, [LedgerNext]_ledgerVars PROVE LedgerInv'
    OBVIOUS
<1>1. ASSUME NEW kind \in Kinds, Emit(kind), UNCHANGED <<clock, framed, upTo, latest, points>>,
             \/ UNCHANGED under
             \/ \E c \in Compactors : under' = [under EXCEPT ![c] = NoRun]
      PROVE  LedgerInv'
  <2>1. CursorStands' /\ PassesOver'
    BY <1>1, EmitKeeps DEF LedgerInv
  <2>2. DOMAIN under' = Compactors /\ \A d \in Compactors : under'[d].on => under'[d] = under[d]
    BY <1>1 DEF LedgerInv, NoRun
  <2>3. AccountsFor(latest.end, latest.covered)'
    BY <1>1 DEF LedgerInv, AccountsFor
  <2>4. ASSUME NEW d \in Compactors, under'[d].on
        PROVE  /\ under'[d].frames \subseteq framed'
               /\ AccountsFor(CursorEnd(under[d].frames), under[d].covered \cup under[d].frames)'
    BY <1>1, <2>2, <2>4 DEF LedgerInv, AccountsFor
  <2>. QED BY <2>1, <2>2, <2>3, <2>4 DEF LedgerInv
<1>2. ASSUME NEW kind \in {"anchor", "plain", "noise", "silent"}, Record(kind) PROVE LedgerInv'
    BY <1>1, <1>2 DEF Record, Kinds, FrameKinds
<1>3. ASSUME NEW c \in Compactors, FailCompact(c) PROVE LedgerInv'
    BY <1>1, <1>3 DEF FailCompact, Kinds, FrameKinds
<1>4. CASE ClockTicks
  <2>1. clock' = clock + 1 /\ UNCHANGED <<events, framed, upTo, latest, points, under>>
    BY <1>4 DEF ClockTicks
  <2>2. events' \subseteq Places'
    BY <2>1 DEF LedgerInv, CursorStands, Places
  <2>3. CursorStands'
    BY <2>1, <2>2 DEF LedgerInv, CursorStands, Key
  <2>. QED BY <2>1, <2>3 DEF LedgerInv, PassesOver, Later, AccountsFor, CursorEnd
<1>5. CASE Restore
    BY <1>5, LedgerRestore
<1>6. CASE Dies
  <2>1. under' = [c \in Compactors |-> NoRun] /\ UNCHANGED <<clock, events, framed, upTo, latest, points>>
    BY <1>6 DEF Dies
  <2>2. CursorStands' /\ PassesOver'
    BY <2>1 DEF LedgerInv, CursorStands, PassesOver, Later, Places
  <2>3. DOMAIN under' = Compactors /\ \A c \in Compactors : ~under'[c].on
    BY <2>1 DEF NoRun
  <2>4. AccountsFor(latest.end, latest.covered)'
    BY <2>1 DEF LedgerInv, AccountsFor
  <2>. QED BY <2>2, <2>3, <2>4 DEF LedgerInv
<1>7. ASSUME NEW c \in Compactors, BeginCompact(c) PROVE LedgerInv'
    BY <1>7, LedgerBegin
<1>8. ASSUME NEW c \in Compactors, Install(c) PROVE LedgerInv'
    BY <1>8, LedgerInstall
<1>9. CASE UNCHANGED ledgerVars
    BY <1>9 DEF ledgerVars, LedgerInv, CursorStands, PassesOver, Later, Places, AccountsFor, CursorEnd
<1>. QED BY <1>2, <1>3, <1>4, <1>5, <1>6, <1>7, <1>8, <1>9 DEF LedgerNext

LEMMA LedgerInvInit == LedgerInit => LedgerInv
<1>. SUFFICES ASSUME LedgerInit PROVE LedgerInv
    OBVIOUS
<1>1. CursorStands
    BY DEF LedgerInit, CursorStands, Start, Keys
<1>2. PassesOver /\ DOMAIN under = Compactors /\ \A c \in Compactors : ~under[c].on
    BY DEF LedgerInit, PassesOver, NoRun
<1>3. AccountsFor(latest.end, latest.covered)
    BY DEF LedgerInit, AccountsFor, NoPoint, Start, Keys, Before
<1>. QED BY <1>1, <1>2, <1>3 DEF LedgerInv

LEMMA InvAccounts == LedgerInv => FramesAccounted
<1>. SUFFICES ASSUME LedgerInv PROVE FramesAccounted
    OBVIOUS
<1>1. ASSUME NEW f \in framed, Shown(f)
      PROVE  f \in ActiveFrames(framed) \cup latest.covered
    BY <1>1 DEF LedgerInv, AccountsFor, ActiveFrames, AfterCursor, Shown
<1>. QED BY <1>1 DEF LedgerInv, PassesOver, FramesAccounted, Shown

\* However many compactions are under way at once, and whatever is recorded and
\* restored meanwhile: no event is passed over on its way into a frame unless
\* another has its time, and every frame the model should see is shown or went
\* into the checkpoint.
THEOREM FramesAreAccounted == LedgerSpec => []FramesAccounted
<1>1. LedgerSpec => []LedgerInv
    BY LedgerInvInit, LedgerInvNext, PTL DEF LedgerSpec
<1>. QED BY <1>1, InvAccounts, PTL

-----------------------------------------------------------------------------
(* Packs.                                                                  *)

-----------------------------------------------------------------------------
(* Items and lists.                                                        *)

Entries == Items \cup {Earlier, Marker}

Known == ToSet(Protected) \cup ToSet(Evicted)

LEMMA ItemsTyped ==
    /\ Items \subseteq Nat \ {0} /\ Earlier \notin Items /\ Marker \notin Items /\ Earlier # Marker
    /\ \A i \in Items : /\ Item[i].section \in Known
                        /\ Item[i].importance \in 0 .. 100
    /\ \E n \in Nat : Items = 1 .. n
<1>1. PICK n \in Nat : Items = 1 .. n /\ \A i \in Items : Item[i] \in PackItem
    BY ContextPacksAssumption DEF Items
<1>. QED BY <1>1 DEF PackItem, Known, Earlier, Marker

LEMMA Numbers == \A i \in Items : i \in Nat /\ Item[i].importance \in Nat
<1>1. \A i \in Items : i \in Nat /\ Item[i].importance \in 0 .. 100
    BY ItemsTyped
<1>. QED BY <1>1

LEMMA Sections ==
    /\ ToSet(Protected) \cap ToSet(Evicted) = {}
    /\ \A n \in DOMAIN Evicted : Evicted[n] \in ToSet(Evicted)
    /\ DOMAIN Evicted \in SUBSET Nat
BY DEF ToSet, Protected, Evicted

LEMMA TopIsProtected ==
    ASSUME NEW s
    PROVE  TopOf(s) \subseteq s /\ \A i \in TopOf(s) : Item[i].section \in ToSet(Protected)
BY DEF TopOf, Top, Of

LEMMA ToSetOf ==
    /\ \A t : \A l \in Seq(t), x \in t : ToSet(Append(l, x)) = ToSet(l) \cup {x}
    /\ \A t : \A l \in Seq(t) : l # <<>> => ToSet(Tail(l)) \subseteq ToSet(l)
    /\ \A t : \A l \in Seq(t) : ToSet(l) \subseteq t
<1>1. \A t : \A l \in Seq(t), x \in t : ToSet(Append(l, x)) = ToSet(l) \cup {x}
  <2>. SUFFICES ASSUME NEW t, NEW l \in Seq(t), NEW x \in t
                PROVE  ToSet(Append(l, x)) = ToSet(l) \cup {x}
    OBVIOUS
  <2>1. /\ DOMAIN Append(l, x) = DOMAIN l \cup {Len(l) + 1}
        /\ \A i \in DOMAIN l : Append(l, x)[i] = l[i] /\ i # Len(l) + 1
        /\ Append(l, x)[Len(l) + 1] = x
    OBVIOUS
  <2>. QED BY <2>1 DEF ToSet
<1>2. \A t : \A l \in Seq(t) : l # <<>> => ToSet(Tail(l)) \subseteq ToSet(l)
  <2>. SUFFICES ASSUME NEW t, NEW l \in Seq(t), l # <<>>
                PROVE  ToSet(Tail(l)) \subseteq ToSet(l)
    OBVIOUS
  <2>1. \A i \in DOMAIN Tail(l) : Tail(l)[i] = l[i + 1] /\ i + 1 \in DOMAIN l
    OBVIOUS
  <2>. QED BY <2>1 DEF ToSet
<1>3. \A t : \A l \in Seq(t) : ToSet(l) \subseteq t
    BY DEF ToSet
<1>. QED BY <1>1, <1>2, <1>3

\* What is evicted comes before all others of its section.
Comes(i, j) ==
    IF Item[i].section \in ByAge THEN i <= j
    ELSE \/ Item[i].importance < Item[j].importance
         \/ Item[i].importance = Item[j].importance /\ i <= j

LEMMA VictimIs ==
    ASSUME NEW n, NEW s \in SUBSET Items, NEW k, s = Of(n, k), s # {}
    PROVE  Victim(s) \in s /\ \A j \in s : Comes(Victim(s), j)
<1>1. \A i \in s : Item[i].section = n
    BY DEF Of
<1>2. s \in SUBSET Nat /\ \A i \in s : Item[i].importance \in Nat
    BY Numbers
<1>3. \E i \in s : \A j \in s : Comes(i, j)
  <2>1. CASE n \in ByAge
    <3>1. PICK i \in s : \A j \in s : i <= j
        BY <1>2, LeastOf
    <3>. QED BY <1>1, <2>1, <3>1 DEF Comes
  <2>2. CASE n \notin ByAge
    <3>. DEFINE values == {v \in Nat : \E i \in s : Item[i].importance = v}
    <3>1. values \in SUBSET Nat /\ values # {}
        BY <1>2
    <3>2. PICK v \in values : \A w \in values : v <= w
        <4>. HIDE DEF values
        <4>. QED BY <3>1, LeastOf
    <3>. DEFINE low == {i \in s : Item[i].importance = v}
    <3>3. low \in SUBSET Nat /\ low # {}
        BY <1>2, <3>2
    <3>4. PICK i \in low : \A j \in low : i <= j
        <4>. HIDE DEF low, values
        <4>. QED BY <3>3, LeastOf
    <3>5. ASSUME NEW j \in s PROVE Comes(i, j)
        <4>1. v <= Item[j].importance /\ Item[i].importance = v /\ v \in Nat
            BY <1>2, <3>2, <3>4
        <4>2. Item[j].importance = v => i <= j
            BY <3>4
        <4>3. i \in s /\ Item[i].section \notin ByAge /\ Item[j].importance \in Nat
            BY <1>1, <1>2, <2>2, <3>4
        <4>. HIDE DEF low, values
        <4>. QED BY <4>1, <4>2, <4>3 DEF Comes
    <3>. QED BY <3>4, <3>5
  <2>. QED BY <2>1, <2>2
<1>4. \A i, j \in s : Comes(i, j) <=>
         \/ Item[i].section \in ByAge /\ i <= j
         \/ Item[i].section \notin ByAge /\ Item[i].importance < Item[j].importance
         \/ Item[i].section \notin ByAge /\ Item[i].importance = Item[j].importance /\ i <= j
    BY DEF Comes
<1>. DEFINE least(i) == \A j \in s :
        \/ Item[i].section \in ByAge /\ i <= j
        \/ Item[i].section \notin ByAge /\ Item[i].importance < Item[j].importance
        \/ Item[i].section \notin ByAge /\ Item[i].importance = Item[j].importance /\ i <= j
<1>5. \E i \in s : least(i)
    BY <1>3, <1>4
<1>6. Victim(s) = CHOOSE i \in s : least(i)
    BY DEF Victim
<1>. HIDE DEF least
<1>7. Victim(s) \in s /\ least(Victim(s))
    BY <1>5, <1>6
<1>. QED BY <1>4, <1>7 DEF least

-----------------------------------------------------------------------------
(* The invariant.                                                          *)

PackTypeOK ==
    /\ step \in {"idle", "whole", "evict", "trim", "done"}
    /\ reply \subseteq Items /\ kept \subseteq reply
    /\ list \in Seq(Entries)
    /\ stored \in {"nothing", "pack", "text"}

\* What is gone came before what stays of its section.
LeastGoFirst ==
    \A i \in reply \ kept, j \in kept : Item[i].section = Item[j].section => Comes(i, j)

PackInv ==
    /\ PackTypeOK
    /\ TopOf(reply) \subseteq kept
    /\ kept \cap Told = {}
    /\ step # "done" => Marker \notin ToSet(list)
    /\ step \in {"whole", "evict"} => kept \cup Told = reply
    /\ kept \cup Told = reply \/ Marker \in ToSet(list) \/ Len(list) >= ListKept
    /\ Marker \in ToSet(list) \/ LeastGoFirst

LEMMA PackInitInv == PackInit => PackInv
<1>. SUFFICES ASSUME PackInit PROVE PackInv
    OBVIOUS
<1>1. list \in Seq(Entries) /\ ToSet(list) = {}
    BY DEF PackInit, ToSet
<1>2. TopOf(reply) \subseteq kept
    BY TopIsProtected DEF PackInit
<1>. QED BY <1>1, <1>2 DEF PackInit, PackInv, PackTypeOK, Told, LeastGoFirst

LEMMA PackCompact ==
    ASSUME PackInv, NEW s \in SUBSET Items, NEW prior \in Nat, NEW a, NEW b, NEW c, Compact(s, prior, a, b, c)
    PROVE  PackInv'
<1>1. reply' = s /\ kept' = s /\ list' = [n \in 1 .. prior |-> Earlier] /\ step' = "whole" /\ stored' = stored
    BY DEF Compact
<1>2. list' \in Seq(Entries)
  <2>1. list' \in [1 .. prior -> Entries]
    BY <1>1 DEF Entries
  <2>. QED BY <2>1, SeqDef
<1>3. ToSet(list') \subseteq {Earlier}
    BY <1>1 DEF ToSet
<1>4. Told' = {} /\ Marker \notin ToSet(list')
    BY <1>3, ItemsTyped DEF Told
<1>5. TopOf(reply') \subseteq kept'
    BY <1>1, TopIsProtected
<1>6. LeastGoFirst'
    BY <1>1 DEF LeastGoFirst
<1>. QED BY <1>1, <1>2, <1>4, <1>5, <1>6 DEF PackInv, PackTypeOK

LEMMA PackEvict == ASSUME PackInv, Evict PROVE PackInv'
<1>. DEFINE first == CHOOSE n \in ToEvict : \A k \in ToEvict : n <= k
            section == Evicted[first]
            some == Of(section, kept)
            gone == Victim(some)
<1>1. /\ step = "evict" /\ ToEvict # {}
      /\ kept' = kept \ {gone} /\ list' = Append(list, gone)
      /\ UNCHANGED <<step, room, reply, stored>>
    BY DEF Evict
<1>2. first \in ToEvict
  <2>1. ToEvict \in SUBSET Nat
    BY Sections DEF ToEvict
  <2>2. PICK n \in ToEvict : \A k \in ToEvict : n <= k
    BY <1>1, <2>1, LeastOf
  <2>. QED BY <2>2
<1>3. some # {} /\ section \in ToSet(Evicted)
    BY <1>2, Sections DEF ToEvict
<1>. HIDE DEF first
<1>4. some \in SUBSET kept /\ some \in SUBSET Items /\ \A j \in kept : Item[j].section = section => j \in some
    BY DEF Of, PackInv, PackTypeOK
<1>5. \A i \in some : Item[i].section = section
    BY DEF Of
<1>6. gone \in some /\ \A j \in some : Comes(gone, j)
    BY <1>3, <1>4, VictimIs
<1>. HIDE DEF section, some, gone
<1>7. gone \in kept /\ gone \in Items /\ Item[gone].section = section
    BY <1>4, <1>5, <1>6
<1>8. list \in Seq(Entries) /\ gone \in Entries
    BY <1>7 DEF PackInv, PackTypeOK, Entries
<1>9. ToSet(list') = ToSet(list) \cup {gone} /\ list' \in Seq(Entries)
    BY <1>1, <1>8, ToSetOf
<1>10. Told' = Told \cup {gone}
    BY <1>7, <1>9, ItemsTyped DEF Told
<1>11. Marker \notin ToSet(list) /\ Marker \notin ToSet(list')
    BY <1>1, <1>7, <1>9, ItemsTyped DEF PackInv
<1>12. TopOf(reply') \subseteq kept'
  <2>1. gone \notin TopOf(reply)
    BY <1>3, <1>7, Sections, TopIsProtected
  <2>. QED BY <1>1, <2>1 DEF PackInv
<1>13. LeastGoFirst'
  <2>. SUFFICES ASSUME NEW i \in reply \ kept', NEW j \in kept', Item[i].section = Item[j].section
                PROVE  Comes(i, j)
    BY <1>1 DEF LeastGoFirst
  <2>1. CASE i = gone
    BY <1>1, <1>4, <1>6, <1>7, <2>1
  <2>2. CASE i # gone
    BY <1>1, <1>11, <2>2 DEF PackInv, LeastGoFirst
  <2>. QED BY <2>1, <2>2
<1>14. kept' \cap Told' = {} /\ kept' \cup Told' = reply'
    BY <1>1, <1>7, <1>10 DEF PackInv
<1>. QED BY <1>1, <1>9, <1>11, <1>12, <1>13, <1>14 DEF PackInv, PackTypeOK

\* The core is among what is kept already.
LEMMA PackEndEvict == ASSUME PackInv, EndEvict PROVE PackInv'
<1>1. /\ kept' = kept /\ step = "evict" /\ step' \in {"done", "trim"} /\ UNCHANGED <<reply, list, stored>>
    BY DEF EndEvict, PackInv
<1>. QED BY <1>1 DEF PackInv, PackTypeOK, Told, LeastGoFirst

LEMMA PackTrim == ASSUME PackInv, Trim PROVE PackInv'
<1>1. /\ step = "trim" /\ Len(list) > ListKept /\ list' = Tail(list)
      /\ UNCHANGED <<step, room, reply, kept, stored>>
    BY DEF Trim
<1>2. list \in Seq(Entries) /\ ListKept \in Nat
    BY ContextPacksAssumption DEF PackInv, PackTypeOK
<1>3. list # <<>>
    BY <1>1, <1>2
<1>4. /\ list' \in Seq(Entries) /\ Len(list') = Len(list) - 1
      /\ ToSet(list') \subseteq ToSet(list)
    BY <1>1, <1>2, <1>3, ToSetOf
<1>5. Len(list') >= ListKept
    BY <1>1, <1>2, <1>4
<1>6. Marker \notin ToSet(list) /\ Told' \subseteq Told
    BY <1>1, <1>4 DEF PackInv, Told
<1>. QED BY <1>1, <1>4, <1>5, <1>6 DEF PackInv, PackTypeOK, LeastGoFirst

LEMMA PackEndTrim == ASSUME PackInv, EndTrim PROVE PackInv'
<1>1. step = "trim" /\ step' = "done" /\ UNCHANGED <<room, reply, stored>>
    BY DEF EndTrim
<1>2. CASE UNCHANGED <<kept, list>>
    BY <1>1, <1>2 DEF PackInv, PackTypeOK, Told, LeastGoFirst
<1>3. CASE ~Fits
  <2>. DEFINE from == Most(1, Len(list) - ListCopied + 1)
              last == SubSeq(list, from, Len(list))
              short == Append(last, Marker)
  <2>1. kept' = TopOf(reply) /\ list' \in {short, <<Marker>>}
    BY <1>3 DEF EndTrim
  <2>2. list \in Seq(Entries) /\ Marker \in Entries /\ Len(list) \in Nat
    BY DEF PackInv, PackTypeOK, Entries
  <2>3. from \in Nat /\ from >= 1
    BY <2>2, ContextPacksAssumption DEF Most
  <2>. HIDE DEF from
  <2>4. last \in Seq(Entries) /\ ToSet(last) \subseteq ToSet(list)
    <3>1. \A i \in 1 .. Len(last) : last[i] = list[from + i - 1] /\ from + i - 1 \in 1 .. Len(list)
        BY <2>2, <2>3
    <3>2. last \in Seq(Entries)
        BY <2>2, <2>3
    <3>. QED BY <2>2, <3>1, <3>2 DEF ToSet
  <2>. HIDE DEF last
  <2>5. short \in Seq(Entries) /\ ToSet(short) = ToSet(last) \cup {Marker}
    BY <2>2, <2>4, ToSetOf
  <2>6. <<Marker>> \in Seq(Entries) /\ ToSet(<<Marker>>) = {Marker}
    BY <2>2 DEF ToSet
  <2>. HIDE DEF short
  <2>7. list' \in Seq(Entries) /\ Marker \in ToSet(list') /\ ToSet(list') \subseteq ToSet(list) \cup {Marker}
    BY <2>1, <2>4, <2>5, <2>6
  <2>8. Told' \subseteq Told
    BY <2>7 DEF Told
  <2>9. kept' \subseteq kept /\ TopOf(reply') \subseteq kept'
    BY <1>1, <2>1 DEF PackInv
  <2>. QED BY <1>1, <2>7, <2>8, <2>9 DEF PackInv, PackTypeOK
<1>. QED BY <1>2, <1>3 DEF EndTrim

LEMMA PackStore == ASSUME PackInv, Store PROVE PackInv'
<1>1. /\ stored' \in {"pack", "text"} /\ step' = "idle" /\ reply' = {} /\ kept' = {} /\ list' = <<>>
    BY DEF Store
<1>2. list' \in Seq(Entries) /\ ToSet(list') = {}
    BY <1>1 DEF ToSet
<1>3. TopOf(reply') \subseteq kept'
    BY <1>1, TopIsProtected
<1>. QED BY <1>1, <1>2, <1>3 DEF PackInv, PackTypeOK, Told, LeastGoFirst

LEMMA PackInvNext == PackInv /\ [PackNext]_packVars => PackInv'
<1>. SUFFICES ASSUME PackInv, [PackNext]_packVars PROVE PackInv'
    OBVIOUS
<1>1. ASSUME NEW a, NEW b, NEW c, NEW s \in SUBSET Items, NEW prior \in 0 .. MaxPrior, Compact(s, prior, a, b, c)
      PROVE  PackInv'
  <2>1. prior \in Nat
    BY ContextPacksAssumption
  <2>. QED BY <1>1, <2>1, PackCompact
<1>2. ASSUME NEW a, NEW b, NEW c, NEW long \in 0 .. Least(2, MaxPrior), Fallback(long, a, b, c)
      PROVE  PackInv'
  <2>1. long \in Nat
    BY ContextPacksAssumption DEF Least
  <2>2. \A n : Of(n, Items) \in SUBSET Items
    BY DEF Of
  <2>3. Of("dynamic_tail", Items) \cup Of("open_questions", Items) \cup Of("retrieved_evidence", Items)
           \in SUBSET Items
    BY <2>2
  <2>. QED BY <1>2, <2>1, <2>3, PackCompact DEF Fallback
<1>3. CASE Whole
  <2>1. step = "whole" /\ step' \in {"done", "evict"} /\ UNCHANGED <<room, reply, kept, list, stored>>
    BY <1>3 DEF Whole
  <2>. QED BY <2>1 DEF PackInv, PackTypeOK, Told, LeastGoFirst
<1>4. CASE UNCHANGED packVars
    BY <1>4 DEF packVars, PackInv, PackTypeOK, Told, LeastGoFirst
<1>. QED BY <1>1, <1>2, <1>3, <1>4, PackEvict, PackEndEvict, PackTrim, PackEndTrim, PackStore DEF PackNext

LEMMA PackInvariant == PackSpec => []PackInv
BY PackInitInv, PackInvNext, PTL DEF PackSpec

LEMMA PackIsHonest == PackInv => EvictionIsHonest
<1>. SUFFICES ASSUME PackInv PROVE EvictionIsHonest
    OBVIOUS
<1>1. ASSUME NEW i \in reply \ kept, NEW j \in kept, Item[i].section = Item[j].section, LeastGoFirst
      PROVE  IF Item[i].section \in ByAge THEN i < j ELSE Item[i].importance <= Item[j].importance
  <2>1. Comes(i, j) /\ i # j
    BY <1>1 DEF LeastGoFirst
  <2>2. i \in Nat /\ j \in Nat /\ Item[i].importance \in Nat /\ Item[j].importance \in Nat
    BY Numbers DEF PackInv, PackTypeOK
  <2>. QED BY <2>1, <2>2 DEF Comes
<1>. QED BY <1>1 DEF PackInv, PackTypeOK, EvictionIsHonest

\* The pack being made and its list of omissions keep their types.
THEOREM PackTypeCorrect == PackSpec => []PackTypeOK
BY PackInvariant, PTL DEF PackInv

\* Whatever the model replies and however little room there is, a pack keeps its
\* core, tells what it has lost or that it was cut, and loses the oldest and the
\* least important first.
THEOREM PacksAreHonest == PackSpec => []EvictionIsHonest
BY PackInvariant, PackIsHonest, PTL

-----------------------------------------------------------------------------
(* The funnel of work modes.                                               *)

-----------------------------------------------------------------------------
(* The members of a finite set can be put in any strict order.             *)

Strict(R, U) ==
    /\ \A x \in U : <<x, x>> \notin R
    /\ \A x, y \in U : x = y \/ <<x, y>> \in R \/ <<y, x>> \in R
    /\ \A x, y, z \in U : <<x, y>> \in R /\ <<y, z>> \in R => <<x, z>> \in R

LEMMA LastOf ==
    ASSUME NEW U, NEW R, Strict(R, U)
    PROVE  \A n \in Nat : \A S \in SUBSET U :
              IsFiniteSet(S) /\ Cardinality(S) = n /\ S # {} =>
                  \E x \in S : \A y \in S \ {x} : <<y, x>> \in R
<1>. DEFINE Ends(S) == \E x \in S : \A y \in S \ {x} : <<y, x>> \in R
            bad == {n \in Nat : \E S \in SUBSET U : /\ IsFiniteSet(S) /\ Cardinality(S) = n /\ S # {}
                                                    /\ ~Ends(S)}
<1>. SUFFICES ASSUME bad # {} PROVE FALSE
    OBVIOUS
<1>1. PICK n \in bad : \A m \in bad : n <= m
  <2>1. bad \in SUBSET Nat
    OBVIOUS
  <2>. HIDE DEF bad
  <2>. QED BY <2>1, LeastOf
<1>2. PICK S \in SUBSET U : IsFiniteSet(S) /\ Cardinality(S) = n /\ S # {} /\ ~Ends(S)
    OBVIOUS
<1>3. PICK a \in S : TRUE
    BY <1>2
<1>. DEFINE T == S \ {a}
<1>4. IsFiniteSet(T) /\ Cardinality(T) = n - 1 /\ Cardinality(T) \in Nat
    BY <1>2, FS_RemoveElement, FS_CardinalityType
<1>5. n \in Nat /\ n - 1 \in Nat /\ n - 1 \notin bad
  <2>1. n \in Nat /\ n - 1 \in Nat
    BY <1>4
  <2>. HIDE DEF bad
  <2>. QED BY <1>1, <2>1
<1>6. T # {}
  <2>. SUFFICES ASSUME T = {} PROVE FALSE
    OBVIOUS
  <2>. QED BY <1>2, <1>3
<1>7. Ends(T)
  <2>1. T \in SUBSET U
    BY <1>2
  <2>. HIDE DEF Ends
  <2>. QED BY <1>4, <1>5, <1>6, <2>1
<1>8. PICK x \in T : \A y \in T \ {x} : <<y, x>> \in R
    BY <1>7
<1>9. CASE <<a, x>> \in R
  <2>1. \A y \in S \ {x} : <<y, x>> \in R
    BY <1>8, <1>9
  <2>. QED BY <1>2, <1>8, <2>1
<1>10. CASE <<a, x>> \notin R
  <2>1. <<x, a>> \in R
    BY <1>2, <1>3, <1>8, <1>10 DEF Strict
  <2>2. \A y \in S \ {a} : <<y, a>> \in R
    BY <1>2, <1>3, <1>8, <2>1 DEF Strict
  <2>. QED BY <1>2, <1>3, <2>2
<1>. QED BY <1>9, <1>10

Ranks(f, n, S, R) ==
    /\ f \in [1 .. n -> S]
    /\ \A x \in S : \E i \in 1 .. n : f[i] = x
    /\ \A i, j \in 1 .. n : i < j => <<f[i], f[j]>> \in R

LEMMA RankedBy ==
    ASSUME NEW U, NEW R, Strict(R, U)
    PROVE  \A n \in Nat : \A S \in SUBSET U :
              IsFiniteSet(S) /\ Cardinality(S) = n => \E f : Ranks(f, n, S, R)
<1>. DEFINE Ranked(S, n) == \E f : Ranks(f, n, S, R)
            bad == {n \in Nat : \E S \in SUBSET U : IsFiniteSet(S) /\ Cardinality(S) = n /\ ~Ranked(S, n)}
<1>. SUFFICES ASSUME bad # {} PROVE FALSE
    OBVIOUS
<1>1. PICK n \in bad : \A m \in bad : n <= m
  <2>1. bad \in SUBSET Nat
    OBVIOUS
  <2>. HIDE DEF bad
  <2>. QED BY <2>1, LeastOf
<1>2. PICK S \in SUBSET U : IsFiniteSet(S) /\ Cardinality(S) = n /\ ~Ranked(S, n)
    OBVIOUS
<1>3. CASE S = {}
  <2>1. n = 0
    BY <1>2, <1>3, FS_EmptySet
  <2>2. Ranks([i \in 1 .. 0 |-> i], 0, S, R)
    BY <1>3 DEF Ranks
  <2>. QED BY <1>2, <2>1, <2>2
<1>4. CASE S # {}
  <2>1. PICK x \in S : \A y \in S \ {x} : <<y, x>> \in R
    BY <1>2, <1>4, LastOf
  <2>. DEFINE T == S \ {x}
  <2>2. IsFiniteSet(T) /\ Cardinality(T) = n - 1 /\ Cardinality(T) \in Nat
    BY <1>2, FS_RemoveElement, FS_CardinalityType
  <2>3. n \in Nat /\ n - 1 \in Nat /\ n - 1 \notin bad
    <3>1. n \in Nat /\ n - 1 \in Nat
        BY <2>2
    <3>. HIDE DEF bad
    <3>. QED BY <1>1, <3>1
  <2>4. Ranked(T, n - 1)
    <3>1. T \in SUBSET U
        BY <1>2
    <3>. HIDE DEF Ranked
    <3>. QED BY <2>2, <2>3, <3>1
  <2>5. PICK f : Ranks(f, n - 1, T, R)
    BY <2>4
  <2>. DEFINE g == [i \in 1 .. n |-> IF i = n THEN x ELSE f[i]]
  <2>6. n \in 1 .. n /\ \A i \in 1 .. n : i # n => i \in 1 .. n - 1
    BY <2>3
  <2>7. f \in [1 .. n - 1 -> T] /\ \A i \in 1 .. n - 1 : f[i] \in T
    BY <2>5 DEF Ranks
  <2>8. g[n] = x /\ \A i \in 1 .. n - 1 : i \in 1 .. n /\ g[i] = f[i]
    BY <2>3, <2>6
  <2>9. g \in [1 .. n -> S]
    BY <2>6, <2>7
  <2>. HIDE DEF g
  <2>10. \A y \in S : \E i \in 1 .. n : g[i] = y
    BY <2>5, <2>6, <2>8 DEF Ranks
  <2>11. ASSUME NEW i \in 1 .. n, NEW j \in 1 .. n, i < j PROVE <<g[i], g[j]>> \in R
    <3>1. i \in 1 .. n - 1
        BY <2>3, <2>11
    <3>2. CASE j = n
        BY <2>1, <2>7, <2>8, <3>1, <3>2
    <3>3. CASE j # n
        BY <2>5, <2>6, <2>8, <2>11, <3>1, <3>3 DEF Ranks
    <3>. QED BY <3>2, <3>3
  <2>12. Ranks(g, n, S, R)
    BY <2>9, <2>10, <2>11 DEF Ranks
  <2>. QED BY <1>2, <2>12
<1>. QED BY <1>3, <1>4

LEMMA InOrderIs ==
    ASSUME NEW S, IsFiniteSet(S), NEW R, Strict(R, S)
    PROVE  LET f == InOrder(S, R)  n == Cardinality(S) IN
              /\ n \in Nat /\ f \in [1 .. n -> S] /\ f \in Seq(S) /\ Len(f) = n
              /\ ToSet(f) = S
              /\ \A i, j \in 1 .. n : i < j => <<f[i], f[j]>> \in R /\ f[i] # f[j]
<1>. DEFINE n == Cardinality(S)
            good(f) == ToSet(f) = S /\ \A i, j \in DOMAIN f : i < j => <<f[i], f[j]>> \in R
<1>1. n \in Nat
    BY FS_CardinalityType
<1>2. PICK f : Ranks(f, n, S, R)
    BY <1>1, RankedBy
<1>3. f \in [1 .. n -> S] /\ good(f)
    BY <1>2 DEF Ranks, ToSet
<1>4. InOrder(S, R) = CHOOSE g \in [1 .. n -> S] : good(g)
    BY DEF InOrder
<1>5. InOrder(S, R) \in [1 .. n -> S] /\ good(InOrder(S, R))
  <2>. HIDE DEF good, n
  <2>. QED BY <1>3, <1>4
<1>. DEFINE h == InOrder(S, R)
<1>6. h \in [1 .. n -> S] /\ ToSet(h) = S /\ \A i, j \in 1 .. n : i < j => <<h[i], h[j]>> \in R
    BY <1>5
<1>. HIDE DEF n, h
<1>7. h \in Seq(S) /\ Len(h) = n
    BY <1>1, <1>6, SeqDef
<1>8. \A i, j \in 1 .. n : i < j => h[i] # h[j]
    BY <1>6 DEF Strict
<1>. QED BY <1>1, <1>6, <1>7, <1>8 DEF n, h

-----------------------------------------------------------------------------
(* Types.                                                                  *)

Answers == [selected : Seq(Modes), dropped : Seq(Modes), by : {"nobody", "words", "vectors"}]
Snaps == [Modes -> {0} \cup Texts]
Caches == [Modes -> [text : {0} \cup Texts, by : Embedders]]
Plans == [at : {"off", "query", "batch", "tools"}, snap : Snaps, semantic : BOOLEAN, first : BOOLEAN,
          kind : SUBSET Modes, limit : Nat, query : Embedders, need : SUBSET Modes,
          answer : Answers, index : Seq(Modes), pulls : Nat]

ModesTypeOK ==
    /\ text \in [Modes -> Texts] /\ live \subseteq Modes
    /\ vectors \in Caches
    /\ planning \in [Planners -> Plans]
    /\ skewed \in [Planners -> SUBSET Modes]

LEMMA ModesAre ==
    /\ Modes \subseteq Nat /\ IsFiniteSet(Modes)
    /\ \A m \in Modes : /\ Texts = 1 .. Len(Profile[m]) /\ Len(Profile[m]) \in Nat
                        /\ 1 \in Texts /\ Texts \subseteq Nat \ {0}
                        /\ \A t \in Texts : Profile[m][t] \in RowType
<1>1. PICK n \in Nat : Modes = 1 .. n
    BY WorkModesAssumption DEF Modes
<1>2. IsFiniteSet(Modes)
    BY <1>1, FS_Interval
<1>3. ASSUME NEW m \in Modes
      PROVE  /\ Texts = 1 .. Len(Profile[m]) /\ Len(Profile[m]) \in Nat
             /\ 1 \in Texts /\ Texts \subseteq Nat \ {0}
             /\ \A t \in Texts : Profile[m][t] \in RowType
  <2>1. Profile[m] \in Seq(RowType) /\ Profile[m] # <<>> /\ DOMAIN Profile[m] = Texts
    BY WorkModesAssumption DEF Modes
  <2>2. Texts = 1 .. Len(Profile[m]) /\ Len(Profile[m]) \in Nat /\ Len(Profile[m]) > 0
    BY <2>1
  <2>. QED BY <2>1, <2>2
<1>. QED BY <1>1, <1>2, <1>3

LEMMA RowIs ==
    ASSUME ModesTypeOK, NEW p \in Planners, NEW m \in Snapped(p)
    PROVE  /\ planning[p].snap[m] \in Texts
           /\ Row(p, m) \in RowType /\ Row(p, m).words \in Int /\ Row(p, m).priority \in Int
           /\ Row(p, m).alike \in Int /\ m \in Modes /\ m \in Int
<1>1. m \in Modes /\ planning[p].snap[m] > 0 /\ planning[p].snap \in Snaps
    BY DEF Snapped, ModesTypeOK, Plans
<1>2. planning[p].snap[m] \in Texts
    BY <1>1 DEF Snaps
<1>3. Row(p, m) \in RowType /\ m \in Int
    BY <1>1, <1>2, ModesAre DEF Row
<1>. QED BY <1>1, <1>2, <1>3 DEF RowType

LEMMA EligibleIs ==
    ASSUME ModesTypeOK, NEW p \in Planners
    PROVE  /\ Eligible(p) \subseteq Snapped(p) /\ Manual(p) \subseteq Snapped(p) /\ Snapped(p) \subseteq Modes
           /\ Eligible(p) \cap Picked = {} /\ Manual(p) \subseteq Picked
           /\ IsFiniteSet(Eligible(p)) /\ IsFiniteSet(Manual(p))
<1>1. /\ Eligible(p) \subseteq Snapped(p) /\ Manual(p) \subseteq Snapped(p) /\ Snapped(p) \subseteq Modes
      /\ Eligible(p) \cap Picked = {} /\ Manual(p) \subseteq Picked
    BY DEF Eligible, Manual, Snapped
<1>2. Eligible(p) \in SUBSET Modes /\ Manual(p) \in SUBSET Modes
    BY <1>1
<1>. QED BY <1>1, <1>2, ModesAre, FS_Subset

-----------------------------------------------------------------------------
(* Ranking.                                                                *)

WordOrder(p) == {q \in Modes \X Modes : ByWords(p, q[1], q[2])}
VectorOrder(p, cache, query) == {q \in Modes \X Modes : ByVectors(p, cache, query, q[1], q[2])}

Score(cache, query, m) ==
    IF cache[m].text = 0 \/ cache[m].by # query THEN 0 ELSE Profile[m][cache[m].text].alike

LEMMA ByVectorsIs ==
    ASSUME NEW p, NEW cache, NEW query, NEW a, NEW b
    PROVE  ByVectors(p, cache, query, a, b) <=>
              \/ Score(cache, query, a) > Score(cache, query, b)
              \/ Score(cache, query, a) = Score(cache, query, b) /\ ByWords(p, a, b)
BY DEF ByVectors, Score

LEMMA ByWordsIs ==
    ASSUME ModesTypeOK, NEW p \in Planners
    PROVE  /\ \A x \in Snapped(p) : ~ByWords(p, x, x)
           /\ \A x, y \in Snapped(p) : x = y \/ ByWords(p, x, y) \/ ByWords(p, y, x)
           /\ \A x, y, z \in Snapped(p) : ByWords(p, x, y) /\ ByWords(p, y, z) => ByWords(p, x, z)
<1>1. \A m \in Snapped(p) : Row(p, m).words \in Int /\ Row(p, m).priority \in Int /\ m \in Int
    BY RowIs
<1>. QED BY <1>1 DEF ByWords

LEMMA WordsAreStrict ==
    ASSUME ModesTypeOK, NEW p \in Planners
    PROVE  Strict(WordOrder(p), Eligible(p))
BY EligibleIs, ByWordsIs DEF Strict, WordOrder

LEMMA VectorsAreStrict ==
    ASSUME ModesTypeOK, NEW p \in Planners, NEW cache \in Caches, NEW query
    PROVE  Strict(VectorOrder(p, cache, query), Eligible(p))
<1>. DEFINE before(x, y) == ByVectors(p, cache, query, x, y)
<1>1. \A m \in Modes : Score(cache, query, m) \in Int
  <2>. SUFFICES ASSUME NEW m \in Modes PROVE Score(cache, query, m) \in Int
    OBVIOUS
  <2>1. cache[m].text \in {0} \cup Texts
    BY DEF Caches
  <2>2. cache[m].text # 0 => Profile[m][cache[m].text].alike \in Int
    BY <2>1, ModesAre DEF RowType
  <2>. QED BY <2>2 DEF Score
<1>2. \A x, y \in Modes : before(x, y) <=>
         \/ Score(cache, query, x) > Score(cache, query, y)
         \/ Score(cache, query, x) = Score(cache, query, y) /\ ByWords(p, x, y)
    BY ByVectorsIs
<1>3. \A x \in Snapped(p) : x \in Modes /\ Score(cache, query, x) \in Int
    BY <1>1, EligibleIs
<1>4. \A q \in Modes \X Modes : q \in VectorOrder(p, cache, query) <=> before(q[1], q[2])
    BY DEF VectorOrder
<1>5. \A x, y \in Modes : <<x, y>> \in VectorOrder(p, cache, query) <=> before(x, y)
  <2>. HIDE DEF before
  <2>. QED BY <1>4
<1>. HIDE DEF before
<1>6. \A x \in Snapped(p) : ~before(x, x)
    BY <1>2, <1>3, ByWordsIs
<1>7. \A x, y \in Snapped(p) : x = y \/ before(x, y) \/ before(y, x)
    BY <1>2, <1>3, ByWordsIs
<1>8. \A x, y, z \in Snapped(p) : before(x, y) /\ before(y, z) => before(x, z)
    BY <1>2, <1>3, ByWordsIs
<1>. QED BY <1>3, <1>5, <1>6, <1>7, <1>8, EligibleIs DEF Strict

LEMMA NumbersAreStrict == Strict({q \in Modes \X Modes : q[1] < q[2]}, Modes)
BY ModesAre DEF Strict

LEMMA StrictBelow ==
    ASSUME NEW U, NEW V \in SUBSET U, NEW R, Strict(R, U)
    PROVE  Strict(R, V)
BY DEF Strict

-----------------------------------------------------------------------------
(* The cut.                                                                *)

LEMMA Joined ==
    ASSUME NEW t, NEW a \in Seq(t), NEW b \in Seq(t)
    PROVE  a \o b \in Seq(t) /\ ToSet(a \o b) = ToSet(a) \cup ToSet(b)
<1>. DEFINE c == a \o b
<1>1. /\ c \in Seq(t) /\ Len(c) = Len(a) + Len(b)
      /\ Len(a) \in Nat /\ Len(b) \in Nat
      /\ DOMAIN a = 1 .. Len(a) /\ DOMAIN b = 1 .. Len(b) /\ DOMAIN c = 1 .. Len(a) + Len(b)
    OBVIOUS
<1>2. \A i \in 1 .. Len(a) : c[i] = a[i] /\ i \in 1 .. Len(a) + Len(b)
    BY <1>1
<1>3. \A i \in 1 .. Len(b) : c[Len(a) + i] = b[i] /\ Len(a) + i \in 1 .. Len(a) + Len(b)
    BY <1>1
<1>. HIDE DEF c
<1>4. \A j \in 1 .. Len(a) + Len(b) : j \in 1 .. Len(a) \/ \E i \in 1 .. Len(b) : j = Len(a) + i
  <2>. SUFFICES ASSUME NEW j \in 1 .. Len(a) + Len(b), j \notin 1 .. Len(a)
                PROVE  \E i \in 1 .. Len(b) : j = Len(a) + i
    OBVIOUS
  <2>1. j - Len(a) \in 1 .. Len(b) /\ j = Len(a) + (j - Len(a))
    BY <1>1
  <2>. QED BY <2>1
<1>5. ToSet(c) \subseteq ToSet(a) \cup ToSet(b)
  <2>. SUFFICES ASSUME NEW x \in ToSet(c) PROVE x \in ToSet(a) \cup ToSet(b)
    OBVIOUS
  <2>1. PICK j \in 1 .. Len(a) + Len(b) : x = c[j]
    BY <1>1 DEF ToSet
  <2>2. CASE j \in 1 .. Len(a)
    BY <1>1, <1>2, <2>1, <2>2 DEF ToSet
  <2>3. CASE \E i \in 1 .. Len(b) : j = Len(a) + i
    BY <1>1, <1>3, <2>1, <2>3 DEF ToSet
  <2>. QED BY <1>4, <2>2, <2>3
<1>6. ToSet(a) \cup ToSet(b) \subseteq ToSet(c)
    BY <1>1, <1>2, <1>3 DEF ToSet
<1>. QED BY <1>1, <1>5, <1>6 DEF c

LEMMA SeqParts ==
    ASSUME NEW t, NEW a \in Seq(t), NEW k \in 0 .. Len(a)
    PROVE  /\ SubSeq(a, 1, k) \in Seq(t) /\ SubSeq(a, k + 1, Len(a)) \in Seq(t)
           /\ ToSet(SubSeq(a, 1, k)) = {a[i] : i \in 1 .. k}
           /\ ToSet(SubSeq(a, k + 1, Len(a))) = {a[i] : i \in k + 1 .. Len(a)}
<1>1. SubSeq(a, 1, k) \in Seq(t) /\ ToSet(SubSeq(a, 1, k)) = {a[i] : i \in 1 .. k}
  <2>1. /\ SubSeq(a, 1, k) \in Seq(t) /\ DOMAIN SubSeq(a, 1, k) = 1 .. k
        /\ \A i \in 1 .. k : SubSeq(a, 1, k)[i] = a[i]
    OBVIOUS
  <2>. QED BY <2>1 DEF ToSet
<1>2. SubSeq(a, k + 1, Len(a)) \in Seq(t) /\ ToSet(SubSeq(a, k + 1, Len(a))) = {a[i] : i \in k + 1 .. Len(a)}
  <2>. DEFINE r == SubSeq(a, k + 1, Len(a))  n == Len(a)
  <2>1. /\ r \in Seq(t) /\ DOMAIN r = 1 .. n - k /\ n \in Nat /\ k \in Nat /\ k <= n
        /\ \A i \in 1 .. n - k : r[i] = a[k + i]
    OBVIOUS
  <2>. HIDE DEF r, n
  <2>2. \A i \in 1 .. n - k : k + i \in k + 1 .. n
    BY <2>1
  <2>3. \A j \in k + 1 .. n : j - k \in 1 .. n - k /\ k + (j - k) = j
    BY <2>1
  <2>4. ToSet(r) \subseteq {a[i] : i \in k + 1 .. n}
    BY <2>1, <2>2 DEF ToSet
  <2>5. \A j \in k + 1 .. n : a[j] = r[j - k]
    BY <2>1, <2>3
  <2>6. {a[i] : i \in k + 1 .. n} \subseteq ToSet(r)
    <3>. SUFFICES ASSUME NEW x \in {a[i] : i \in k + 1 .. n} PROVE x \in ToSet(r)
        OBVIOUS
    <3>1. PICK j \in k + 1 .. n : x = a[j]
        OBVIOUS
    <3>2. j - k \in DOMAIN r /\ x = r[j - k]
        BY <2>1, <2>3, <2>5, <3>1
    <3>. QED BY <3>2 DEF ToSet
  <2>. QED BY <2>1, <2>4, <2>6 DEF r, n
<1>. QED BY <1>1, <1>2

LEMMA FewInFront ==
    ASSUME NEW a, NEW k \in Nat
    PROVE  IsFiniteSet({a[i] : i \in 1 .. k}) /\ Cardinality({a[i] : i \in 1 .. k}) <= k
<1>. DEFINE S == 1 .. k  T == {a[i] : i \in 1 .. k}  f == [i \in S |-> a[i]]
<1>1. IsFiniteSet(S) /\ Cardinality(S) = k
    BY FS_Interval
<1>2. f \in Surjection(S, T)
    BY DEF Surjection
<1>. HIDE DEF S, T, f
<1>3. IsFiniteSet(T) /\ Cardinality(T) <= Cardinality(S)
    BY <1>1, <1>2, FS_Surjection
<1>. QED BY <1>1, <1>3 DEF T

\* The answer ranks by `by', save for the excused.
Over(p, by, a, b) ==
    IF by = "vectors" THEN Row(p, a).alike > Row(p, b).alike
    ELSE \/ Row(p, a).words > Row(p, b).words
         \/ Row(p, a).words = Row(p, b).words /\ Row(p, a).priority > Row(p, b).priority

FaithfulAnswer(p, answer, excused) ==
    LET chosen == ToSet(answer.selected)
        rest == ToSet(answer.dropped) IN
    /\ Manual(p) \subseteq chosen
    /\ Cardinality(chosen \ Picked) <= planning[p].limit
    /\ chosen \cap rest = {} /\ chosen \cup rest = Manual(p) \cup Eligible(p)
    /\ \A m \in rest \ excused, n \in chosen \ (Picked \cup excused) : ~Over(p, answer.by, m, n)

LEMMA CutIsFaithful ==
    ASSUME ModesTypeOK, NEW p \in Planners, NEW R, Strict(R, Eligible(p)), NEW by \in {"words", "vectors"},
           NEW excused,
           \A m, n \in Eligible(p) \ excused : <<n, m>> \in R => ~Over(p, by, m, n)
    PROVE  /\ Cut(p, InOrder(Eligible(p), R), by) \in Answers
           /\ FaithfulAnswer(p, Cut(p, InOrder(Eligible(p), R), by), excused)
<1>. DEFINE f == InOrder(Eligible(p), R)  n == Cardinality(Eligible(p))
            picks == InOrder(Manual(p), {q \in Modes \X Modes : q[1] < q[2]})
            limit == planning[p].limit
            cap == IF limit < Len(f) THEN limit ELSE Len(f)
            answer == Cut(p, f, by)
            head == {f[i] : i \in 1 .. cap}
            tail == {f[i] : i \in cap + 1 .. n}
<1>1. /\ n \in Nat /\ f \in Seq(Eligible(p)) /\ Len(f) = n /\ ToSet(f) = Eligible(p)
      /\ \A i, j \in 1 .. n : i < j => <<f[i], f[j]>> \in R /\ f[i] # f[j]
    BY EligibleIs, InOrderIs
<1>2. picks \in Seq(Manual(p)) /\ ToSet(picks) = Manual(p)
  <2>1. Strict({q \in Modes \X Modes : q[1] < q[2]}, Manual(p))
    <3>1. Manual(p) \in SUBSET Modes
        BY EligibleIs
    <3>. QED BY <3>1, NumbersAreStrict, StrictBelow
  <2>. QED BY <2>1, EligibleIs, InOrderIs
<1>3. f \in Seq(Modes) /\ picks \in Seq(Modes)
  <2>1. Eligible(p) \subseteq Modes /\ Manual(p) \subseteq Modes
    BY EligibleIs
  <2>2. \A S, T : S \subseteq T => Seq(S) \subseteq Seq(T)
    BY SeqMonotonic
  <2>. HIDE DEF f, picks
  <2>. QED BY <1>1, <1>2, <2>1, <2>2
<1>4. limit \in Nat
    BY DEF ModesTypeOK, Plans
<1>5. answer = [selected |-> picks \o SubSeq(f, 1, cap), dropped |-> SubSeq(f, cap + 1, Len(f)), by |-> by]
    BY DEF Cut
<1>. HIDE DEF f, picks, answer, limit
<1>6. cap \in 0 .. n /\ cap <= limit /\ cap \in Nat /\ cap \in 0 .. Len(f)
    BY <1>1, <1>4
<1>. HIDE DEF cap
<1>7. SubSeq(f, 1, cap) \in Seq(Modes) /\ SubSeq(f, cap + 1, Len(f)) \in Seq(Modes)
    BY <1>3, <1>6, SeqParts
<1>8. ToSet(SubSeq(f, 1, cap)) = head /\ ToSet(SubSeq(f, cap + 1, Len(f))) = tail
    BY <1>1, <1>3, <1>6, SeqParts
<1>9. picks \o SubSeq(f, 1, cap) \in Seq(Modes) /\ ToSet(picks \o SubSeq(f, 1, cap)) = Manual(p) \cup head
  <2>. DEFINE t == Modes  front == SubSeq(f, 1, cap)
  <2>1. picks \in Seq(t) /\ front \in Seq(t)
    BY <1>3, <1>7
  <2>. HIDE DEF t, front
  <2>2. picks \o front \in Seq(t) /\ ToSet(picks \o front) = ToSet(picks) \cup ToSet(front)
    BY <2>1, Joined
  <2>. QED BY <1>2, <1>8, <2>2 DEF t, front
<1>10. answer \in Answers
    BY <1>5, <1>7, <1>9 DEF Answers
<1>11. ToSet(answer.selected) = Manual(p) \cup head /\ ToSet(answer.dropped) = tail /\ answer.by = by
    BY <1>5, <1>8, <1>9
<1>12. \A x \in head : \E i \in 1 .. cap : x = f[i] /\ i \in 1 .. n
    BY <1>1, <1>6
<1>13. \A x \in tail : \E i \in cap + 1 .. n : x = f[i] /\ i \in 1 .. n
    BY <1>1, <1>6
<1>14. \A x \in Eligible(p) : \E i \in 1 .. n : x = f[i]
    BY <1>1 DEF ToSet
<1>15. head \cup tail = Eligible(p)
  <2>1. \A i \in 1 .. n : i \in 1 .. cap \/ i \in cap + 1 .. n
    BY <1>1, <1>6
  <2>2. \A i \in 1 .. n : f[i] \in Eligible(p)
    BY <1>1
  <2>3. head \subseteq Eligible(p) /\ tail \subseteq Eligible(p)
    BY <1>12, <1>13, <2>2
  <2>4. Eligible(p) \subseteq head \cup tail
    BY <1>14, <2>1
  <2>. QED BY <2>3, <2>4
<1>16. \A x \in head, y \in tail : <<x, y>> \in R /\ x # y
  <2>. SUFFICES ASSUME NEW x \in head, NEW y \in tail PROVE <<x, y>> \in R /\ x # y
    OBVIOUS
  <2>1. PICK i \in 1 .. cap : x = f[i] /\ i \in 1 .. n
    BY <1>12
  <2>2. PICK j \in cap + 1 .. n : y = f[j] /\ j \in 1 .. n
    BY <1>13
  <2>3. i < j
    BY <1>6, <2>1, <2>2
  <2>. QED BY <1>1, <2>1, <2>2, <2>3
<1>17. IsFiniteSet(head) /\ Cardinality(head) <= cap
    BY <1>6, FewInFront
<1>. HIDE DEF head, tail
<1>18. (Manual(p) \cup head) \ Picked = head /\ Manual(p) \cap tail = {} /\ head \cap tail = {}
    BY <1>15, <1>16, EligibleIs
<1>19. Cardinality(head) <= limit
    BY <1>4, <1>6, <1>17, FS_CardinalityType
<1>20. \A m \in tail \ excused, k \in (Manual(p) \cup head) \ (Picked \cup excused) : ~Over(p, by, m, k)
  <2>. SUFFICES ASSUME NEW m \in tail \ excused, NEW k \in (Manual(p) \cup head) \ (Picked \cup excused)
                PROVE  ~Over(p, by, m, k)
    OBVIOUS
  <2>1. k \in head /\ k \in Eligible(p) \ excused /\ m \in Eligible(p) \ excused /\ <<k, m>> \in R
    BY <1>15, <1>16, EligibleIs
  <2>. QED BY <2>1
<1>21. FaithfulAnswer(p, answer, excused)
    BY <1>11, <1>15, <1>18, <1>19, <1>20 DEF FaithfulAnswer, limit
<1>. QED BY <1>10, <1>21 DEF answer, f

-----------------------------------------------------------------------------
(* What holds of a planning between its steps.                             *)

ManualOf(funnel) == {m \in Modes : funnel.snap[m] > 0} \cap Picked
EligibleOf(funnel) ==
    {m \in ({k \in Modes : funnel.snap[k] > 0} \cap funnel.kind) \ Picked :
        Profile[m][funnel.snap[m]].fits /\ Profile[m][funnel.snap[m]].described}

OverIn(funnel, a, b) ==
    LET s == Profile[a][funnel.snap[a]]
        t == Profile[b][funnel.snap[b]] IN
    IF funnel.answer.by = "vectors" THEN s.alike > t.alike
    ELSE s.words > t.words \/ (s.words = t.words /\ s.priority > t.priority)

KeepsFaith(funnel, excused) ==
    LET chosen == ToSet(funnel.answer.selected)
        rest == ToSet(funnel.answer.dropped) IN
    /\ ManualOf(funnel) \subseteq chosen
    /\ Cardinality(chosen \ Picked) <= funnel.limit
    /\ chosen \cap rest = {} /\ chosen \cup rest = ManualOf(funnel) \cup EligibleOf(funnel)
    /\ \A m \in rest \ excused, n \in chosen \ (Picked \cup excused) : ~OverIn(funnel, m, n)

\* During the wait for a batch every vector that will not be renewed is of the
\* planning's own text, or is known to be skewed.
WaitIsKnown(funnel, cache, excused) ==
    funnel.at = "batch" =>
        \A m \in EligibleOf(funnel) :
            m \in funnel.need \/ cache[m].text = funnel.snap[m] \/ m \in excused

AnswerIsKept(funnel, excused) ==
    funnel.answer # NoAnswer => funnel.at = "tools" /\ KeepsFaith(funnel, excused)

ModesInv ==
    /\ ModesTypeOK
    /\ \A p \in Planners : /\ AnswerIsKept(planning[p], skewed[p])
                           /\ WaitIsKnown(planning[p], vectors, skewed[p])

LEMMA OfPlan ==
    ASSUME NEW p PROVE Eligible(p) = EligibleOf(planning[p]) /\ Manual(p) = ManualOf(planning[p])
BY DEF Eligible, EligibleOf, Manual, ManualOf, Snapped, Row

LEMMA FaithfulIs ==
    ASSUME NEW p, NEW excused PROVE KeepsFaith(planning[p], excused) => Faithful(p, excused)
BY OfPlan DEF KeepsFaith, Faithful, OverIn, Outranks, Row

LEMMA AnswerKeeps ==
    ASSUME NEW p, NEW funnel, NEW excused, FaithfulAnswer(p, funnel.answer, excused),
           funnel.snap = planning[p].snap, funnel.kind = planning[p].kind, funnel.limit = planning[p].limit
    PROVE  KeepsFaith(funnel, excused)
<1>1. EligibleOf(funnel) = Eligible(p) /\ ManualOf(funnel) = Manual(p)
    BY DEF Eligible, EligibleOf, Manual, ManualOf, Snapped, Row
<1>2. \A m, n : OverIn(funnel, m, n) <=> Over(p, funnel.answer.by, m, n)
    BY DEF OverIn, Over, Row
<1>. QED BY <1>1, <1>2 DEF FaithfulAnswer, KeepsFaith

LEMMA FittedType ==
    ASSUME NEW p, NEW s \in Seq(Modes) PROVE Fitted(p, s) \in Seq(Modes)
<1>. DEFINE fits == {n \in 1 .. Len(s) : n = 1 \/ TokensOf(p, SubSeq(s, 1, n)) <= MaxTokens}
<1>1. CASE s = <<>>
    BY <1>1 DEF Fitted
<1>2. CASE s # <<>>
  <2>1. Len(s) \in Nat /\ fits \in SUBSET (0 .. Len(s)) /\ 1 \in fits
    BY <1>2
  <2>2. Fitted(p, s) = SubSeq(s, 1, CHOOSE n \in fits : \A k \in fits : k <= n)
    BY <1>2 DEF Fitted
  <2>. HIDE DEF fits
  <2>3. \E n \in fits : \A k \in fits : k <= n
    BY <2>1, GreatestOf
  <2>4. (CHOOSE n \in fits : \A k \in fits : k <= n) \in 0 .. Len(s)
    BY <2>1, <2>3
  <2>. QED BY <2>2, <2>4, SeqParts
<1>. QED BY <1>1, <1>2

\* An answer that is faithful when it is made ends the planning's wait.
LEMMA AnsweredKeeps ==
    ASSUME ModesInv, NEW p \in Planners, NEW answer \in Answers, NEW excused,
           FaithfulAnswer(p, answer, excused), Answered(p, answer)
    PROVE  /\ planning' \in [Planners -> Plans]
           /\ AnswerIsKept(planning'[p], excused)
           /\ \A cache : WaitIsKnown(planning'[p], cache, excused)
           /\ \A q \in Planners \ {p} : planning'[q] = planning[q]
<1>. DEFINE funnel == planning[p]  next == planning'[p]
            index == IF funnel.first THEN Fitted(p, answer.selected) ELSE funnel.index
<1>1. funnel \in Plans /\ planning \in [Planners -> Plans]
    BY DEF ModesInv, ModesTypeOK
<1>2. index \in Seq(Modes)
    BY <1>1, FittedType DEF Plans, Answers
<1>3. planning' = [planning EXCEPT ![p] =
                     [funnel EXCEPT !.answer = answer, !.need = {}, !.query = "local", !.at = "tools",
                                  !.index = index]]
    BY <1>1 DEF Answered
<1>. HIDE DEF index
<1>4. next = [funnel EXCEPT !.answer = answer, !.need = {}, !.query = "local", !.at = "tools", !.index = index]
    BY <1>1, <1>3
<1>5. \A q \in Planners \ {p} : planning'[q] = planning[q]
    BY <1>1, <1>3
<1>. HIDE DEF next
<1>6. next \in Plans /\ next.at = "tools" /\ next.answer = answer
      /\ next.snap = funnel.snap /\ next.kind = funnel.kind /\ next.limit = funnel.limit
    BY <1>1, <1>2, <1>4 DEF Plans, Embedders
<1>7. KeepsFaith(next, excused)
    BY <1>6, AnswerKeeps
<1>8. planning' \in [Planners -> Plans]
    BY <1>1, <1>3, <1>4, <1>6
<1>9. \A cache : WaitIsKnown(next, cache, excused)
    BY <1>6 DEF WaitIsKnown
<1>10. AnswerIsKept(next, excused)
    BY <1>6, <1>7 DEF AnswerIsKept
<1>. QED BY <1>5, <1>8, <1>9, <1>10 DEF next

\* An answer by words is faithful, whatever is excused.
LEMMA LexicalKeeps ==
    ASSUME ModesInv, NEW p \in Planners, NEW excused
    PROVE  /\ Cut(p, Lexical(p), "words") \in Answers
           /\ FaithfulAnswer(p, Cut(p, Lexical(p), "words"), excused)
<1>1. ModesTypeOK
    BY DEF ModesInv
<1>2. Lexical(p) = InOrder(Eligible(p), WordOrder(p))
    BY DEF Lexical, WordOrder
<1>3. Strict(WordOrder(p), Eligible(p))
    BY <1>1, WordsAreStrict
<1>4. ASSUME NEW m \in Eligible(p) \ excused, NEW n \in Eligible(p) \ excused, <<n, m>> \in WordOrder(p)
      PROVE  ~Over(p, "words", m, n)
  <2>1. ByWords(p, n, m)
    BY <1>4 DEF WordOrder
  <2>2. /\ Row(p, m).words \in Int /\ Row(p, m).priority \in Int
        /\ Row(p, n).words \in Int /\ Row(p, n).priority \in Int
    BY <1>1, EligibleIs, RowIs
  <2>. QED BY <2>1, <2>2 DEF ByWords, Over
<1>. QED BY <1>1, <1>2, <1>3, <1>4, CutIsFaithful

\* So is one by vectors, when those of the rest are of the planning's own texts
\* and of the query's maker.
LEMMA SemanticKeeps ==
    ASSUME ModesInv, NEW p \in Planners, NEW cache \in Caches, NEW query, NEW excused,
           \A m \in Eligible(p) \ excused :
               cache[m].text = planning[p].snap[m] /\ cache[m].by = query
    PROVE  /\ Cut(p, Semantic(p, cache, query), "vectors") \in Answers
           /\ FaithfulAnswer(p, Cut(p, Semantic(p, cache, query), "vectors"), excused)
<1>1. ModesTypeOK
    BY DEF ModesInv
<1>2. Semantic(p, cache, query) = InOrder(Eligible(p), VectorOrder(p, cache, query))
    BY DEF Semantic, VectorOrder
<1>3. Strict(VectorOrder(p, cache, query), Eligible(p))
    BY <1>1, VectorsAreStrict
<1>4. ASSUME NEW m \in Eligible(p) \ excused
      PROVE  Score(cache, query, m) = Row(p, m).alike /\ Row(p, m).alike \in Int
  <2>1. planning[p].snap[m] \in Texts /\ m \in Modes /\ Row(p, m).alike \in Int
    BY <1>1, EligibleIs, RowIs
  <2>2. planning[p].snap[m] # 0
    BY <2>1, ModesAre
  <2>. QED BY <2>1, <2>2 DEF Score, Row
<1>5. ASSUME NEW m \in Eligible(p) \ excused, NEW n \in Eligible(p) \ excused,
             <<n, m>> \in VectorOrder(p, cache, query)
      PROVE  ~Over(p, "vectors", m, n)
  <2>1. ByVectors(p, cache, query, n, m)
    BY <1>5 DEF VectorOrder
  <2>2. Score(cache, query, n) > Score(cache, query, m) \/ Score(cache, query, n) = Score(cache, query, m)
    BY <2>1, ByVectorsIs
  <2>. QED BY <1>4, <2>2 DEF Over
<1>. QED BY <1>1, <1>2, <1>3, <1>5, CutIsFaithful

-----------------------------------------------------------------------------
(* The steps.                                                              *)

LEMMA ModesStart == ModesInit => ModesInv
<1>. SUFFICES ASSUME ModesInit PROVE ModesInv
    OBVIOUS
<1>1. NotPlanning \in Plans /\ NotPlanning.answer = NoAnswer /\ NotPlanning.at = "off"
    BY DEF NotPlanning, NoAnswer, Plans, Answers, Snaps, Embedders
<1>2. ModesTypeOK
    BY <1>1, ModesAre DEF ModesInit, ModesTypeOK, NoVector, Caches, Embedders
<1>. QED BY <1>1, <1>2 DEF ModesInit, ModesInv, AnswerIsKept, WaitIsKnown

LEMMA LibraryStep ==
    ASSUME ModesInv, NEW m \in Modes, Edit(m) \/ Delete(m)
    PROVE  ModesInv'
<1>1. ModesTypeOK /\ Texts = 1 .. Len(Profile[m]) /\ Len(Profile[m]) \in Nat
    BY ModesAre DEF ModesInv
<1>2. vectors' = vectors /\ planning' = planning /\ skewed' = skewed
    BY DEF Edit, Delete
<1>3. text' \in [Modes -> Texts] /\ live' \subseteq Modes
  <2>1. CASE Edit(m)
    <3>1. text[m] \in Texts /\ text[m] < Len(Profile[m]) /\ text' = [text EXCEPT ![m] = text[m] + 1]
        BY <1>1, <2>1 DEF Edit, ModesTypeOK
    <3>2. text[m] + 1 \in Texts
        BY <1>1, <3>1
    <3>. QED BY <1>1, <2>1, <3>1, <3>2 DEF Edit, ModesTypeOK
  <2>2. CASE Delete(m)
    BY <1>1, <2>2 DEF Delete, ModesTypeOK
  <2>. QED BY <2>1, <2>2
<1>. QED BY <1>2, <1>3 DEF ModesInv, ModesTypeOK

\* A planning alone starts, searches, waits, pulls or ends.
LEMMA AloneKeeps ==
    ASSUME ModesInv, NEW p \in Planners, NEW next \in Plans,
           UNCHANGED <<text, live, vectors>>, planning' = [planning EXCEPT ![p] = next],
           skewed' \in [Planners -> SUBSET Modes],
           \A q \in Planners \ {p} : skewed'[q] = skewed[q],
           AnswerIsKept(next, skewed'[p]), WaitIsKnown(next, vectors, skewed'[p])
    PROVE  ModesInv'
<1>1. ModesTypeOK'
    BY DEF ModesInv, ModesTypeOK
<1>2. planning'[p] = next /\ \A q \in Planners \ {p} : planning'[q] = planning[q]
    BY DEF ModesInv, ModesTypeOK
<1>3. \A q \in Planners : AnswerIsKept(planning'[q], skewed'[q]) /\ WaitIsKnown(planning'[q], vectors', skewed'[q])
    BY <1>2 DEF ModesInv
<1>. QED BY <1>1, <1>3 DEF ModesInv

LEMMA BeginPlanningStep ==
    ASSUME ModesInv, NEW p \in Planners, NEW semantic \in BOOLEAN, BeginPlanning(p, semantic)
    PROVE  ModesInv'
<1>. DEFINE snap == [m \in Modes |-> IF m \in live THEN text[m] ELSE 0]
            next == [NotPlanning EXCEPT !.at = "query", !.semantic = semantic, !.kind = Modes,
                                        !.limit = MaxSelected, !.snap = snap]
<1>1. snap \in Snaps
    BY DEF ModesInv, ModesTypeOK, Snaps
<1>2. planning' = [planning EXCEPT ![p] = next] /\ skewed' = [skewed EXCEPT ![p] = {}]
      /\ UNCHANGED <<text, live, vectors>>
    BY DEF BeginPlanning
<1>. HIDE DEF snap
<1>3. next \in Plans /\ next.at = "query" /\ next.answer = NoAnswer
  <2>1. NotPlanning \in Plans /\ NotPlanning.answer = NoAnswer
    BY DEF NotPlanning, NoAnswer, Plans, Answers, Snaps, Embedders
  <2>2. MaxSelected \in Nat
    BY WorkModesAssumption
  <2>. QED BY <1>1, <2>1, <2>2 DEF Plans
<1>. HIDE DEF next
<1>4. AnswerIsKept(next, skewed'[p]) /\ WaitIsKnown(next, vectors, skewed'[p])
    BY <1>3 DEF AnswerIsKept, WaitIsKnown
<1>5. skewed' \in [Planners -> SUBSET Modes] /\ \A q \in Planners \ {p} : skewed'[q] = skewed[q]
    BY <1>2 DEF ModesInv, ModesTypeOK
<1>. QED BY <1>2, <1>3, <1>4, <1>5, AloneKeeps

LEMMA SearchStep ==
    ASSUME ModesInv, NEW p \in Planners, NEW kind \in OfKind, NEW limit \in Limits, Search(p, kind, limit)
    PROVE  ModesInv'
<1>. DEFINE funnel == planning[p]
            next == [funnel EXCEPT !.at = "query", !.first = FALSE, !.kind = kind, !.limit = limit,
                                 !.answer = NoAnswer]
<1>1. funnel \in Plans /\ planning \in [Planners -> Plans]
    BY DEF ModesInv, ModesTypeOK
<1>2. planning' = [planning EXCEPT ![p] = next] /\ skewed' = [skewed EXCEPT ![p] = {}]
      /\ UNCHANGED <<text, live, vectors>>
    BY <1>1 DEF Search
<1>3. kind \in SUBSET Modes /\ limit \in Nat /\ NoAnswer \in Answers
    BY WorkModesAssumption DEF NoAnswer, Answers
<1>4. next \in Plans /\ next.at = "query" /\ next.answer = NoAnswer
  <2>. HIDE DEF funnel
  <2>. QED BY <1>1, <1>3 DEF Plans
<1>. HIDE DEF next
<1>5. AnswerIsKept(next, skewed'[p]) /\ WaitIsKnown(next, vectors, skewed'[p])
    BY <1>4 DEF AnswerIsKept, WaitIsKnown
<1>6. skewed' \in [Planners -> SUBSET Modes] /\ \A q \in Planners \ {p} : skewed'[q] = skewed[q]
    BY <1>2 DEF ModesInv, ModesTypeOK
<1>. QED BY <1>2, <1>4, <1>5, <1>6, AloneKeeps

LEMMA PullStep ==
    ASSUME ModesInv, NEW p \in Planners, NEW m \in Modes, Pull(p, m)
    PROVE  ModesInv'
<1>. DEFINE funnel == planning[p]
            next == [funnel EXCEPT !.pulls = @ + 1]
<1>1. funnel \in Plans /\ planning \in [Planners -> Plans]
      /\ AnswerIsKept(funnel, skewed[p]) /\ WaitIsKnown(funnel, vectors, skewed[p])
    BY DEF ModesInv, ModesTypeOK
<1>2. planning' = [planning EXCEPT ![p] = next] /\ UNCHANGED <<text, live, vectors, skewed>>
    BY <1>1 DEF Pull
<1>3. /\ next \in Plans /\ next.at = funnel.at /\ next.answer = funnel.answer /\ next.snap = funnel.snap
      /\ next.kind = funnel.kind /\ next.limit = funnel.limit /\ next.need = funnel.need
  <2>1. funnel.pulls + 1 \in Nat
    BY <1>1 DEF Plans
  <2>. HIDE DEF funnel
  <2>. DEFINE pulls == funnel.pulls + 1
  <2>2. next = [funnel EXCEPT !.pulls = pulls] /\ pulls \in Nat
    BY <2>1
  <2>. HIDE DEF next, pulls
  <2>. QED BY <1>1, <2>2 DEF Plans
<1>. HIDE DEF next, funnel
<1>4. EligibleOf(next) = EligibleOf(funnel) /\ ManualOf(next) = ManualOf(funnel)
    BY <1>3 DEF EligibleOf, ManualOf
<1>5. \A a, b : OverIn(next, a, b) <=> OverIn(funnel, a, b)
    BY <1>3 DEF OverIn
<1>6. AnswerIsKept(next, skewed[p])
    BY <1>1, <1>3, <1>4, <1>5 DEF AnswerIsKept, KeepsFaith
<1>7. WaitIsKnown(next, vectors, skewed[p])
    BY <1>1, <1>3, <1>4 DEF WaitIsKnown
<1>8. skewed' \in [Planners -> SUBSET Modes] /\ skewed' = skewed
    BY <1>2 DEF ModesInv, ModesTypeOK
<1>. QED BY <1>2, <1>3, <1>6, <1>7, <1>8, AloneKeeps

LEMMA LaunchStep ==
    ASSUME ModesInv, NEW p \in Planners, Launch(p)
    PROVE  ModesInv'
<1>1. NotPlanning \in Plans /\ NotPlanning.answer = NoAnswer /\ NotPlanning.at = "off"
    BY DEF NotPlanning, NoAnswer, Plans, Answers, Snaps, Embedders
<1>2. planning' = [planning EXCEPT ![p] = NotPlanning] /\ skewed' = [skewed EXCEPT ![p] = {}]
      /\ UNCHANGED <<text, live, vectors>>
    BY DEF Launch
<1>3. AnswerIsKept(NotPlanning, skewed'[p]) /\ WaitIsKnown(NotPlanning, vectors, skewed'[p])
    BY <1>1 DEF AnswerIsKept, WaitIsKnown
<1>4. skewed' \in [Planners -> SUBSET Modes] /\ \A q \in Planners \ {p} : skewed'[q] = skewed[q]
    BY <1>2 DEF ModesInv, ModesTypeOK
<1>. QED BY <1>1, <1>2, <1>3, <1>4, AloneKeeps

LEMMA WordsStep ==
    ASSUME ModesInv, NEW p \in Planners, RankByWords(p) \/ EmbedFails(p)
    PROVE  ModesInv'
<1>. DEFINE answer == Cut(p, Lexical(p), "words")
<1>1. Answered(p, answer) /\ UNCHANGED <<text, live, vectors, skewed>>
    BY DEF RankByWords, EmbedFails
<1>2. answer \in Answers /\ FaithfulAnswer(p, answer, skewed[p])
    BY LexicalKeeps
<1>. HIDE DEF answer
<1>3. /\ planning' \in [Planners -> Plans]
      /\ AnswerIsKept(planning'[p], skewed[p])
      /\ \A cache : WaitIsKnown(planning'[p], cache, skewed[p])
      /\ \A q \in Planners \ {p} : planning'[q] = planning[q]
    BY <1>1, <1>2, AnsweredKeeps
<1>4. ModesTypeOK'
    BY <1>1, <1>3 DEF ModesInv, ModesTypeOK
<1>5. \A q \in Planners : AnswerIsKept(planning'[q], skewed'[q]) /\ WaitIsKnown(planning'[q], vectors', skewed'[q])
    BY <1>1, <1>3 DEF ModesInv
<1>. QED BY <1>4, <1>5 DEF ModesInv

LEMMA QueryEmbeddedStep ==
    ASSUME ModesInv, NEW p \in Planners, NEW by \in Embedders, QueryEmbedded(p, by)
    PROVE  ModesInv'
<1>. DEFINE funnel == planning[p]
<1>1. funnel \in Plans /\ planning \in [Planners -> Plans] /\ funnel.at = "query" /\ funnel.answer = NoAnswer
      /\ vectors \in Caches /\ UNCHANGED <<text, live, vectors>> /\ skewed \in [Planners -> SUBSET Modes]
      /\ Eligible(p) \subseteq Modes
    BY EligibleIs DEF ModesInv, ModesTypeOK, QueryEmbedded, At, AnswerIsKept
<1>2. \A m \in Eligible(p) \ Stale(p) : vectors[m].text = funnel.snap[m]
    BY DEF Stale
<1>3. CASE Stale(p) = {}
  <2>. DEFINE answer == Cut(p, Semantic(p, vectors, by), "vectors")  excused == Unlike(p, vectors, by)
  <2>1. Answered(p, answer) /\ skewed' = [skewed EXCEPT ![p] = excused]
    BY <1>3 DEF QueryEmbedded
  <2>2. excused \in SUBSET Modes
    BY <1>1 DEF Unlike
  <2>3. \A m \in Eligible(p) \ excused : vectors[m].text = funnel.snap[m] /\ vectors[m].by = by
    BY <1>2, <1>3 DEF Unlike
  <2>. HIDE DEF excused
  <2>4. answer \in Answers /\ FaithfulAnswer(p, answer, excused)
    BY <1>1, <2>3, SemanticKeeps
  <2>. HIDE DEF answer
  <2>5. /\ planning' \in [Planners -> Plans]
        /\ AnswerIsKept(planning'[p], excused)
        /\ \A cache : WaitIsKnown(planning'[p], cache, excused)
        /\ \A q \in Planners \ {p} : planning'[q] = planning[q]
    BY <2>1, <2>4, AnsweredKeeps
  <2>6. skewed'[p] = excused /\ \A q \in Planners \ {p} : skewed'[q] = skewed[q]
    BY <1>1, <2>1
  <2>7. ModesTypeOK'
    BY <1>1, <2>1, <2>2, <2>5 DEF ModesInv, ModesTypeOK
  <2>8. \A q \in Planners : AnswerIsKept(planning'[q], skewed'[q]) /\ WaitIsKnown(planning'[q], vectors', skewed'[q])
    BY <1>1, <2>5, <2>6 DEF ModesInv
  <2>. QED BY <2>7, <2>8 DEF ModesInv
<1>4. CASE Stale(p) # {}
  <2>. DEFINE next == [funnel EXCEPT !.at = "batch", !.need = Stale(p), !.query = by]
  <2>1. planning' = [planning EXCEPT ![p] = next] /\ skewed' = [skewed EXCEPT ![p] = {}]
    BY <1>1, <1>4 DEF QueryEmbedded
  <2>2. Stale(p) \in SUBSET Modes
    BY <1>1 DEF Stale
  <2>3. /\ next \in Plans /\ next.answer = NoAnswer /\ next.snap = funnel.snap /\ next.kind = funnel.kind
        /\ next.need = Stale(p)
    <3>. HIDE DEF funnel
    <3>. QED BY <1>1, <2>2 DEF Plans
  <2>. HIDE DEF next
  <2>4. EligibleOf(next) = Eligible(p)
    BY <2>3 DEF EligibleOf, Eligible, Snapped, Row
  <2>5. AnswerIsKept(next, skewed'[p]) /\ WaitIsKnown(next, vectors, skewed'[p])
    BY <1>2, <2>3, <2>4 DEF AnswerIsKept, WaitIsKnown
  <2>6. skewed' \in [Planners -> SUBSET Modes] /\ \A q \in Planners \ {p} : skewed'[q] = skewed[q]
    BY <1>1, <2>1
  <2>. QED BY <1>1, <2>1, <2>3, <2>5, <2>6, AloneKeeps
<1>. QED BY <1>3, <1>4

LEMMA BatchEmbeddedStep ==
    ASSUME ModesInv, NEW p \in Planners, NEW by \in Embedders, BatchEmbedded(p, by)
    PROVE  ModesInv'
<1>. DEFINE funnel == planning[p]  query == funnel.query
            answer == Cut(p, Semantic(p, vectors', query), "vectors")
            excused == (skewed[p] \ funnel.need) \cup Unlike(p, vectors', query)
<1>1. /\ funnel \in Plans /\ planning \in [Planners -> Plans] /\ funnel.at = "batch"
      /\ vectors \in Caches /\ UNCHANGED <<text, live>> /\ skewed \in [Planners -> SUBSET Modes]
      /\ Eligible(p) \subseteq Modes /\ WaitIsKnown(funnel, vectors, skewed[p])
      /\ funnel.snap \in Snaps /\ funnel.need \subseteq Modes
    BY EligibleIs DEF ModesInv, ModesTypeOK, BatchEmbedded, At, Plans
<1>2. vectors' = [m \in Modes |-> IF m \in funnel.need THEN [text |-> funnel.snap[m], by |-> by] ELSE vectors[m]]
    BY DEF BatchEmbedded
<1>3. /\ Answered(p, answer)
      /\ skewed' = [q \in Planners |->
          IF q = p THEN excused
          ELSE IF At(q, "batch") THEN skewed[q] \cup {m \in funnel.need : funnel.snap[m] # planning[q].snap[m]}
          ELSE skewed[q]]
    BY DEF BatchEmbedded
<1>4. vectors' \in Caches
    BY <1>1, <1>2 DEF Caches, Snaps
<1>5. excused \in SUBSET Modes
    BY <1>1 DEF Unlike
<1>6. ASSUME NEW m \in Eligible(p) \ excused
      PROVE  vectors'[m].text = funnel.snap[m] /\ vectors'[m].by = query
  <2>1. m \in Modes /\ vectors'[m].by = query /\ (m \in funnel.need \/ m \notin skewed[p])
    BY <1>1 DEF Unlike
  <2>2. CASE m \in funnel.need
    BY <1>2, <2>1, <2>2
  <2>3. CASE m \notin funnel.need
    <3>1. vectors[m].text = funnel.snap[m]
        BY <1>1, <2>1, <2>3, OfPlan DEF WaitIsKnown
    <3>. QED BY <1>2, <2>1, <2>3, <3>1
  <2>. QED BY <2>1, <2>2, <2>3
<1>7. skewed'[p] = excused
      /\ \A q \in Planners \ {p} :
            skewed'[q] = IF At(q, "batch")
                         THEN skewed[q] \cup {m \in funnel.need : funnel.snap[m] # planning[q].snap[m]}
                         ELSE skewed[q]
  <2>. HIDE DEF excused, funnel
  <2>1. skewed'[p] = excused
    BY <1>3
  <2>2. ASSUME NEW q \in Planners \ {p}
        PROVE  skewed'[q] = IF At(q, "batch")
                            THEN skewed[q] \cup {m \in funnel.need : funnel.snap[m] # planning[q].snap[m]}
                            ELSE skewed[q]
    <3>1. q \in Planners /\ q # p
        OBVIOUS
    <3>2. CASE At(q, "batch")
        BY <1>3, <3>1, <3>2
    <3>3. CASE ~At(q, "batch")
        BY <1>3, <3>1, <3>3
    <3>. QED BY <3>2, <3>3
  <2>. QED BY <2>1, <2>2
<1>8. skewed' \in [Planners -> SUBSET Modes]
  <2>. HIDE DEF excused, funnel
  <2>. QED BY <1>1, <1>3, <1>5
<1>. HIDE DEF excused
<1>9. answer \in Answers /\ FaithfulAnswer(p, answer, excused)
    BY <1>4, <1>6, SemanticKeeps
<1>. HIDE DEF answer
<1>10. /\ planning' \in [Planners -> Plans]
       /\ AnswerIsKept(planning'[p], excused)
       /\ \A cache : WaitIsKnown(planning'[p], cache, excused)
       /\ \A q \in Planners \ {p} : planning'[q] = planning[q]
    BY <1>3, <1>9, AnsweredKeeps
<1>11. ASSUME NEW q \in Planners \ {p}
       PROVE  AnswerIsKept(planning'[q], skewed'[q]) /\ WaitIsKnown(planning'[q], vectors', skewed'[q])
  <2>. DEFINE other == planning[q]
  <2>1. planning'[q] = other /\ AnswerIsKept(other, skewed[q]) /\ WaitIsKnown(other, vectors, skewed[q])
    BY <1>10 DEF ModesInv
  <2>2. CASE At(q, "batch")
    <3>1. skewed'[q] = skewed[q] \cup {m \in funnel.need : funnel.snap[m] # other.snap[m]} /\ other.at = "batch"
        BY <1>7, <2>2 DEF At
    <3>2. AnswerIsKept(other, skewed'[q])
        BY <2>1, <3>1 DEF AnswerIsKept
    <3>3. ASSUME NEW m \in EligibleOf(other), m \notin other.need, m \notin skewed'[q]
          PROVE  vectors'[m].text = other.snap[m]
      <4>1. m \in Modes /\ m \notin skewed[q] /\ (m \in funnel.need => funnel.snap[m] = other.snap[m])
        BY <3>1, <3>3 DEF EligibleOf
      <4>2. vectors[m].text = other.snap[m]
        BY <2>1, <3>1, <3>3, <4>1 DEF WaitIsKnown
      <4>. QED BY <1>2, <4>1, <4>2
    <3>4. WaitIsKnown(other, vectors', skewed'[q])
        BY <3>3 DEF WaitIsKnown
    <3>. QED BY <2>1, <3>2, <3>4
  <2>3. CASE ~At(q, "batch")
    <3>1. skewed'[q] = skewed[q] /\ other.at # "batch"
        BY <1>7, <2>3 DEF At
    <3>. QED BY <2>1, <3>1 DEF WaitIsKnown
  <2>. QED BY <2>2, <2>3
<1>12. ModesTypeOK'
    BY <1>1, <1>4, <1>8, <1>10 DEF ModesInv, ModesTypeOK
<1>13. \A q \in Planners : AnswerIsKept(planning'[q], skewed'[q]) /\ WaitIsKnown(planning'[q], vectors', skewed'[q])
    BY <1>7, <1>10, <1>11
<1>. QED BY <1>12, <1>13 DEF ModesInv

LEMMA ModesSteps == ModesInv /\ [ModesNext]_modeVars => ModesInv'
<1>. SUFFICES ASSUME ModesInv, [ModesNext]_modeVars PROVE ModesInv'
    OBVIOUS
<1>1. CASE UNCHANGED modeVars
    BY <1>1 DEF modeVars, ModesInv, ModesTypeOK
<1>2. ASSUME NEW m \in Modes, Edit(m) \/ Delete(m) PROVE ModesInv'
    BY <1>2, LibraryStep
<1>3. ASSUME NEW p \in Planners, RankByWords(p) \/ EmbedFails(p) PROVE ModesInv'
    BY <1>3, WordsStep
<1>4. ASSUME NEW p \in Planners, Launch(p) PROVE ModesInv'
    BY <1>4, LaunchStep
<1>5. ASSUME NEW p \in Planners, NEW semantic \in BOOLEAN, BeginPlanning(p, semantic) PROVE ModesInv'
    BY <1>5, BeginPlanningStep
<1>6. ASSUME NEW p \in Planners, NEW by \in Embedders, QueryEmbedded(p, by) PROVE ModesInv'
    BY <1>6, QueryEmbeddedStep
<1>7. ASSUME NEW p \in Planners, NEW by \in Embedders, BatchEmbedded(p, by) PROVE ModesInv'
    BY <1>7, BatchEmbeddedStep
<1>8. ASSUME NEW p \in Planners, NEW kind \in OfKind, NEW limit \in Limits, Search(p, kind, limit) PROVE ModesInv'
    BY <1>8, SearchStep
<1>9. ASSUME NEW p \in Planners, NEW m \in Modes, Pull(p, m) PROVE ModesInv'
    BY <1>9, PullStep
<1>. QED BY <1>1, <1>2, <1>3, <1>4, <1>5, <1>6, <1>7, <1>8, <1>9 DEF ModesNext

\* The definitions, the cache, every planning's answers and its counts keep
\* their types, whatever is edited, embedded or fails in between.
THEOREM ModesTypeCorrect == ModesSpec => []ModesTypeOK
<1>1. ModesInv => ModesTypeOK
    BY DEF ModesInv
<1>. QED BY <1>1, ModesStart, ModesSteps, PTL DEF ModesSpec

\* FunnelKeepsFaith, for every library, every number of plannings and any kinds
\* and limits a search asks for: what the user picked is there, nothing that
\* applies is lost, and nothing that was dropped scores better on its own text
\* than what was kept, save for the skewed vectors.
THEOREM FunnelsKeepFaith == ModesSpec => []FunnelKeepsFaith
<1>1. ModesInv => FunnelKeepsFaith
    BY FaithfulIs DEF ModesInv, AnswerIsKept, FunnelKeepsFaith
<1>. QED BY <1>1, ModesStart, ModesSteps, PTL DEF ModesSpec
===============================================================================
