----------------------------- MODULE Definitions -----------------------------
(***************************************************************************)
(* The library of definitions (workflows, skills, standards, rubrics):     *)
(* src/foreman/client/core/definition_service.py over the definitions and  *)
(* definition_links tables of client/store/db.py.  Bodies and metadata are *)
(* left out; a definition is its name, its version and whether it is live. *)
(*                                                                         *)
(* A call awaits nothing before its last write, so it is one step; the     *)
(* cut steps are the calls of several commits that stop in between: the    *)
(* process dies, or a bundle's next entry cannot be read (a body whose key *)
(* is missing, a version that is no number).                               *)
(***************************************************************************)
EXTENDS Naturals

CONSTANTS
    Names,              \* kind and name of a definition
    Ids,                \* ids of definitions
    MaxVersion,         \* bound on the versions of a name
    Foreign             \* bundles exported elsewhere: their rows

NoDefinition == [name |-> "none", version |-> 0, live |-> FALSE]
Definition == [name : Names, version : 1..MaxVersion, live : BOOLEAN]
Bundle == [rows : [Ids -> Definition \cup {NoDefinition}], links : SUBSET (Ids \X Ids)]

ASSUME DefinitionsAssumption == MaxVersion \in Nat \ {0} /\ Foreign \subseteq Bundle

VARIABLES
    rows,               \* the definitions table
    links,              \* the definition_links table, as pairs of ids
    backups,            \* the bundles a user has kept
    unsettled           \* history: names a cut import has left as it found them in the bundle

definitionVars == <<rows, links, backups, unsettled>>

DefinitionsInit ==
    /\ rows = [d \in Ids |-> NoDefinition]
    /\ links = {}
    /\ backups = Foreign
    /\ unsettled = {}

Stored(t) == {d \in Ids : t[d] # NoDefinition}
Versions(n) == {rows[d].version : d \in {e \in Stored(rows) : rows[e].name = n}}
NextVersion(n) == CHOOSE v \in 1..MaxVersion + 1 :
    \/ Versions(n) = {} /\ v = 1
    \/ v - 1 \in Versions(n) /\ \A w \in Versions(n) : w < v

Activated_AlsoOthers(t, id) == [t EXCEPT ![id].live = TRUE]

\* set_definition_active: this version is live and no other of its name.
Activated(t, id) == [d \in Ids |->
    IF d \in Stored(t) /\ t[d].name = t[id].name THEN [t[d] EXCEPT !.live = (d = id)] ELSE t[d]]

\* Some order of activating each of S in turn: the last of each name wins.
ActivatedEach(t, S) ==
    {[d \in Ids |-> IF d \in Stored(t) /\ \E e \in S : t[e].name = t[d].name
                    THEN [t[d] EXCEPT !.live = (d \in last)] ELSE t[d]]
     : last \in {L \in SUBSET S : \A e \in S : \E l \in L : {k \in L : t[k].name = t[e].name} = {l}}}

Added(id, n) == [rows EXCEPT ![id] = [name |-> n, version |-> NextVersion(n), live |-> FALSE]]

CreateDefinition(id, n, activate) ==
    /\ id \notin Stored(rows) /\ NextVersion(n) <= MaxVersion
    /\ rows' = IF activate THEN Activated(Added(id, n), id) ELSE Added(id, n)
    /\ unsettled' = IF activate THEN unsettled \ {n} ELSE unsettled
    /\ UNCHANGED <<links, backups>>

Activate(id) ==
    /\ id \in Stored(rows)
    /\ rows' = Activated(rows, id)
    /\ unsettled' = unsettled \ {rows[id].name}
    /\ UNCHANGED <<links, backups>>

DeleteDefinition_LinksFrom(id) ==
    /\ id \in Stored(rows)
    /\ rows' = [rows EXCEPT ![id] = NoDefinition]
    /\ links' = {l \in links : id # l[1]}
    /\ UNCHANGED <<backups, unsettled>>

\* A definition goes with the links from and to it.
DeleteDefinition(id) ==
    /\ id \in Stored(rows)
    /\ rows' = [rows EXCEPT ![id] = NoDefinition]
    /\ links' = {l \in links : id \notin {l[1], l[2]}}
    /\ UNCHANGED <<backups, unsettled>>

ExportBundle ==
    /\ Stored(rows) # {}
    /\ backups' = Foreign \cup {[rows |-> rows, links |-> links]}
    /\ UNCHANGED <<rows, links, unsettled>>

\* The ids of bundle b that are new here, in id, name and version.
NewRows(b) == {d \in Stored(b.rows) \ Stored(rows) :
    \A e \in Stored(rows) :
        ~(rows[e].name = b.rows[d].name /\ rows[e].version = b.rows[d].version)}

\* Rows come in as the bundle has them, live or not.
Inserted(b, S) == [d \in Ids |-> IF d \in S THEN b.rows[d] ELSE rows[d]]

ImportBundle(b) ==
    LET new == NewRows(b)
        with == Inserted(b, new)
    IN /\ rows' \in ActivatedEach(with, {d \in new : with[d].live})
       /\ links' = links \cup {l \in b.links : {l[1], l[2]} \subseteq Stored(with)}
       /\ unsettled' = unsettled \ {with[d].name : d \in {e \in new : with[e].live}}
       /\ UNCHANGED backups

\* It stops after some of the rows: none of them is routed through
\* set_definition_active, and no link is added.
ImportCut(b) ==
    \E S \in SUBSET NewRows(b) \ {{}} :
        /\ rows' = Inserted(b, S)
        /\ unsettled' = unsettled \cup {b.rows[d].name : d \in {e \in S : b.rows[e].live}}
        /\ UNCHANGED <<links, backups>>

DefinitionsNext ==
    \/ \E id \in Ids :
          \/ \E n \in Names, activate \in BOOLEAN : CreateDefinition(id, n, activate)
          \/ Activate(id) \/ DeleteDefinition(id)
    \/ ExportBundle
    \/ \E b \in backups : ImportBundle(b) \/ ImportCut(b)

DefinitionsSpec == DefinitionsInit /\ [][DefinitionsNext]_definitionVars

-----------------------------------------------------------------------------
(* Properties *)

DefinitionsTypeOK ==
    /\ rows \in [Ids -> Definition \cup {NoDefinition}]
    /\ links \subseteq Ids \X Ids
    /\ backups \subseteq Bundle
    /\ unsettled \subseteq Names

\* set_definition_active, "exactly one is ever live": no name has two live
\* versions, except a name whose import stopped half way, until one of its
\* versions is activated.
OneLiveVersion ==
    \A d, e \in Stored(rows) :
        rows[d].live /\ rows[e].live /\ rows[d].name = rows[e].name =>
            d = e \/ rows[d].name \in unsettled

\* delete_definition, "so no dangling wiring survives": both ends of every
\* link are in the library.
LinksResolve == \A l \in links : {l[1], l[2]} \subseteq Stored(rows)

=============================================================================
