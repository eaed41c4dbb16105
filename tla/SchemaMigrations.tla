-------------------------- MODULE SchemaMigrations --------------------------
(***************************************************************************)
(* The schema of the client's database: create_all, then the migrations    *)
(* the ledger does not list, in order. A program of any release may open   *)
(* the file, as an update can be rolled back, and a command of the command *)
(* line opens it beside the program. A release is named by the last        *)
(* migration it knows; how an earlier one uses the leases is taken from    *)
(* what its migrations say.                                                *)
(*                                                                         *)
(* SQLite's driver begins a transaction with the first UPDATE or INSERT:   *)
(* a CREATE, ALTER or DROP before that is a step of its own.               *)
(***************************************************************************)
EXTENDS Naturals, Sequences, FiniteSets

CONSTANTS
    Openers,    \* programs that may open the database
    Releases,   \* the releases they may be of
    Paths,      \* paths of worktrees
    MaxRows     \* a bound on the leases written

Latest == 8

ASSUME MigrationAssumption == Releases \subseteq 0 .. Latest /\ MaxRows \in Nat

VARIABLES
    shape,      \* tables, columns and indexes the file has
    ledger,     \* the versions recorded as applied
    leaseRows,  \* worktree_leases, by rowid
    opener,     \* where each program is
    bare,       \* whether a table was left without the indexes its model declares
    begun,      \* history: the last version an upgrade has begun
    crossed     \* history: a program was opened beside an upgrade, beside one of
                \* another release, or after a cut upgrade to a later release

schemaVars == <<shape, ledger, leaseRows, opener, bare, begun, crossed>>

\* The tables the upgrades touch, with the release that brought them and their
\* place in the order they are made in (by what they refer to, then by name).
Tables == {<<"event", 0, 1>>, <<"session", 0, 2>>, <<"worktree_leases", 6, 3>>,
           <<"context_checkpoints", 3, 4>>, <<"context_frames", 3, 5>>, <<"decisioncard", 0, 6>>}

\* Those whose columns are declared as indexed.
Indexed == {t \in Tables : t[1] # "session"}

ActivePath == "ux_worktree_leases_active_path"
WritePath == "ux_worktree_leases_active_write_path"

Add(x) == [op |-> "add", what |-> x]
Drop(x) == [op |-> "drop", what |-> x]

\* The columns later releases added: by which release, to which table.
Columns == {<<1, "decisioncard", "diff_stat">>, <<2, "session", "main_workspace">>,
            <<3, "session", "latest_context_checkpoint_id">>,
            <<4, "session", "context_materialized_until_ts">>,
            <<4, "session", "context_materialized_until_event_id">>}

\* Those of them that a table has when release n creates it.
ColumnsOf(t, n) == {c[3] : c \in {d \in Columns : d[1] <= n /\ d[2] = t}}

\* What each upgrade does before its first UPDATE or INSERT.
Ddl == <<
    <<Add("diff_stat")>>,
    <<Add("main_workspace")>>,
    <<Add("latest_context_checkpoint_id")>>,
    <<Add("context_materialized_until_ts"), Add("context_materialized_until_event_id")>>,
    <<Add("ix_event_session_ts_id"), Add("ix_context_frames_session_event_order"),
      Add("ix_context_checkpoints_session_created_id")>>,
    <<Add("worktree_leases"), Add("ix_worktree_leases_session_status"),
      Add("ix_worktree_leases_path_status"), Add(ActivePath)>>,
    <<Drop(ActivePath), Add(WritePath)>>,
    <<Drop(WritePath), Drop(ActivePath)>> >>

Down == [phase |-> "down", release |-> 0, version |-> 0, next |-> 0, making |-> {}]
Opening(n) == [phase |-> "tables", release |-> n, version |-> 0, next |-> 1, making |-> {}]
Upgrading == {p \in Openers : opener[p].phase \in {"tables", "upgrade"}}

SchemaInit ==
    /\ shape = {} /\ ledger = {} /\ leaseRows = <<>>
    /\ opener = [p \in Openers |-> Down]
    /\ bare = FALSE /\ begun = 0 /\ crossed = FALSE

-----------------------------------------------------------------------------
(* Leases and the indexes over them.                                       *)

ActiveAt(path) == {i \in DOMAIN leaseRows : leaseRows[i].path = path /\ leaseRows[i].status = "active"}
LockedAt(path) == {i \in ActiveAt(path) : leaseRows[i].locked}

\* Whether the rows admit a unique index.
Admitted(x) ==
    \A path \in Paths :
        /\ x = ActivePath => Cardinality(ActiveAt(path)) <= 1
        /\ x = WritePath => Cardinality(LockedAt(path)) <= 1

AddLease(p, path, locked) ==
    /\ opener[p].phase = "open" /\ opener[p].release >= 6
    /\ Len(leaseRows) < MaxRows
    /\ opener[p].release = Latest => locked
    /\ ActivePath \in shape => ActiveAt(path) = {}
    /\ WritePath \in shape /\ locked => LockedAt(path) = {}
    /\ leaseRows' = Append(leaseRows, [path |-> path, status |-> "active", locked |-> locked])
    /\ UNCHANGED <<shape, ledger, opener, bare, begun, crossed>>

ReleaseLease(p, i) ==
    /\ opener[p].phase = "open" /\ opener[p].release >= 6
    /\ i \in DOMAIN leaseRows /\ leaseRows[i].status = "active"
    /\ leaseRows' = [leaseRows EXCEPT ![i].status = "released", ![i].locked = FALSE]
    /\ UNCHANGED <<shape, ledger, opener, bare, begun, crossed>>

-----------------------------------------------------------------------------
(* Opening.                                                                *)

Open(p, n) ==
    /\ opener[p] = Down
    /\ opener' = [opener EXCEPT ![p] = Opening(n)]
    /\ crossed' =
          \/ crossed
          \/ n < begun /\ begun \notin ledger
          \/ \E q \in Openers \ {p} :
                opener[q] # Down /\ (q \in Upgrading \/ opener[q].release # n)
    /\ UNCHANGED <<shape, ledger, leaseRows, bare, begun>>

Missing(n) == {t \in Tables : t[2] <= n /\ t[1] \notin shape}

\* create_all makes the next missing table, in the form this release has, ...
CreateTable(p, t) ==
    /\ opener[p].phase = "tables" /\ opener[p].making = {}
    /\ t \in Missing(opener[p].release)
    /\ \A u \in Missing(opener[p].release) : t[3] <= u[3]
    /\ shape' = shape \cup {t[1]} \cup ColumnsOf(t[1], opener[p].release)
    /\ opener' = [opener EXCEPT ![p].making = {t} \cap Indexed]
    /\ UNCHANGED <<ledger, leaseRows, bare, begun, crossed>>

\* ... and then its indexes, which it never looks for on a table it finds.
CreateIndexes(p) ==
    /\ opener[p].phase = "tables" /\ opener[p].making # {}
    /\ opener' = [opener EXCEPT ![p].making = {}]
    /\ UNCHANGED <<shape, ledger, leaseRows, bare, begun, crossed>>

\* A program of release n whose next version to apply is v.
At(n, v) ==
    IF v > n THEN [phase |-> "open", release |-> n, version |-> 0, next |-> 0, making |-> {}]
    ELSE [phase |-> "upgrade", release |-> n, version |-> v, next |-> 1, making |-> {}]

ReadLedger_BeforeTables(p) ==
    /\ opener[p].phase = "tables"
    /\ opener' = [opener EXCEPT ![p] = At(@.release, Cardinality(ledger) + 1)]
    /\ UNCHANGED <<shape, ledger, leaseRows, bare, begun, crossed>>

\* The ledger is made and read: it lists the versions up to some one.
ReadLedger(p) ==
    /\ opener[p].phase = "tables" /\ opener[p].making = {} /\ Missing(opener[p].release) = {}
    /\ opener' = [opener EXCEPT ![p] = At(@.release, Cardinality(ledger) + 1)]
    /\ UNCHANGED <<shape, ledger, leaseRows, bare, begun, crossed>>

\* One statement of an upgrade before its transaction.
Alter(p) ==
    LET at == opener[p]  do == Ddl[at.version][at.next] IN
    /\ at.phase = "upgrade" /\ at.next <= Len(Ddl[at.version])
    /\ do.op = "add" => Admitted(do.what)
    /\ shape' = IF do.op = "add" THEN shape \cup {do.what} ELSE shape \ {do.what}
    /\ opener' = [opener EXCEPT ![p].next = @ + 1]
    /\ begun' = IF begun < at.version THEN at.version ELSE begun
    /\ UNCHANGED <<ledger, leaseRows, bare, crossed>>

\* The last active lease of a path stays, the others are stale.
Deduplicated ==
    [i \in DOMAIN leaseRows |->
        IF leaseRows[i].status = "active" /\ \E j \in ActiveAt(leaseRows[i].path) : j > i
        THEN [leaseRows[i] EXCEPT !.status = "stale", !.locked = FALSE] ELSE leaseRows[i]]

AtStamp(p) ==
    /\ opener[p].phase = "upgrade"
    /\ opener[p].next > Len(Ddl[opener[p].version])

\* The transaction: the upgrade's updates, what follows them, and the ledger.
Stamp(p) ==
    LET v == opener[p].version IN
    /\ AtStamp(p) /\ v \notin ledger
    /\ ledger' = ledger \cup {v}
    /\ leaseRows' = IF v = 8 THEN Deduplicated ELSE leaseRows
    /\ shape' = IF v = 8 THEN shape \cup {ActivePath} ELSE shape
    /\ opener' = [opener EXCEPT ![p] = At(@.release, v + 1)]
    /\ UNCHANGED <<bare, begun, crossed>>

\* The rows do not admit the index, or the version is recorded by now: the
\* transaction is rolled back and the program does not start.
Refused(p) ==
    LET at == opener[p] IN
    \/ AtStamp(p) /\ at.version \in ledger
    \/ /\ at.phase = "upgrade" /\ ~AtStamp(p)
       /\ Ddl[at.version][at.next].op = "add"
       /\ ~Admitted(Ddl[at.version][at.next].what)

CloseFile(p) ==
    /\ opener[p] # Down
    /\ opener' = [opener EXCEPT ![p] = Down]
    /\ bare' = (bare \/ opener[p].making # {})
    /\ UNCHANGED <<shape, ledger, leaseRows, begun, crossed>>

SchemaNext ==
    \E p \in Openers :
        \/ \E n \in Releases : Open(p, n)
        \/ \E t \in Tables : CreateTable(p, t)
        \/ CreateIndexes(p) \/ ReadLedger(p) \/ Alter(p) \/ Stamp(p) \/ CloseFile(p)
        \/ \E path \in Paths, locked \in BOOLEAN : AddLease(p, path, locked)
        \/ \E i \in 1 .. MaxRows : ReleaseLease(p, i)

SchemaSpec == SchemaInit /\ [][SchemaNext]_schemaVars

-----------------------------------------------------------------------------
(* Properties.                                                             *)

\* What release n has to find, but for its guard against two leases of a path
\* and the indexes the tables' models declare (IndexesAreMade, below).
Needs(n) ==
    {t[1] : t \in {u \in Tables : u[2] <= n}}
    \cup {c[3] : c \in {d \in Columns : d[1] <= n}}
    \cup {Ddl[5][k].what : k \in {j \in 1 .. 3 : n >= 5}}
    \cup {Ddl[6][k].what : k \in {j \in 2 .. 3 : n >= 6}}

\* Wherever programs of any release crashed or ran before, an upgrade is not
\* refused, and what a program opens is whole: it finds every table and column
\* of its release, the indexes the upgrades make and the versions it knows, from
\* release 6 on a guard against two leases of a path, and the latest no path
\* with two active leases.  This is so until a program is opened beside an
\* upgrade or beside one of another release, or after a later release's upgrade
\* that was cut short (GuardOutlivesRace and CrashKeepsVersion, below).
UpgradeIsWhole ==
    ~crossed => \A p \in Openers :
        /\ ~Refused(p)
        /\ opener[p].phase = "open" =>
              Needs(opener[p].release) \subseteq shape /\ 1 .. opener[p].release \subseteq ledger
        /\ opener[p].phase = "open" /\ opener[p].release >= 6 =>
              shape \cap {ActivePath, WritePath} # {}
        /\ opener[p].phase = "open" /\ opener[p].release = Latest =>
              /\ ActivePath \in shape
              /\ \A path \in Paths : Cardinality(ActiveAt(path)) <= 1

\* Store.init: create_all and the upgrades "are idempotent, so this [...] resumes
\* cleanly after a crash" (not so: a table that a crash left without its indexes
\* is never given them).
IndexesAreMade ==
    \A p \in Openers : opener[p].phase = "open" => ~bare

\* A crash leaves the database at the last version applied, for a release that
\* knows no more (not so: version 8 has dropped the guard of version 7 by then).
CrashKeepsVersion ==
    \A p \in Openers :
        opener[p].phase = "open" /\ opener[p].release >= 6 =>
            shape \cap {ActivePath, WritePath} # {}

\* Whoever upgrades at the same time, a database the ledger calls upgraded
\* and nobody is upgrading has the guard (not so: the second program drops
\* the index and is then refused, and nothing makes it again).
GuardOutlivesRace ==
    Latest \in ledger /\ Upgrading = {} => ActivePath \in shape
=============================================================================
