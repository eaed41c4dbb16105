--------------------------- MODULE WorktreeReview ---------------------------
(***************************************************************************)
(* What the PM is told of the work in the worktrees: the diff of a lease   *)
(* (WorktreeManager._diff_for_lease), the merge risk of two sessions, and  *)
(* a promotion. A diff is several git commands, and the coding agents go   *)
(* on working between them: one command is one step. Any of them may fail  *)
(* or overrun its time; when git ls-files does, nobody is told.            *)
(*                                                                         *)
(* A file is its path and whose content it has: that of a file of the      *)
(* base, some other content, or none.                                      *)
(***************************************************************************)
EXTENDS Naturals, FiniteSets

CONSTANTS
    Leased,          \* the leased worktrees, one of a session each
    Files,          \* paths
    Base,           \* the paths of the commit the worktrees started from
    LogsIgnored,    \* the repository ignores .foreman/tool-logs
    MaxChanges      \* changes agents make, a bound

ASSUME ReviewAssumption == Base \subseteq Files /\ LogsIgnored \in BOOLEAN /\ MaxChanges \in Nat

VARIABLES
    tree,       \* what stands at a path of a worktree
    index,      \* paths git tracks in it
    open,       \* worktrees with changes that are not committed
    commits,    \* worktrees with commits of their own
    patch,      \* the patch file of a diff: none, untracked or tracked
    leased,     \* worktrees whose lease is active
    check,      \* the merge risk check under way
    stirred,    \* history: paths some worktree changed since it began
    told,       \* the last answer
    changes     \* changes so far

reviewVars == <<tree, index, open, commits, patch, leased, check, stirred, told, changes>>

Gone == "gone"
Other == "other"
AtBase == [p \in Files |-> IF p \in Base THEN p ELSE Gone]
NoCheck == [at |-> "idle", by |-> "", with |-> "", mine |-> {}, theirs |-> {},
            both |-> {}, unlisted |-> {}]
NoAnswer == [risk |-> "", overlooked |-> {}, unlisted |-> {}, ready |-> FALSE]

ReviewInit ==
    /\ tree = [w \in Leased |-> AtBase]
    /\ index = [w \in Leased |-> Base]
    /\ open = {} /\ commits = {}
    /\ patch = [w \in Leased |-> "none"]
    /\ leased = Leased
    /\ check = NoCheck
    /\ stirred = {}
    /\ told = NoAnswer
    /\ changes = 0

-----------------------------------------------------------------------------
(* The coding agents and the users, with git.                              *)

Touched(w) == {p \in Files : tree[w][p] # AtBase[p]}

Stir(ps) ==
    /\ changes < MaxChanges /\ changes' = changes + 1
    /\ stirred' = IF check.at = "idle" THEN {} ELSE stirred \cup ps

\* An agent writes or deletes a file.
Write(w, p, c) ==
    /\ c \in {Other, Gone} /\ tree[w][p] # c
    /\ tree' = [tree EXCEPT ![w][p] = c]
    /\ open' = open \cup {w}
    /\ Stir({p})
    /\ UNCHANGED <<index, commits, patch, leased, check, told>>

\* An agent moves a file.
Move(w, p, q) ==
    /\ p # q /\ tree[w][p] # Gone /\ tree[w][q] = Gone
    /\ tree' = [tree EXCEPT ![w][q] = tree[w][p], ![w][p] = Gone]
    /\ open' = open \cup {w}
    /\ Stir({p, q})
    /\ UNCHANGED <<index, commits, patch, leased, check, told>>

\* git add -A and commit: whatever is not ignored, the patch file too.
CommitAll(w) ==
    LET present == {p \in Files : tree[w][p] # Gone} IN
    /\ w \in open
    /\ open' = open \ {w} /\ commits' = commits \cup {w}
    /\ index' = [index EXCEPT ![w] = present]
    /\ patch' = [patch EXCEPT ![w] =
                    IF @ = "untracked" /\ ~LogsIgnored THEN "tracked" ELSE @]
    /\ Stir({p \in Files : (p \in present) # (p \in index[w])})
    /\ UNCHANGED <<tree, leased, check, told>>

Release(w) ==
    /\ w \in leased /\ Cardinality(leased) > 1
    /\ leased' = leased \ {w}
    /\ UNCHANGED <<tree, index, open, commits, patch, check, stirred, told, changes>>

-----------------------------------------------------------------------------
(* A diff: what git diff -M says of the base, then the untracked files.    *)

\* The tracked files that changed, each with the path it was moved from. git
\* pairs a path that is gone with one new path of the same content.
Entries(w) ==
    LET gone == {p \in Base : tree[w][p] = Gone \/ p \notin index[w]}
        new == {p \in index[w] \ Base : tree[w][p] # Gone}
        heir(f) == {g \in new : tree[w][g] = f}
        moved == {f \in gone : heir(f) # {}}
        to(f) == CHOOSE g \in heir(f) : TRUE
    IN  {[path |-> to(f), old |-> {f}] : f \in moved}
        \cup {[path |-> p, old |-> {}] :
                p \in (gone \ moved) \cup (new \ {to(f) : f \in moved})
                      \cup {q \in Base \cap index[w] : tree[w][q] \notin {q, Gone}}}

\* The untracked files; those of the tool logs are passed over.
Untracked(w) == {p \in Files \ index[w] : tree[w][p] # Gone}

\* What git ls-files answers of them: none when it fails.
Listed(w, fails) == IF fails THEN {} ELSE Untracked(w)

FilePaths_NewNames(entries) == {e.path : e \in entries}

\* The paths the files of a diff stand for.
FilePaths(entries) == UNION {{e.path} \cup e.old : e \in entries}

-----------------------------------------------------------------------------
(* worktree_merge_risk_check.                                              *)

\* The lease a check compares with: the one asked for if it is active (the
\* session's own, if that was asked for), or else another active one.
OtherLease(w, asked) ==
    IF asked \in leased THEN {asked} ELSE leased \ {w}

CheckBegins(w, asked) ==
    /\ check.at = "idle" /\ w \in leased
    /\ \E v \in OtherLease(w, asked) :
          check' = [at |-> "tracked", by |-> w, with |-> v,
                    mine |-> FilePaths(Entries(w)), theirs |-> {},
                    both |-> Touched(w) \cap Touched(v), unlisted |-> {}]
    /\ stirred' = {}
    /\ UNCHANGED <<tree, index, open, commits, patch, leased, told, changes>>

CheckReads ==
    /\ \/ /\ check.at = "tracked"
          /\ \E fails \in BOOLEAN :
                check' = [check EXCEPT !.at = "mine",
                                       !.mine = @ \cup Listed(check.by, fails),
                                       !.unlisted = Untracked(check.by) \ Listed(check.by, fails)]
       \/ /\ check.at = "mine"
          /\ check' = [check EXCEPT !.at = "theirs", !.theirs = FilePaths(Entries(check.with))]
    /\ UNCHANGED <<tree, index, open, commits, patch, leased, stirred, told, changes>>

\* The last git ls-files, and the answer: what it does not tell of what both
\* had changed, and what no git ls-files had listed.
CheckAnswers(fails) ==
    LET theirs == check.theirs \cup Listed(check.with, fails)
        risk == IF check.mine \cap theirs # {} THEN "high"
                ELSE IF check.mine \cup theirs # {} THEN "low" ELSE "none"
    IN
    /\ check.at = "theirs"
    /\ told' = [risk |-> risk, ready |-> FALSE,
                overlooked |-> IF risk = "high" THEN {} ELSE check.both \ stirred,
                unlisted |-> check.unlisted \cup (Untracked(check.with) \ Listed(check.with, fails))]
    /\ check' = NoCheck
    /\ stirred' = {}
    /\ UNCHANGED <<tree, index, open, commits, patch, leased, changes>>

\* Any other git command that fails ends the check with an error.
CheckFails ==
    /\ check.at # "idle"
    /\ told' = NoAnswer /\ check' = NoCheck
    /\ stirred' = {}
    /\ UNCHANGED <<tree, index, open, commits, patch, leased, changes>>

-----------------------------------------------------------------------------
(* worktree_promote, and worktree_diff, which writes the same patch file.  *)

\* A diff that finds something leaves its patch in the worktree.
HasChanges(w, fails) == Entries(w) # {} \/ Listed(w, fails) # {}

Patched(w, fails) ==
    IF patch[w] = "none" /\ HasChanges(w, fails)
    THEN [patch EXCEPT ![w] = "untracked"] ELSE patch

Dirty(w, at) == w \in open \/ (at[w] = "untracked" /\ ~LogsIgnored)

Diff(w, fails) ==
    /\ w \in leased /\ check.at = "idle"
    /\ patch' = Patched(w, fails)
    /\ UNCHANGED <<tree, index, open, commits, leased, check, stirred, told, changes>>

\* The diff comes before git status, and writes its patch there.
Promote(w, tested, fails) ==
    /\ w \in leased /\ check.at = "idle"
    /\ patch' = Patched(w, fails)
    /\ told' = [NoAnswer EXCEPT !.ready = ~Dirty(w, patch') /\ tested
                                          /\ (HasChanges(w, fails) \/ w \in commits)]
    /\ UNCHANGED <<tree, index, open, commits, leased, check, stirred, changes>>

TreeStep(w) ==
    \/ \E p \in Files, c \in {Other, Gone} : Write(w, p, c)
    \/ \E p, q \in Files : Move(w, p, q)
    \/ CommitAll(w) \/ Release(w)
    \/ \E v \in Leased : CheckBegins(w, v)
    \/ \E tested, fails \in BOOLEAN : Diff(w, fails) \/ Promote(w, tested, fails)

ReviewNext ==
    \/ \E w \in Leased : TreeStep(w)
    \/ CheckReads \/ CheckFails
    \/ \E fails \in BOOLEAN : CheckAnswers(fails)

ReviewSpec == ReviewInit /\ [][ReviewNext]_reviewVars

-----------------------------------------------------------------------------
(* Properties.                                                             *)

\* A path both sessions had changed when the check began, and nobody touched
\* while it ran, makes the risk high: moved, deleted, committed or not. It is
\* missed only if it is untracked in a worktree whose git ls-files failed.
NothingOverlooked == told.overlooked \subseteq told.unlisted

\* No such path is missed at all.
EveryClashIsTold == told.overlooked = {}
=============================================================================
