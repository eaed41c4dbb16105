--------------------------- MODULE WorktreeLeases ---------------------------
(***************************************************************************)
(* The worktrees of the sessions: WorktreeManager's plan, create, bind,    *)
(* diff and cleanup, the leases they keep in the store and what git has.   *)
(* Every git command and store call is synchronous, so one tool call is    *)
(* one step unless git overruns its time or the process dies in between.   *)
(*                                                                         *)
(* A worktree is created under the name of its session and its work (slug),*)
(* which is also its branch; a custom path may be any other such name.     *)
(***************************************************************************)
EXTENDS Naturals, FiniteSets

CONSTANTS
    Sessions,
    Works,          \* slugs the PM may choose
    Leases,         \* identities of lease rows, a bound on creations
    MaxTasks,       \* tasks of a session, a bound on its turns
    AllowCustom,    \* allow_custom_worktree_path
    Nowhere         \* no worktree, no branch, no session

ASSUME LeaseAssumption ==
    /\ MaxTasks \in Nat
    /\ AllowCustom \in BOOLEAN
    /\ Nowhere \notin Sessions
    /\ Nowhere \notin Sessions \X Works

VARIABLES
    reg,        \* branch of the worktree git has registered at a path
    dirs,       \* paths whose directory exists
    dirt,       \* worktrees with files git status reports
    branches,   \* branches that exist
    ahead,      \* branches with commits their base does not have
    lease,      \* the rows of the leases
    task,       \* number of the session's current task
    live,       \* sessions at work
    bound,      \* Session.workspace: a worktree or the main checkout
    maker,      \* history: the session whose create made the worktree
    meddled     \* history: a user used git here, or a cleanup was cut short

gitVars == <<reg, dirs, dirt, branches, ahead, maker>>
leaseVars == <<reg, dirs, dirt, branches, ahead, lease, task, live, bound, maker, meddled>>

Path == Sessions \X Works
LeaseStatuses == {"free", "active", "released", "removed"}
Row == [status : LeaseStatuses, session : Sessions \cup {Nowhere}, task : Nat,
        path : Path \cup {Nowhere}, branch : Path \cup {Nowhere}]
NoRow == [status |-> "free", session |-> Nowhere, task |-> 0,
          path |-> Nowhere, branch |-> Nowhere]

LeaseTypeOK ==
    /\ reg \in [Path -> Path \cup {Nowhere}]
    /\ dirs \in SUBSET Path /\ dirt \in SUBSET dirs
    /\ branches \in SUBSET Path /\ ahead \in SUBSET branches
    /\ lease \in [Leases -> Row]
    /\ task \in [Sessions -> 0 .. MaxTasks]
    /\ live \in SUBSET Sessions
    /\ bound \in [Sessions -> Path \cup {Nowhere}]
    /\ maker \in [Path -> Sessions \cup {Nowhere}]
    /\ meddled \in BOOLEAN

LeaseInit ==
    /\ reg = [p \in Path |-> Nowhere]
    /\ dirs = {} /\ dirt = {} /\ branches = {} /\ ahead = {}
    /\ lease = [i \in Leases |-> NoRow]
    /\ task = [s \in Sessions |-> 0]
    /\ live = {}
    /\ bound = [s \in Sessions |-> Nowhere]
    /\ maker = [p \in Path |-> Nowhere]
    /\ meddled = FALSE

-----------------------------------------------------------------------------
(* Looking things up.                                                      *)

Active(i) == lease[i].status = "active"

\* The worktrees a path or a branch stands for: the one at the path, or else
\* one that has the branch checked out.
Found(p, b) ==
    IF reg[p] # Nowhere THEN {p} ELSE {q \in Path : reg[q] = b}

\* The leases a reuse of path p would go by.
Owned(s, p) ==
    {i \in Leases : /\ Active(i) /\ lease[i].path = p
                    /\ lease[i].session = s /\ lease[i].task = task[s]}

\* The path a plan proposes.
Proposed(s, w) == IF AllowCustom THEN Path ELSE {<<s, w>>}

Planned(s, w, p) == Found(p, <<s, w>>) = {} /\ p \notin dirs /\ <<s, w>> \notin branches

\* The worktree a session's next launch works in.
Workplace(s) == IF bound[s] \in dirs THEN bound[s] ELSE Nowhere

-----------------------------------------------------------------------------
(* Creating and binding.                                                   *)

\* git worktree add -b succeeds.
Checkout(s, w, p) ==
    /\ reg' = [reg EXCEPT ![p] = <<s, w>>]
    /\ dirs' = dirs \cup {p}
    /\ branches' = branches \cup {<<s, w>>}
    /\ maker' = [maker EXCEPT ![p] = s]
    /\ UNCHANGED <<dirt, ahead>>

Bindable(s, i) ==
    /\ Active(i) /\ lease[i].session = s
    /\ lease[i].path \in dirs \ dirt
    /\ Found(lease[i].path, lease[i].branch) # {}
    /\ \A j \in Leases \ {i} : ~(Active(j) /\ lease[j].path = lease[i].path)

\* create goes through; a new worktree is clean, so it can be bound at once.
Create(s, w, p, bind) ==
    /\ s \in live /\ p \in Proposed(s, w) /\ Planned(s, w, p)
    /\ \A j \in Leases : ~(Active(j) /\ lease[j].path = p)
    /\ \E i \in Leases :
          /\ lease[i] = NoRow
          /\ lease' = [lease EXCEPT ![i] = [status |-> "active", session |-> s,
                          task |-> task[s], path |-> p, branch |-> <<s, w>>]]
    /\ bound' = [bound EXCEPT ![s] = IF bind THEN p ELSE @]
    /\ Checkout(s, w, p)
    /\ UNCHANGED <<task, live, meddled>>

\* git has made the worktree, and no lease follows: the check of the result
\* fails, the store has an active lease for the path, or the process dies.
CreateUnleased(s, w, p) ==
    /\ s \in live /\ p \in Proposed(s, w) /\ Planned(s, w, p)
    /\ Checkout(s, w, p)
    /\ UNCHANGED <<lease, task, live, bound, meddled>>

\* git worktree add overruns its time: the directory is deleted again, the
\* registration and the branch stay.
CreateTimesOut(s, w, p) ==
    /\ s \in live /\ p \in Proposed(s, w) /\ Planned(s, w, p)
    /\ reg' = [reg EXCEPT ![p] = <<s, w>>]
    /\ branches' = branches \cup {<<s, w>>}
    /\ maker' = [maker EXCEPT ![p] = s]
    /\ UNCHANGED <<dirs, dirt, ahead, lease, task, live, bound, meddled>>

\* create finds a clean worktree of the same session and task, and binds it.
Reuse(s, w, p) ==
    /\ s \in live /\ p \in Proposed(s, w)
    /\ \E q \in Found(p, <<s, w>>) : \E i \in Owned(s, q) :
          /\ q \in dirs \ dirt
          /\ Bindable(s, i)
          /\ bound' = [bound EXCEPT ![s] = q]
    /\ UNCHANGED <<gitVars, lease, task, live, meddled>>

BindSession(s, i) ==
    /\ s \in live /\ Bindable(s, i)
    /\ bound' = [bound EXCEPT ![s] = lease[i].path]
    /\ UNCHANGED <<gitVars, lease, task, live, meddled>>

-----------------------------------------------------------------------------
(* Diff and cleanup.                                                       *)

\* The patch of a diff (and of a promotion) is written into the worktree.
DiffWritesPatch(s) ==
    /\ s \in live
    /\ \E i \in Leases :
          /\ Active(i) /\ lease[i].session = s /\ lease[i].path \in dirs \ dirt
          /\ reg[lease[i].path] \in ahead
          /\ dirt' = dirt \cup {lease[i].path}
    /\ UNCHANGED <<reg, dirs, branches, ahead, lease, task, live, bound, maker, meddled>>

CleanupLease_AnySession(s) ==
    LET of(st) == {i \in Leases : lease[i].status = st}
    IN  IF of("active") # {} THEN of("active") ELSE of("released")

\* The lease a cleanup is about: an active one of the session, or else a
\* released one. (A removed one is answered without a step.)
CleanupLease(s) ==
    LET of(st) == {i \in Leases : lease[i].session = s /\ lease[i].status = st}
    IN  IF of("active") # {} THEN of("active") ELSE of("released")

MarkRemoved(i) == lease' = [lease EXCEPT ![i].status = "removed"]

CleanupFindsNothing(s) ==
    /\ s \in live
    /\ \E i \in CleanupLease(s) : lease[i].path \notin dirs /\ MarkRemoved(i)
    /\ UNCHANGED <<gitVars, task, live, bound, meddled>>

Removable_Dirty(i) == lease[i].path \in dirs

\* Clean, and merged: a released lease counts as merged.
Removable(i) ==
    /\ lease[i].path \in dirs \ dirt
    /\ lease[i].status = "released" \/ reg[lease[i].path] \notin ahead

\* git worktree remove, then prune, which forgets every missing directory.
RemoveWorktree(p) ==
    /\ reg' = [q \in Path |-> IF q = p \/ q \notin dirs THEN Nowhere ELSE reg[q]]
    /\ dirs' = dirs \ {p}
    /\ dirt' = dirt \ {p}
    /\ maker' = [q \in Path |-> IF q = p \/ q \notin dirs THEN Nowhere ELSE maker[q]]
    /\ UNCHANGED <<branches, ahead>>

Cleanup_LeaseKept(s) ==
    /\ s \in live
    /\ \E i \in CleanupLease(s) : Removable(i) /\ RemoveWorktree(lease[i].path)
    /\ UNCHANGED <<lease, task, live, bound, meddled>>

Cleanup(s) ==
    /\ s \in live
    /\ \E i \in CleanupLease(s) :
          Removable(i) /\ RemoveWorktree(lease[i].path) /\ MarkRemoved(i)
    /\ UNCHANGED <<task, live, bound, meddled>>

\* The worktree is gone and the lease is not marked: git overran its time
\* after the deed, or the process died.
CleanupCut(s) ==
    /\ s \in live
    /\ \E i \in CleanupLease(s) :
          LET p == lease[i].path IN
          /\ Removable(i)
          /\ reg' = [reg EXCEPT ![p] = Nowhere]
          /\ dirs' = dirs \ {p}
          /\ maker' = [maker EXCEPT ![p] = Nowhere]
    /\ meddled' = TRUE
    /\ UNCHANGED <<dirt, branches, ahead, lease, task, live, bound>>

-----------------------------------------------------------------------------
(* Sessions, their agents, users, and the death of the process.            *)

Begin(s) ==
    /\ s \notin live /\ task[s] < MaxTasks
    /\ task' = [task EXCEPT ![s] = @ + 1]
    /\ live' = live \cup {s}
    /\ UNCHANGED <<gitVars, lease, bound, meddled>>

End(s) ==
    /\ s \in live
    /\ live' = live \ {s}
    /\ lease' = [i \in Leases |-> IF lease[i].session = s /\ Active(i)
                                  THEN [lease[i] EXCEPT !.status = "released"] ELSE lease[i]]
    /\ UNCHANGED <<gitVars, task, bound, meddled>>

Edit(s) ==
    /\ s \in live /\ Workplace(s) # Nowhere
    /\ dirt' = dirt \cup {Workplace(s)}
    /\ UNCHANGED <<reg, dirs, branches, ahead, lease, task, live, bound, maker, meddled>>

Commit(s) ==
    /\ s \in live /\ Workplace(s) \in dirt
    /\ dirt' = dirt \ {Workplace(s)}
    /\ ahead' = ahead \cup {reg[Workplace(s)]}
    /\ UNCHANGED <<reg, dirs, branches, lease, task, live, bound, maker, meddled>>

\* A user's git worktree remove (which refuses a dirty one), and one of his own.
UserRemoves(p) ==
    /\ p \in dirs \ dirt
    /\ reg' = [reg EXCEPT ![p] = Nowhere]
    /\ dirs' = dirs \ {p}
    /\ maker' = [maker EXCEPT ![p] = Nowhere]
    /\ meddled' = TRUE
    /\ UNCHANGED <<dirt, branches, ahead, lease, task, live, bound>>

UserAdds(p, b) ==
    /\ reg[p] = Nowhere /\ b \notin branches
    /\ reg' = [reg EXCEPT ![p] = b]
    /\ dirs' = dirs \cup {p}
    /\ branches' = branches \cup {b}
    /\ meddled' = TRUE
    /\ UNCHANGED <<dirt, ahead, lease, task, live, bound, maker>>

ProcessDies ==
    /\ live # {}
    /\ live' = {}
    /\ UNCHANGED <<gitVars, lease, task, bound, meddled>>

SessionStep(s) ==
    \/ Begin(s) \/ End(s) \/ Edit(s) \/ Commit(s)
    \/ DiffWritesPatch(s) \/ CleanupFindsNothing(s) \/ Cleanup(s) \/ CleanupCut(s)
    \/ \E i \in Leases : BindSession(s, i)
    \/ \E w \in Works, p \in Path :
          \/ \E bind \in BOOLEAN : Create(s, w, p, bind)
          \/ CreateUnleased(s, w, p) \/ CreateTimesOut(s, w, p) \/ Reuse(s, w, p)

UserStep == \E p \in Path : UserRemoves(p) \/ \E b \in Path : UserAdds(p, b)

LeaseNext == (\E s \in Sessions : SessionStep(s)) \/ UserStep \/ ProcessDies

LeaseSpec == LeaseInit /\ [][LeaseNext]_leaseVars

-----------------------------------------------------------------------------
(* Properties.                                                             *)

\* The store and git agree: a path has at most one active lease, whatever git
\* and the users do to the directories; and an active lease has its worktree, on
\* its branch, made by its session, unless somebody else used git or a cleanup
\* was cut.
LeaseHasWorktree ==
    \A i \in Leases : Active(i) =>
        /\ \A j \in Leases \ {i} : ~(Active(j) /\ lease[j].path = lease[i].path)
        /\ ~meddled => /\ lease[i].path \in dirs
                       /\ reg[lease[i].path] = lease[i].branch
                       /\ maker[lease[i].path] = lease[i].session

\* No step takes away a worktree with uncommitted files.
UncommittedStays == [][dirt \subseteq dirs']_leaseVars

\* A cleanup removes no worktree but one its session made, as long as nobody
\* else used git and no cleanup was cut.
CleanupTakesOwn ==
    [][\A s \in Sessions : Cleanup(s) /\ ~meddled =>
          \A p \in dirs \ dirs' : maker[p] = s]_leaseVars

\* Two sessions at work never write in the same worktree.
SoleWriter ==
    \A s, t \in live : Workplace(s) = Workplace(t) /\ Workplace(s) # Nowhere => s = t
=============================================================================
