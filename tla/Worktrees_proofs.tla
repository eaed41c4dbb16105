--------------------------- MODULE Worktrees_proofs ---------------------------
(***************************************************************************)
(* Proofs about where agents work: the leases of worktrees, the            *)
(* workspaces that use them, the check of two leases for overlaps and the  *)
(* runs of workflows, for any sessions, works, files and steps. Each part  *)
(* states its types and its inductive invariant before its theorems.       *)
(***************************************************************************)
EXTENDS WorktreeLeases, Workspaces, WorktreeReview, WorkflowRuns, TLAPS

-----------------------------------------------------------------------------
(* Leases of worktrees.                                                    *)

\* A lease that still speaks for a worktree: a cleanup may go by it.
Held(i) == lease[i].status \in {"active", "released"}

\* What is registered has its branch, and what has a directory is registered.
RegIsRight ==
    \A p \in Path :
        /\ reg[p] \in branches \cup {Nowhere}
        /\ p \in dirs => reg[p] \in branches

PathsAreReal == \A i \in Leases : Held(i) => lease[i].path \in Path

OneActive ==
    \A i, j \in Leases : Active(i) /\ Active(j) /\ lease[i].path = lease[j].path => i = j

\* While nobody meddles, a released lease holds its worktree as an active one does.
HeldStands ==
    ~meddled =>
        \A i \in Leases : Held(i) =>
            /\ lease[i].path \in dirs
            /\ reg[lease[i].path] = lease[i].branch
            /\ maker[lease[i].path] = lease[i].session
            /\ \A j \in Leases : Held(j) /\ lease[j].path = lease[i].path => i = j

LeaseTyped == LeaseTypeOK /\ RegIsRight /\ PathsAreReal
LeaseInv == LeaseTyped /\ OneActive /\ HeldStands

-----------------------------------------------------------------------------
(* Types.                                                                  *)

LEMMA NowhereIsNoPath == Nowhere \notin Path
BY LeaseAssumption DEF Path

(* Rows that are only marked.                                              *)
LEMMA MarkOne ==
    ASSUME lease \in [Leases -> Row], NEW i \in Leases, MarkRemoved(i)
    PROVE  /\ lease' \in [Leases -> Row]
           /\ \A j \in Leases :
                /\ lease'[j].path = lease[j].path /\ lease'[j].branch = lease[j].branch
                /\ lease'[j].session = lease[j].session
                /\ lease'[j].status = IF j = i THEN "removed" ELSE lease[j].status
BY DEF MarkRemoved, Row, LeaseStatuses

LEMMA EndMarks ==
    ASSUME lease \in [Leases -> Row], NEW s \in Sessions, End(s)
    PROVE  /\ lease' \in [Leases -> Row]
           /\ \A j \in Leases :
                /\ lease'[j].path = lease[j].path /\ lease'[j].branch = lease[j].branch
                /\ lease'[j].session = lease[j].session
                /\ \/ lease'[j].status = lease[j].status
                   \/ lease[j].status = "active" /\ lease'[j].status = "released"
BY DEF End, Row, LeaseStatuses, Active

LEMMA LeaseTypeInit == LeaseInit => LeaseTyped
<1> SUFFICES ASSUME LeaseInit PROVE LeaseTyped
  OBVIOUS
<1>1. lease \in [Leases -> Row] /\ \A i \in Leases : ~Held(i)
  BY DEF LeaseInit, NoRow, Row, LeaseStatuses, Held
<1>2. reg \in [Path -> Path \cup {Nowhere}] /\ maker \in [Path -> Sessions \cup {Nowhere}]
      /\ bound \in [Sessions -> Path \cup {Nowhere}] /\ RegIsRight
  BY DEF LeaseInit, RegIsRight
<1>3. task \in [Sessions -> 0 .. MaxTasks]
  BY LeaseAssumption DEF LeaseInit
<1> QED BY <1>1, <1>2, <1>3 DEF LeaseInit, LeaseTyped, LeaseTypeOK, PathsAreReal

(* What git has after a step.                                              *)
GitTyped ==
    /\ reg \in [Path -> Path \cup {Nowhere}]
    /\ dirs \in SUBSET Path /\ dirt \in SUBSET dirs
    /\ branches \in SUBSET Path /\ ahead \in SUBSET branches
    /\ maker \in [Path -> Sessions \cup {Nowhere}]
    /\ RegIsRight

\* What the store and the sessions have.
RowsTyped ==
    /\ lease \in [Leases -> Row] /\ PathsAreReal
    /\ task \in [Sessions -> 0 .. MaxTasks]
    /\ live \in SUBSET Sessions
    /\ bound \in [Sessions -> Path \cup {Nowhere}]
    /\ meddled \in BOOLEAN

LEMMA BothTyped ==
    /\ LeaseTyped <=> GitTyped /\ RowsTyped
    /\ LeaseTyped' <=> GitTyped' /\ RowsTyped'
BY DEF LeaseTyped, LeaseTypeOK, GitTyped, RowsTyped

LEMMA GitStays == ASSUME GitTyped, UNCHANGED gitVars PROVE GitTyped'
BY DEF GitTyped, gitVars, RegIsRight

LEMMA CheckoutTyped ==
    ASSUME GitTyped, NEW s \in Sessions, NEW w \in Works, NEW p \in Path, Checkout(s, w, p)
    PROVE  GitTyped'
<1>1. <<s, w>> \in Path
  BY DEF Path
<1> QED BY <1>1 DEF GitTyped, Checkout, RegIsRight

LEMMA RemoveTyped ==
    ASSUME GitTyped, NEW p \in Path, p \notin dirt, RemoveWorktree(p)
    PROVE  GitTyped'
<1>1. dirs' \in SUBSET Path /\ dirt' \in SUBSET dirs' /\ ahead' \in SUBSET branches'
      /\ branches' \in SUBSET Path
  BY DEF GitTyped, RemoveWorktree
<1>2. reg' \in [Path -> Path \cup {Nowhere}] /\ maker' \in [Path -> Sessions \cup {Nowhere}]
  BY DEF GitTyped, RemoveWorktree
<1>3. RegIsRight'
  BY DEF GitTyped, RemoveWorktree, RegIsRight
<1> QED BY <1>1, <1>2, <1>3 DEF GitTyped

LEMMA GoneTyped ==
    ASSUME GitTyped, NEW p \in Path, p \in dirs \ dirt,
           reg' = [reg EXCEPT ![p] = Nowhere], dirs' = dirs \ {p},
           maker' = [maker EXCEPT ![p] = Nowhere], UNCHANGED <<dirt, branches, ahead>>
    PROVE  GitTyped'
BY DEF GitTyped, RegIsRight

(* What a cleanup goes by.                                                 *)
LEMMA CleanupFacts ==
    ASSUME LeaseTyped, NEW s \in Sessions, NEW i \in CleanupLease(s)
    PROVE  /\ i \in Leases /\ Held(i) /\ lease[i].session = s /\ lease[i].path \in Path
           /\ Removable(i) => lease[i].path \in dirs \ dirt
BY DEF CleanupLease, Held, LeaseTyped, PathsAreReal, Removable

LEMMA MarkedTyped ==
    ASSUME RowsTyped, NEW i \in Leases, MarkRemoved(i), UNCHANGED <<task, live, bound, meddled>>
    PROVE  RowsTyped'
<1>1. lease \in [Leases -> Row]
  BY DEF RowsTyped
<1>2. /\ lease' \in [Leases -> Row]
      /\ \A j \in Leases : lease'[j].path = lease[j].path
                           /\ lease'[j].status \in {"removed", lease[j].status}
  BY <1>1, MarkOne
<1> QED BY <1>2 DEF RowsTyped, PathsAreReal, Held

LEMMA CreateTyped ==
    ASSUME LeaseTyped, NEW s \in Sessions, NEW w \in Works, NEW p \in Path, NEW bind \in BOOLEAN,
           Create(s, w, p, bind)
    PROVE  /\ LeaseTyped'
           /\ \E i \in Leases : /\ ~Held(i)
                                /\ lease'[i].status = "active" /\ lease'[i].path = p
                                /\ lease'[i].branch = <<s, w>> /\ lease'[i].session = s
                                /\ \A j \in Leases \ {i} : lease'[j] = lease[j]
<1>1. GitTyped'
  BY BothTyped, CheckoutTyped DEF Create
<1>2. PICK i \in Leases :
        /\ lease[i] = NoRow
        /\ lease' = [lease EXCEPT ![i] = [status |-> "active", session |-> s,
                          task |-> task[s], path |-> p, branch |-> <<s, w>>]]
  BY DEF Create
<1>3. [status |-> "active", session |-> s, task |-> task[s], path |-> p, branch |-> <<s, w>>] \in Row
  <2>1. task[s] \in Nat /\ <<s, w>> \in Path
    BY BothTyped DEF RowsTyped, Path
  <2> QED BY <2>1 DEF Row, LeaseStatuses
<1>4. ~Held(i)
  BY <1>2 DEF Held, NoRow
<1>5. /\ lease' \in [Leases -> Row]
      /\ lease'[i].status = "active" /\ lease'[i].path = p
      /\ lease'[i].branch = <<s, w>> /\ lease'[i].session = s
      /\ \A j \in Leases \ {i} : lease'[j] = lease[j]
  BY <1>2, <1>3, BothTyped DEF RowsTyped
<1>6. RowsTyped'
  BY <1>5, BothTyped DEF RowsTyped, PathsAreReal, Held, Create
<1> QED BY <1>1, <1>4, <1>5, <1>6, BothTyped

LEMMA LeaseTypeNext == LeaseTyped /\ [LeaseNext]_leaseVars => LeaseTyped'
<1> SUFFICES ASSUME LeaseTyped, [LeaseNext]_leaseVars PROVE LeaseTyped'
  OBVIOUS
<1>0. GitTyped /\ RowsTyped
  BY BothTyped
<1>a. ASSUME UNCHANGED <<lease, task, live, meddled>>, bound' \in [Sessions -> Path \cup {Nowhere}]
      PROVE  RowsTyped'
  BY <1>0, <1>a DEF RowsTyped, PathsAreReal, Held
<1>1. ASSUME NEW s \in Sessions, Begin(s) PROVE LeaseTyped'
  <2>1. task' \in [Sessions -> 0 .. MaxTasks] /\ live' \in SUBSET Sessions
    BY <1>0, <1>1, LeaseAssumption DEF Begin, RowsTyped
  <2>2. RowsTyped'
    BY <1>0, <1>1, <2>1 DEF Begin, RowsTyped, PathsAreReal, Held
  <2> QED BY <1>0, <1>1, <2>2, GitStays, BothTyped DEF Begin
<1>2. ASSUME NEW s \in Sessions, End(s) PROVE LeaseTyped'
  <2>4. /\ lease' \in [Leases -> Row]
        /\ \A i \in Leases : /\ lease'[i].path = lease[i].path
                             /\ \/ lease'[i].status = lease[i].status
                                \/ lease[i].status = "active" /\ lease'[i].status = "released"
    BY <1>0, <1>2, EndMarks DEF RowsTyped
  <2>5. PathsAreReal'
    BY <1>0, <2>4 DEF RowsTyped, PathsAreReal, Held
  <2>6. RowsTyped'
    BY <1>0, <1>2, <2>4, <2>5 DEF End, RowsTyped
  <2> QED BY <1>0, <1>2, <2>6, GitStays, BothTyped DEF End
<1>3. ASSUME NEW s \in Sessions, Edit(s) \/ Commit(s) \/ DiffWritesPatch(s) PROVE LeaseTyped'
  <2>1. RowsTyped'
    BY <1>0, <1>3, <1>a DEF Edit, Commit, DiffWritesPatch, RowsTyped
  <2>2. dirs \in SUBSET Path /\ dirt \in SUBSET dirs /\ ahead \in SUBSET branches
        /\ \A p \in dirs : reg[p] \in branches
    BY <1>0 DEF GitTyped, RegIsRight
  <2>3. /\ dirt' \in SUBSET dirs /\ ahead' \in SUBSET branches
        /\ UNCHANGED <<reg, dirs, branches, maker>>
    <3>1. CASE Edit(s)
      BY <2>2, <3>1 DEF Edit, Workplace
    <3>2. CASE Commit(s)
      BY <2>2, <3>2 DEF Commit
    <3>3. CASE DiffWritesPatch(s)
      BY <2>2, <3>3 DEF DiffWritesPatch
    <3> QED BY <1>3, <3>1, <3>2, <3>3
  <2>6. GitTyped'
    BY <1>0, <2>3 DEF GitTyped, RegIsRight
  <2> QED BY <2>1, <2>6, BothTyped
<1>4. ASSUME NEW s \in Sessions, NEW i \in Leases, BindSession(s, i) PROVE LeaseTyped'
  <2>1. lease[i].path \in Path
    BY <1>0, <1>4 DEF BindSession, Bindable, GitTyped
  <2> QED BY <1>0, <1>4, <1>a, <2>1, GitStays, BothTyped DEF BindSession, RowsTyped
<1>5. ASSUME NEW s \in Sessions, NEW w \in Works, NEW p \in Path, Reuse(s, w, p) PROVE LeaseTyped'
  <2>1. \E q \in dirs : bound' = [bound EXCEPT ![s] = q]
    BY <1>5 DEF Reuse
  <2> QED BY <1>0, <1>5, <1>a, <2>1, GitStays, BothTyped DEF Reuse, RowsTyped, GitTyped
<1>6. ASSUME NEW s \in Sessions, NEW w \in Works, NEW p \in Path, CreateUnleased(s, w, p)
      PROVE  LeaseTyped'
  BY <1>0, <1>6, <1>a, CheckoutTyped, BothTyped DEF CreateUnleased, RowsTyped
<1>7. ASSUME NEW s \in Sessions, NEW w \in Works, NEW p \in Path, CreateTimesOut(s, w, p)
      PROVE  LeaseTyped'
  <2>1. <<s, w>> \in Path
    BY DEF Path
  <2>2. GitTyped'
    BY <1>0, <1>7, <2>1 DEF CreateTimesOut, Planned, GitTyped, RegIsRight
  <2> QED BY <1>0, <1>7, <1>a, <2>2, BothTyped DEF CreateTimesOut, RowsTyped
<1>8. ASSUME NEW s \in Sessions, CleanupFindsNothing(s) PROVE LeaseTyped'
  BY <1>0, <1>8, CleanupFacts, MarkedTyped, GitStays, BothTyped DEF CleanupFindsNothing
<1>9. ASSUME NEW s \in Sessions, Cleanup(s) PROVE LeaseTyped'
  BY <1>0, <1>9, CleanupFacts, MarkedTyped, RemoveTyped, BothTyped DEF Cleanup
<1>10. ASSUME NEW s \in Sessions, CleanupCut(s) PROVE LeaseTyped'
  <2>1. GitTyped'
    BY <1>0, <1>10, CleanupFacts, GoneTyped DEF CleanupCut
  <2>2. RowsTyped'
    BY <1>0, <1>10 DEF CleanupCut, RowsTyped, PathsAreReal, Held
  <2> QED BY <2>1, <2>2, BothTyped
<1>11. ASSUME NEW p \in Path, UserRemoves(p) PROVE LeaseTyped'
  <2>1. RowsTyped'
    BY <1>0, <1>11 DEF UserRemoves, RowsTyped, PathsAreReal, Held
  <2> QED BY <1>0, <1>11, <2>1, GoneTyped, BothTyped DEF UserRemoves
<1>12. ASSUME NEW p \in Path, NEW b \in Path, UserAdds(p, b) PROVE LeaseTyped'
  <2>1. RowsTyped'
    BY <1>0, <1>12 DEF UserAdds, RowsTyped, PathsAreReal, Held
  <2>2. GitTyped'
    BY <1>0, <1>12 DEF UserAdds, GitTyped, RegIsRight
  <2> QED BY <2>1, <2>2, BothTyped
<1>13. ASSUME ProcessDies PROVE LeaseTyped'
  <2>1. RowsTyped'
    BY <1>0, <1>13 DEF ProcessDies, RowsTyped, PathsAreReal, Held
  <2> QED BY <1>0, <1>13, <2>1, GitStays, BothTyped DEF ProcessDies
<1>14. ASSUME UNCHANGED leaseVars PROVE LeaseTyped'
  BY <1>14 DEF leaseVars, LeaseTyped, LeaseTypeOK, RegIsRight, PathsAreReal, Held
<1>15. ASSUME NEW s \in Sessions, NEW w \in Works, NEW p \in Path, NEW bind \in BOOLEAN,
              Create(s, w, p, bind)
       PROVE  LeaseTyped'
  BY <1>15, CreateTyped
<1> QED BY <1>1, <1>2, <1>3, <1>4, <1>5, <1>6, <1>7, <1>8, <1>9, <1>10, <1>11, <1>12, <1>13, <1>14,
           <1>15 DEF LeaseNext, SessionStep, UserStep

\* LeaseTypeOK (the rows of the leases and what git has of worktrees and
\* branches) holds for any sessions, works, leases and tasks.
THEOREM LeasesTypeCorrect == LeaseSpec => []LeaseTypeOK
<1>1. LeaseTyped => LeaseTypeOK
  BY DEF LeaseTyped
<1> QED BY LeaseTypeInit, LeaseTypeNext, <1>1, PTL DEF LeaseSpec

-----------------------------------------------------------------------------
(* Leases and their worktrees.                                             *)

\* A step makes no lease active, and none held again.
Fading ==
    \A i \in Leases :
        /\ lease'[i].path = lease[i].path /\ lease'[i].branch = lease[i].branch
        /\ lease'[i].session = lease[i].session
        /\ lease'[i].status = "active" => Active(i)
        /\ lease'[i].status \in {"active", "released"} => Held(i)

LEMMA FadingKeeps ==
    ASSUME LeaseInv, Fading,
           ~meddled' => ~meddled,
           ~meddled' => \A i \in Leases : lease'[i].status \in {"active", "released"} =>
               /\ lease[i].path \in dirs'
               /\ reg'[lease[i].path] = reg[lease[i].path]
               /\ maker'[lease[i].path] = maker[lease[i].path]
    PROVE  OneActive' /\ HeldStands'
<1>1. OneActive'
  BY DEF LeaseInv, OneActive, Active, Fading
<1>2. HeldStands'
  BY DEF LeaseInv, HeldStands, Held, Fading
<1> QED BY <1>1, <1>2

LEMMA SameFades == lease' = lease => Fading
BY DEF Fading, Active, Held

LEMMA MarkedFades ==
    ASSUME LeaseTyped, NEW i \in Leases, MarkRemoved(i)
    PROVE  Fading /\ lease'[i].status = "removed"
BY MarkOne DEF LeaseTyped, LeaseTypeOK, Fading, Active, Held

(* A path without a directory is no held lease's, while nobody meddles.    *)
LEMMA FreePath ==
    ASSUME LeaseInv, ~meddled, NEW i \in Leases, Held(i), NEW p \in Path, p \notin dirs
    PROVE  lease[i].path # p /\ lease[i].path \in Path
BY DEF LeaseInv, HeldStands, LeaseTyped, PathsAreReal

LEMMA CreateKeeps ==
    ASSUME LeaseInv, NEW s \in Sessions, NEW w \in Works, NEW p \in Path, NEW bind \in BOOLEAN,
           Create(s, w, p, bind)
    PROVE  OneActive' /\ HeldStands'
<1>1. PICK i \in Leases : /\ ~Held(i)
                          /\ lease'[i].status = "active" /\ lease'[i].path = p
                          /\ lease'[i].branch = <<s, w>> /\ lease'[i].session = s
                          /\ \A j \in Leases \ {i} : lease'[j] = lease[j]
  BY CreateTyped DEF LeaseInv
<1>2. /\ \A j \in Leases : ~(Active(j) /\ lease[j].path = p)
      /\ p \notin dirs /\ meddled' = meddled
      /\ reg' = [reg EXCEPT ![p] = <<s, w>>] /\ dirs' = dirs \cup {p}
      /\ maker' = [maker EXCEPT ![p] = s]
  BY DEF Create, Checkout, Planned
<1>3. reg \in [Path -> Path \cup {Nowhere}] /\ maker \in [Path -> Sessions \cup {Nowhere}]
  BY DEF LeaseInv, LeaseTyped, LeaseTypeOK
<1>4. OneActive'
  BY <1>1, <1>2 DEF LeaseInv, OneActive, Active
<1>5. HeldStands'
  <2> SUFFICES ASSUME ~meddled, NEW j \in Leases, lease'[j].status \in {"active", "released"}
               PROVE  /\ lease'[j].path \in dirs'
                      /\ reg'[lease'[j].path] = lease'[j].branch
                      /\ maker'[lease'[j].path] = lease'[j].session
                      /\ \A k \in Leases :
                            lease'[k].status \in {"active", "released"}
                              /\ lease'[k].path = lease'[j].path => j = k
    BY <1>2 DEF HeldStands, Held
  <2>1. \A k \in Leases \ {i} : Held(k) => lease[k].path # p /\ lease[k].path \in Path
    BY <1>2, FreePath
  <2>2. CASE j = i
    BY <1>1, <1>2, <1>3, <2>1, <2>2 DEF Held
  <2>3. CASE j # i
    <3>1. Held(j) /\ lease'[j] = lease[j] /\ lease[j].path # p /\ lease[j].path \in Path
      BY <1>1, <2>1, <2>3 DEF Held
    <3>2. /\ lease[j].path \in dirs
          /\ reg[lease[j].path] = lease[j].branch
          /\ maker[lease[j].path] = lease[j].session
          /\ \A k \in Leases : Held(k) /\ lease[k].path = lease[j].path => j = k
      BY <3>1 DEF LeaseInv, HeldStands
    <3> QED BY <1>1, <1>2, <1>3, <3>1, <3>2 DEF Held
  <2> QED BY <2>2, <2>3
<1> QED BY <1>4, <1>5

LEMMA CleanupKeeps ==
    ASSUME LeaseInv, NEW s \in Sessions, Cleanup(s)
    PROVE  OneActive' /\ HeldStands'
<1>1. PICK i \in CleanupLease(s) :
        Removable(i) /\ RemoveWorktree(lease[i].path) /\ MarkRemoved(i)
  BY DEF Cleanup
<1>2. i \in Leases /\ Held(i) /\ Fading /\ lease'[i].status = "removed" /\ meddled' = meddled
  BY <1>1, CleanupFacts, MarkedFades DEF LeaseInv, Cleanup
<1>3. ASSUME ~meddled, NEW j \in Leases, lease'[j].status \in {"active", "released"}
      PROVE  /\ lease[j].path \in dirs'
             /\ reg'[lease[j].path] = reg[lease[j].path]
             /\ maker'[lease[j].path] = maker[lease[j].path]
  <2>1. Held(j) /\ j # i
    BY <1>2, <1>3 DEF Fading
  <2>2. lease[j].path \in dirs /\ lease[j].path # lease[i].path /\ lease[j].path \in Path
    BY <1>2, <1>3, <2>1 DEF LeaseInv, HeldStands, LeaseTyped, PathsAreReal
  <2> QED BY <1>1, <2>2 DEF RemoveWorktree
<1> QED BY <1>2, <1>3, FadingKeeps

LEMMA LeaseNextKeeps == LeaseInv /\ [LeaseNext]_leaseVars => LeaseInv'
<1> SUFFICES ASSUME LeaseInv, [LeaseNext]_leaseVars PROVE OneActive' /\ HeldStands'
  BY LeaseTypeNext DEF LeaseInv
<1>a. ASSUME Fading, UNCHANGED <<reg, dirs, maker, meddled>> PROVE OneActive' /\ HeldStands'
  <2>1. \A i \in Leases : lease'[i].status \in {"active", "released"} /\ ~meddled => lease[i].path \in dirs
    BY <1>a DEF Fading, LeaseInv, HeldStands
  <2> QED BY <1>a, <2>1, FadingKeeps
<1>b. ASSUME lease' = lease, meddled' PROVE OneActive' /\ HeldStands'
  BY <1>b, SameFades, FadingKeeps
<1>1. ASSUME NEW s \in Sessions, End(s) PROVE OneActive' /\ HeldStands'
  <2>1. lease \in [Leases -> Row]
    BY DEF LeaseInv, LeaseTyped, LeaseTypeOK
  <2>2. Fading
    BY <1>1, <2>1, EndMarks DEF Fading, Active, Held
  <2> QED BY <1>1, <1>a, <2>2 DEF End, gitVars
<1>2. ASSUME NEW s \in Sessions,
             \/ Begin(s) \/ Edit(s) \/ Commit(s) \/ DiffWritesPatch(s)
             \/ \E i \in Leases : BindSession(s, i)
             \/ \E w \in Works, p \in Path : Reuse(s, w, p)
      PROVE  OneActive' /\ HeldStands'
  <2>1. UNCHANGED <<lease, reg, dirs, maker, meddled>>
    BY <1>2 DEF Begin, Edit, Commit, DiffWritesPatch, BindSession, Reuse, gitVars
  <2> QED BY <1>a, <2>1, SameFades
<1>3. ASSUME NEW s \in Sessions, CleanupFindsNothing(s) PROVE OneActive' /\ HeldStands'
  <2>1. Fading /\ UNCHANGED <<reg, dirs, maker, meddled>>
    BY <1>3, CleanupFacts, MarkedFades DEF CleanupFindsNothing, LeaseInv, gitVars
  <2> QED BY <1>a, <2>1
<1>4. ASSUME NEW s \in Sessions, CleanupCut(s) PROVE OneActive' /\ HeldStands'
  BY <1>4, <1>b DEF CleanupCut
<1>5. ASSUME NEW s \in Sessions, NEW w \in Works, NEW p \in Path,
             CreateUnleased(s, w, p) \/ CreateTimesOut(s, w, p)
      PROVE  OneActive' /\ HeldStands'
  <2>1. /\ lease' = lease /\ meddled' = meddled /\ p \notin dirs /\ dirs \subseteq dirs'
        /\ reg' = [reg EXCEPT ![p] = <<s, w>>] /\ maker' = [maker EXCEPT ![p] = s]
    BY <1>5 DEF CreateUnleased, CreateTimesOut, Checkout, Planned
  <2>2. reg \in [Path -> Path \cup {Nowhere}] /\ maker \in [Path -> Sessions \cup {Nowhere}]
    BY DEF LeaseInv, LeaseTyped, LeaseTypeOK
  <2>3. ASSUME ~meddled, NEW i \in Leases, lease'[i].status \in {"active", "released"}
        PROVE  /\ lease[i].path \in dirs'
               /\ reg'[lease[i].path] = reg[lease[i].path]
               /\ maker'[lease[i].path] = maker[lease[i].path]
    <3>1. Held(i)
      BY <2>1, <2>3 DEF Held
    <3>2. lease[i].path # p /\ lease[i].path \in Path /\ lease[i].path \in dirs
      BY <2>1, <2>3, <3>1, FreePath DEF LeaseInv, HeldStands
    <3> QED BY <2>1, <2>2, <3>2
  <2> QED BY <2>1, <2>3, SameFades, FadingKeeps
<1>6. ASSUME UserStep PROVE OneActive' /\ HeldStands'
  <2>1. lease' = lease /\ meddled'
    BY <1>6 DEF UserStep, UserRemoves, UserAdds
  <2> QED BY <1>b, <2>1
<1>7. ASSUME ProcessDies \/ UNCHANGED leaseVars PROVE OneActive' /\ HeldStands'
  <2>1. UNCHANGED <<lease, reg, dirs, maker, meddled>>
    BY <1>7 DEF ProcessDies, leaseVars, gitVars
  <2> QED BY <1>a, <2>1, SameFades
<1> QED BY <1>1, <1>2, <1>3, <1>4, <1>5, <1>6, <1>7, CreateKeeps, CleanupKeeps
       DEF LeaseNext, SessionStep

LEMMA LeaseInitKeeps == LeaseInit => LeaseInv
<1> SUFFICES ASSUME LeaseInit PROVE LeaseInv
  OBVIOUS
<1>1. \A i \in Leases : ~Held(i) /\ ~Active(i)
  BY DEF LeaseInit, NoRow, Held, Active
<1> QED BY <1>1, LeaseTypeInit DEF LeaseInv, OneActive, HeldStands

\* LeaseHasWorktree (WorktreeManager.create, cleanup and the store's leases), for
\* any sessions, works and leases: no path gets a second active lease, and while
\* nobody else uses git and no cleanup is cut an active lease has its worktree.
THEOREM LeasesAreBacked == LeaseSpec => []LeaseHasWorktree
<1>1. LeaseInv => LeaseHasWorktree
  <2> SUFFICES ASSUME LeaseInv, NEW i \in Leases, Active(i)
               PROVE  /\ \A j \in Leases \ {i} : ~(Active(j) /\ lease[j].path = lease[i].path)
                      /\ ~meddled => /\ lease[i].path \in dirs
                                     /\ reg[lease[i].path] = lease[i].branch
                                     /\ maker[lease[i].path] = lease[i].session
    BY DEF LeaseHasWorktree
  <2>1. \A j \in Leases \ {i} : ~(Active(j) /\ lease[j].path = lease[i].path)
    BY DEF LeaseInv, OneActive
  <2>2. Held(i)
    BY DEF Held, Active
  <2> QED BY <2>1, <2>2 DEF LeaseInv, HeldStands
<1> QED BY LeaseInitKeeps, LeaseNextKeeps, <1>1, PTL DEF LeaseSpec

-----------------------------------------------------------------------------
(* Uncommitted files.                                                      *)

LEMMA DirtStays ==
    ASSUME LeaseTyped, [LeaseNext]_leaseVars
    PROVE  dirt \subseteq dirs'
<1>1. dirt \in SUBSET dirs
  BY DEF LeaseTyped, LeaseTypeOK
<1>2. ASSUME NEW s \in Sessions, SessionStep(s) PROVE dirt \subseteq dirs'
  <2>1. ASSUME NEW w \in Works, NEW p \in Path,
               \/ \E bind \in BOOLEAN : Create(s, w, p, bind)
               \/ CreateUnleased(s, w, p) \/ CreateTimesOut(s, w, p) \/ Reuse(s, w, p)
        PROVE  dirt \subseteq dirs'
    BY <1>1, <2>1 DEF Create, CreateUnleased, CreateTimesOut, Reuse, Checkout, gitVars
  <2>2. ASSUME \/ Begin(s) \/ End(s) \/ Edit(s) \/ Commit(s) \/ DiffWritesPatch(s)
               \/ CleanupFindsNothing(s) \/ \E i \in Leases : BindSession(s, i)
        PROVE  dirt \subseteq dirs'
    BY <1>1, <2>2 DEF Begin, End, Edit, Commit, DiffWritesPatch, CleanupFindsNothing, BindSession, gitVars
  <2>3. ASSUME Cleanup(s) PROVE dirt \subseteq dirs'
    BY <1>1, <2>3 DEF Cleanup, Removable, RemoveWorktree
  <2>4. ASSUME CleanupCut(s) PROVE dirt \subseteq dirs'
    BY <1>1, <2>4 DEF CleanupCut, Removable
  <2> QED BY <1>2, <2>1, <2>2, <2>3, <2>4 DEF SessionStep
<1>3. ASSUME UserStep PROVE dirt \subseteq dirs'
  BY <1>1, <1>3 DEF UserStep, UserRemoves, UserAdds
<1>4. ASSUME ProcessDies \/ UNCHANGED leaseVars PROVE dirt \subseteq dirs'
  BY <1>1, <1>4 DEF ProcessDies, leaseVars, gitVars
<1> QED BY <1>2, <1>3, <1>4 DEF LeaseNext

\* UncommittedStays (git status is read before a worktree is removed, and no
\* removal is forced), for any sessions, works and leases.
THEOREM UncommittedIsKept == LeaseSpec => UncommittedStays
<1>1. LeaseTyped /\ [LeaseNext]_leaseVars => [dirt \subseteq dirs']_leaseVars
  BY DirtStays
<1> QED BY LeaseTypeInit, LeaseTypeNext, <1>1, PTL DEF LeaseSpec, UncommittedStays

-----------------------------------------------------------------------------
(* Workspaces.                                                             *)

AnyDir == Dirs \cup {Nobody}

WorkspaceTypeOK ==
    /\ present \subseteq Wts
    /\ holder \in [Wts -> Owners \cup {Nobody}]
    /\ held \subseteq Owners \X Wts
    /\ home \in [Owners -> [ws : AnyDir, main : AnyDir]]
    /\ turn \in [Owners -> AnyDir]
    /\ tools \in [Owners -> [cwd : AnyDir, roots : SUBSET AnyDir]]

-----------------------------------------------------------------------------
(* Types.                                                                  *)

LEMMA WorkspaceTypeInit == WorkspaceInit => WorkspaceTypeOK
BY DEF WorkspaceInit, WorkspaceTypeOK, AnyDir, NewSession, NoTools

LEMMA BoundIsTyped ==
    ASSUME WorkspaceTypeOK, NEW s \in Owners, NEW w \in Wts, BoundTo(s, w)
    PROVE  /\ home' \in [Owners -> [ws : AnyDir, main : AnyDir]]
           /\ tools' \in [Owners -> [cwd : AnyDir, roots : SUBSET AnyDir]]
BY DEF BoundTo, WorkspaceTypeOK, AnyDir, Dirs

LEMMA WorkspaceTypeNext == WorkspaceTypeOK /\ [WorkspaceNext]_workspaceVars => WorkspaceTypeOK'
<1> SUFFICES ASSUME WorkspaceTypeOK, [WorkspaceNext]_workspaceVars PROVE WorkspaceTypeOK'
  OBVIOUS
<1> USE DEF WorkspaceTypeOK, AnyDir, Dirs
<1>1. ASSUME NEW s \in Owners, OwnerStep(s) PROVE WorkspaceTypeOK'
  <2>1. ASSUME NEW d \in Dirs \cup {Nobody}, Dispatch(s, d) PROVE WorkspaceTypeOK'
    <3>1. PICK e \in AnyDir : /\ turn' = [turn EXCEPT ![s] = e]
                              /\ home' = [home EXCEPT ![s] = IF @ = NewSession
                                              THEN [ws |-> e, main |-> e] ELSE @]
      BY <2>1 DEF Dispatch, Effective
    <3> QED BY <2>1, <3>1 DEF Dispatch
  <2>2. ASSUME NEW d \in Dirs \cup {Nobody}, PlanEnds(s, d) PROVE WorkspaceTypeOK'
    <3>1. PICK e \in AnyDir : /\ turn' = [turn EXCEPT ![s] = e]
                              /\ home' = [home EXCEPT ![s].ws = IF e = Effective(s) THEN @ ELSE e]
      BY <2>2 DEF PlanEnds, Effective
    <3>2. home' \in [Owners -> [ws : AnyDir, main : AnyDir]]
      BY <3>1
    <3> QED BY <2>2, <3>1, <3>2 DEF PlanEnds, NoTools
  <2>3. ASSUME CallBegins(s) PROVE WorkspaceTypeOK'
    BY <2>3 DEF CallBegins
  <2>4. ASSUME NEW launched \in BOOLEAN, CallEnds(s, launched) PROVE WorkspaceTypeOK'
    BY <2>4 DEF CallEnds, NoTools
  <2>5. ASSUME StepLaunch(s) PROVE WorkspaceTypeOK'
    BY <2>5 DEF StepLaunch
  <2>6. ASSUME TurnEnds(s) PROVE WorkspaceTypeOK'
    BY <2>6 DEF TurnEnds, NoTools
  <2>7. ASSUME NEW d \in Dirs, FileTool(s, d) \/ ReadArtifact(s, d) \/ LookAt(s, d)
        PROVE  WorkspaceTypeOK'
    BY <2>7 DEF FileTool, ReadArtifact, LookAt
  <2>8. ASSUME NEW w \in Wts, NEW bind \in BOOLEAN, CreateWorktree(s, w, bind)
        PROVE  WorkspaceTypeOK'
    BY <2>8, BoundIsTyped DEF CreateWorktree
  <2>9. ASSUME NEW w \in Wts, BindTool(s, w) PROVE WorkspaceTypeOK'
    BY <2>9, BoundIsTyped DEF BindTool
  <2>10. ASSUME NEW w \in Wts, CleanupTool(s, w) PROVE WorkspaceTypeOK'
    BY <2>10 DEF CleanupTool, ToMain
  <2> QED BY <1>1, <2>1, <2>2, <2>3, <2>4, <2>5, <2>6, <2>7, <2>8, <2>9, <2>10 DEF OwnerStep
<1>2. ASSUME NEW w \in Wts, UserDeletes(w) PROVE WorkspaceTypeOK'
  BY <1>2 DEF UserDeletes
<1>3. ASSUME UNCHANGED workspaceVars PROVE WorkspaceTypeOK'
  BY <1>3 DEF workspaceVars
<1> QED BY <1>1, <1>2, <1>3 DEF WorkspaceNext

(* Every copy of a session's workspace is a directory or none.             *)
THEOREM WorkspacesTypeCorrect == WorkspaceSpec => []WorkspaceTypeOK
BY WorkspaceTypeInit, WorkspaceTypeNext, PTL DEF WorkspaceSpec

-----------------------------------------------------------------------------
(* A session's places. A right to a directory, once there, is never lost.  *)

Right(s, d) == d \in Roots \/ <<s, d>> \in held

\* A session without a row has no turn and no tools; one with a row is where
\* it has a right to be, and so are its turn and its tools.
RowIsRight(s) ==
    /\ home[s] = NewSession => turn[s] = Nobody /\ tools[s] = NoTools
    /\ home[s] # NewSession => Right(s, home[s].ws) /\ home[s].main \in Roots

TurnIsRight(s) == turn[s] # Nobody => Right(s, turn[s])

ToolsAreRight(s) ==
    tools[s] # NoTools =>
        /\ turn[s] # Nobody
        /\ Right(s, tools[s].cwd) /\ \A d \in tools[s].roots : Right(s, d)

PlacesInv ==
    /\ \A s \in Owners : RowIsRight(s) /\ TurnIsRight(s) /\ ToolsAreRight(s)
    /\ \A w \in Wts : holder[w] # Nobody => <<holder[w], w>> \in held
    /\ astray = {}

LEMMA PlacesInit == WorkspaceInit => PlacesInv
BY DEF WorkspaceInit, PlacesInv, RowIsRight, TurnIsRight, ToolsAreRight

(* The two ways to a directory both lead to one the session has a right to.*)
LEMMA WayIsRight ==
    ASSUME WorkspaceTypeOK, PlacesInv, NEW s \in Owners
    PROVE  /\ home[s] # NewSession => Right(s, Effective(s))
           /\ \A d \in Dirs : Allowed(s, d) => Right(s, d)
<1>1. home[s] # NewSession => Right(s, Effective(s))
  BY DEF PlacesInv, RowIsRight, Effective, Right
<1>2. ASSUME NEW d \in Dirs, Allowed(s, d), d \notin Roots PROVE Right(s, d)
  <2>1. d \in {home[s].ws, home[s].main} /\ d # Nobody
    BY <1>2, WorkspaceAssumption DEF Allowed, Recorded, Dirs
  <2>2. home[s] # NewSession
    BY <2>1 DEF NewSession
  <2> QED BY <2>1, <2>2 DEF PlacesInv, RowIsRight, Right
<1> QED BY <1>1, <1>2 DEF Right

(* A step of session s leaves the others where they are, takes no right and *)
(* hands out no lease without one; what is to be shown is about s alone.    *)
LEMMA OneSession ==
    ASSUME WorkspaceTypeOK, PlacesInv, NEW s \in Owners,
           \A t \in Owners \ {s} :
               home'[t] = home[t] /\ turn'[t] = turn[t] /\ tools'[t] = tools[t],
           held \subseteq held',
           \A w \in Wts : holder'[w] # Nobody => <<holder'[w], w>> \in held',
           RowIsRight(s)', TurnIsRight(s)', ToolsAreRight(s)', astray' = {}
    PROVE  PlacesInv'
<1> SUFFICES ASSUME NEW t \in Owners \ {s}
             PROVE  (RowIsRight(t) /\ TurnIsRight(t) /\ ToolsAreRight(t))'
  BY DEF PlacesInv
<1>1. RowIsRight(t) /\ TurnIsRight(t) /\ ToolsAreRight(t)
  BY DEF PlacesInv
<1> QED BY <1>1 DEF RowIsRight, TurnIsRight, ToolsAreRight, Right

(* The session's row and tools once it is bound to a worktree it holds.    *)
LEMMA BindIsRight ==
    ASSUME WorkspaceTypeOK, PlacesInv, NEW s \in Owners, NEW w \in Wts, BoundTo(s, w),
           tools[s] # NoTools, turn' = turn, held \subseteq held', <<s, w>> \in held'
    PROVE  /\ RowIsRight(s)' /\ TurnIsRight(s)' /\ ToolsAreRight(s)'
           /\ \A t \in Owners \ {s} : home'[t] = home[t] /\ tools'[t] = tools[t]
<1>1. home[s] # NewSession /\ turn[s] # Nobody
  BY DEF PlacesInv, RowIsRight, ToolsAreRight
<1>2. home'[s] = [home[s] EXCEPT !.ws = w] /\ tools'[s] = [cwd |-> w, roots |-> {w}]
  BY DEF BoundTo, WorkspaceTypeOK
<1>3. w # Nobody
  BY WorkspaceAssumption
<1>4. RowIsRight(s)'
  <2>1. home[s].main \in Roots
    BY <1>1 DEF PlacesInv, RowIsRight
  <2>2. home'[s].ws = w /\ home'[s].main = home[s].main
    BY <1>2 DEF WorkspaceTypeOK
  <2>3. home'[s] # NewSession
    BY <1>3, <2>2 DEF NewSession
  <2> QED BY <2>1, <2>2, <2>3 DEF RowIsRight, Right
<1>5. TurnIsRight(s)'
  BY DEF PlacesInv, TurnIsRight, Right
<1>6. ToolsAreRight(s)'
  BY <1>1, <1>2 DEF ToolsAreRight, Right
<1> QED BY <1>4, <1>5, <1>6 DEF BoundTo, WorkspaceTypeOK

LEMMA PlacesNext == WorkspaceTypeOK /\ PlacesInv /\ [WorkspaceNext]_workspaceVars => PlacesInv'
<1> SUFFICES ASSUME WorkspaceTypeOK, PlacesInv, [WorkspaceNext]_workspaceVars PROVE PlacesInv'
  OBVIOUS
<1>1. ASSUME NEW s \in Owners, OwnerStep(s) PROVE PlacesInv'
  <2>0. /\ RowIsRight(s) /\ TurnIsRight(s) /\ ToolsAreRight(s) /\ astray = {}
        /\ \A w \in Wts : holder[w] # Nobody => <<holder[w], w>> \in held
    BY DEF PlacesInv
  <2>1. ASSUME NEW d \in Dirs \cup {Nobody}, Dispatch(s, d) PROVE PlacesInv'
    <3>1. PICK e : /\ e \in (IF d # Nobody THEN {d}
                             ELSE IF home[s] # NewSession THEN {Effective(s)} ELSE Roots)
                   /\ Allowed(s, e)
                   /\ turn' = [turn EXCEPT ![s] = e]
                   /\ home' = [home EXCEPT ![s] = IF @ = NewSession
                                   THEN [ws |-> e, main |-> e] ELSE @]
      BY <2>1 DEF Dispatch
    <3>2. Right(s, e) /\ e \in Dirs
      <4>1. e \in Dirs \/ (home[s] # NewSession /\ e = Effective(s))
        BY <3>1 DEF Dirs
      <4>2. CASE e \in Dirs
        BY <3>1, <4>2, WayIsRight
      <4>3. CASE home[s] # NewSession /\ e = Effective(s)
        BY <4>3, WayIsRight DEF Right, WorkspaceTypeOK, Dirs
      <4> QED BY <4>1, <4>2, <4>3
    <3>3. e \in Roots \/ home[s] # NewSession
      BY <3>1, <3>2, WorkspaceAssumption DEF Allowed, Recorded, NewSession, Dirs
    <3>4. RowIsRight(s)'
      BY <2>0, <2>1, <3>1, <3>2, <3>3, WorkspaceAssumption
         DEF Dispatch, RowIsRight, Right, NewSession, WorkspaceTypeOK, Dirs
    <3>5. TurnIsRight(s)' /\ ToolsAreRight(s)'
      BY <2>0, <2>1, <3>1, <3>2, WorkspaceAssumption
         DEF Dispatch, TurnIsRight, ToolsAreRight, Right, WorkspaceTypeOK, Dirs
    <3> QED BY <2>0, <2>1, <3>1, <3>4, <3>5, OneSession DEF Dispatch, WorkspaceTypeOK
  <2>2. ASSUME NEW d \in Dirs \cup {Nobody}, PlanEnds(s, d) PROVE PlacesInv'
    <3>1. home[s] # NewSession
      BY <2>0, <2>2 DEF PlanEnds, RowIsRight
    <3>2. PICK e : /\ Right(s, e) /\ turn' = [turn EXCEPT ![s] = e] /\ Reach(s, e)
                   /\ home' = [home EXCEPT ![s].ws = IF e = Effective(s) THEN @ ELSE e]
      BY <2>2, <3>1, WayIsRight DEF PlanEnds, Selectable
    <3>3. astray' = {}
      BY <2>0, <3>2 DEF Reach, Right
    <3>4. home'[s].main \in Roots /\ home'[s].ws \in {home[s].ws, e}
      BY <2>0, <3>1, <3>2 DEF RowIsRight, WorkspaceTypeOK
    <3>5. home'[s] # NewSession
      BY <3>4, WorkspaceAssumption DEF NewSession
    <3>6. RowIsRight(s)'
      BY <2>0, <2>2, <3>1, <3>2, <3>4, <3>5 DEF PlanEnds, RowIsRight, Right
    <3>7. TurnIsRight(s)' /\ ToolsAreRight(s)'
      BY <2>0, <2>2, <3>2 DEF PlanEnds, TurnIsRight, ToolsAreRight, Right, WorkspaceTypeOK
    <3> QED BY <2>0, <2>2, <3>2, <3>3, <3>6, <3>7, OneSession DEF PlanEnds, WorkspaceTypeOK
  <2>3. ASSUME CallBegins(s) PROVE PlacesInv'
    <3>1. RowIsRight(s)' /\ TurnIsRight(s)' /\ ToolsAreRight(s)'
      BY <2>0, <2>3 DEF CallBegins, RowIsRight, TurnIsRight, ToolsAreRight, Right, WorkspaceTypeOK
    <3> QED BY <2>0, <2>3, <3>1, OneSession DEF CallBegins, WorkspaceTypeOK
  <2>4. ASSUME NEW launched \in BOOLEAN, CallEnds(s, launched) PROVE PlacesInv'
    <3>1. turn[s] # Nobody /\ Right(s, turn[s])
      BY <2>0, <2>4 DEF CallEnds, TurnIsRight, ToolsAreRight
    <3>2. astray' = {}
      BY <2>0, <2>4, <3>1 DEF CallEnds, Reach, Right
    <3> QED BY <2>0, <2>4, <3>2, OneSession
            DEF CallEnds, RowIsRight, TurnIsRight, ToolsAreRight, Right, WorkspaceTypeOK
  <2>5. ASSUME StepLaunch(s) PROVE PlacesInv'
    <3>1. astray' = {}
      BY <2>0, <2>5 DEF StepLaunch, RowIsRight, Reach, Right
    <3> QED BY <2>0, <2>5, <3>1, OneSession
            DEF StepLaunch, RowIsRight, TurnIsRight, ToolsAreRight, Right
  <2>6. ASSUME TurnEnds(s) PROVE PlacesInv'
    <3>1. RowIsRight(s)' /\ TurnIsRight(s)' /\ ToolsAreRight(s)'
      BY <2>0, <2>6 DEF TurnEnds, RowIsRight, TurnIsRight, ToolsAreRight, Right, WorkspaceTypeOK
    <3> QED BY <2>0, <2>6, <3>1, OneSession DEF TurnEnds, WorkspaceTypeOK
  <2>7. ASSUME NEW d \in Dirs, FileTool(s, d) \/ ReadArtifact(s, d) \/ LookAt(s, d)
        PROVE  PlacesInv'
    <3>1. tools[s] # NoTools
      BY <2>7 DEF FileTool, ReadArtifact, LookAt, NoTools
    <3>2. Right(s, d)
      <4>1. d \in tools[s].roots \/ d \in ArtifactDirs(s) \/ (d \in Wts /\ holder[d] = s)
        BY <2>7 DEF FileTool, ReadArtifact, LookAt
      <4>2. home[s].main \in Roots
        BY <2>0, <3>1 DEF RowIsRight
      <4>3. s # Nobody
        BY WorkspaceAssumption
      <4> QED BY <2>0, <3>1, <4>1, <4>2, <4>3 DEF ToolsAreRight, ArtifactDirs, Right
    <3>3. astray' = {}
      BY <2>0, <2>7, <3>2 DEF FileTool, ReadArtifact, LookAt, Reach, Right
    <3>4. UNCHANGED <<present, holder, held, home, turn, tools>>
      BY <2>7 DEF FileTool, ReadArtifact, LookAt
    <3> QED BY <2>0, <3>3, <3>4, OneSession DEF RowIsRight, TurnIsRight, ToolsAreRight, Right
  <2>8. ASSUME NEW w \in Wts, NEW bind \in BOOLEAN, CreateWorktree(s, w, bind)
        PROVE  PlacesInv'
    <3>1. /\ held \subseteq held' /\ <<s, w>> \in held' /\ turn' = turn /\ astray' = {}
          /\ tools[s] # NoTools
      BY <2>0, <2>8 DEF CreateWorktree
    <3>2. \A v \in Wts : holder'[v] # Nobody => <<holder'[v], v>> \in held'
      BY <2>0, <2>8 DEF CreateWorktree, WorkspaceTypeOK
    <3>3. CASE bind
      <4>1. BoundTo(s, w)
        BY <2>8, <3>3 DEF CreateWorktree
      <4> QED BY <3>1, <3>2, <4>1, BindIsRight, OneSession
    <3>4. CASE ~bind
      <4>1. home' = home /\ tools' = tools
        BY <2>8, <3>4 DEF CreateWorktree
      <4> QED BY <2>0, <3>1, <3>2, <4>1, OneSession
              DEF RowIsRight, TurnIsRight, ToolsAreRight, Right
    <3> QED BY <3>3, <3>4
  <2>9. ASSUME NEW w \in Wts, BindTool(s, w) PROVE PlacesInv'
    <3>1. /\ held' = held /\ holder' = holder /\ turn' = turn /\ astray' = {}
          /\ tools[s] # NoTools /\ BoundTo(s, w)
      BY <2>0, <2>9 DEF BindTool
    <3>2. <<s, w>> \in held
      BY <2>0, <2>9, WorkspaceAssumption DEF BindTool
    <3> QED BY <2>0, <3>1, <3>2, BindIsRight, OneSession
  <2>10. ASSUME NEW w \in Wts, CleanupTool(s, w) PROVE PlacesInv'
    <3>1. home[s] # NewSession /\ home[s].main \in Roots /\ turn[s] # Nobody
      BY <2>0, <2>10 DEF CleanupTool, RowIsRight, ToolsAreRight
    <3>2. \A v \in Wts : holder'[v] # Nobody => <<holder'[v], v>> \in held'
      BY <2>0, <2>10 DEF CleanupTool, WorkspaceTypeOK
    <3>3. tools'[s] \in {tools[s], ToMain(s)}
      BY <2>10 DEF CleanupTool, WorkspaceTypeOK
    <3>4. ToolsAreRight(s)'
      BY <2>0, <2>10, <3>1, <3>3 DEF CleanupTool, ToMain, ToolsAreRight, Right
    <3>5. RowIsRight(s)' /\ TurnIsRight(s)'
      BY <2>0, <2>10, <3>1 DEF CleanupTool, RowIsRight, TurnIsRight, Right
    <3> QED BY <2>0, <2>10, <3>2, <3>4, <3>5, OneSession DEF CleanupTool, WorkspaceTypeOK
  <2> QED BY <1>1, <2>1, <2>2, <2>3, <2>4, <2>5, <2>6, <2>7, <2>8, <2>9, <2>10 DEF OwnerStep
<1>2. ASSUME NEW w \in Wts, UserDeletes(w) PROVE PlacesInv'
  BY <1>2 DEF UserDeletes, PlacesInv, RowIsRight, TurnIsRight, ToolsAreRight, Right
<1>3. ASSUME UNCHANGED workspaceVars PROVE PlacesInv'
  BY <1>3 DEF workspaceVars, PlacesInv, RowIsRight, TurnIsRight, ToolsAreRight, Right
<1> QED BY <1>1, <1>2, <1>3 DEF WorkspaceNext

(* OnlyOwnPlaces: whatever is bound, removed and asked for, PMs and agents *)
(* are only in configured workspaces and worktrees of their session's.     *)
THEOREM OwnPlacesOnly == WorkspaceSpec => []OnlyOwnPlaces
<1>1. PlacesInv => OnlyOwnPlaces
  BY DEF PlacesInv, OnlyOwnPlaces
<1> QED BY <1>1, WorkspaceTypeInit, WorkspaceTypeNext, PlacesInit, PlacesNext, PTL DEF WorkspaceSpec

-----------------------------------------------------------------------------
(* The check of two leases.                                                *)

Stages == {"idle", "tracked", "mine", "theirs"}
Contents == Files \cup {Gone, Other}
Shelf == [Leased -> [Files -> Contents]]
Checks == [at : Stages, by : Leased \cup {""}, with : Leased \cup {""},
           mine : SUBSET Files, theirs : SUBSET Files, both : SUBSET Files,
           unlisted : SUBSET Files]

\* The state of a check of two leases, what it has read and what it is about.
ReviewTypeOK ==
    /\ tree \in Shelf
    /\ index \in [Leased -> SUBSET Files]
    /\ leased \subseteq Leased
    /\ check \in Checks
    /\ check.at # "idle" => check.by \in Leased /\ check.with \in Leased

\* What both had changed when the check began, and nobody touched since.
Settled == check.both \ stirred

\* A settled path is still one both have changed, and the check has it of its
\* own lease, or missed it there as git ls-files failed, or will find it there
\* among the untracked files, and of the other one as soon as it has asked for
\* the tracked files there.
CheckMissesNone ==
    check.at # "idle" =>
        \A p \in Settled :
            /\ p \in Touched(check.by) \cap Touched(check.with)
            /\ check.at = "tracked" => p \in check.mine \cup Untracked(check.by)
            /\ check.at \in {"mine", "theirs"} => p \in check.mine \cup check.unlisted
            /\ check.at = "theirs" => p \in check.theirs \cup Untracked(check.with)

ReviewInv == ReviewTypeOK /\ CheckMissesNone /\ NothingOverlooked

-----------------------------------------------------------------------------
(* What git says of a worktree leaves out nothing that was changed there.   *)

LEMMA ChangedIsSaid ==
    ASSUME NEW w, NEW p \in Touched(w)
    PROVE  p \in FilePaths(Entries(w)) \cup Untracked(w)
<1> DEFINE gone == {q \in Base : tree[w][q] = Gone \/ q \notin index[w]}
           new == {q \in index[w] \ Base : tree[w][q] # Gone}
           heir(f) == {g \in new : tree[w][g] = f}
           moved == {f \in gone : heir(f) # {}}
           to(f) == CHOOSE g \in heir(f) : TRUE
           rest == (gone \ moved) \cup (new \ {to(f) : f \in moved})
                   \cup {q \in Base \cap index[w] : tree[w][q] \notin {q, Gone}}
<1>1. p \in Files /\ tree[w][p] # AtBase[p]
  BY DEF Touched
<1>2. Entries(w) = {[path |-> to(f), old |-> {f}] : f \in moved}
                   \cup {[path |-> q, old |-> {}] : q \in rest}
  BY DEF Entries
<1>3. \A e \in Entries(w) : {e.path} \cup e.old \subseteq FilePaths(Entries(w))
  BY DEF FilePaths
<1>4. ASSUME p \in rest PROVE p \in FilePaths(Entries(w))
  <2>1. [path |-> p, old |-> {}] \in Entries(w)
    BY <1>2, <1>4
  <2> QED BY <1>3, <2>1
<1>5. ASSUME NEW f \in moved PROVE {f, to(f)} \subseteq FilePaths(Entries(w))
  <2>1. [path |-> to(f), old |-> {f}] \in Entries(w)
    BY <1>2, <1>5
  <2> QED BY <1>3, <2>1
<1>6. CASE p \in Base
  <2>1. tree[w][p] # p
    BY <1>1, <1>6 DEF AtBase
  <2>2. p \in gone \/ p \in rest
    BY <1>6, <2>1
  <2>3. p \in moved \/ p \in rest
    BY <2>2
  <2> QED BY <2>3, <1>4, <1>5
<1>7. CASE p \notin Base
  <2>1. tree[w][p] # Gone
    BY <1>1, <1>7 DEF AtBase
  <2>2. CASE p \in index[w]
    <3>1. p \in new
      BY <1>7, <2>1, <2>2
    <3>2. p \in rest \/ \E f \in moved : p = to(f)
      BY <3>1
    <3> QED BY <3>2, <1>4, <1>5
  <2>3. CASE p \notin index[w]
    BY <1>1, <2>1, <2>3 DEF Untracked
  <2> QED BY <2>2, <2>3
<1> QED BY <1>6, <1>7

LEMMA EntriesArePaths ==
    ASSUME NEW w, index[w] \subseteq Files
    PROVE  FilePaths(Entries(w)) \subseteq Files
<1> DEFINE gone == {q \in Base : tree[w][q] = Gone \/ q \notin index[w]}
           new == {q \in index[w] \ Base : tree[w][q] # Gone}
           heir(f) == {g \in new : tree[w][g] = f}
           moved == {f \in gone : heir(f) # {}}
           to(f) == CHOOSE g \in heir(f) : TRUE
           rest == (gone \ moved) \cup (new \ {to(f) : f \in moved})
                   \cup {q \in Base \cap index[w] : tree[w][q] \notin {q, Gone}}
<1>1. Entries(w) = {[path |-> to(f), old |-> {f}] : f \in moved}
                   \cup {[path |-> q, old |-> {}] : q \in rest}
  BY DEF Entries
<1>2. gone \subseteq Files /\ new \subseteq Files /\ rest \subseteq Files
  BY ReviewAssumption
<1>3. ASSUME NEW f \in moved PROVE {to(f), f} \subseteq Files
  <2>1. to(f) \in heir(f)
    OBVIOUS
  <2> QED BY <1>2, <2>1
<1> HIDE DEF to, rest, moved
<1>4. \A e \in Entries(w) : {e.path} \cup e.old \subseteq Files
  BY <1>1, <1>2, <1>3
<1> QED BY <1>4 DEF FilePaths

\* A step of the agents or of git touches only the paths it stirs.
LEMMA WriteTouches ==
    ASSUME ReviewTypeOK, NEW w \in Leased, NEW p \in Files, NEW c, Write(w, p, c)
    PROVE  /\ tree' \in Shelf /\ index' = index
           /\ \A v \in Leased, q \in Files : q # p => tree'[v][q] = tree[v][q]
<1>1. tree' = [tree EXCEPT ![w][p] = c] /\ c \in Contents /\ index' = index
  BY DEF Write, Contents
<1>2. tree \in [Leased -> [Files -> Contents]]
  BY DEF ReviewTypeOK, Shelf
<1>3. tree'[w] = [tree[w] EXCEPT ![p] = c] /\ \A v \in Leased : v # w => tree'[v] = tree[v]
  BY <1>1, <1>2
<1>4. tree'[w] \in [Files -> Contents]
  BY <1>1, <1>2, <1>3
<1> QED BY <1>1, <1>2, <1>3, <1>4 DEF Shelf

LEMMA MoveTouches ==
    ASSUME ReviewTypeOK, NEW w \in Leased, NEW p \in Files, NEW q \in Files, Move(w, p, q)
    PROVE  /\ tree' \in Shelf /\ index' = index
           /\ \A v \in Leased, r \in Files : r \notin {p, q} => tree'[v][r] = tree[v][r]
<1>1. tree' = [tree EXCEPT ![w][q] = tree[w][p], ![w][p] = Gone] /\ index' = index
  BY DEF Move
<1>2. tree \in [Leased -> [Files -> Contents]] /\ Gone \in Contents
  BY DEF ReviewTypeOK, Shelf, Contents
<1>3. /\ tree'[w] = [tree[w] EXCEPT ![q] = tree[w][p], ![p] = Gone]
      /\ \A v \in Leased : v # w => tree'[v] = tree[v]
  BY <1>1, <1>2
<1>4. tree'[w] \in [Files -> Contents]
  BY <1>2, <1>3
<1> QED BY <1>1, <1>2, <1>3, <1>4 DEF Shelf

LEMMA CommitTouches ==
    ASSUME ReviewTypeOK, NEW w \in Leased, CommitAll(w)
    PROVE  /\ tree' = tree /\ index' \in [Leased -> SUBSET Files]
           /\ \A v \in Leased, q \in Files :
                 (q \in index'[v]) # (q \in index[v]) =>
                     q \in {p \in Files : (p \in {r \in Files : tree[w][r] # Gone}) # (p \in index[w])}
BY DEF CommitAll, ReviewTypeOK

\* Whatever is stirred, the check knows what else it is about.
LEMMA StirKeeps ==
    ASSUME ReviewTypeOK, CheckMissesNone, NEW ps, Stir(ps), check' = check,
           \A w \in Leased, q \in Files :
               q \notin ps => tree'[w][q] = tree[w][q] /\ (q \in index'[w] <=> q \in index[w])
    PROVE  CheckMissesNone'
<1> SUFFICES ASSUME check.at # "idle", NEW p \in Settled'
             PROVE  /\ p \in Touched(check.by)' \cap Touched(check.with)'
                    /\ check.at = "tracked" => p \in check.mine \cup Untracked(check.by)'
                    /\ check.at \in {"mine", "theirs"} => p \in check.mine \cup check.unlisted
                    /\ check.at = "theirs" => p \in check.theirs \cup Untracked(check.with)'
  BY DEF CheckMissesNone
<1>1. p \in Settled /\ p \notin ps
  BY DEF Settled, Stir
<1>2. check.by \in Leased /\ check.with \in Leased
  BY DEF ReviewTypeOK
<1>3. p \in Touched(check.by) \cap Touched(check.with) /\ p \in Files
  BY <1>1 DEF CheckMissesNone, Touched
<1>4. \A w \in Leased : tree'[w][p] = tree[w][p] /\ (p \in index'[w] <=> p \in index[w])
  BY <1>1, <1>3
<1>5. \A w \in Leased : (p \in Touched(w) => p \in Touched(w)') /\ (p \in Untracked(w) => p \in Untracked(w)')
  BY <1>3, <1>4 DEF Touched, Untracked, AtBase
<1> QED BY <1>1, <1>2, <1>3, <1>5 DEF CheckMissesNone

-----------------------------------------------------------------------------
(* The steps.                                                              *)

LEMMA ReviewInitial == ReviewInit => ReviewInv
<1> SUFFICES ASSUME ReviewInit PROVE ReviewInv
  OBVIOUS
<1>0. index = [w \in Leased |-> Base] /\ leased = Leased /\ check = NoCheck /\ told = NoAnswer
  BY DEF ReviewInit
<1>1. tree \in Shelf
  <2>1. AtBase \in [Files -> Contents]
    BY DEF AtBase, Contents
  <2>2. tree = [w \in Leased |-> AtBase]
    BY DEF ReviewInit
  <2> QED BY <2>1, <2>2 DEF Shelf
<1>2. index \in [Leased -> SUBSET Files]
  BY <1>0, ReviewAssumption
<1>3. check \in Checks /\ check.at = "idle"
  BY <1>0 DEF NoCheck, Checks, Stages
<1>4. told.overlooked = {}
  BY <1>0 DEF NoAnswer
<1> QED BY <1>0, <1>1, <1>2, <1>3, <1>4 DEF ReviewInv, ReviewTypeOK, CheckMissesNone, NothingOverlooked

LEMMA ChangeStep ==
    ASSUME ReviewInv, NEW w \in Leased,
           \/ \E p \in Files, c \in {Other, Gone} : Write(w, p, c)
           \/ \E p, q \in Files : Move(w, p, q)
           \/ CommitAll(w)
    PROVE  ReviewInv'
<1> USE DEF ReviewInv
<1>1. CASE \E p \in Files, c \in {Other, Gone} : Write(w, p, c)
  <2> PICK p \in Files, c \in {Other, Gone} : Write(w, p, c)
    BY <1>1
  <2>1. Stir({p}) /\ UNCHANGED <<leased, check, told>>
    BY DEF Write
  <2> QED BY <2>1, WriteTouches, StirKeeps DEF ReviewTypeOK, NothingOverlooked
<1>2. CASE \E p, q \in Files : Move(w, p, q)
  <2> PICK p \in Files, q \in Files : Move(w, p, q)
    BY <1>2
  <2>1. Stir({p, q}) /\ UNCHANGED <<leased, check, told>>
    BY DEF Move
  <2> QED BY <2>1, MoveTouches, StirKeeps DEF ReviewTypeOK, NothingOverlooked
<1>3. CASE CommitAll(w)
  <2> DEFINE ps == {p \in Files : (p \in {r \in Files : tree[w][r] # Gone}) # (p \in index[w])}
  <2>1. Stir(ps) /\ UNCHANGED <<leased, check, told>>
    BY <1>3 DEF CommitAll
  <2>2. /\ tree' = tree /\ index' \in [Leased -> SUBSET Files]
        /\ \A v \in Leased, q \in Files : (q \in index'[v]) # (q \in index[v]) => q \in ps
    BY <1>3, CommitTouches
  <2> HIDE DEF ps
  <2>3. \A v \in Leased, q \in Files :
            q \notin ps => tree'[v][q] = tree[v][q] /\ (q \in index'[v] <=> q \in index[v])
    BY <2>2
  <2>4. CheckMissesNone'
    BY <2>1, <2>3, StirKeeps
  <2> QED BY <2>1, <2>2, <2>4 DEF ReviewTypeOK, NothingOverlooked
<1> QED BY <1>1, <1>2, <1>3

LEMMA QuietCheckStep ==
    ASSUME ReviewInv, NEW w \in Leased,
           \/ Release(w)
           \/ \E tested, fails \in BOOLEAN : Diff(w, fails) \/ Promote(w, tested, fails)
    PROVE  ReviewInv'
<1>1. /\ UNCHANGED <<tree, index, check, stirred>> /\ leased' \subseteq leased
      /\ told'.overlooked = {} \/ told' = told
  <2>1. CASE Release(w)
    BY <2>1 DEF Release
  <2>2. ASSUME NEW fails \in BOOLEAN, Diff(w, fails)
        PROVE  UNCHANGED <<tree, index, check, stirred, leased, told>>
    BY <2>2 DEF Diff
  <2>3. ASSUME NEW tested \in BOOLEAN, NEW fails \in BOOLEAN, Promote(w, tested, fails)
        PROVE  UNCHANGED <<tree, index, check, stirred, leased>> /\ told'.overlooked = {}
    BY <2>3 DEF Promote, NoAnswer
  <2> QED BY <2>1, <2>2, <2>3
<1>2. ReviewTypeOK' /\ NothingOverlooked'
  BY <1>1 DEF ReviewInv, ReviewTypeOK, NothingOverlooked
<1>3. CheckMissesNone'
  BY <1>1 DEF ReviewInv, CheckMissesNone, Settled, Touched, Untracked
<1> QED BY <1>2, <1>3 DEF ReviewInv

LEMMA BeginCheckStep ==
    ASSUME ReviewInv, NEW w \in Leased, NEW asked \in Leased, CheckBegins(w, asked)
    PROVE  ReviewInv'
<1> PICK v \in OtherLease(w, asked) :
        check' = [at |-> "tracked", by |-> w, with |-> v,
                  mine |-> FilePaths(Entries(w)), theirs |-> {},
                  both |-> Touched(w) \cap Touched(v), unlisted |-> {}]
  BY DEF CheckBegins
<1>1. v \in Leased
  BY DEF OtherLease, ReviewInv, ReviewTypeOK
<1>2. UNCHANGED <<tree, index, leased, told>> /\ stirred' = {}
  BY DEF CheckBegins
<1>3. ReviewTypeOK' /\ NothingOverlooked'
  <2>1. index[w] \subseteq Files
    BY DEF ReviewInv, ReviewTypeOK
  <2>2. FilePaths(Entries(w)) \subseteq Files /\ Touched(w) \subseteq Files
    BY <2>1, EntriesArePaths DEF Touched
  <2>3. check' \in Checks /\ check'.at \in Stages /\ check'.by = w /\ check'.with = v
    BY <1>1, <2>2 DEF Stages, Checks
  <2> QED BY <1>1, <1>2, <2>3 DEF ReviewInv, ReviewTypeOK, NothingOverlooked
<1>4. \A p \in Touched(w) : p \in FilePaths(Entries(w)) \cup Untracked(w)
  BY ChangedIsSaid
<1>5. check'.at = "tracked" /\ check'.by = w /\ check'.with = v /\ check'.mine = FilePaths(Entries(w))
      /\ Settled' = Touched(w) \cap Touched(v)
  BY <1>2 DEF Settled
<1>6. \A p \in Settled' :
        /\ p \in {q \in Files : tree'[w][q] # AtBase[q]} \cap {q \in Files : tree'[v][q] # AtBase[q]}
        /\ p \in check'.mine \cup {q \in Files \ index'[w] : tree'[w][q] # Gone}
  BY <1>2, <1>4, <1>5 DEF Touched, Untracked
<1>7. CheckMissesNone'
  BY <1>5, <1>6 DEF CheckMissesNone, Touched, Untracked
<1> QED BY <1>3, <1>7 DEF ReviewInv

LEMMA ReadCheckStep == ASSUME ReviewInv, CheckReads PROVE ReviewInv'
<1>1. UNCHANGED <<tree, index, leased, stirred, told>>
  BY DEF CheckReads
<1>2. check.at # "idle" /\ check.by \in Leased /\ check.with \in Leased
  BY DEF ReviewInv, ReviewTypeOK, CheckReads
<1>3. check \in Checks /\ index[check.with] \subseteq Files
  BY <1>2 DEF ReviewInv, ReviewTypeOK
<1>30. Untracked(check.by) \subseteq Files /\ FilePaths(Entries(check.with)) \subseteq Files
  BY <1>3, EntriesArePaths DEF Untracked
<1>4. ASSUME check.at = "tracked", NEW fails \in BOOLEAN,
             check' = [check EXCEPT !.at = "mine", !.mine = @ \cup Listed(check.by, fails),
                                    !.unlisted = Untracked(check.by) \ Listed(check.by, fails)]
      PROVE  ReviewInv'
  <2>0. Listed(check.by, fails) \subseteq Untracked(check.by)
    BY DEF Listed
  <2>1. /\ check' \in Checks /\ check'.at = "mine" /\ check'.by = check.by /\ check'.with = check.with
        /\ check'.both = check.both
        /\ check'.mine = check.mine \cup Listed(check.by, fails)
        /\ check'.unlisted = Untracked(check.by) \ Listed(check.by, fails)
    BY <1>3, <1>30, <1>4, <2>0 DEF Checks, Stages
  <2>2. ReviewTypeOK' /\ NothingOverlooked'
    BY <1>1, <1>2, <2>1 DEF ReviewInv, ReviewTypeOK, NothingOverlooked, Stages
  <2>3. Settled' = Settled /\ Touched(check.by)' = Touched(check.by) /\ Touched(check.with)' = Touched(check.with)
    BY <1>1, <2>1 DEF Settled, Touched
  <2>4. CheckMissesNone'
    BY <1>1, <1>2, <1>4, <2>1, <2>3 DEF ReviewInv, CheckMissesNone
  <2> QED BY <2>2, <2>4 DEF ReviewInv
<1>5. CASE /\ check.at = "mine"
           /\ check' = [check EXCEPT !.at = "theirs", !.theirs = FilePaths(Entries(check.with))]
  <2>1. /\ check' \in Checks /\ check'.at = "theirs" /\ check'.by = check.by /\ check'.with = check.with
        /\ check'.both = check.both /\ check'.mine = check.mine
        /\ check'.theirs = FilePaths(Entries(check.with)) /\ check'.unlisted = check.unlisted
    BY <1>3, <1>30, <1>5 DEF Checks, Stages
  <2>2. ReviewTypeOK' /\ NothingOverlooked'
    BY <1>1, <1>2, <2>1 DEF ReviewInv, ReviewTypeOK, NothingOverlooked, Stages
  <2>3. /\ Settled' = Settled /\ Touched(check.by)' = Touched(check.by)
        /\ Touched(check.with)' = Touched(check.with) /\ Untracked(check.with)' = Untracked(check.with)
    BY <1>1, <2>1 DEF Settled, Touched, Untracked
  <2>4. \A p \in Touched(check.with) : p \in FilePaths(Entries(check.with)) \cup Untracked(check.with)
    BY ChangedIsSaid
  <2>5. CheckMissesNone'
    BY <1>1, <1>2, <1>5, <2>1, <2>3, <2>4 DEF ReviewInv, CheckMissesNone
  <2> QED BY <2>2, <2>5 DEF ReviewInv
<1> QED BY <1>4, <1>5 DEF CheckReads

LEMMA FailStep == ASSUME ReviewInv, CheckFails PROVE ReviewInv'
BY DEF CheckFails, ReviewInv, ReviewTypeOK, CheckMissesNone, NothingOverlooked, NoCheck, NoAnswer,
       Stages, Checks

LEMMA AnswerCheckStep ==
    ASSUME ReviewInv, NEW fails \in BOOLEAN, CheckAnswers(fails)
    PROVE  ReviewInv'
<1> DEFINE theirs == check.theirs \cup Listed(check.with, fails)
           risk == IF check.mine \cap theirs # {} THEN "high"
                   ELSE IF check.mine \cup theirs # {} THEN "low" ELSE "none"
<1>1. /\ check.at = "theirs" /\ check' = NoCheck /\ UNCHANGED <<tree, index, leased>>
      /\ told'.overlooked = IF risk = "high" THEN {} ELSE Settled
      /\ told'.unlisted = check.unlisted \cup (Untracked(check.with) \ Listed(check.with, fails))
  BY DEF CheckAnswers, Settled
<1>2. \A p \in Settled : p \in (check.mine \cap theirs) \cup told'.unlisted
  BY <1>1 DEF ReviewInv, CheckMissesNone
<1>3. NothingOverlooked'
  BY <1>1, <1>2 DEF NothingOverlooked
<1> QED BY <1>1, <1>3 DEF ReviewInv, ReviewTypeOK, CheckMissesNone, NothingOverlooked, NoCheck, Stages, Checks

LEMMA ReviewNextKeeps == ReviewInv /\ [ReviewNext]_reviewVars => ReviewInv'
<1> SUFFICES ASSUME ReviewInv, [ReviewNext]_reviewVars PROVE ReviewInv'
  OBVIOUS
<1>1. ASSUME NEW w \in Leased, TreeStep(w) PROVE ReviewInv'
  <2>1. CASE \/ \E p \in Files, c \in {Other, Gone} : Write(w, p, c)
             \/ \E p, q \in Files : Move(w, p, q)
             \/ CommitAll(w)
    BY <2>1, ChangeStep
  <2>2. CASE \/ Release(w)
             \/ \E tested, fails \in BOOLEAN : Diff(w, fails) \/ Promote(w, tested, fails)
    BY <2>2, QuietCheckStep
  <2>3. CASE \E v \in Leased : CheckBegins(w, v)
    BY <2>3, BeginCheckStep
  <2> QED BY <1>1, <2>1, <2>2, <2>3 DEF TreeStep
<1>2. CASE CheckReads
  BY <1>2, ReadCheckStep
<1>3. CASE CheckFails \/ \E fails \in BOOLEAN : CheckAnswers(fails)
  BY <1>3, AnswerCheckStep, FailStep
<1>4. CASE UNCHANGED reviewVars
  BY <1>4 DEF reviewVars, ReviewInv, ReviewTypeOK, CheckMissesNone, NothingOverlooked, Settled, Touched, Untracked
<1> QED BY <1>1, <1>2, <1>3, <1>4 DEF ReviewNext

\* A path both sessions had changed when a check of the merge risk began, and
\* nobody touched while it ran, makes the risk high, unless it is untracked
\* where git ls-files failed: for any leases, paths, failing commands and
\* changes between the commands of the two diffs.
THEOREM ReviewsOverlookNothing == ReviewSpec => []NothingOverlooked
<1>1. ReviewInv => NothingOverlooked
  BY DEF ReviewInv
<1> QED BY ReviewInitial, ReviewNextKeeps, <1>1, PTL DEF ReviewSpec

-----------------------------------------------------------------------------
(* Runs of workflows.                                                      *)

\* The kinds of the runs' state, by name.
Steps == 1 .. Len(steps)
About == {NoReview} \cup [run : Runs, step : Steps]
Ways == {"none", "free", "gate", "owner", "review"}

\* The native skills a task was given are those its manifest names: as long as
\* they are named there, nobody else's clearing takes them away.
ManifestCovers ==
    \A k \in FileKeys :
        "CLAUDE.md" \in need[k].files =>
            need[k].skills \subseteq manifest[<<need[k].place, k>>]

\* What a key was given is in its place.
FilesStay ==
    \A k \in FileKeys :
        /\ \A f \in need[k].files : <<need[k].place, f, k>> \in blocks
        /\ "CLAUDE.md" \in need[k].files => {need[k].place} \X need[k].skills \subseteq native
        /\ "AGENTS.md" \in need[k].files => {need[k].place} \X {k} \X need[k].skills \subseteq codex

\* The key has something in the place.
Holds(p, k) == need[k].files # {} /\ need[k].place = p

\* If no key strayed, all that is in the workspaces has an owner who needs it.
BlocksOwned ==
    /\ \A b \in blocks : Holds(b[1], b[3])
    /\ \A c \in codex : Holds(c[1], c[2])
    /\ \A x \in excluded : Holds(x[1], x[2])
    /\ \A p \in Places, k \in FileKeys : manifest[<<p, k>>] # {} => Holds(p, k)
    /\ \A n \in native : \E k \in FileKeys : n[2] \in manifest[<<n[1], k>>]

AllOwned == ~strayed => BlocksOwned

FilesInv == FilesTypeOK /\ ManifestCovers /\ FilesStay /\ AllOwned

\* A run that waits at its gate has a card for it.
BlockedHasCard ==
    \A r \in Runs : status[r] = "blocked" => \E c \in 1 .. Len(cards[r]) : cards[r][c] = step[r]

FlowTypeOK ==
    /\ steps \in Workflows /\ Len(steps) \in Nat \ {0}
    /\ step \in [Runs -> Steps] /\ status \in [Runs -> Statuses]
    /\ review \in [Reviews -> About] /\ cards \in [Runs -> Seq(Steps)]
    /\ place \in Places /\ tasks \subseteq Tasks \X Places
    /\ judged \subseteq Runs \X Steps /\ taken \in [Runs \X Steps -> Ways]

FlowInv == FlowTypeOK /\ BlockedHasCard /\ GatesHold

\* Whoever needs what was injected is at work or forgotten.
NeedyAreKnown == \A k \in FileKeys : need[k].files # {} => k \in AtWork \cup forgotten

-----------------------------------------------------------------------------
(* The files.                                                              *)

LEMMA GuidanceIs ==
    ASSUME NEW agent PROVE GuidanceFor(agent) \subseteq Guidance /\ GuidanceFor(agent) # {}
BY DEF GuidanceFor, Guidance

LEMMA FilesInitial == FilesInit => FilesInv
<1> SUFFICES ASSUME FilesInit PROVE FilesInv
  OBVIOUS
<1>1. NoNeed \in Needs /\ NoNeed.files = {}
  BY DEF NoNeed, Needs, Places
<1>2. FilesTypeOK
  BY <1>1 DEF FilesInit, FilesTypeOK
<1>3. \A k \in FileKeys : need[k].files = {}
  BY <1>1 DEF FilesInit
<1>4. \A p \in Places, k \in FileKeys : manifest[<<p, k>>] = {}
  BY DEF FilesInit
<1>5. blocks = {} /\ codex = {} /\ excluded = {} /\ native = {}
  BY DEF FilesInit
<1> QED BY <1>2, <1>3, <1>4, <1>5 DEF FilesInv, ManifestCovers, FilesStay, AllOwned, BlocksOwned

LEMMA InjectKeeps ==
    ASSUME FilesInv, NEW p \in Places, NEW k \in FileKeys, NEW files \in SUBSET Guidance,
           files # {}, NEW skills \in SUBSET Skills, Inject(p, k, files, skills)
    PROVE  FilesInv'
<1> DEFINE claude == "CLAUDE.md" \in files /\ skills # {}
           given == [place |-> p, files |-> files, skills |-> skills]
<1>1. /\ blocks' = blocks \cup {<<p, f, k>> : f \in files}
      /\ native' = native \cup (IF claude THEN {p} \X skills ELSE {})
      /\ manifest' = IF claude THEN [manifest EXCEPT ![<<p, k>>] = skills] ELSE manifest
      /\ codex' = codex \cup (IF "AGENTS.md" \in files THEN {p} \X {k} \X skills ELSE {})
      /\ excluded' = excluded \cup (IF p = "main" /\ skills # {} THEN {<<p, k>>} ELSE {})
      /\ need' = [need EXCEPT ![k] = given]
      /\ strayed' = (strayed \/ (need[k].files # {} /\ need[k].place # p)
                             \/ (claude /\ ~(manifest[<<p, k>>] \subseteq skills)))
      /\ forgotten' = forgotten
  BY DEF Inject
<1>2. FilesTypeOK
  BY DEF FilesInv
<1>3. need'[k] = given /\ \A j \in FileKeys : j # k => need'[j] = need[j]
  BY <1>1, <1>2 DEF FilesTypeOK
<1>4. /\ claude => manifest'[<<p, k>>] = skills
      /\ \A q \in Places, j \in FileKeys : <<q, j>> # <<p, k>> \/ ~claude => manifest'[<<q, j>>] = manifest[<<q, j>>]
  BY <1>1, <1>2 DEF FilesTypeOK
<1>5. FilesTypeOK'
  <2>1. blocks' \subseteq Places \X Guidance \X FileKeys
    BY <1>1, <1>2 DEF FilesTypeOK
  <2>2. native' \subseteq Places \X Skills
    BY <1>1, <1>2 DEF FilesTypeOK
  <2>3. codex' \subseteq Places \X FileKeys \X Skills
    BY <1>1, <1>2 DEF FilesTypeOK
  <2>4. excluded' \subseteq Places \X FileKeys
    BY <1>1, <1>2 DEF FilesTypeOK
  <2>5. need' \in [FileKeys -> Needs]
    BY <1>1, <1>2 DEF FilesTypeOK, Needs
  <2>6. manifest' \in [Places \X FileKeys -> SUBSET Skills]
    BY <1>1, <1>2 DEF FilesTypeOK
  <2>7. strayed' \in BOOLEAN
    BY <1>1, <1>2 DEF FilesTypeOK
  <2>8. forgotten' \subseteq FileKeys
    BY <1>1, <1>2 DEF FilesTypeOK
  <2> QED BY <2>1, <2>2, <2>3, <2>4, <2>5, <2>6, <2>7, <2>8 DEF FilesTypeOK
<1>6. ManifestCovers'
  BY <1>2, <1>3, <1>4 DEF FilesInv, ManifestCovers, FilesTypeOK, Needs
<1>7. FilesStay'
  <2> SUFFICES ASSUME NEW j \in FileKeys
               PROVE  /\ \A f \in need'[j].files : <<need'[j].place, f, j>> \in blocks'
                      /\ "CLAUDE.md" \in need'[j].files => {need'[j].place} \X need'[j].skills \subseteq native'
                      /\ "AGENTS.md" \in need'[j].files => {need'[j].place} \X {j} \X need'[j].skills \subseteq codex'
    BY DEF FilesStay
  <2>1. CASE j = k
    BY <1>1, <1>3, <2>1
  <2>2. CASE j # k
    BY <1>1, <1>3, <2>2 DEF FilesInv, FilesStay
  <2> QED BY <2>1, <2>2
<1>8. ASSUME ~strayed' PROVE BlocksOwned'
  <2>1. ~strayed /\ (need[k].files # {} => need[k].place = p) /\ (claude => manifest[<<p, k>>] \subseteq skills)
    BY <1>1, <1>8
  <2>2. Holds(p, k)' /\ \A q, j : j \in FileKeys /\ Holds(q, j) => Holds(q, j)'
    BY <1>3, <2>1 DEF Holds
  <2>3. \A b \in blocks' : Holds(b[1], b[3])'
    <3>1. \A b \in blocks : Holds(b[1], b[3]) /\ b[3] \in FileKeys
      BY <1>2, <2>1 DEF FilesInv, AllOwned, BlocksOwned, FilesTypeOK
    <3>2. \A b \in {<<p, f, k>> : f \in files} : b[1] = p /\ b[3] = k
      OBVIOUS
    <3> QED BY <1>1, <2>2, <3>1, <3>2
  <2>4. \A c \in codex' : Holds(c[1], c[2])'
    <3>1. \A c \in codex : Holds(c[1], c[2]) /\ c[2] \in FileKeys
      BY <1>2, <2>1 DEF FilesInv, AllOwned, BlocksOwned, FilesTypeOK
    <3>2. \A c \in {p} \X {k} \X skills : c[1] = p /\ c[2] = k
      OBVIOUS
    <3> QED BY <1>1, <2>2, <3>1, <3>2
  <2>5. \A x \in excluded' : Holds(x[1], x[2])'
    <3>1. \A x \in excluded : Holds(x[1], x[2]) /\ x[2] \in FileKeys
      BY <1>2, <2>1 DEF FilesInv, AllOwned, BlocksOwned, FilesTypeOK
    <3> QED BY <1>1, <2>2, <3>1
  <2>6. \A q \in Places, j \in FileKeys : manifest'[<<q, j>>] # {} => Holds(q, j)'
    BY <1>4, <2>1, <2>2 DEF FilesInv, AllOwned, BlocksOwned
  <2>7. \A n \in native' : \E j \in FileKeys : n[2] \in manifest'[<<n[1], j>>]
    <3>1. ASSUME NEW n \in native PROVE \E j \in FileKeys : n[2] \in manifest'[<<n[1], j>>]
      <4>1. n[1] \in Places
        BY <1>2, <3>1 DEF FilesTypeOK
      <4>2. PICK j \in FileKeys : n[2] \in manifest[<<n[1], j>>]
        BY <2>1, <3>1 DEF FilesInv, AllOwned, BlocksOwned
      <4>3. n[2] \in manifest'[<<n[1], j>>]
        BY <1>4, <2>1, <4>1, <4>2
      <4> QED BY <4>3
    <3>2. claude => \A n \in {p} \X skills : n[2] \in manifest'[<<n[1], k>>]
      BY <1>4
    <3> QED BY <1>1, <3>1, <3>2
  <2> QED BY <2>3, <2>4, <2>5, <2>6, <2>7 DEF BlocksOwned
<1>9. AllOwned'
  BY <1>8 DEF AllOwned
<1> QED BY <1>5, <1>6, <1>7, <1>9 DEF FilesInv

LEMMA ClearKeeps ==
    ASSUME FilesInv, NEW p \in Places, NEW k \in FileKeys, Clear(p, k)
    PROVE  FilesInv'
<1>1. /\ blocks' = {b \in blocks : b[1] # p \/ b[3] # k}
      /\ native' = native \ ({p} \X (manifest[<<p, k>>] \ Claimed(p, k)))
      /\ manifest' = [manifest EXCEPT ![<<p, k>>] = {}]
      /\ codex' = {c \in codex : c[1] # p \/ c[2] # k}
      /\ excluded' = excluded \ {<<p, k>>}
      /\ strayed' = (strayed \/ (need[k].files # {} /\ need[k].place # p))
      /\ need' = [need EXCEPT ![k] = NoNeed]
      /\ forgotten' = forgotten
  BY DEF Clear
<1>2. FilesTypeOK
  BY DEF FilesInv
<1>3. need'[k].files = {} /\ NoNeed \in Needs /\ \A j \in FileKeys : j # k => need'[j] = need[j]
  BY <1>1, <1>2 DEF FilesTypeOK, NoNeed, Needs, Places
<1>4. /\ manifest'[<<p, k>>] = {}
      /\ \A q \in Places, j \in FileKeys : <<q, j>> # <<p, k>> => manifest'[<<q, j>>] = manifest[<<q, j>>]
  BY <1>1, <1>2 DEF FilesTypeOK
<1>5. FilesTypeOK'
  BY <1>1, <1>2, <1>3 DEF FilesTypeOK
<1>6. ManifestCovers'
  BY <1>2, <1>3, <1>4 DEF FilesInv, ManifestCovers, FilesTypeOK, Needs
<1>7. FilesStay'
  <2> SUFFICES ASSUME NEW j \in FileKeys
               PROVE  /\ \A f \in need'[j].files : <<need'[j].place, f, j>> \in blocks'
                      /\ "CLAUDE.md" \in need'[j].files => {need'[j].place} \X need'[j].skills \subseteq native'
                      /\ "AGENTS.md" \in need'[j].files => {need'[j].place} \X {j} \X need'[j].skills \subseteq codex'
    BY DEF FilesStay
  <2>1. CASE j = k
    BY <1>3, <2>1
  <2>2. CASE j # k
    <3>1. need'[j] = need[j]
      BY <1>3, <2>2
    <3>2. \A f \in need[j].files : <<need[j].place, f, j>> \in blocks'
      BY <1>1, <2>2 DEF FilesInv, FilesStay
    <3>3. ASSUME "CLAUDE.md" \in need[j].files PROVE {need[j].place} \X need[j].skills \subseteq native'
      <4>1. need[j].skills \subseteq manifest[<<need[j].place, j>>]
        BY <3>3 DEF FilesInv, ManifestCovers
      <4>2. need[j].place = p => need[j].skills \subseteq Claimed(p, k)
        BY <2>2, <4>1 DEF Claimed
      <4>3. {need[j].place} \X need[j].skills \subseteq native
        BY <3>3 DEF FilesInv, FilesStay
      <4> QED BY <1>1, <4>2, <4>3
    <3>4. "AGENTS.md" \in need[j].files => {need[j].place} \X {j} \X need[j].skills \subseteq codex'
      BY <1>1, <2>2 DEF FilesInv, FilesStay
    <3> QED BY <3>1, <3>2, <3>3, <3>4
  <2> QED BY <2>1, <2>2
<1>8. ASSUME ~strayed' PROVE BlocksOwned'
  <2>1. ~strayed /\ (need[k].files # {} => need[k].place = p)
    BY <1>1, <1>8
  <2>2. \A q, j : j \in FileKeys /\ Holds(q, j) => (q = p /\ j = k) \/ Holds(q, j)'
    BY <1>3, <2>1 DEF Holds
  <2>3. \A b \in blocks' : Holds(b[1], b[3])'
    BY <1>1, <1>2, <2>1, <2>2 DEF FilesInv, AllOwned, BlocksOwned, FilesTypeOK
  <2>4. \A c \in codex' : Holds(c[1], c[2])'
    BY <1>1, <1>2, <2>1, <2>2 DEF FilesInv, AllOwned, BlocksOwned, FilesTypeOK
  <2>5. \A x \in excluded' : Holds(x[1], x[2])'
    <3>1. \A x \in excluded' : x = <<x[1], x[2]>> /\ x \in excluded /\ x[2] \in FileKeys
      BY <1>1, <1>2 DEF FilesTypeOK
    <3> QED BY <1>1, <2>1, <2>2, <3>1 DEF FilesInv, AllOwned, BlocksOwned
  <2>6. \A q \in Places, j \in FileKeys : manifest'[<<q, j>>] # {} => Holds(q, j)'
    BY <1>4, <2>1, <2>2 DEF FilesInv, AllOwned, BlocksOwned
  <2>7. ASSUME NEW n \in native' PROVE \E j \in FileKeys : n[2] \in manifest'[<<n[1], j>>]
    <3>1. n \in native /\ n = <<n[1], n[2]>> /\ n[1] \in Places
      BY <1>1, <1>2, <2>7 DEF FilesTypeOK
    <3>2. PICK j \in FileKeys : n[2] \in manifest[<<n[1], j>>]
      BY <2>1, <3>1 DEF FilesInv, AllOwned, BlocksOwned
    <3>3. CASE <<n[1], j>> # <<p, k>>
      BY <1>4, <3>1, <3>2, <3>3
    <3>4. CASE <<n[1], j>> = <<p, k>>
      <4>1. n[2] \in Claimed(p, k)
        BY <1>1, <2>7, <3>1, <3>2, <3>4
      <4>2. PICK i \in FileKeys \ {k} : n[2] \in manifest[<<p, i>>]
        BY <4>1 DEF Claimed
      <4> QED BY <1>4, <3>1, <3>4, <4>2
    <3> QED BY <3>3, <3>4
  <2> QED BY <2>3, <2>4, <2>5, <2>6, <2>7 DEF BlocksOwned
<1>9. AllOwned'
  BY <1>8 DEF AllOwned
<1> QED BY <1>5, <1>6, <1>7, <1>9 DEF FilesInv

LEMMA ClearFailsKeeps ==
    ASSUME FilesInv, NEW k \in FileKeys, ClearFails(k)
    PROVE  FilesInv'
<1>1. UNCHANGED <<blocks, native, manifest, codex, excluded, need, strayed>> /\ forgotten' = forgotten \cup {k}
  BY DEF ClearFails
<1>2. FilesTypeOK'
  BY <1>1 DEF FilesInv, FilesTypeOK
<1>3. ManifestCovers' /\ FilesStay'
  BY <1>1 DEF FilesInv, ManifestCovers, FilesStay
<1>4. AllOwned'
  BY <1>1 DEF FilesInv, AllOwned, BlocksOwned, Holds
<1> QED BY <1>2, <1>3, <1>4 DEF FilesInv

LEMMA FilesAlone ==
    ASSUME FilesInv, UNCHANGED fileVars PROVE FilesInv'
<1>1. UNCHANGED <<blocks, native, manifest, codex, excluded, need, strayed, forgotten>>
  BY DEF fileVars
<1>2. FilesTypeOK'
  BY <1>1 DEF FilesInv, FilesTypeOK
<1>3. ManifestCovers' /\ FilesStay'
  BY <1>1 DEF FilesInv, ManifestCovers, FilesStay
<1>4. AllOwned'
  BY <1>1 DEF FilesInv, AllOwned, BlocksOwned, Holds
<1> QED BY <1>2, <1>3, <1>4 DEF FilesInv

-----------------------------------------------------------------------------
(* The runs.                                                               *)

\* A step of the workflow, and the bounds it is within.
LEMMA StepTyped ==
    ASSUME FlowTypeOK, NEW r \in Runs
    PROVE  /\ step[r] \in Steps /\ Len(steps) \in Nat /\ step[r] \in 1 .. Len(steps)
           /\ steps[step[r]].skills \subseteq Skills
           /\ cards[r] \in Seq(Steps) /\ status[r] \in Statuses
<1>1. step[r] \in Steps /\ Len(steps) \in Nat /\ step[r] \in 1 .. Len(steps)
  BY DEF FlowTypeOK, Steps
<1>2. steps \in Seq([qa : BOOLEAN, approval : BOOLEAN, skills : SUBSET Skills])
  BY WorkflowAssumption DEF FlowTypeOK
<1> DEFINE S == [qa : BOOLEAN, approval : BOOLEAN, skills : SUBSET Skills]
<1>3. \A t : \A w \in Seq(t) : \A i \in 1 .. Len(w) : w[i] \in t
  OBVIOUS
<1>4. steps[step[r]] \in S
  <2> HIDE DEF S
  <2> QED BY <1>1, <1>2, <1>3 DEF S
<1> QED BY <1>1, <1>4 DEF FlowTypeOK

LEMMA FlowInitial == WorkflowInit => FlowInv
<1> SUFFICES ASSUME WorkflowInit PROVE FlowInv
  OBVIOUS
<1>1. steps \in Workflows
  BY DEF WorkflowInit
<1>2. Len(steps) \in Nat \ {0}
  <2>1. steps \in Seq([qa : BOOLEAN, approval : BOOLEAN, skills : SUBSET Skills]) /\ steps # <<>>
    BY <1>1, WorkflowAssumption
  <2> QED BY <2>1
<1>3. /\ step = [r \in Runs |-> 1] /\ status = [r \in Runs |-> "none"]
      /\ review = [v \in Reviews |-> NoReview] /\ cards = [r \in Runs |-> <<>>]
      /\ place = "main" /\ tasks = {} /\ judged = {}
      /\ taken = [rs \in Runs \X (1 .. Len(steps)) |-> "none"]
  BY DEF WorkflowInit
<1>4. 1 \in Steps /\ NoReview \in About /\ place \in Places
  BY <1>2, <1>3 DEF Steps, About, NoReview, Places
<1>5. step \in [Runs -> Steps] /\ review \in [Reviews -> About] /\ cards \in [Runs -> Seq(Steps)]
  BY <1>3, <1>4
<1>6. taken \in [Runs \X Steps -> Ways] /\ status \in [Runs -> Statuses]
  BY <1>3 DEF Steps, Ways, Statuses
<1>7. FlowTypeOK
  BY <1>1, <1>2, <1>3, <1>4, <1>5, <1>6 DEF FlowTypeOK
<1>8. BlockedHasCard
  BY <1>3 DEF BlockedHasCard
<1>9. GatesHold
  BY <1>3 DEF GatesHold
<1> QED BY <1>7, <1>8, <1>9 DEF FlowInv

\* A card for a step is not lost, and one more is there for the step a gate
\* opens at.
LEMMA CardAppended ==
    ASSUME NEW S, NEW s \in Seq(S), NEW i \in S
    PROVE  /\ Append(s, i) \in Seq(S)
           /\ \E c \in 1 .. Len(Append(s, i)) : Append(s, i)[c] = i
           /\ \A c \in 1 .. Len(s) : c \in 1 .. Len(Append(s, i)) /\ Append(s, i)[c] = s[c]
<1>1. Append(s, i) \in Seq(S) /\ Len(Append(s, i)) = Len(s) + 1 /\ Len(s) \in Nat
  OBVIOUS
<1>2. Append(s, i)[Len(s) + 1] = i /\ Len(s) + 1 \in 1 .. Len(Append(s, i))
  BY <1>1
<1>3. \A c \in 1 .. Len(s) : c \in 1 .. Len(Append(s, i)) /\ Append(s, i)[c] = s[c]
  BY <1>1
<1> QED BY <1>1, <1>2, <1>3

LEMMA FailKeeps ==
    ASSUME FlowInv, NEW r \in Runs, Fail(r), UNCHANGED <<steps, cards>>
    PROVE  /\ step' \in [Runs -> Steps] /\ status' \in [Runs -> Statuses]
           /\ taken' \in [Runs \X Steps -> Ways] /\ BlockedHasCard' /\ GatesHold'
<1>1. FlowTypeOK /\ status' = [status EXCEPT ![r] = "failed"] /\ UNCHANGED <<step, taken, steps, cards>>
  BY DEF FlowInv, Fail
<1> QED BY <1>1 DEF FlowInv, FlowTypeOK, BlockedHasCard, GatesHold, Statuses

\* A run may go on from a step without a gate, or by a tap on a card for it.
LEMMA AdvanceKeeps ==
    ASSUME FlowInv, NEW r \in Runs, NEW how \in Ways \ {"none"}, Advance(r, how),
           UNCHANGED <<steps, cards>>,
           ~steps[step[r]].approval \/ (how = "gate" /\ status[r] = "blocked")
    PROVE  /\ step' \in [Runs -> Steps] /\ status' \in [Runs -> Statuses]
           /\ taken' \in [Runs \X Steps -> Ways] /\ BlockedHasCard' /\ GatesHold'
<1>1. FlowTypeOK /\ step[r] \in Steps /\ Len(steps) \in Nat /\ Steps = 1 .. Len(steps)
  BY StepTyped DEF FlowInv, Steps
<1>2. taken' = [taken EXCEPT ![<<r, step[r]>>] = how]
  BY DEF Advance
<1>3. /\ status' \in [Runs -> Statuses] /\ status'[r] # "blocked"
      /\ \A q \in Runs : q # r => status'[q] = status[q]
  BY <1>1 DEF Advance, FlowTypeOK, Statuses
<1>4. step' \in [Runs -> Steps] /\ \A q \in Runs : q # r => step'[q] = step[q]
  <2>1. CASE step[r] = Len(steps)
    BY <1>1, <2>1 DEF Advance, FlowTypeOK
  <2>2. CASE step[r] # Len(steps)
    <3>1. step' = [step EXCEPT ![r] = @ + 1]
      BY <2>2 DEF Advance
    <3>2. step[r] + 1 \in Steps
      BY <1>1, <2>2
    <3> QED BY <1>1, <3>1, <3>2 DEF FlowTypeOK
  <2> QED BY <2>1, <2>2
<1>5. taken' \in [Runs \X Steps -> Ways]
  BY <1>1, <1>2 DEF FlowTypeOK
<1>6. BlockedHasCard'
  BY <1>3, <1>4 DEF FlowInv, BlockedHasCard
<1>7. GatesHold'
  <2> SUFFICES ASSUME NEW q \in Runs, NEW i \in 1 .. Len(steps),
                      steps[i].approval, taken'[<<q, i>>] # "none"
               PROVE  taken'[<<q, i>>] = "gate" /\ \E c \in 1 .. Len(cards[q]) : cards[q][c] = i
    BY DEF GatesHold
  <2>1. CASE <<q, i>> = <<r, step[r]>>
    BY <1>1, <1>2, <2>1 DEF FlowInv, FlowTypeOK, BlockedHasCard
  <2>2. CASE <<q, i>> # <<r, step[r]>>
    <3>1. taken'[<<q, i>>] = taken[<<q, i>>]
      BY <1>1, <1>2, <2>2 DEF FlowTypeOK
    <3> QED BY <3>1 DEF FlowInv, GatesHold
  <2> QED BY <2>1, <2>2
<1> QED BY <1>3, <1>4, <1>5, <1>6, <1>7

LEMMA OpenGateKeeps ==
    ASSUME FlowInv, NEW r \in Runs, OpenGate(r), UNCHANGED steps
    PROVE  /\ step' \in [Runs -> Steps] /\ status' \in [Runs -> Statuses]
           /\ cards' \in [Runs -> Seq(Steps)]
           /\ taken' \in [Runs \X Steps -> Ways] /\ BlockedHasCard' /\ GatesHold'
<1>1. /\ cards' = [cards EXCEPT ![r] = Append(cards[r], step[r])]
      /\ status' = [status EXCEPT ![r] = "blocked"] /\ UNCHANGED <<step, taken, steps>>
  BY DEF OpenGate
<1>2. FlowTypeOK /\ step[r] \in Steps /\ cards[r] \in Seq(Steps)
  BY StepTyped DEF FlowInv
<1>3. cards'[r] = Append(cards[r], step[r]) /\ \A q \in Runs : q # r => cards'[q] = cards[q]
  BY <1>1, <1>2 DEF FlowTypeOK
<1>4. /\ cards'[r] \in Seq(Steps)
      /\ \E c \in 1 .. Len(cards'[r]) : cards'[r][c] = step[r]
      /\ \A c \in 1 .. Len(cards[r]) : c \in 1 .. Len(cards'[r]) /\ cards'[r][c] = cards[r][c]
  BY <1>2, <1>3, CardAppended
<1>5. cards' \in [Runs -> Seq(Steps)]
  BY <1>1, <1>2, <1>3, <1>4 DEF FlowTypeOK
<1>6. status' \in [Runs -> Statuses] /\ \A q \in Runs : q # r => status'[q] = status[q]
  BY <1>1, <1>2 DEF FlowTypeOK, Statuses
<1>7. BlockedHasCard'
  BY <1>1, <1>3, <1>4, <1>6 DEF FlowInv, BlockedHasCard
<1>8. GatesHold'
  <2> SUFFICES ASSUME NEW q \in Runs, NEW i \in 1 .. Len(steps),
                      steps[i].approval, taken[<<q, i>>] # "none"
               PROVE  taken[<<q, i>>] = "gate" /\ \E c \in 1 .. Len(cards'[q]) : cards'[q][c] = i
    BY <1>1 DEF GatesHold
  <2>1. taken[<<q, i>>] = "gate" /\ \E c \in 1 .. Len(cards[q]) : cards[q][c] = i
    BY DEF FlowInv, GatesHold
  <2> QED BY <1>3, <1>4, <2>1
<1> QED BY <1>1, <1>2, <1>5, <1>6, <1>7, <1>8 DEF FlowTypeOK

LEMMA SubmitKeeps ==
    ASSUME FlowInv, NEW r \in Runs, NEW verdict, NEW by \in {"owner", "review"},
           Submit(r, verdict, by), UNCHANGED steps
    PROVE  /\ step' \in [Runs -> Steps] /\ status' \in [Runs -> Statuses]
           /\ cards' \in [Runs -> Seq(Steps)]
           /\ taken' \in [Runs \X Steps -> Ways] /\ BlockedHasCard' /\ GatesHold'
<1> DEFINE s == steps[step[r]]
<1>1. CASE s.approval
  BY <1>1, OpenGateKeeps DEF Submit
<1>2. CASE ~s.approval
  <2>1. cards' = cards /\ cards \in [Runs -> Seq(Steps)]
    BY <1>2 DEF Submit, FlowInv, FlowTypeOK
  <2>2. CASE s.qa /\ verdict = "none"
    <3>1. ParkForReview(r)
      BY <1>2, <2>2 DEF Submit
    <3>2. status' = [status EXCEPT ![r] = "qa"] /\ UNCHANGED <<step, taken, steps, cards>>
      BY <2>1, <3>1 DEF ParkForReview
    <3> QED BY <2>1, <3>2 DEF FlowInv, FlowTypeOK, BlockedHasCard, GatesHold, Statuses
  <2>3. CASE s.qa /\ verdict # "none" /\ verdict = "bad"
    <3>1. Fail(r)
      BY <1>2, <2>3 DEF Submit
    <3> QED BY <2>1, <3>1, FailKeeps
  <2>4. CASE ~(s.qa /\ verdict = "none") /\ ~(s.qa /\ verdict = "bad")
    <3>1. Advance(r, IF s.qa THEN by ELSE "free")
      BY <1>2, <2>4 DEF Submit
    <3>2. (IF s.qa THEN by ELSE "free") \in Ways \ {"none"}
      BY DEF Ways
    <3> QED BY <1>2, <2>1, <3>1, <3>2, AdvanceKeeps
  <2> QED BY <2>2, <2>3, <2>4
<1> QED BY <1>1, <1>2

\* What a step needs that leaves the workflow as it is.
LEMMA FlowTyped ==
    ASSUME FlowInv, UNCHANGED steps,
           step' \in [Runs -> Steps], status' \in [Runs -> Statuses],
           cards' \in [Runs -> Seq(Steps)], taken' \in [Runs \X Steps -> Ways],
           review' \in [Reviews -> About], place' \in Places,
           tasks' \subseteq Tasks \X Places, judged' \subseteq Runs \X Steps,
           BlockedHasCard', GatesHold'
    PROVE  FlowInv'
<1>1. Steps' = Steps /\ About' = About
  BY DEF Steps, About
<1> QED BY <1>1 DEF FlowInv, FlowTypeOK

WorkflowInv == FilesInv /\ FlowInv

\* A step of the tasks, or of the workspace, leaves the runs alone.
LEMMA OtherSteps ==
    ASSUME WorkflowInv,
           \/ \E t \in Tasks : TaskStarts(t) \/ TaskInjects(t) \/ TaskEnds(t)
           \/ Rebind \/ EngineDies
    PROVE  WorkflowInv'
<1> USE DEF WorkflowInv
<1>0. FlowTypeOK /\ BlockedHasCard /\ GatesHold
  BY DEF FlowInv
<1>1. ASSUME UNCHANGED <<steps, step, status, cards, taken>>
      PROVE  BlockedHasCard' /\ GatesHold'
  BY <1>0, <1>1 DEF BlockedHasCard, GatesHold
<1>2. ASSUME NEW t \in Tasks, TaskStarts(t) PROVE WorkflowInv'
  <2>1. tasks' \subseteq Tasks \X Places
    BY <1>0, <1>2 DEF TaskStarts, FlowTypeOK
  <2>2. UNCHANGED <<steps, step, status, review, cards, place, judged, taken, fileVars>>
    BY <1>2 DEF TaskStarts
  <2> QED BY <1>0, <1>1, <2>1, <2>2, FilesAlone, FlowTyped DEF FlowTypeOK
<1>3. ASSUME NEW t \in Tasks, TaskInjects(t) PROVE WorkflowInv'
  <2>1. UNCHANGED <<steps, step, status, review, cards, place, tasks, judged, taken>>
    BY <1>3 DEF TaskInjects, flowVars
  <2>2. PICK agent \in Agents, skills \in TaskSkills, p \in Places :
            Inject(p, t, GuidanceFor(agent), skills)
    BY <1>3 DEF TaskInjects
  <2>3. t \in FileKeys /\ skills \in SUBSET Skills
    BY WorkflowAssumption DEF FileKeys
  <2>4. FilesInv'
    BY <2>2, <2>3, GuidanceIs, InjectKeeps
  <2> QED BY <1>0, <1>1, <2>1, <2>4, FlowTyped DEF FlowTypeOK
<1>4. ASSUME NEW t \in Tasks, TaskEnds(t) PROVE WorkflowInv'
  <2>1. UNCHANGED <<steps, step, status, review, cards, place, judged, taken>>
    BY <1>4 DEF TaskEnds
  <2>2. PICK p \in Places : (Clear(p, t) \/ ClearFails(t)) /\ tasks' = tasks \ {<<t, p>>}
    BY <1>4 DEF TaskEnds
  <2>3. t \in FileKeys
    BY DEF FileKeys
  <2>4. FilesInv'
    BY <2>2, <2>3, ClearKeeps, ClearFailsKeeps
  <2> QED BY <1>0, <1>1, <2>1, <2>2, <2>4, FlowTyped DEF FlowTypeOK
<1>5. CASE Rebind
  <2>1. place' \in Places /\ UNCHANGED <<steps, step, status, review, cards, tasks, judged, taken, fileVars>>
    BY <1>5 DEF Rebind
  <2> QED BY <1>0, <1>1, <2>1, FilesAlone, FlowTyped DEF FlowTypeOK
<1>6. CASE EngineDies
  <2>1. tasks' = {} /\ UNCHANGED <<steps, step, status, cards, place, judged, taken>>
    BY <1>6 DEF EngineDies
  <2>3. FilesInv'
    <3>1. /\ forgotten' = forgotten \cup (AtWork \cap Tasks)
          /\ UNCHANGED <<blocks, native, manifest, codex, excluded, need, strayed>>
      BY <1>6 DEF EngineDies
    <3>2. FilesTypeOK'
      BY <3>1 DEF FilesInv, FilesTypeOK, FileKeys
    <3>3. ManifestCovers' /\ FilesStay'
      BY <3>1 DEF FilesInv, ManifestCovers, FilesStay
    <3>4. AllOwned'
      BY <3>1 DEF FilesInv, AllOwned, BlocksOwned, Holds
    <3> QED BY <3>2, <3>3, <3>4 DEF FilesInv
  <2>2. review' \in [Reviews -> About]
    BY <1>0, <1>6 DEF EngineDies, NoReview, About, FlowTypeOK
  <2> QED BY <1>0, <1>1, <2>1, <2>2, <2>3, FlowTyped DEF FlowTypeOK
<1> QED BY <1>2, <1>3, <1>4, <1>5, <1>6

\* What the ends of a step do to the files.
LEMMA EndKeepsFiles ==
    ASSUME FilesInv, FlowTypeOK, NEW r \in Runs,
           \/ Fail(r)
           \/ \E how : Advance(r, how)
           \/ OpenGate(r) \/ ParkForReview(r)
           \/ UNCHANGED fileVars
    PROVE  FilesInv'
<1>1. "default" \in FileKeys /\ place \in Places
  BY DEF FileKeys, FlowTypeOK
<1>2. Clear(place, "default") \/ ClearFails("default") \/ UNCHANGED fileVars
  BY DEF Fail, Advance, OpenGate, ParkForReview
<1> QED BY <1>1, <1>2, ClearKeeps, ClearFailsKeeps, FilesAlone

LEMMA SubmitKeepsFiles ==
    ASSUME FilesInv, FlowTypeOK, NEW r \in Runs, NEW verdict, NEW by, Submit(r, verdict, by)
    PROVE  FilesInv'
<1>1. OpenGate(r) \/ ParkForReview(r) \/ Fail(r) \/ \E how : Advance(r, how)
  BY DEF Submit
<1> QED BY <1>1, EndKeepsFiles

LEMMA RunSteps ==
    ASSUME WorkflowInv, NEW r \in Runs,
           StartRun(r) \/ BeginStep(r) \/ OwnerSubmits(r) \/ Resume(r, TRUE) \/ Resume(r, FALSE)
    PROVE  WorkflowInv'
<1> USE DEF WorkflowInv
<1>0. FlowTypeOK /\ BlockedHasCard /\ GatesHold
  BY DEF FlowInv
<1>1. CASE StartRun(r)
  <2>1. /\ status' = [status EXCEPT ![r] = "pending"]
        /\ UNCHANGED <<steps, step, review, cards, place, tasks, judged, taken, fileVars>>
    BY <1>1 DEF StartRun
  <2>2. status' \in [Runs -> Statuses] /\ BlockedHasCard' /\ GatesHold'
    BY <1>0, <2>1 DEF FlowTypeOK, Statuses, BlockedHasCard, GatesHold
  <2> QED BY <1>0, <2>1, <2>2, FilesAlone, FlowTyped DEF FlowTypeOK
<1>2. CASE BeginStep(r)
  <2>1. /\ status' = [status EXCEPT ![r] = "running"]
        /\ UNCHANGED <<steps, step, review, cards, place, tasks, judged, taken>>
    BY <1>2 DEF BeginStep
  <2>2. status' \in [Runs -> Statuses] /\ BlockedHasCard' /\ GatesHold'
    BY <1>0, <2>1 DEF FlowTypeOK, Statuses, BlockedHasCard, GatesHold
  <2>3. PICK agent \in Agents : Inject(place, "default", GuidanceFor(agent), steps[step[r]].skills)
    BY <1>2 DEF BeginStep
  <2>4. "default" \in FileKeys /\ place \in Places /\ steps[step[r]].skills \in SUBSET Skills
    BY <1>0, StepTyped DEF FileKeys, FlowTypeOK
  <2>5. FilesInv'
    BY <2>3, <2>4, GuidanceIs, InjectKeeps
  <2> QED BY <1>0, <2>1, <2>2, <2>5, FlowTyped DEF FlowTypeOK
<1>3. CASE OwnerSubmits(r)
  <2>1. PICK verdict \in {"none", "good", "bad"} : Submit(r, verdict, "owner")
    BY <1>3 DEF OwnerSubmits
  <2>2. UNCHANGED <<steps, review, place, tasks, judged>>
    BY <1>3 DEF OwnerSubmits
  <2>3. FilesInv'
    BY <1>0, <2>1, SubmitKeepsFiles
  <2> QED BY <1>0, <2>1, <2>2, <2>3, SubmitKeeps, FlowTyped DEF FlowTypeOK
<1>4. CASE Resume(r, TRUE) \/ Resume(r, FALSE)
  <2>1. UNCHANGED <<steps, review, cards, place, tasks, judged>> /\ status[r] = "blocked"
    BY <1>4 DEF Resume
  <2>2. Advance(r, "gate") \/ Fail(r)
    BY <1>4 DEF Resume
  <2>3. FilesInv'
    BY <1>0, <2>2, EndKeepsFiles
  <2>4. "gate" \in Ways \ {"none"}
    BY DEF Ways
  <2> QED BY <1>0, <2>1, <2>2, <2>3, <2>4, AdvanceKeeps, FailKeeps, FlowTyped DEF FlowTypeOK
<1> QED BY <1>1, <1>2, <1>3, <1>4

LEMMA ReviewSteps ==
    ASSUME WorkflowInv, NEW v \in Reviews,
           (\E r \in Runs : BeginReview(v, r)) \/ EndReview(v, "good") \/ EndReview(v, "bad")
    PROVE  WorkflowInv'
<1> USE DEF WorkflowInv
<1>0. FlowTypeOK /\ BlockedHasCard /\ GatesHold
  BY DEF FlowInv
<1>1. ASSUME NEW r \in Runs, BeginReview(v, r) PROVE WorkflowInv'
  <2>1. /\ review' = [review EXCEPT ![v] = [run |-> r, step |-> step[r]]]
        /\ UNCHANGED <<steps, step, status, cards, place, tasks, judged, taken, fileVars>>
    BY <1>1 DEF BeginReview
  <2>2. [run |-> r, step |-> step[r]] \in About
    BY <1>0, StepTyped DEF About, Steps
  <2>3. review' \in [Reviews -> About]
    BY <1>0, <2>1, <2>2 DEF FlowTypeOK
  <2>4. BlockedHasCard' /\ GatesHold'
    BY <1>0, <2>1 DEF BlockedHasCard, GatesHold
  <2> QED BY <1>0, <2>1, <2>3, <2>4, FilesAlone, FlowTyped DEF FlowTypeOK
<1>2. ASSUME NEW verdict, EndReview(v, verdict) PROVE WorkflowInv'
  <2> DEFINE r == review[v].run
  <2>1. /\ review[v] # NoReview /\ review' = [review EXCEPT ![v] = NoReview]
        /\ UNCHANGED <<steps, place, tasks>>
        /\ judged' = IF verdict = "good" THEN judged \cup {<<r, review[v].step>>} ELSE judged
    BY <1>2 DEF EndReview
  <2>2. Submit(r, verdict, "review") \/ UNCHANGED <<step, status, cards, taken, fileVars>>
    BY <1>2 DEF EndReview
  <2>3. r \in Runs /\ review[v].step \in Steps
    BY <1>0, <2>1 DEF FlowTypeOK, About
  <2>4. review' \in [Reviews -> About] /\ judged' \subseteq Runs \X Steps
    BY <1>0, <2>1, <2>3 DEF FlowTypeOK, About
  <2> HIDE DEF r
  <2>5. CASE Submit(r, verdict, "review")
    <3>1. FilesInv'
      BY <1>0, <2>3, <2>5, SubmitKeepsFiles
    <3> QED BY <1>0, <2>1, <2>3, <2>4, <2>5, <3>1, SubmitKeeps, FlowTyped DEF FlowTypeOK
  <2>6. CASE UNCHANGED <<step, status, cards, taken, fileVars>>
    <3>1. BlockedHasCard' /\ GatesHold'
      BY <1>0, <2>1, <2>6 DEF BlockedHasCard, GatesHold
    <3> QED BY <1>0, <2>1, <2>4, <2>6, <3>1, FilesAlone, FlowTyped DEF FlowTypeOK
  <2> QED BY <2>2, <2>5, <2>6
<1> QED BY <1>1, <1>2

LEMMA WorkflowNextKeeps == WorkflowInv /\ [WorkflowNext]_workflowVars => WorkflowInv'
<1> SUFFICES ASSUME WorkflowInv, [WorkflowNext]_workflowVars PROVE WorkflowInv'
  OBVIOUS
<1>1. CASE UNCHANGED workflowVars
  <2>1. UNCHANGED <<steps, step, status, review, cards, place, tasks, judged, taken, fileVars>>
    BY <1>1 DEF workflowVars, flowVars
  <2>2. FlowTypeOK /\ BlockedHasCard' /\ GatesHold'
    BY <2>1 DEF WorkflowInv, FlowInv, BlockedHasCard, GatesHold
  <2> QED BY <2>1, <2>2, FilesAlone, FlowTyped DEF WorkflowInv, FlowTypeOK
<1>2. CASE WorkflowNext
  BY <1>2, OtherSteps, RunSteps, ReviewSteps DEF WorkflowNext
<1> QED BY <1>1, <1>2

LEMMA WorkflowHolds == WorkflowSpec => []WorkflowInv
<1>1. WorkflowInit => WorkflowInv
  BY FilesInitial, FlowInitial DEF WorkflowInit, WorkflowInv
<1> QED BY <1>1, WorkflowNextKeeps, PTL DEF WorkflowSpec

\* The runs' and the tasks' state and the injected files keep their types.
THEOREM WorkflowTypeCorrect == WorkflowSpec => []WorkflowTypeOK
<1>1. FlowTypeOK => review \in [Reviews -> [run : Runs \cup {Done}, step : 0 .. Len(steps)]]
  <2> SUFFICES ASSUME FlowTypeOK PROVE About \subseteq [run : Runs \cup {Done}, step : 0 .. Len(steps)]
    BY DEF FlowTypeOK
  <2> QED BY DEF FlowTypeOK, About, NoReview, Steps
<1>2. WorkflowInv => WorkflowTypeOK
  BY <1>1 DEF WorkflowInv, FilesInv, FlowInv, FlowTypeOK, WorkflowTypeOK, Steps, Ways
<1> QED BY <1>2, WorkflowHolds, PTL

\* A run is past a gate only by a tap that came after a card for that gate, for
\* any workflows, runs and reviews.
THEOREM RunsStopAtGates == WorkflowSpec => []GatesHold
<1>1. WorkflowInv => GatesHold
  BY DEF WorkflowInv, FlowInv
<1> QED BY <1>1, WorkflowHolds, PTL

\* What a dispatched task was given stays in its place until the task is
\* cleared, whatever others inject and clear next to it.
THEOREM TasksKeepTheirFiles == WorkflowSpec => []TaskFilesStay
<1>1. WorkflowInv => TaskFilesStay
  BY DEF WorkflowInv, FilesInv, FilesStay, TaskFilesStay, FileKeys
<1> QED BY <1>1, WorkflowHolds, PTL

-----------------------------------------------------------------------------
(* What is left.                                                           *)

\* A step that hands k something finds k at work.
LEMMA InjectKnown ==
    ASSUME FilesTypeOK, NeedyAreKnown, NEW p, NEW k \in FileKeys, NEW files, NEW skills,
           Inject(p, k, files, skills), k \in AtWork', AtWork \subseteq AtWork'
    PROVE  NeedyAreKnown'
<1>1. forgotten' = forgotten /\ \A j \in FileKeys : j # k => need'[j] = need[j]
  BY DEF Inject, FilesTypeOK
<1> QED BY <1>1 DEF NeedyAreKnown

\* A step that clears k, or fails to, may end it.
LEMMA ClearKnown ==
    ASSUME FilesTypeOK, NeedyAreKnown, NEW p, NEW k \in FileKeys, Clear(p, k) \/ ClearFails(k),
           AtWork \ {k} \subseteq AtWork'
    PROVE  NeedyAreKnown'
<1>1. CASE Clear(p, k)
  <2>1. forgotten' = forgotten /\ need'[k].files = {} /\ \A j \in FileKeys : j # k => need'[j] = need[j]
    BY <1>1 DEF Clear, FilesTypeOK, NoNeed
  <2> QED BY <2>1 DEF NeedyAreKnown
<1>2. CASE ClearFails(k)
  <2>1. need' = need /\ forgotten' = forgotten \cup {k}
    BY <1>2 DEF ClearFails
  <2> QED BY <2>1 DEF NeedyAreKnown
<1> QED BY <1>1, <1>2

LEMMA AloneKnown ==
    ASSUME NeedyAreKnown, UNCHANGED fileVars, AtWork \subseteq AtWork'
    PROVE  NeedyAreKnown'
BY DEF NeedyAreKnown, fileVars

\* A run's status changes; the runs are under way after it if it is.
LEMMA UnderWay ==
    ASSUME NEW r \in Runs, status \in [Runs -> Statuses], tasks' = tasks,
           NEW st, status' = [status EXCEPT ![r] = st]
    PROVE  /\ AtWork \ {"default"} \subseteq AtWork'
           /\ st \in Open => "default" \in AtWork' /\ AtWork \subseteq AtWork'
           /\ status[r] \notin Open => AtWork \subseteq AtWork'
<1>1. status'[r] = st /\ \A q \in Runs : q # r => status'[q] = status[q]
  OBVIOUS
<1>2. "default" \in AtWork => \E q \in Runs : status[q] \in Open
  BY FilesAssumption DEF AtWork
<1> QED BY <1>1, <1>2 DEF AtWork

\* What ends, passes or parks a step keeps the needy known.
LEMMA EndKnown ==
    ASSUME FilesTypeOK, FlowTypeOK, NeedyAreKnown, NEW r \in Runs, tasks' = tasks,
           \/ Fail(r)
           \/ \E how : Advance(r, how)
           \/ OpenGate(r) \/ ParkForReview(r)
    PROVE  NeedyAreKnown'
<1>0. "default" \in FileKeys /\ status \in [Runs -> Statuses]
  BY DEF FileKeys, FlowTypeOK
<1>1. CASE (Clear(place, "default") \/ ClearFails("default"))
           /\ \E st : status' = [status EXCEPT ![r] = st]
  BY <1>0, <1>1, UnderWay, ClearKnown
<1>2. CASE UNCHANGED fileVars /\ \E st \in Open : status' = [status EXCEPT ![r] = st]
  BY <1>0, <1>2, UnderWay, AloneKnown
<1>3. CASE Fail(r)
  BY <1>1, <1>3 DEF Fail
<1>4. ASSUME NEW how, Advance(r, how) PROVE NeedyAreKnown'
  <2>1. CASE step[r] = Len(steps)
    BY <1>1, <1>4, <2>1 DEF Advance
  <2>2. CASE step[r] # Len(steps)
    BY <1>2, <1>4, <2>2 DEF Advance, Open
  <2> QED BY <2>1, <2>2
<1>5. CASE OpenGate(r) \/ ParkForReview(r)
  BY <1>2, <1>5 DEF OpenGate, ParkForReview, Open
<1> QED BY <1>3, <1>4, <1>5

LEMMA SubmitKnown ==
    ASSUME FilesTypeOK, FlowTypeOK, NeedyAreKnown, NEW r \in Runs, tasks' = tasks,
           NEW verdict, NEW by, Submit(r, verdict, by)
    PROVE  NeedyAreKnown'
<1>1. OpenGate(r) \/ ParkForReview(r) \/ Fail(r) \/ \E how : Advance(r, how)
  BY DEF Submit
<1> QED BY <1>1, EndKnown

LEMMA TasksKnown ==
    ASSUME WorkflowInv, NeedyAreKnown, NEW t \in Tasks, TaskStarts(t) \/ TaskInjects(t) \/ TaskEnds(t)
    PROVE  NeedyAreKnown'
<1>0. FilesTypeOK /\ t \in FileKeys /\ t \in Tasks /\ tasks \subseteq Tasks \X Places
  BY DEF WorkflowInv, FilesInv, FlowInv, FlowTypeOK, FileKeys
<1>1. CASE TaskStarts(t)
  <2>1. AtWork \subseteq AtWork' /\ UNCHANGED fileVars
    BY <1>1 DEF TaskStarts, AtWork
  <2> QED BY <2>1, AloneKnown
<1>2. CASE TaskInjects(t)
  <2>1. AtWork' = AtWork /\ t \in AtWork
    BY <1>2 DEF TaskInjects, AtWork, flowVars
  <2> QED BY <1>0, <1>2, <2>1, InjectKnown DEF TaskInjects
<1>3. CASE TaskEnds(t)
  <2>1. PICK p \in Places : (Clear(p, t) \/ ClearFails(t)) /\ tasks' = tasks \ {<<t, p>>}
    BY <1>3 DEF TaskEnds
  <2>2. AtWork \ {t} \subseteq AtWork'
    BY <1>3, <2>1 DEF AtWork, TaskEnds
  <2> QED BY <1>0, <2>1, <2>2, ClearKnown
<1> QED BY <1>1, <1>2, <1>3

LEMMA KnownNext ==
    ASSUME WorkflowInv, NeedyAreKnown, [WorkflowNext]_workflowVars
    PROVE  NeedyAreKnown'
<1>0. FilesTypeOK /\ FlowTypeOK /\ status \in [Runs -> Statuses] /\ "default" \in FileKeys
  BY DEF WorkflowInv, FilesInv, FlowInv, FlowTypeOK, FileKeys
<1>1. CASE UNCHANGED workflowVars
  <2>1. UNCHANGED fileVars /\ AtWork \subseteq AtWork'
    BY <1>1 DEF workflowVars, flowVars, AtWork
  <2> QED BY <2>1, AloneKnown
<1>2. ASSUME NEW t \in Tasks, TaskStarts(t) \/ TaskInjects(t) \/ TaskEnds(t) PROVE NeedyAreKnown'
  BY <1>2, TasksKnown
<1>3. CASE Rebind
  <2>1. UNCHANGED fileVars /\ AtWork \subseteq AtWork'
    BY <1>3 DEF Rebind, AtWork
  <2> QED BY <2>1, AloneKnown
<1>4. CASE EngineDies
  <2>1. need' = need /\ forgotten' = forgotten \cup (AtWork \cap Tasks) /\ status' = status
    BY <1>4 DEF EngineDies
  <2>2. AtWork \subseteq AtWork' \cup (AtWork \cap Tasks)
    BY <2>1 DEF AtWork
  <2> QED BY <2>1, <2>2 DEF NeedyAreKnown
<1>5. ASSUME NEW r \in Runs, StartRun(r) PROVE NeedyAreKnown'
  <2>1. AtWork \subseteq AtWork' /\ UNCHANGED fileVars
    BY <1>0, <1>5, UnderWay DEF StartRun, Open
  <2> QED BY <2>1, AloneKnown
<1>6. ASSUME NEW r \in Runs, BeginStep(r) PROVE NeedyAreKnown'
  <2>1. "default" \in AtWork' /\ AtWork \subseteq AtWork'
    BY <1>0, <1>6, UnderWay DEF BeginStep, Open
  <2> QED BY <1>0, <1>6, <2>1, InjectKnown DEF BeginStep
<1>7. ASSUME NEW r \in Runs, OwnerSubmits(r) PROVE NeedyAreKnown'
  BY <1>0, <1>7, SubmitKnown DEF OwnerSubmits
<1>8. ASSUME NEW r \in Runs, NEW approved \in BOOLEAN, Resume(r, approved) PROVE NeedyAreKnown'
  <2>1. Fail(r) \/ (\E how : Advance(r, how))
    BY <1>8 DEF Resume
  <2> QED BY <1>0, <1>8, <2>1, EndKnown DEF Resume
<1>9. ASSUME NEW v \in Reviews, NEW r \in Runs, BeginReview(v, r) PROVE NeedyAreKnown'
  <2>1. UNCHANGED fileVars /\ AtWork \subseteq AtWork'
    BY <1>9 DEF BeginReview, AtWork
  <2> QED BY <2>1, AloneKnown
<1>10. ASSUME NEW v \in Reviews, NEW verdict, EndReview(v, verdict) PROVE NeedyAreKnown'
  <2>1. review[v].run \in Runs
    BY <1>0, <1>10 DEF EndReview, FlowTypeOK, About
  <2>2. CASE Submit(review[v].run, verdict, "review")
    BY <1>0, <1>10, <2>1, <2>2, SubmitKnown DEF EndReview
  <2>3. CASE UNCHANGED <<step, status, cards, taken, fileVars>>
    <3>1. AtWork \subseteq AtWork' /\ UNCHANGED fileVars
      BY <1>10, <2>3 DEF EndReview, AtWork
    <3> QED BY <3>1, AloneKnown
  <2> QED BY <1>10, <2>2, <2>3 DEF EndReview
<1> QED BY <1>1, <1>2, <1>3, <1>4, <1>5, <1>6, <1>7, <1>8, <1>9, <1>10 DEF WorkflowNext

\* Whatever is in the workspaces is there for a task at work or a run under
\* way, or for a task the process died under or whose clearing failed, if no
\* key strayed: for any workflows, runs and tasks.
THEOREM LeftoversAreForgotten == WorkflowSpec => []NothingLeftBehind
<1>1. WorkflowInit => NeedyAreKnown
  BY DEF WorkflowInit, FilesInit, NeedyAreKnown, NoNeed
<1>2. WorkflowInv /\ NeedyAreKnown => NothingLeftBehind
  <2> SUFFICES ASSUME WorkflowInv, NeedyAreKnown, ~strayed
               PROVE  BelongsTo(AtWork \cup forgotten)
    BY DEF NothingLeftBehind
  <2>1. FilesTypeOK /\ BlocksOwned
    BY DEF WorkflowInv, FilesInv, AllOwned
  <2>2. \A p, k : k \in FileKeys /\ Holds(p, k) => k \in AtWork \cup forgotten
    BY DEF Holds, NeedyAreKnown
  <2>3. \A b \in blocks : b[3] \in FileKeys /\ Holds(b[1], b[3])
    BY <2>1 DEF FilesTypeOK, BlocksOwned
  <2>4. \A c \in codex : c[2] \in FileKeys /\ Holds(c[1], c[2])
    BY <2>1 DEF FilesTypeOK, BlocksOwned
  <2>5. \A x \in excluded : x[2] \in FileKeys /\ Holds(x[1], x[2])
    BY <2>1 DEF FilesTypeOK, BlocksOwned
  <2>6. ASSUME NEW n \in native
        PROVE  \E k \in AtWork \cup forgotten : n[2] \in manifest[<<n[1], k>>]
    <3>1. n[1] \in Places
      BY <2>1, <2>6 DEF FilesTypeOK
    <3>2. PICK k \in FileKeys : n[2] \in manifest[<<n[1], k>>]
      BY <2>1, <2>6 DEF BlocksOwned
    <3>3. Holds(n[1], k)
      BY <2>1, <3>1, <3>2 DEF BlocksOwned
    <3> QED BY <2>2, <3>2, <3>3
  <2> QED BY <2>2, <2>3, <2>4, <2>5, <2>6 DEF BelongsTo
<1>3. WorkflowInv /\ NeedyAreKnown /\ [WorkflowNext]_workflowVars => NeedyAreKnown'
  BY KnownNext
<1> QED BY <1>1, <1>2, <1>3, WorkflowHolds, PTL DEF WorkflowSpec
===============================================================================
