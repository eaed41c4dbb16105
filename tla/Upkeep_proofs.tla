---------------------------- MODULE Upkeep_proofs -----------------------------
(***************************************************************************)
(* Proofs about what runs beside the work: an update of the program, the   *)
(* link to the cloud, upgrades of the database and the accounts of the     *)
(* server. Each part states its types and its inductive invariant before   *)
(* its theorems.                                                           *)
(***************************************************************************)
EXTENDS Updater, CloudLink, SchemaMigrations, Accounts, FiniteSetTheorems, SequenceTheorems,
        TLAPS

-----------------------------------------------------------------------------
(* The updater.                                                            *)

Processes == [pc : {"none", "booting", "serving"}, at : Spots, version : {"v1", "v2"}]
Versions == {"none", "v1", "v2"}

\* A running image is a file of the folder, and the program's never the download.
ImagesStand ==
    \A p \in Apps : app[p].pc # "none" => OnDisk(app[p].at) /\ app[p].at # "foreman.new.exe"

\* The helper runs from the download until that is foreman.exe.
HelperStands ==
    helper # "none" =>
        /\ OnDisk(helperAt)
        /\ helperAt = IF helper = "placed" THEN "foreman.exe" ELSE "foreman.new.exe"

BackupIsApart == backup \in {"foreman.old.exe", "foreman.old.n.exe"}

\* The apply thread, and the deletion it still owes, are a serving process's.
WorkerIsOwned == (worker # "idle" \/ cleaning) => app[owner].pc = "serving"

ExeUnlessTorn == OnDisk("foreman.exe") \/ helper = "moved" \/ torn
FileLeft == \E s \in Spots : OnDisk(s)

SwapInv ==
    /\ UpdaterTypeOK /\ ImagesStand /\ HelperStands /\ BackupIsApart
    /\ WorkerIsOwned /\ ExeUnlessTorn /\ FileLeft

-----------------------------------------------------------------------------
(* Files that move and files that are deleted.                             *)

LEMMA FilesTyped == UpdaterTypeOK <=>
    /\ disk \in [Spots -> Versions] /\ app \in [Apps -> Processes]
    /\ helper \in {"none", "waiting", "clear", "moved", "placed"}
    /\ helperAt \in Spots /\ backup \in Spots
    /\ worker \in {"idle", "downloading", "received", "checked", "swapping", "handed"}
    /\ owner \in Apps
    /\ cancel \in BOOLEAN /\ cleaning \in BOOLEAN /\ promised \in BOOLEAN /\ torn \in BOOLEAN
BY DEF UpdaterTypeOK, Processes, Versions

LEMMA DeletedTyped ==
    ASSUME disk \in [Spots -> Versions], NEW S
    PROVE  /\ Deleted(S) \in [Spots -> Versions]
           /\ \A s \in Spots : s \notin S \/ InUse(s) => Deleted(S)[s] = disk[s]
BY DEF Deleted, Versions

LEMMA MovedTyped ==
    ASSUME disk \in [Spots -> Versions], NEW s \in Spots, NEW t \in Spots, s # t
    PROVE  /\ Moved(s, t) \in [Spots -> Versions]
           /\ Moved(s, t)[t] = disk[s] /\ Moved(s, t)[s] = "none"
           /\ \A u \in Spots \ {s, t} : Moved(s, t)[u] = disk[u]
BY DEF Moved, Versions

LEMMA FollowsTyped ==
    ASSUME app \in [Apps -> Processes], NEW s \in Spots, NEW t \in Spots
    PROVE  /\ Follows(s, t) \in [Apps -> Processes]
           /\ \A p \in Apps :
                /\ Follows(s, t)[p].pc = app[p].pc
                /\ Follows(s, t)[p].at = IF app[p].at = s THEN t ELSE app[p].at
BY DEF Follows, Processes

(* The steps that only take processes, or the helper, away.                *)
LEMMA Quiet ==
    ASSUME SwapInv, disk' = disk, UpdaterTypeOK',
           \A p \in Apps : app'[p] = app[p] \/ app'[p].pc = "none",
           UNCHANGED <<helper, helperAt, backup, torn>>, WorkerIsOwned'
    PROVE  SwapInv'
<1>1. ImagesStand'
  BY DEF SwapInv, ImagesStand, OnDisk
<1> QED BY <1>1 DEF SwapInv, HelperStands, BackupIsApart, ExeUnlessTorn, FileLeft, OnDisk

LEMMA SwapInit == UpdaterInit => SwapInv
<1> SUFFICES ASSUME UpdaterInit PROVE SwapInv
  OBVIOUS
<1>1. UpdaterTypeOK
  <2>1. owner \in Apps
    BY UpdaterAssumption DEF UpdaterInit
  <2>2. disk \in [Spots -> Versions]
    BY DEF UpdaterInit, Versions
  <2>3. app \in [Apps -> Processes]
    BY DEF UpdaterInit, Processes, Stopped, Spots
  <2> QED BY <2>1, <2>2, <2>3, FilesTyped DEF UpdaterInit, Spots
<1>2. OnDisk("foreman.exe")
  BY DEF UpdaterInit, OnDisk, Spots
<1>3. ImagesStand
  BY DEF UpdaterInit, ImagesStand, Stopped
<1> QED BY <1>1, <1>2, <1>3
       DEF SwapInv, UpdaterInit, HelperStands, BackupIsApart, WorkerIsOwned, ExeUnlessTorn,
           FileLeft, Spots

-----------------------------------------------------------------------------
(* The program's steps.                                                    *)

LEMMA StartKeeps ==
    ASSUME SwapInv, NEW p \in Apps, Starts(p), disk' = disk
    PROVE  /\ app' \in [Apps -> Processes] /\ ImagesStand'
           /\ worker # "idle" \/ cleaning => app'[owner].pc = "serving"
<1>1. disk["foreman.exe"] \in {"v1", "v2"}
  BY FilesTyped DEF SwapInv, Starts, OnDisk, Versions, Spots
<1>2. app \in [Apps -> Processes]
  BY FilesTyped DEF SwapInv
<1>3. app' \in [Apps -> Processes]
  <2>1. [pc |-> "booting", at |-> "foreman.exe", version |-> disk["foreman.exe"]] \in Processes
    BY <1>1 DEF Processes, Spots
  <2> QED BY <1>2, <2>1 DEF Starts
<1>4. ImagesStand'
  BY <1>2 DEF SwapInv, ImagesStand, Starts, OnDisk
<1>5. worker # "idle" \/ cleaning => app'[owner].pc = "serving"
  BY <1>2 DEF SwapInv, WorkerIsOwned, Starts
<1> QED BY <1>3, <1>4, <1>5

LEMMA OpenKeeps == ASSUME SwapInv, NEW p \in Apps, OpenApp(p) PROVE SwapInv'
<1>1. Starts(p) /\ UNCHANGED <<disk, helper, helperAt, backup, worker, owner, cancel, cleaning,
                               promised, torn>>
  BY DEF OpenApp, workerVars
<1> QED BY <1>1, StartKeeps, FilesTyped
       DEF SwapInv, HelperStands, BackupIsApart, WorkerIsOwned, ExeUnlessTorn, FileLeft, OnDisk,
           UpdaterTypeOK, Processes, Versions

LEMMA BootKeeps == ASSUME SwapInv, NEW p \in Apps, Boot(p) PROVE SwapInv'
<1> DEFINE S == Spots \ {"foreman.exe"}
<1>1. UNCHANGED <<helper, helperAt, backup, worker, owner, cancel, cleaning, promised, torn>>
      /\ disk' = Deleted(S) /\ app[p].pc = "booting"
  BY DEF Boot, workerVars
<1>2. app \in [Apps -> Processes] /\ disk \in [Spots -> Versions]
  BY FilesTyped DEF SwapInv
<1>3. disk' \in [Spots -> Versions] /\ disk'["foreman.exe"] = disk["foreman.exe"]
      /\ \A s \in Spots : InUse(s) => disk'[s] = disk[s]
  BY <1>1, <1>2, DeletedTyped DEF Spots
<1>4. /\ app' \in [Apps -> Processes]
      /\ \A q \in Apps : app'[q].pc # "none" => app[q].pc # "none" /\ app'[q].at = app[q].at
      /\ \A q \in Apps : app[q].pc = "serving" => app'[q].pc = "serving"
  BY <1>2 DEF Boot, Stopped, Processes, Spots
<1>5. ImagesStand'
  <2> SUFFICES ASSUME NEW q \in Apps, app'[q].pc # "none"
               PROVE  disk'[app'[q].at] # "none" /\ app'[q].at # "foreman.new.exe"
    BY DEF ImagesStand, OnDisk
  <2>1. app[q].pc # "none" /\ app'[q].at = app[q].at
    BY <1>4
  <2>2. InUse(app[q].at) /\ app[q].at \in Spots
    BY <1>2, <2>1 DEF InUse, Processes
  <2> QED BY <1>3, <2>1, <2>2 DEF SwapInv, ImagesStand, OnDisk
<1>6. HelperStands'
  BY <1>1, <1>3 DEF SwapInv, HelperStands, OnDisk, InUse, UpdaterTypeOK
<1>7. FileLeft'
  <2>1. app[p].at \in Spots /\ InUse(app[p].at) /\ OnDisk(app[p].at)
    BY <1>1, <1>2 DEF SwapInv, ImagesStand, InUse, Processes
  <2> QED BY <1>3, <2>1 DEF FileLeft, OnDisk
<1>8. ExeUnlessTorn' /\ WorkerIsOwned' /\ BackupIsApart'
  BY <1>1, <1>3, <1>4 DEF SwapInv, ExeUnlessTorn, WorkerIsOwned, BackupIsApart, OnDisk, UpdaterTypeOK
<1>9. UpdaterTypeOK'
  BY <1>1, <1>3, <1>4, FilesTyped DEF SwapInv, UpdaterTypeOK, Processes, Versions
<1> QED BY <1>5, <1>6, <1>7, <1>8, <1>9 DEF SwapInv

(* The processes that go take the apply thread with them when it is theirs. *)
LEMMA GoneKeeps ==
    ASSUME SwapInv, NEW gone \in SUBSET Apps,
           app' = [p \in Apps |-> IF p \in gone THEN Stopped ELSE app[p]],
           WorkerWithout(gone)
    PROVE  /\ app' \in [Apps -> Processes]
           /\ \A p \in Apps : app'[p] = app[p] \/ app'[p].pc = "none"
           /\ WorkerIsOwned'
           /\ worker' \in {"idle", worker} /\ owner' = owner
           /\ cancel' \in BOOLEAN /\ cleaning' \in BOOLEAN /\ promised' \in BOOLEAN
<1>1. app \in [Apps -> Processes] /\ owner \in Apps
      /\ cancel \in BOOLEAN /\ cleaning \in BOOLEAN /\ promised \in BOOLEAN
  BY FilesTyped DEF SwapInv
<1>2. Stopped \in Processes /\ Stopped.pc = "none"
  BY DEF Stopped, Processes, Spots
<1>3. app' \in [Apps -> Processes] /\ \A p \in Apps : app'[p] = app[p] \/ app'[p].pc = "none"
  BY <1>1, <1>2
<1>4. CASE owner \in gone
  BY <1>1, <1>3, <1>4 DEF WorkerWithout, WorkerIsOwned
<1>5. CASE owner \notin gone
  BY <1>1, <1>3, <1>5 DEF SwapInv, WorkerWithout, WorkerIsOwned, workerVars
<1> QED BY <1>3, <1>4, <1>5

LEMMA TypedAfterGone ==
    ASSUME SwapInv, NEW gone \in SUBSET Apps, disk' = disk,
           app' = [p \in Apps |-> IF p \in gone THEN Stopped ELSE app[p]],
           WorkerWithout(gone), UNCHANGED <<helperAt, backup, torn>>,
           helper' \in {"none", "waiting", "clear", "moved", "placed"}
    PROVE  UpdaterTypeOK'
<1>1. disk' \in [Spots -> Versions] /\ app' \in [Apps -> Processes]
  BY GoneKeeps, FilesTyped DEF SwapInv
<1>2. helperAt' \in Spots /\ backup' \in Spots /\ torn' \in BOOLEAN /\ owner' \in Apps
      /\ worker' \in {"idle", "downloading", "received", "checked", "swapping", "handed"}
      /\ cancel' \in BOOLEAN /\ cleaning' \in BOOLEAN /\ promised' \in BOOLEAN
  BY GoneKeeps, FilesTyped DEF SwapInv
<1> QED BY <1>1, <1>2 DEF UpdaterTypeOK, Processes, Versions

LEMMA GoingKeeps ==
    ASSUME SwapInv,
           \/ \E p \in Apps : Close(p)
           \/ ShutDown
    PROVE  SwapInv'
<1>1. PICK gone \in SUBSET Apps :
        /\ app' = [p \in Apps |-> IF p \in gone THEN Stopped ELSE app[p]]
        /\ WorkerWithout(gone)
        /\ UNCHANGED <<disk, helper, helperAt, backup, torn>>
  <2>1. app \in [Apps -> Processes] /\ owner \in Apps
    BY FilesTyped DEF SwapInv
  <2>2. ASSUME NEW p \in Apps
        PROVE  [app EXCEPT ![p] = Stopped] = [q \in Apps |-> IF q \in {p} THEN Stopped ELSE app[q]]
    BY <2>1
  <2>3. CASE ShutDown
    BY <2>1, <2>2, <2>3 DEF ShutDown
  <2>4. CASE \E p \in Apps : Close(p)
    BY <2>2, <2>4 DEF Close
  <2> QED BY <2>3, <2>4
<1>2. helper' \in {"none", "waiting", "clear", "moved", "placed"}
  BY <1>1, FilesTyped DEF SwapInv
<1> QED BY <1>1, <1>2, GoneKeeps, TypedAfterGone, Quiet

LEMMA TakesOverKeeps == ASSUME SwapInv, TakesOver PROVE SwapInv'
<1> DEFINE gone == {p \in Apps : app[p].pc # "none" /\ app[p].at = "foreman.exe"}
<1>1. /\ app' = [p \in Apps |-> IF p \in gone THEN Stopped ELSE app[p]]
      /\ WorkerWithout(gone)
      /\ UNCHANGED <<disk, helperAt, backup, torn>> /\ helper = "waiting" /\ helper' = "clear"
  BY DEF TakesOver
<1>2. UpdaterTypeOK'
  BY <1>1, TypedAfterGone
<1>3. ImagesStand' /\ WorkerIsOwned'
  BY <1>1, GoneKeeps DEF SwapInv, ImagesStand, OnDisk
<1> QED BY <1>1, <1>2, <1>3
       DEF SwapInv, HelperStands, BackupIsApart, ExeUnlessTorn, FileLeft, OnDisk

-----------------------------------------------------------------------------
(* The apply thread's steps.                                               *)

(* What leaves the files and the processes alone.                          *)
LEMMA Settled ==
    ASSUME SwapInv, UNCHANGED <<disk, app, backup>>, UpdaterTypeOK',
           HelperStands', WorkerIsOwned', ExeUnlessTorn'
    PROVE  SwapInv'
BY DEF SwapInv, ImagesStand, BackupIsApart, FileLeft, OnDisk

LEMMA ThreadKeeps ==
    ASSUME SwapInv,
           \/ \E p \in Apps : BeginApply(p)
           \/ CancelApply \/ DownloadFails \/ SeesCancel \/ LastLook \/ Swapping
           \/ StartHelper \/ StartHelperFails
    PROVE  SwapInv'
<1>1. UNCHANGED <<disk, app, backup, torn>>
  BY DEF BeginApply, CancelApply, DownloadFails, SeesCancel, GivesUp, LastLook, Swapping,
         StartHelper, StartHelperFails
<1>2. UpdaterTypeOK'
  BY DEF SwapInv, UpdaterTypeOK, Spots, BeginApply, CancelApply, DownloadFails, SeesCancel,
         GivesUp, LastLook, Swapping, StartHelper, StartHelperFails
<1>3. HelperStands' /\ ExeUnlessTorn'
  <2>1. CASE StartHelper
    BY <2>1 DEF SwapInv, StartHelper, HelperStands, ExeUnlessTorn, OnDisk
  <2>2. CASE UNCHANGED <<helper, helperAt>>
    BY <1>1, <2>2 DEF SwapInv, HelperStands, ExeUnlessTorn, OnDisk
  <2> QED BY <2>1, <2>2 DEF BeginApply, CancelApply, DownloadFails, SeesCancel, GivesUp, LastLook,
                            Swapping, StartHelperFails
<1>4. WorkerIsOwned'
  BY DEF SwapInv, WorkerIsOwned, BeginApply, CancelApply, DownloadFails, SeesCancel, GivesUp,
         LastLook, Swapping, StartHelper, StartHelperFails
<1> QED BY <1>1, <1>2, <1>3, <1>4, Settled

(* What only adds files, or deletes files that are no image, and leaves    *)
(* one behind.                                                             *)
LEMMA FilesKeep ==
    ASSUME SwapInv, disk' \in [Spots -> Versions], UNCHANGED <<app, helperAt, torn>>,
           \A s \in Spots : InUse(s) /\ OnDisk(s) => disk'[s] # "none",
           \/ helper' = helper
           \/ helper' = "none"
           \/ helper = "clear" /\ helper' = "moved",
           UpdaterTypeOK', BackupIsApart', WorkerIsOwned', ExeUnlessTorn', FileLeft'
    PROVE  SwapInv'
<1>1. app \in [Apps -> Processes] /\ helperAt \in Spots
  BY FilesTyped DEF SwapInv
<1>2. ImagesStand'
  <2> SUFFICES ASSUME NEW p \in Apps, app[p].pc # "none"
               PROVE  disk'[app[p].at] # "none" /\ app[p].at # "foreman.new.exe"
    BY DEF ImagesStand, OnDisk
  <2>1. InUse(app[p].at) /\ app[p].at \in Spots
    BY <1>1 DEF InUse, Processes
  <2> QED BY <2>1 DEF SwapInv, ImagesStand
<1>3. HelperStands'
  <2> SUFFICES ASSUME helper' # "none" PROVE HelperStands'
    BY DEF HelperStands
  <2>1. helper # "none" /\ InUse(helperAt) /\ OnDisk(helperAt) /\ (helper' = "placed" <=> helper = "placed")
    BY DEF InUse, SwapInv, HelperStands
  <2>2. disk'[helperAt] # "none"
    BY <1>1, <2>1
  <2> QED BY <2>1, <2>2 DEF SwapInv, HelperStands, OnDisk
<1> QED BY <1>2, <1>3 DEF SwapInv

LEMMA DownloadedKeeps == ASSUME SwapInv, Downloaded PROVE SwapInv'
<1>1. disk \in [Spots -> Versions]
  BY FilesTyped DEF SwapInv
<1>2. /\ disk' \in [Spots -> Versions]
      /\ \A s \in Spots : disk[s] # "none" => disk'[s] # "none"
  BY <1>1 DEF Downloaded, Versions
<1>3. UNCHANGED <<app, helper, helperAt, backup, owner, cancel, cleaning, promised, torn>>
      /\ worker = "downloading" /\ worker' = "received"
  BY DEF Downloaded
<1>4. UpdaterTypeOK' /\ BackupIsApart' /\ WorkerIsOwned'
  BY <1>2, <1>3 DEF SwapInv, UpdaterTypeOK, Versions, BackupIsApart, WorkerIsOwned
<1>5. ExeUnlessTorn' /\ FileLeft'
  BY <1>2, <1>3 DEF SwapInv, ExeUnlessTorn, FileLeft, OnDisk, Spots
<1> QED BY <1>2, <1>3, <1>4, <1>5, FilesKeep DEF OnDisk

LEMMA CleansUpKeeps == ASSUME SwapInv, CleansUp PROVE SwapInv'
<1>1. disk \in [Spots -> Versions] /\ app \in [Apps -> Processes] /\ owner \in Apps
  BY FilesTyped DEF SwapInv
<1>2. /\ disk' \in [Spots -> Versions]
      /\ \A s \in Spots : s # "foreman.new.exe" \/ InUse(s) => disk'[s] = disk[s]
  BY <1>1, DeletedTyped DEF CleansUp
<1>3. UNCHANGED <<app, helper, helperAt, backup, worker, owner, cancel, promised, torn>>
      /\ cleaning /\ cleaning' = FALSE
  BY DEF CleansUp
<1>4. UpdaterTypeOK' /\ BackupIsApart' /\ WorkerIsOwned'
  BY <1>2, <1>3 DEF SwapInv, UpdaterTypeOK, Versions, BackupIsApart, WorkerIsOwned
<1>5. ExeUnlessTorn'
  BY <1>2, <1>3 DEF SwapInv, ExeUnlessTorn, OnDisk, Spots
<1>6. FileLeft'
  <2>1. app[owner].pc = "serving"
    BY <1>3 DEF SwapInv, WorkerIsOwned
  <2>2. app[owner].at \in Spots /\ app[owner].at # "foreman.new.exe" /\ disk[app[owner].at] # "none"
    BY <1>1, <2>1 DEF SwapInv, ImagesStand, OnDisk, Processes
  <2> QED BY <1>2, <2>2 DEF FileLeft, OnDisk
<1> QED BY <1>2, <1>3, <1>4, <1>5, <1>6, FilesKeep DEF OnDisk

-----------------------------------------------------------------------------
(* The helper's steps.                                                     *)

LEMMA Backups == BackupPath \in {"foreman.old.exe", "foreman.old.n.exe"}
BY DEF BackupPath

LEMMA MoveAsideKeeps == ASSUME SwapInv, MoveAside PROVE SwapInv'
<1>1. disk \in [Spots -> Versions] /\ app \in [Apps -> Processes]
  BY FilesTyped DEF SwapInv
<1>2. BackupPath \in Spots /\ BackupPath \notin {"foreman.exe", "foreman.new.exe"}
  BY Backups DEF Spots
<1>3. /\ backup' = BackupPath /\ helper = "clear" /\ helper' = "moved"
      /\ UNCHANGED <<helperAt, worker, owner, cancel, cleaning, promised, torn>>
  BY DEF MoveAside, workerVars
<1>4. BackupIsApart' /\ backup' \in Spots
  BY <1>2, <1>3, Backups DEF BackupIsApart
<1>5. ExeUnlessTorn'
  BY <1>3 DEF ExeUnlessTorn
<1>6. helperAt = "foreman.new.exe" /\ OnDisk("foreman.new.exe") /\ InUse("foreman.new.exe")
  BY <1>3 DEF SwapInv, HelperStands, InUse
<1>7. CASE OnDisk("foreman.exe")
  <2>1. disk' = Moved("foreman.exe", BackupPath) /\ app' = Follows("foreman.exe", BackupPath)
    BY <1>7 DEF MoveAside
  <2>2. /\ disk' \in [Spots -> Versions] /\ disk'[BackupPath] # "none"
        /\ \A u \in Spots : u # "foreman.exe" /\ disk[u] # "none" => disk'[u] # "none"
    BY <1>1, <1>2, <1>7, <2>1, MovedTyped DEF OnDisk, Spots
  <2>3. /\ app' \in [Apps -> Processes]
        /\ \A p \in Apps :
             /\ app'[p].pc = app[p].pc
             /\ app'[p].at = IF app[p].at = "foreman.exe" THEN BackupPath ELSE app[p].at
    BY <1>1, <1>2, <2>1, FollowsTyped DEF Spots
  <2>4. ImagesStand'
    <3> SUFFICES ASSUME NEW p \in Apps, app'[p].pc # "none"
                 PROVE  disk'[app'[p].at] # "none" /\ app'[p].at # "foreman.new.exe"
      BY DEF ImagesStand, OnDisk
    <3>1. app[p].at \in Spots /\ disk[app[p].at] # "none" /\ app[p].at # "foreman.new.exe"
      BY <1>1, <2>3 DEF SwapInv, ImagesStand, OnDisk, Processes
    <3> QED BY <1>2, <2>2, <2>3, <3>1
  <2>5. HelperStands' /\ FileLeft'
    BY <1>2, <1>3, <1>6, <2>2 DEF HelperStands, FileLeft, OnDisk, Spots
  <2>6. UpdaterTypeOK'
    BY <1>3, <1>4, <2>2, <2>3, FilesTyped DEF SwapInv, UpdaterTypeOK, Processes, Versions
  <2>7. WorkerIsOwned'
    BY <1>3, <2>3, FilesTyped DEF SwapInv, WorkerIsOwned
  <2> QED BY <1>4, <1>5, <2>4, <2>5, <2>6, <2>7 DEF SwapInv
<1>8. CASE ~OnDisk("foreman.exe")
  <2>1. disk' = Deleted({BackupPath}) /\ app' = app
    BY <1>8 DEF MoveAside
  <2>2. /\ disk' \in [Spots -> Versions]
        /\ \A s \in Spots : InUse(s) => disk'[s] = disk[s]
    BY <1>1, <2>1, DeletedTyped
  <2>3. UpdaterTypeOK' /\ WorkerIsOwned'
    BY <1>3, <1>4, <2>1, <2>2 DEF SwapInv, UpdaterTypeOK, Versions, WorkerIsOwned
  <2>4. FileLeft'
    BY <1>6, <2>2 DEF FileLeft, OnDisk, Spots
  <2> QED BY <1>3, <1>4, <1>5, <2>1, <2>2, <2>3, <2>4, FilesKeep DEF OnDisk
<1> QED BY <1>7, <1>8

LEMMA MoveAsideFailsKeeps == ASSUME SwapInv, MoveAsideFails PROVE SwapInv'
<1>1. disk \in [Spots -> Versions]
  BY FilesTyped DEF SwapInv
<1>2. /\ disk' \in [Spots -> Versions] /\ disk'["foreman.exe"] = disk["foreman.exe"]
      /\ \A s \in Spots : InUse(s) => disk'[s] = disk[s]
  BY <1>1, DeletedTyped, Backups DEF MoveAsideFails, Spots
<1>3. UNCHANGED <<app, helperAt, backup, worker, owner, cancel, cleaning, promised, torn>>
      /\ OnDisk("foreman.exe") /\ helper' = "none"
  BY DEF MoveAsideFails, workerVars
<1>4. UpdaterTypeOK' /\ BackupIsApart' /\ WorkerIsOwned'
  BY <1>2, <1>3 DEF SwapInv, UpdaterTypeOK, Versions, BackupIsApart, WorkerIsOwned
<1>5. ExeUnlessTorn' /\ FileLeft'
  BY <1>2, <1>3 DEF ExeUnlessTorn, FileLeft, OnDisk, Spots
<1> QED BY <1>2, <1>3, <1>4, <1>5, FilesKeep DEF OnDisk

(* A rename to foreman.exe, which nothing runs from meanwhile.              *)
LEMMA IntoPlace ==
    ASSUME SwapInv, NEW s \in Spots \ {"foreman.exe"}, OnDisk(s),
           disk' = Moved(s, "foreman.exe"),
           IF s = "foreman.new.exe" THEN app' = app ELSE app' = Follows(s, "foreman.exe")
    PROVE  /\ disk' \in [Spots -> Versions] /\ app' \in [Apps -> Processes]
           /\ disk'["foreman.exe"] # "none"
           /\ ImagesStand'
           /\ \A p \in Apps : app'[p].pc = app[p].pc
<1>1. disk \in [Spots -> Versions] /\ app \in [Apps -> Processes]
  BY FilesTyped DEF SwapInv
<1>2. /\ disk' \in [Spots -> Versions] /\ disk'["foreman.exe"] # "none"
      /\ \A u \in Spots : u # s /\ disk[u] # "none" => disk'[u] # "none"
  BY <1>1, MovedTyped DEF OnDisk, Spots
<1>3. /\ app' \in [Apps -> Processes]
      /\ \A p \in Apps :
           /\ app'[p].pc = app[p].pc
           /\ app'[p].at = app[p].at \/ app'[p].at = "foreman.exe"
           /\ app[p].at = s /\ s # "foreman.new.exe" => app'[p].at = "foreman.exe"
  BY <1>1, FollowsTyped DEF Spots
<1>4. ImagesStand'
  <2> SUFFICES ASSUME NEW p \in Apps, app'[p].pc # "none"
               PROVE  disk'[app'[p].at] # "none" /\ app'[p].at # "foreman.new.exe"
    BY DEF ImagesStand, OnDisk
  <2>1. app[p].at \in Spots /\ disk[app[p].at] # "none" /\ app[p].at # "foreman.new.exe"
    BY <1>1, <1>3 DEF SwapInv, ImagesStand, OnDisk, Processes
  <2> QED BY <1>2, <1>3, <2>1
<1> QED BY <1>2, <1>3, <1>4

LEMMA PlaceKeeps == ASSUME SwapInv, Place PROVE SwapInv'
<1>1. /\ disk' = Moved("foreman.new.exe", "foreman.exe") /\ helper = "moved"
      /\ helper' = "placed" /\ helperAt' = "foreman.exe"
      /\ UNCHANGED <<app, backup, worker, owner, cancel, cleaning, promised, torn>>
  BY DEF Place, workerVars
<1>2. OnDisk("foreman.new.exe")
  BY <1>1 DEF SwapInv, HelperStands
<1>3. /\ disk' \in [Spots -> Versions] /\ app' \in [Apps -> Processes]
      /\ disk'["foreman.exe"] # "none" /\ ImagesStand'
  BY <1>1, <1>2, IntoPlace DEF Spots
<1>4. UpdaterTypeOK'
  BY <1>1, <1>3 DEF SwapInv, UpdaterTypeOK, Versions, Processes, Spots
<1> QED BY <1>1, <1>3, <1>4
       DEF SwapInv, HelperStands, BackupIsApart, WorkerIsOwned, ExeUnlessTorn, FileLeft, OnDisk, Spots

LEMMA PlaceFailsKeeps == ASSUME SwapInv, PlaceFails PROVE SwapInv'
<1>1. /\ helper = "moved" /\ helper' = "none" /\ torn' = (torn \/ ~OnDisk(backup))
      /\ UNCHANGED <<helperAt, backup, worker, owner, cancel, cleaning, promised>>
  BY DEF PlaceFails, workerVars
<1>2. backup \in Spots \ {"foreman.exe", "foreman.new.exe"}
  BY DEF SwapInv, BackupIsApart, Spots
<1>3. CASE OnDisk(backup)
  <2>1. disk' = Moved(backup, "foreman.exe") /\ app' = Follows(backup, "foreman.exe")
    BY <1>3 DEF PlaceFails
  <2>2. /\ disk' \in [Spots -> Versions] /\ app' \in [Apps -> Processes]
        /\ disk'["foreman.exe"] # "none" /\ ImagesStand'
        /\ \A p \in Apps : app'[p].pc = app[p].pc
    BY <1>2, <1>3, <2>1, IntoPlace
  <2>3. UpdaterTypeOK'
    BY <1>1, <2>2 DEF SwapInv, UpdaterTypeOK, Versions, Processes
  <2> QED BY <1>1, <2>2, <2>3, FilesTyped
         DEF SwapInv, HelperStands, BackupIsApart, WorkerIsOwned, ExeUnlessTorn, FileLeft, OnDisk, Spots
<1>4. CASE ~OnDisk(backup)
  <2>1. UNCHANGED <<disk, app>> /\ torn'
    BY <1>1, <1>4 DEF PlaceFails
  <2>2. UpdaterTypeOK'
    BY <1>1, <2>1 DEF SwapInv, UpdaterTypeOK
  <2> QED BY <1>1, <2>1, <2>2, Settled
         DEF SwapInv, HelperStands, WorkerIsOwned, ExeUnlessTorn
<1> QED BY <1>3, <1>4

LEMMA RelaunchKeeps == ASSUME SwapInv, Relaunch PROVE SwapInv'
<1>1. /\ helper = "placed" /\ helper' = "none"
      /\ UNCHANGED <<disk, helperAt, backup, worker, owner, cancel, cleaning, promised, torn>>
  BY DEF Relaunch, workerVars
<1>2. /\ app' \in [Apps -> Processes] /\ ImagesStand' /\ WorkerIsOwned'
  <2>1. CASE \E p \in Apps : Starts(p)
    BY <1>1, <2>1, StartKeeps DEF WorkerIsOwned
  <2>2. CASE app' = app
    BY <1>1, <2>2, FilesTyped DEF SwapInv, ImagesStand, WorkerIsOwned, OnDisk
  <2> QED BY <2>1, <2>2 DEF Relaunch
<1>3. UpdaterTypeOK'
  BY <1>1, <1>2 DEF SwapInv, UpdaterTypeOK, Processes
<1> QED BY <1>1, <1>2, <1>3
       DEF SwapInv, HelperStands, BackupIsApart, ExeUnlessTorn, FileLeft, OnDisk

LEMMA HelperDiesKeeps == ASSUME SwapInv, HelperDies PROVE SwapInv'
<1>1. /\ helper' = "none" /\ torn' = (torn \/ helper = "moved")
      /\ UNCHANGED <<disk, app, helperAt, backup, worker, owner, cancel, cleaning, promised>>
  BY DEF HelperDies, workerVars
<1>2. UpdaterTypeOK'
  BY <1>1 DEF SwapInv, UpdaterTypeOK
<1> QED BY <1>1, <1>2, Settled
       DEF SwapInv, HelperStands, WorkerIsOwned, ExeUnlessTorn, OnDisk

-----------------------------------------------------------------------------
(* The invariant and what it shows.                                        *)

LEMMA SwapNext == SwapInv /\ [UpdaterNext]_updaterVars => SwapInv'
<1> SUFFICES ASSUME SwapInv, [UpdaterNext]_updaterVars PROVE SwapInv'
  OBVIOUS
<1>1. ASSUME NEW p \in Apps, OpenApp(p) \/ Boot(p) \/ Close(p) \/ BeginApply(p) PROVE SwapInv'
  BY <1>1, OpenKeeps, BootKeeps, GoingKeeps, ThreadKeeps
<1>2. ASSUME \/ CancelApply \/ Downloaded \/ DownloadFails \/ SeesCancel \/ CleansUp
             \/ LastLook \/ Swapping \/ StartHelper \/ StartHelperFails \/ ShutDown
      PROVE  SwapInv'
  BY <1>2, ThreadKeeps, DownloadedKeeps, CleansUpKeeps, GoingKeeps
<1>3. ASSUME \/ TakesOver \/ MoveAside \/ MoveAsideFails \/ Place \/ PlaceFails \/ Relaunch
             \/ HelperDies
      PROVE  SwapInv'
  BY <1>3, TakesOverKeeps, MoveAsideKeeps, MoveAsideFailsKeeps, PlaceKeeps, PlaceFailsKeeps,
     RelaunchKeeps, HelperDiesKeeps
<1>4. ASSUME UNCHANGED updaterVars PROVE SwapInv'
  BY <1>4 DEF updaterVars, SwapInv, UpdaterTypeOK, ImagesStand, HelperStands, BackupIsApart,
              WorkerIsOwned, ExeUnlessTorn, FileLeft, OnDisk
<1> QED BY <1>1, <1>2, <1>3, <1>4 DEF UpdaterNext

\* UpdaterTypeOK (update.py: the files, processes and phases of an update) holds
\* for any number of processes.
THEOREM UpdaterTypeCorrect == UpdaterSpec => []UpdaterTypeOK
<1>1. SwapInv => UpdaterTypeOK
  BY DEF SwapInv
<1> QED BY SwapInit, SwapNext, <1>1, PTL DEF UpdaterSpec

\* AProgramRemains (run_swap and cleanup_stale of update.py), for any number of
\* processes: whatever is opened, closed, cancelled, deleted or fails meanwhile,
\* foreman.exe is missing only between the helper's renames or after it died
\* there, and never with the folder left without a program.
THEOREM AProgramStays == UpdaterSpec => []AProgramRemains
<1>1. SwapInv => AProgramRemains
  BY DEF SwapInv, ExeUnlessTorn, FileLeft, AProgramRemains
<1> QED BY SwapInit, SwapNext, <1>1, PTL DEF UpdaterSpec

-----------------------------------------------------------------------------
(* The cloud link.                                                         *)

Phases == Before \cup Online \cup {"unused", "cancelled", "done"}

LinkTypeOK ==
    /\ setting \in Settings \cup {"none"}
    /\ saving \in BOOLEAN
    /\ asked \in {"no", "connect", "unset", "disconnect"}
    /\ loop \in Dialers \cup {0} /\ task \in Dialers \cup {0}
    /\ phase \in [Dialers -> Phases]
    /\ with \in [Dialers -> Settings \cup {"none"}]
    /\ connected \in BOOLEAN /\ slipped \in BOOLEAN

DialerActs == \E d \in Dialers : DialerStep(d)

(* The steps by what they do to the dialers.                               *)
LEMMA Steps ==
    ASSUME CloudNext
    PROVE  \/ \E what \in {"connect", "disconnect"} :
                 Ask(what) /\ saving' \in {saving, FALSE}
                 /\ (saving' # saving => asked' = "disconnect")
           \/ \E v \in Settings \cup {"none"} : Save(v)
           \/ Dial \/ LinkStopped \/ DialerActs
<1>1. ASSUME Connect \/ Disconnect \/ SavedDisconnects
      PROVE  \E what \in {"connect", "disconnect"} :
                 Ask(what) /\ saving' \in {saving, FALSE}
                 /\ (saving' # saving => asked' = "disconnect")
  BY <1>1 DEF Connect, Disconnect, SavedDisconnects, Ask
<1> QED BY <1>1 DEF CloudNext, DialerActs

(* A dialer that is at it.                                                 *)
Dials(d) == phase[d] \in Online \cup Before

(* The fields are those of the one dialer there is, as far as it has come; *)
(* none is left once a caller has the lock.                                *)
FieldsKnow ==
    \A d \in Dialers :
        /\ phase[d] = "started" => loop = 0 /\ task = 0
        /\ phase[d] = "looped" => loop = d /\ task = 0
        /\ phase[d] \in Online => loop = d /\ task = d

OneDials ==
    /\ \A d, e \in Dialers : Dials(d) /\ Dials(e) => d = e
    /\ asked # "no" => loop = 0 /\ task = 0 /\ \A d \in Dialers : ~Dials(d)

DialsWhatIsSaved == ~saving => \A d \in Dialers : Dials(d) => with[d] = setting

LinkInv == ~slipped => FieldsKnow /\ OneDials /\ DialsWhatIsSaved

-----------------------------------------------------------------------------
(* Types.                                                                  *)

LEMMA LinkTypeInit == CloudInit => LinkTypeOK
BY DEF CloudInit, LinkTypeOK, Phases

LEMMA LinkTypeNext == LinkTypeOK /\ [CloudNext]_linkVars => LinkTypeOK'
<1> SUFFICES ASSUME LinkTypeOK, [CloudNext]_linkVars PROVE LinkTypeOK'
  OBVIOUS
<1> USE DEF LinkTypeOK, Phases, Before, Online
<1>1. ASSUME NEW what \in {"connect", "disconnect"}, Ask(what), saving' \in {saving, FALSE}
      PROVE  LinkTypeOK'
  <2>1. phase' \in [Dialers -> Phases] /\ loop' = 0 /\ task' = 0
    BY <1>1 DEF Ask, ForgetDialer
  <2> QED BY <1>1, <2>1 DEF Ask
<1>2. ASSUME NEW v \in Settings \cup {"none"}, Save(v) PROVE LinkTypeOK'
  BY <1>2 DEF Save
<1>3. ASSUME Dial PROVE LinkTypeOK'
  BY <1>3 DEF Dial
<1>4. ASSUME LinkStopped PROVE LinkTypeOK'
  BY <1>4 DEF LinkStopped
<1>5. ASSUME NEW d \in Dialers, DialerStep(d) PROVE LinkTypeOK'
  <2>1. ASSUME DialerLoops(d) PROVE LinkTypeOK'  BY <2>1 DEF DialerLoops
  <2>2. ASSUME DialerDials(d) PROVE LinkTypeOK'  BY <2>2 DEF DialerDials
  <2>3. ASSUME Handshake(d) PROVE LinkTypeOK'  BY <2>3 DEF Handshake
  <2>4. ASSUME Drops(d) PROVE LinkTypeOK'  BY <2>4 DEF Drops
  <2>5. ASSUME Redials(d) PROVE LinkTypeOK'  BY <2>5 DEF Redials
  <2>6. ASSUME DialerEnds(d) PROVE LinkTypeOK'  BY <2>6 DEF DialerEnds
  <2> QED BY <1>5, <2>1, <2>2, <2>3, <2>4, <2>5, <2>6 DEF DialerStep
<1>6. ASSUME UNCHANGED linkVars PROVE LinkTypeOK'
  BY <1>6 DEF linkVars
<1> QED BY <1>1, <1>2, <1>3, <1>4, <1>5, <1>6, Steps DEF DialerActs

(* The manager's fields hold dialers, and every dialer is somewhere on its *)
(* way (CloudManager's fields and the thread's body).                      *)
THEOREM LinkTypeCorrect == CloudSpec => []LinkTypeOK
BY LinkTypeInit, LinkTypeNext, PTL DEF CloudSpec

-----------------------------------------------------------------------------
(* The dialers.                                                            *)

LEMMA LinkStart == CloudInit => LinkInv
BY CloudAssumption DEF CloudInit, LinkInv, FieldsKnow, OneDials, DialsWhatIsSaved, Dials,
    Before, Online

(* A caller that takes the lock leaves nobody dialing, if no dialer was    *)
(* still on its way to its task.                                           *)
LEMMA AskStops ==
    ASSUME LinkTypeOK, LinkInv, NEW what \in {"connect", "disconnect"}, Ask(what), ~slipped'
    PROVE  loop' = 0 /\ task' = 0 /\ \A d \in Dialers : ~Dials(d)'
<1>1. ~slipped /\ \A d \in Dialers : phase[d] \notin Before
  BY DEF Ask, LinkTypeOK
<1>2. SUFFICES ASSUME NEW d \in Dialers PROVE phase'[d] \notin Online \cup Before
  BY DEF Dials, Ask, ForgetDialer
<1>3. CASE phase[d] \in Online
  <2>1. loop = d /\ task = d
    BY <1>1, <1>3 DEF LinkInv, FieldsKnow
  <2>2. phase'[d] = "cancelled"
    BY <1>3, <2>1, CloudAssumption DEF Ask, ForgetDialer, LinkTypeOK
  <2> QED BY <2>2 DEF Online, Before
<1>4. CASE phase[d] \notin Online
  BY <1>1, <1>4 DEF Ask, ForgetDialer, LinkTypeOK, Online, Before
<1> QED BY <1>3, <1>4

LEMMA LinkNext == LinkTypeOK /\ LinkInv /\ [CloudNext]_linkVars => LinkInv'
<1> SUFFICES ASSUME LinkTypeOK, LinkInv, [CloudNext]_linkVars, ~slipped'
             PROVE  (FieldsKnow /\ OneDials /\ DialsWhatIsSaved)'
  BY DEF LinkInv
<1>1. ASSUME NEW what \in {"connect", "disconnect"}, Ask(what)
      PROVE  (FieldsKnow /\ OneDials /\ DialsWhatIsSaved)'
  <2>1. loop' = 0 /\ task' = 0 /\ \A d \in Dialers : ~Dials(d)'
    BY <1>1, AskStops
  <2> QED BY <2>1 DEF FieldsKnow, OneDials, DialsWhatIsSaved, Dials, Before, Online
<1>2. ASSUME NEW v \in Settings \cup {"none"}, Save(v)
      PROVE  (FieldsKnow /\ OneDials /\ DialsWhatIsSaved)'
  BY <1>2 DEF Save, LinkInv, FieldsKnow, OneDials, DialsWhatIsSaved, Dials
<1>3. ASSUME Dial PROVE (FieldsKnow /\ OneDials /\ DialsWhatIsSaved)'
  <2>1. ~slipped /\ loop = 0 /\ task = 0 /\ \A d \in Dialers : ~Dials(d)
    BY <1>3 DEF Dial, LinkInv, OneDials
  <2>2. PICK d \in Dialers : phase' = [phase EXCEPT ![d] = "started"]
                             /\ with' = [with EXCEPT ![d] = setting]
    BY <1>3 DEF Dial
  <2> QED BY <1>3, <2>1, <2>2 DEF Dial, FieldsKnow, OneDials, DialsWhatIsSaved, Dials,
                                  LinkTypeOK, Before, Online
<1>4. ASSUME LinkStopped PROVE (FieldsKnow /\ OneDials /\ DialsWhatIsSaved)'
  BY <1>4 DEF LinkStopped, LinkInv, FieldsKnow, OneDials, DialsWhatIsSaved, Dials
<1>5. ASSUME NEW d \in Dialers, DialerStep(d)
      PROVE  (FieldsKnow /\ OneDials /\ DialsWhatIsSaved)'
  <2> USE <1>5 DEF LinkInv, LinkTypeOK, FieldsKnow, OneDials, DialsWhatIsSaved, Dials,
                   Before, Online
  <2>1. CASE DialerLoops(d)  BY <2>1 DEF DialerLoops
  <2>2. CASE DialerDials(d)  BY <2>2 DEF DialerDials
  <2>3. CASE Handshake(d)  BY <2>3 DEF Handshake
  <2>4. CASE Drops(d)  BY <2>4 DEF Drops
  <2>5. CASE Redials(d)  BY <2>5 DEF Redials
  <2>6. CASE DialerEnds(d)  BY <2>6 DEF DialerEnds
  <2> QED BY <2>1, <2>2, <2>3, <2>4, <2>5, <2>6 DEF DialerStep
<1>6. ASSUME UNCHANGED linkVars PROVE (FieldsKnow /\ OneDials /\ DialsWhatIsSaved)'
  BY <1>6 DEF linkVars, LinkInv, FieldsKnow, OneDials, DialsWhatIsSaved, Dials
<1> QED BY <1>1, <1>2, <1>3, <1>4, <1>5, <1>6, Steps DEF DialerActs

(* LinkIsCurrent: saves, disconnects and second connects leave no older    *)
(* dialer behind, unless one came before the thread had left its task.     *)
THEOREM LinkStaysCurrent == CloudSpec => []LinkIsCurrent
<1>1. LinkInv => LinkIsCurrent
  BY DEF LinkInv, LinkIsCurrent, OneDials, DialsWhatIsSaved, Dials
<1> QED BY <1>1, LinkTypeInit, LinkTypeNext, LinkStart, LinkNext, PTL DEF CloudSpec

-----------------------------------------------------------------------------
(* Upgrades of the database.                                               *)

\* The last version the ledger lists.
Level == Cardinality(ledger)

Single(S) == \A i, j \in S : i = j

\* One program upgrades at a time, and those that are there are of one release.
OneUpgrades ==
    \A p, q \in Openers :
        opener[p].phase # "down" /\ opener[q].phase # "down" =>
            /\ opener[p].release = opener[q].release
            /\ p \in Upgrading /\ q \in Upgrading => p = q

\* What the steps of version v have left behind before its step n.
Done(v, n) == \A k \in 1 .. n - 1 : Ddl[v][k].op = "add" => Ddl[v][k].what \in shape

ReadsLedger(at) == at.phase = "tables" => begun <= Level \/ begun <= at.release

Upgrades(at) ==
    at.phase = "upgrade" =>
        /\ Missing(at.release) = {}
        /\ at.version = Level + 1 /\ at.version <= at.release
        /\ at.next \in 1 .. Len(Ddl[at.version]) + 1
        /\ Done(at.version, at.next)
        /\ at.next > 1 => begun = at.version

IsOpened(at) ==
    at.phase = "open" =>
        /\ Missing(at.release) = {}
        /\ at.release <= Level /\ begun <= Level

\* Nothing an applied version added is gone, but for the indexes it replaced.
AddedStays ==
    \A v \in 1 .. Level : \A k \in DOMAIN Ddl[v] :
        Ddl[v][k].op = "add" /\ Ddl[v][k].what \notin {ActivePath, WritePath} =>
            Ddl[v][k].what \in shape

\* Between upgrades the lease table has the unique index of its version.
HasGuard ==
    begun <= Level =>
        /\ Level = 6 \/ Level = 8 => ActivePath \in shape
        /\ Level = 7 => WritePath \in shape

\* So the rows are what the next version's index admits.
RowsFit ==
    /\ Level < 6 => leaseRows = <<>>
    /\ Level # 7 => \A path \in Paths : Single(ActiveAt(path))
    /\ Level = 7 => \A path \in Paths : Single(LockedAt(path))

Ladder ==
    /\ OneUpgrades
    /\ Level \in 0 .. Latest /\ ledger = 1 .. Level /\ begun <= Level + 1
    /\ \A p \in Openers : ReadsLedger(opener[p]) /\ Upgrades(opener[p]) /\ IsOpened(opener[p])
    /\ AddedStays /\ HasGuard /\ RowsFit

Rows == [path : Paths, status : {"active", "released", "stale"}, locked : BOOLEAN]
Places == [phase : {"down", "tables", "upgrade", "open"}, release : 0 .. Latest,
           version : 0 .. Latest, next : Nat, making : SUBSET Tables]

SchemaTypeOK ==
    /\ ledger \subseteq 0 .. Latest
    /\ leaseRows \in Seq(Rows)
    /\ opener \in [Openers -> Places]
    /\ bare \in BOOLEAN /\ begun \in Nat /\ crossed \in BOOLEAN
    /\ \A p \in Openers : opener[p].phase = "upgrade" => opener[p].version >= 1

SchemaInv == SchemaTypeOK /\ (~crossed => Ladder)

-----------------------------------------------------------------------------
(* The upgrades' statements.                                               *)

LEMMA Lengths ==
    /\ Len(Ddl[1]) = 1 /\ Len(Ddl[2]) = 1 /\ Len(Ddl[3]) = 1 /\ Len(Ddl[4]) = 2
    /\ Len(Ddl[5]) = 3 /\ Len(Ddl[6]) = 4 /\ Len(Ddl[7]) = 2 /\ Len(Ddl[8]) = 2
    /\ \A v \in 1 .. 8 : Len(Ddl[v]) \in 1 .. 4 /\ DOMAIN Ddl[v] = 1 .. Len(Ddl[v])
BY DEF Ddl

LEMMA DropsStand ==
    \A v \in 1 .. 8 : \A k \in 1 .. Len(Ddl[v]) :
        /\ Ddl[v][k].op \in {"add", "drop"}
        /\ Ddl[v][k].op = "drop" => Ddl[v][k].what \in {ActivePath, WritePath} /\ v \in {7, 8}
        /\ Ddl[v][k].op = "drop" => \A j \in 1 .. k - 1 : Ddl[v][j].op = "drop"
        /\ Ddl[v][k].op = "add" /\ Ddl[v][k].what = ActivePath => v = 6
        /\ Ddl[v][k].op = "add" /\ Ddl[v][k].what = WritePath => v = 7
<1>. USE DEF Add, Drop, ActivePath, WritePath
<1>. DEFINE Fine(v) ==
        \A k \in 1 .. Len(Ddl[v]) :
            /\ Ddl[v][k].op \in {"add", "drop"}
            /\ Ddl[v][k].op = "drop" => Ddl[v][k].what \in {ActivePath, WritePath} /\ v \in {7, 8}
            /\ Ddl[v][k].op = "drop" => \A j \in 1 .. k - 1 : Ddl[v][j].op = "drop"
            /\ Ddl[v][k].op = "add" /\ Ddl[v][k].what = ActivePath => v = 6
            /\ Ddl[v][k].op = "add" /\ Ddl[v][k].what = WritePath => v = 7
<1>1. Fine(1) BY Lengths DEF Ddl
<1>2. Fine(2) BY Lengths DEF Ddl
<1>3. Fine(3) BY Lengths DEF Ddl
<1>4. Fine(4) BY Lengths DEF Ddl
<1>5. Fine(5) BY Lengths DEF Ddl
<1>6. Fine(6) BY Lengths DEF Ddl
<1>7. Fine(7) BY Lengths DEF Ddl
<1>8. Fine(8) BY Lengths DEF Ddl
<1>9. \A v \in 1 .. 8 : Fine(v)
  <2>. HIDE DEF Fine
  <2>. QED BY <1>1, <1>2, <1>3, <1>4, <1>5, <1>6, <1>7, <1>8
<1>. QED BY <1>9

LEMMA Guards ==
    /\ Ddl[6][4].op = "add" /\ Ddl[6][4].what = ActivePath
    /\ Ddl[7][2].op = "add" /\ Ddl[7][2].what = WritePath
BY DEF Ddl, Add, Drop, ActivePath, WritePath

LEMMA TablesStand == \A t \in Tables : t[1] \notin {ActivePath, WritePath}
BY DEF Tables, ActivePath, WritePath

-----------------------------------------------------------------------------
(* Types.                                                                  *)

LEMMA FiniteLedger ==
    ASSUME ledger \subseteq 0 .. Latest
    PROVE  IsFiniteSet(ledger) /\ Level \in Nat
<1>1. IsFiniteSet(0 .. Latest)
  <2>1. Latest \in Int /\ 0 \in Int
    BY DEF Latest
  <2>. QED BY <2>1, FS_Interval
<1>2. IsFiniteSet(ledger)
    BY <1>1, FS_Subset
<1>. QED BY <1>2, FS_CardinalityType DEF Level

LEMMA LevelOf == \A m \in Nat : Cardinality(1 .. m) = m
BY FS_Interval

LEMMA AtTyped ==
    ASSUME NEW n \in 0 .. Latest, NEW v \in Nat, v >= 1
    PROVE  /\ At(n, v) \in Places
           /\ At(n, v).phase \in {"open", "upgrade"} /\ At(n, v).release = n
           /\ At(n, v).phase = "open" <=> v > n
           /\ At(n, v).phase = "upgrade" => At(n, v).version = v /\ At(n, v).next = 1
BY DEF At, Places, Latest

LEMMA RowsTyped ==
    ASSUME SchemaTypeOK
    PROVE  \A i \in DOMAIN leaseRows : leaseRows[i] \in Rows
BY DEF SchemaTypeOK

LEMMA DeduplicatedTyped == SchemaTypeOK => Deduplicated \in Seq(Rows)
<1>. SUFFICES ASSUME SchemaTypeOK PROVE Deduplicated \in Seq(Rows)
    OBVIOUS
<1>. DEFINE stale(i) == [leaseRows[i] EXCEPT !.status = "stale", !.locked = FALSE]
            later(i) == leaseRows[i].status = "active" /\ \E j \in ActiveAt(leaseRows[i].path) : j > i
<1>1. \A i \in DOMAIN leaseRows : leaseRows[i] \in Rows /\ stale(i) \in Rows
    BY RowsTyped DEF Rows
<1>2. Deduplicated = [i \in DOMAIN leaseRows |-> IF later(i) THEN stale(i) ELSE leaseRows[i]]
    BY DEF Deduplicated
<1>3. DOMAIN leaseRows = 1 .. Len(leaseRows) /\ Len(leaseRows) \in Nat
    BY DEF SchemaTypeOK
<1>4. Deduplicated \in [1 .. Len(leaseRows) -> Rows]
  <2>. HIDE DEF stale, later
  <2>. QED BY <1>1, <1>2, <1>3
<1>. QED BY <1>3, <1>4, SeqDef

LEMMA NextTyped == ASSUME NEW at \in Places PROVE [at EXCEPT !.next = at.next + 1] \in Places
<1>. DEFINE to == [at EXCEPT !.next = at.next + 1]
<1>1. to = [phase |-> at.phase, release |-> at.release, version |-> at.version,
            next |-> at.next + 1, making |-> at.making]
    BY DEF Places
<1>2. at.phase \in {"down", "tables", "upgrade", "open"} /\ at.release \in 0 .. Latest
      /\ at.version \in 0 .. Latest /\ at.next + 1 \in Nat /\ at.making \in SUBSET Tables
    BY DEF Places
<1>. HIDE DEF to
<1>. QED BY <1>1, <1>2 DEF Places

LEMMA SchemaTypeInit == SchemaInit => SchemaTypeOK
<1>. SUFFICES ASSUME SchemaInit PROVE SchemaTypeOK
    OBVIOUS
<1>1. Down \in Places /\ Down.phase = "down"
    BY DEF Down, Places, Latest
<1>2. leaseRows \in Seq(Rows)
    BY EmptySeq DEF SchemaInit
<1>3. ledger \subseteq 0 .. Latest /\ bare \in BOOLEAN /\ begun \in Nat /\ crossed \in BOOLEAN
    BY DEF SchemaInit
<1>4. opener = [p \in Openers |-> Down]
    BY DEF SchemaInit
<1>. QED BY <1>1, <1>2, <1>3, <1>4 DEF SchemaTypeOK

LEMMA SchemaTypeNext == SchemaTypeOK /\ [SchemaNext]_schemaVars => SchemaTypeOK'
<1>. SUFFICES ASSUME SchemaTypeOK, [SchemaNext]_schemaVars PROVE SchemaTypeOK'
    OBVIOUS
<1>. USE DEF SchemaTypeOK
<1>1. CASE UNCHANGED schemaVars
    BY <1>1 DEF schemaVars
<1>2. ASSUME NEW p \in Openers, NEW n \in Releases, Open(p, n) PROVE SchemaTypeOK'
  <2>1. Opening(n) \in Places /\ Opening(n).phase = "tables"
    BY MigrationAssumption DEF Opening, Places, Latest
  <2>. QED BY <1>2, <2>1 DEF Open
<1>3. ASSUME NEW p \in Openers, NEW S \in SUBSET Tables, opener' = [opener EXCEPT ![p].making = S],
             UNCHANGED <<ledger, leaseRows, bare, begun, crossed>>
      PROVE  SchemaTypeOK'
    BY <1>3 DEF Places
<1>4. ASSUME NEW p \in Openers, ReadLedger(p) PROVE SchemaTypeOK'
  <2>. DEFINE n == opener[p].release  v == Level + 1
  <2>1. n \in 0 .. Latest /\ v \in Nat /\ v >= 1
    BY FiniteLedger DEF Places, Latest
  <2>2. opener' = [opener EXCEPT ![p] = At(n, v)] /\ UNCHANGED <<ledger, leaseRows, bare, begun, crossed>>
    BY <1>4 DEF ReadLedger, Level
  <2>. HIDE DEF n, v
  <2>3. At(n, v) \in Places /\ (At(n, v).phase = "upgrade" => At(n, v).version >= 1)
    BY <2>1, AtTyped
  <2>. QED BY <2>2, <2>3
<1>5. ASSUME NEW p \in Openers, Alter(p) PROVE SchemaTypeOK'
  <2>. DEFINE at == opener[p]
  <2>1. at \in Places /\ at.version \in Nat /\ at.next \in Nat
    BY DEF Places, Latest
  <2>2. /\ opener' = [opener EXCEPT ![p] = [at EXCEPT !.next = at.next + 1]]
        /\ begun' \in {begun, at.version} /\ UNCHANGED <<ledger, leaseRows, bare, crossed>>
    BY <1>5 DEF Alter
  <2>3. [at EXCEPT !.next = at.next + 1] \in Places
    BY <2>1, NextTyped
  <2>. QED BY <2>1, <2>2, <2>3 DEF Places
<1>6. ASSUME NEW p \in Openers, Stamp(p) PROVE SchemaTypeOK'
  <2>. DEFINE n == opener[p].release  v == opener[p].version
  <2>1. n \in 0 .. Latest /\ v \in 0 .. Latest /\ v + 1 \in Nat /\ v + 1 >= 1
    BY DEF Places, Latest
  <2>2. /\ ledger' = ledger \cup {v} /\ opener' = [opener EXCEPT ![p] = At(n, v + 1)]
        /\ leaseRows' \in {leaseRows, Deduplicated} /\ UNCHANGED <<bare, begun, crossed>>
    BY <1>6 DEF Stamp
  <2>. HIDE DEF n, v
  <2>3. At(n, v + 1) \in Places /\ (At(n, v + 1).phase = "upgrade" => At(n, v + 1).version >= 1)
    BY <2>1, AtTyped
  <2>. QED BY <2>1, <2>2, <2>3, DeduplicatedTyped
<1>7. ASSUME NEW p \in Openers, CloseFile(p) PROVE SchemaTypeOK'
    BY <1>7 DEF CloseFile, Places, Down, Latest
<1>8. ASSUME NEW p \in Openers, NEW path \in Paths, NEW locked \in BOOLEAN,
             AddLease(p, path, locked)
      PROVE  SchemaTypeOK'
  <2>1. [path |-> path, status |-> "active", locked |-> locked] \in Rows
    BY DEF Rows
  <2>. QED BY <1>8, <2>1 DEF AddLease
<1>9. ASSUME NEW p \in Openers, NEW i \in 1 .. MaxRows, ReleaseLease(p, i) PROVE SchemaTypeOK'
  <2>1. leaseRows[i] \in Rows /\ i \in DOMAIN leaseRows
    BY <1>9, RowsTyped DEF ReleaseLease
  <2>2. [leaseRows[i] EXCEPT !.status = "released", !.locked = FALSE] \in Rows
    BY <2>1 DEF Rows
  <2>3. leaseRows' = [leaseRows EXCEPT ![i] = [leaseRows[i] EXCEPT !.status = "released", !.locked = FALSE]]
    BY <1>9 DEF ReleaseLease
  <2>4. leaseRows' \in Seq(Rows)
    BY <2>1, <2>2, <2>3
  <2>. QED BY <1>9, <2>4 DEF ReleaseLease
<1>10. ASSUME NEW p \in Openers, NEW t \in Tables, CreateTable(p, t) PROVE SchemaTypeOK'
  <2>1. {t} \cap Indexed \in SUBSET Tables
    BY DEF Indexed
  <2>. QED BY <1>3, <1>10, <2>1 DEF CreateTable
<1>11. ASSUME NEW p \in Openers, CreateIndexes(p) PROVE SchemaTypeOK'
  <2>1. {} \in SUBSET Tables
    OBVIOUS
  <2>. QED BY <1>3, <1>11, <2>1 DEF CreateIndexes
<1>. QED BY <1>1, <1>2, <1>4, <1>5, <1>6, <1>7, <1>8, <1>9, <1>10, <1>11 DEF SchemaNext

-----------------------------------------------------------------------------
(* The ladder.                                                             *)

Typed ==
    /\ Level \in Nat /\ begun \in Nat
    /\ \A p \in Openers :
          /\ opener[p].phase \in {"down", "tables", "upgrade", "open"}
          /\ opener[p].release \in 0 .. 8 /\ opener[p].version \in 0 .. 8 /\ opener[p].next \in Nat
          /\ opener[p].phase = "upgrade" => opener[p].version >= 1

LEMMA AllTyped == SchemaTypeOK => Typed
BY FiniteLedger DEF SchemaTypeOK, Typed, Places, Latest

LEMMA AllTypedNext == SchemaTypeOK' => Typed'
<1>1. ASSUME NEW L, L \subseteq 0 .. Latest PROVE Cardinality(L) \in Nat
  <2>1. Latest \in Int /\ 0 \in Int
    BY DEF Latest
  <2>2. IsFiniteSet(0 .. Latest)
    BY <2>1, FS_Interval
  <2>. QED BY <2>2, <1>1, FS_Subset, FS_CardinalityType
<1>2. SchemaTypeOK' => Level' \in Nat
    BY <1>1 DEF SchemaTypeOK, Level
<1>. QED BY <1>2 DEF SchemaTypeOK, Typed, Places, Latest

LEMMA TablesKept ==
    ASSUME \A x \in shape : x \notin {ActivePath, WritePath} => x \in shape',
           NEW n, Missing(n) = {}
    PROVE  Missing(n)' = {}
BY TablesStand DEF Missing

\* A program that upgrades is alone.
LEMMA AloneUpgrading ==
    ASSUME Typed, Ladder, NEW p \in Openers, opener[p].phase = "upgrade"
    PROVE  \A q \in Openers \ {p} : opener[q].phase = "down"
<1>. SUFFICES ASSUME NEW q \in Openers \ {p}, opener[q].phase # "down" PROVE FALSE
    OBVIOUS
<1>1. opener[p].release = opener[q].release /\ q \notin Upgrading
    BY DEF Ladder, OneUpgrades, Upgrading
<1>2. opener[q].phase = "open"
    BY <1>1 DEF Typed, Upgrading
<1>3. opener[q].release <= Level
    BY <1>2 DEF Ladder, IsOpened
<1>4. opener[p].release >= Level + 1
    BY DEF Ladder, Upgrades, Typed
<1>. QED BY <1>1, <1>3, <1>4 DEF Typed

LEMMA LadderInit == SchemaInit => Ladder
<1>. SUFFICES ASSUME SchemaInit PROVE Ladder
    OBVIOUS
<1>1. \A p \in Openers : opener[p].phase = "down"
    BY DEF SchemaInit, Down
<1>2. Level = 0 /\ ledger = 1 .. Level /\ begun = 0
    BY FS_EmptySet DEF SchemaInit, Level
<1>3. OneUpgrades
    BY <1>1 DEF OneUpgrades
<1>4. \A p \in Openers : ReadsLedger(opener[p]) /\ Upgrades(opener[p]) /\ IsOpened(opener[p])
    BY <1>1 DEF ReadsLedger, Upgrades, IsOpened
<1>5. AddedStays /\ HasGuard
    BY <1>2 DEF AddedStays, HasGuard
<1>6. RowsFit
    BY <1>2 DEF RowsFit, SchemaInit, Single, ActiveAt, LockedAt
<1>. QED BY <1>2, <1>3, <1>4, <1>5, <1>6 DEF Ladder, Latest

LEMMA LadderOpen ==
    ASSUME Typed, Typed', opener \in [Openers -> Places], Ladder, NEW p \in Openers, NEW n \in Releases, Open(p, n), ~crossed'
    PROVE  Ladder'
<1>1. /\ opener' = [opener EXCEPT ![p] = Opening(n)] /\ Opening(n).phase = "tables"
      /\ Opening(n).release = n
      /\ ~(n < begun /\ begun \notin ledger)
      /\ \A q \in Openers \ {p} : opener[q] # Down => q \notin Upgrading /\ opener[q].release = n
      /\ UNCHANGED <<shape, ledger, leaseRows, begun>>
    BY DEF Open, Opening
<1>2. /\ opener'[p].phase = "tables" /\ opener'[p].release = n
      /\ \A q \in Openers \ {p} : opener'[q] = opener[q]
    BY <1>1
<1>3. \A q \in Openers \ {p} : opener[q].phase # "down" => opener[q] # Down
    BY DEF Down
<1>4. OneUpgrades'
  <2>. SUFFICES ASSUME NEW q \in Openers, NEW r \in Openers,
                       opener'[q].phase # "down", opener'[r].phase # "down"
                PROVE  /\ opener'[q].release = opener'[r].release
                       /\ q \in Upgrading' /\ r \in Upgrading' => q = r
    BY DEF OneUpgrades
  <2>1. CASE q = p \/ r = p
    BY <1>1, <1>2, <1>3, <2>1 DEF Upgrading
  <2>2. CASE q # p /\ r # p
    BY <1>2, <2>2 DEF Ladder, OneUpgrades, Upgrading
  <2>. QED BY <2>1, <2>2
<1>5. Level' = Level
    BY <1>1 DEF Level
<1>6. begun <= Level \/ begun <= n
  <2>1. ledger = 1 .. Level
    BY DEF Ladder
  <2>2. n \in Nat
    BY MigrationAssumption DEF Latest
  <2>. QED BY <1>1, <2>1, <2>2 DEF Typed
<1>7. ASSUME NEW q \in Openers
      PROVE  (ReadsLedger(opener[q]) /\ Upgrades(opener[q]) /\ IsOpened(opener[q]))'
  <2>1. CASE q = p
    BY <1>1, <1>2, <1>5, <1>6, <2>1 DEF ReadsLedger, Upgrades, IsOpened
  <2>2. CASE q # p
    BY <1>1, <1>2, <1>5, <2>2 DEF Ladder, ReadsLedger, Upgrades, IsOpened, Missing, Done
  <2>. QED BY <2>1, <2>2
<1>8. (AddedStays /\ HasGuard /\ RowsFit)'
    BY <1>1, <1>5 DEF Ladder, AddedStays, HasGuard, RowsFit, ActiveAt, LockedAt
<1>. QED BY <1>1, <1>4, <1>5, <1>7, <1>8 DEF Ladder

\* Making a table or its indexes.
LEMMA LadderCreate ==
    ASSUME Typed, Ladder, opener \in [Openers -> Places], NEW p \in Openers, NEW S,
           opener' = [opener EXCEPT ![p].making = S],
           shape \subseteq shape', UNCHANGED <<ledger, leaseRows, begun>>
    PROVE  Ladder'
<1>1. /\ shape \subseteq shape' /\ UNCHANGED <<ledger, leaseRows, begun>>
      /\ \A q \in Openers :
            /\ opener'[q].phase = opener[q].phase /\ opener'[q].release = opener[q].release
            /\ opener'[q].version = opener[q].version /\ opener'[q].next = opener[q].next
    BY DEF Places
<1>2. Level' = Level
    BY <1>1 DEF Level
<1>3. OneUpgrades'
    BY <1>1 DEF Ladder, OneUpgrades, Upgrading
<1>4. ASSUME NEW q \in Openers
      PROVE  (ReadsLedger(opener[q]) /\ Upgrades(opener[q]) /\ IsOpened(opener[q]))'
  <2>1. \A n : Missing(n) = {} => Missing(n)' = {}
    BY <1>1 DEF Missing
  <2>2. \A v, n : Done(v, n) => Done(v, n)'
    BY <1>1 DEF Done
  <2>. QED BY <1>1, <1>2, <2>1, <2>2 DEF Ladder, ReadsLedger, Upgrades, IsOpened
<1>5. (AddedStays /\ HasGuard /\ RowsFit)'
    BY <1>1, <1>2 DEF Ladder, AddedStays, HasGuard, RowsFit, ActiveAt, LockedAt
<1>. QED BY <1>1, <1>2, <1>3, <1>4, <1>5 DEF Ladder

LEMMA LadderReadLedger ==
    ASSUME Typed, opener \in [Openers -> Places], Ladder, NEW p \in Openers, ReadLedger(p)
    PROVE  Ladder'
<1>. DEFINE n == opener[p].release  v == Level + 1
<1>1. /\ opener[p].phase = "tables" /\ Missing(n) = {}
      /\ opener' = [opener EXCEPT ![p] = At(n, v)]
      /\ UNCHANGED <<shape, ledger, leaseRows, begun>>
    BY DEF ReadLedger, Level
<1>2. n \in 0 .. Latest /\ v \in Nat /\ v >= 1
    BY DEF Typed, Latest
<1>. HIDE DEF n, v
<1>3. /\ opener'[p].phase \in {"open", "upgrade"} /\ opener'[p].release = n
      /\ opener'[p].phase = "open" <=> v > n
      /\ opener'[p].phase = "upgrade" => opener'[p].version = v /\ opener'[p].next = 1
      /\ \A q \in Openers \ {p} : opener'[q] = opener[q]
    BY <1>1, <1>2, AtTyped
<1>4. Level' = Level
    BY <1>1 DEF Level
<1>5. OneUpgrades'
  <2>1. p \in Upgrading
    BY <1>1 DEF Upgrading
  <2>2. \A q \in Openers : /\ q \in Upgrading' => q \in Upgrading
                           /\ opener'[q].release = opener[q].release
                           /\ opener'[q].phase # "down" => opener[q].phase # "down"
    BY <1>1, <1>3 DEF Upgrading, n
  <2>. QED BY <2>2 DEF Ladder, OneUpgrades
<1>6. ASSUME NEW q \in Openers
      PROVE  (ReadsLedger(opener[q]) /\ Upgrades(opener[q]) /\ IsOpened(opener[q]))'
  <2>1. CASE q = p
    <3>1. begun <= Level \/ begun <= n
        BY <1>1 DEF Ladder, ReadsLedger, n
    <3>2. \A m : Missing(m) = {} => Missing(m)' = {}
        BY <1>1 DEF Missing
    <3>3. CASE v > n
        BY <1>1, <1>2, <1>3, <1>4, <2>1, <3>1, <3>2, <3>3 DEF Typed, ReadsLedger, Upgrades, IsOpened, v, Latest
    <3>4. CASE v <= n
      <4>1. opener'[p].phase = "upgrade"
        BY <1>2, <1>3, <3>4 DEF Latest
      <4>2. v \in 1 .. 8 /\ Len(Ddl[v]) \in Nat
        <5>1. v \in 1 .. 8
            BY <1>2, <3>4 DEF Latest
        <5>. HIDE DEF v
        <5>. QED BY <5>1, Lengths
      <4>3. \A w : Done(w, 1)'
        <5>1. 1 .. 1 - 1 = {}
            OBVIOUS
        <5>. QED BY <5>1, Zenon DEF Done
      <4>4. Missing(opener[p].release)' = {} /\ Done(opener[p].version, opener[p].next)'
        BY <1>1, <1>3, <3>2, <4>1, <4>3
      <4>5. v = Level' + 1
        BY <1>4 DEF v
      <4>6. Upgrades(opener[p])'
        BY <1>3, <3>4, <4>1, <4>2, <4>4, <4>5 DEF Upgrades
      <4>. QED BY <2>1, <4>1, <4>6 DEF ReadsLedger, IsOpened
    <3>. QED BY <1>2, <3>3, <3>4 DEF Latest
  <2>2. CASE q # p
    BY <1>1, <1>3, <1>4, <2>2 DEF Ladder, ReadsLedger, Upgrades, IsOpened, Missing, Done
  <2>. QED BY <2>1, <2>2
<1>7. (AddedStays /\ HasGuard /\ RowsFit)'
    BY <1>1, <1>4 DEF Ladder, AddedStays, HasGuard, RowsFit, ActiveAt, LockedAt
<1>. QED BY <1>1, <1>4, <1>5, <1>6, <1>7 DEF Ladder

LEMMA LadderAlter ==
    ASSUME Typed, opener \in [Openers -> Places], Ladder, NEW p \in Openers, Alter(p)
    PROVE  Ladder'
<1>. DEFINE at == opener[p]  v == at.version  k == at.next  do == Ddl[v][k]
<1>1. /\ at.phase = "upgrade" /\ k <= Len(Ddl[v])
      /\ shape' = IF do.op = "add" THEN shape \cup {do.what} ELSE shape \ {do.what}
      /\ opener' = [opener EXCEPT ![p] = [at EXCEPT !.next = k + 1]]
      /\ begun' = IF begun < v THEN v ELSE begun
      /\ UNCHANGED <<ledger, leaseRows>>
    BY DEF Alter
<1>2. /\ Missing(at.release) = {} /\ v = Level + 1 /\ v <= at.release
      /\ k \in 1 .. Len(Ddl[v]) + 1 /\ Done(v, k) /\ begun <= Level + 1
    BY <1>1 DEF Ladder, Upgrades
<1>3. v \in 1 .. 8 /\ Len(Ddl[v]) \in 1 .. 4 /\ k \in 1 .. Len(Ddl[v])
  <2>1. v \in 1 .. 8
    BY <1>2 DEF Typed
  <2>. HIDE DEF v, k
  <2>2. Len(Ddl[v]) \in 1 .. 4
    BY <2>1, Lengths
  <2>. QED BY <1>1, <1>2, <2>1, <2>2
<1>4. \A q \in Openers \ {p} : opener[q].phase = "down"
    BY <1>1, AloneUpgrading
<1>5. Level' = Level /\ begun' = v
    BY <1>1, <1>2 DEF Level, Typed
<1>6. do.op = "drop" => do.what \in {ActivePath, WritePath} /\ (\A j \in 1 .. k - 1 : Ddl[v][j].op = "drop")
    BY <1>3, DropsStand
<1>7. \A x \in shape : x \notin {ActivePath, WritePath} => x \in shape'
    BY <1>1, <1>3, <1>6, DropsStand
<1>8. /\ opener'[p].phase = "upgrade" /\ opener'[p].release = at.release
      /\ opener'[p].version = v /\ opener'[p].next = k + 1
      /\ \A q \in Openers \ {p} : opener'[q].phase = "down"
    BY <1>1, <1>4 DEF Places
<1>9. ASSUME NEW j \in 1 .. k, Ddl[v][j].op = "add" PROVE Ddl[v][j].what \in shape'
  <2>. HIDE DEF v, k
  <2>1. CASE j = k
    BY <1>1, <1>9, <2>1
  <2>2. CASE j # k
    <3>1. j \in 1 .. k - 1
        BY <1>3, <2>2
    <3>3. do.op = "add"
        BY <1>3, <1>6, <1>9, <3>1, DropsStand
    <3>2. Ddl[v][j].what \in shape
        BY <1>2, <1>9, <3>1 DEF Done
    <3>. QED BY <1>1, <3>2, <3>3
  <2>. QED BY <2>1, <2>2
<1>. HIDE DEF at, v, k, do
<1>10. OneUpgrades'
    BY <1>8 DEF OneUpgrades, Upgrading
<1>11. ASSUME NEW q \in Openers
       PROVE  (ReadsLedger(opener[q]) /\ Upgrades(opener[q]) /\ IsOpened(opener[q]))'
  <2>1. CASE q = p
    <3>1. \A m : Missing(m) = {} => Missing(m)' = {}
        BY <1>7, TablesKept
    <3>2. Missing(opener[p].release)' = {}
        BY <1>2, <1>8, <3>1
    <3>3. Done(opener[p].version, opener[p].next)'
        BY <1>3, <1>8, <1>9 DEF Done
    <3>. QED BY <1>2, <1>3, <1>5, <1>8, <2>1, <3>2, <3>3 DEF ReadsLedger, Upgrades, IsOpened
  <2>2. CASE q # p
    BY <1>8, <2>2 DEF ReadsLedger, Upgrades, IsOpened
  <2>. QED BY <2>1, <2>2
<1>12. AddedStays'
    BY <1>5, <1>7 DEF Ladder, AddedStays
<1>13. HasGuard'
    BY <1>2, <1>5 DEF HasGuard, Typed
<1>14. RowsFit'
    BY <1>1, <1>5 DEF Ladder, RowsFit, ActiveAt, LockedAt
<1>. QED BY <1>1, <1>2, <1>5, <1>10, <1>11, <1>12, <1>13, <1>14 DEF Ladder

LEMMA DeduplicatedRows ==
    ASSUME SchemaTypeOK
    PROVE  /\ DOMAIN Deduplicated = DOMAIN leaseRows /\ DOMAIN leaseRows \subseteq Nat
           /\ \A i \in DOMAIN leaseRows :
                 /\ Deduplicated[i].path = leaseRows[i].path
                 /\ Deduplicated[i].status = "active" =>
                       i \in ActiveAt(leaseRows[i].path)
                       /\ \A j \in ActiveAt(leaseRows[i].path) : j <= i
<1>1. DOMAIN Deduplicated = DOMAIN leaseRows /\ DOMAIN leaseRows \subseteq Nat
    BY DEF Deduplicated, SchemaTypeOK
<1>2. ASSUME NEW i \in DOMAIN leaseRows
      PROVE  /\ Deduplicated[i].path = leaseRows[i].path
             /\ Deduplicated[i].status = "active" =>
                   leaseRows[i].status = "active"
                   /\ ~ \E j \in ActiveAt(leaseRows[i].path) : j > i
  <2>1. leaseRows[i] \in Rows
    BY RowsTyped
  <2>. QED BY <2>1 DEF Deduplicated, Rows
<1>3. \A path : ActiveAt(path) \subseteq Nat
    BY <1>1 DEF ActiveAt
<1>4. \A i \in DOMAIN leaseRows : leaseRows[i].status = "active" => i \in ActiveAt(leaseRows[i].path)
    BY DEF ActiveAt
<1>5. ASSUME NEW i \in DOMAIN leaseRows, NEW j \in ActiveAt(leaseRows[i].path), ~(j > i) PROVE j <= i
    BY <1>1, <1>3, <1>5
<1>. QED BY <1>1, <1>2, <1>4, <1>5

LEMMA LadderStamp ==
    ASSUME Typed, SchemaTypeOK, Ladder, NEW p \in Openers, Stamp(p)
    PROVE  Ladder'
<1>. DEFINE n == opener[p].release  v == opener[p].version  k == opener[p].next
<1>1. /\ opener[p].phase = "upgrade" /\ k > Len(Ddl[v])
      /\ ledger' = ledger \cup {v}
      /\ leaseRows' = IF v = 8 THEN Deduplicated ELSE leaseRows
      /\ shape' = IF v = 8 THEN shape \cup {ActivePath} ELSE shape
      /\ opener' = [opener EXCEPT ![p] = At(n, v + 1)]
      /\ begun' = begun
    BY DEF Stamp, AtStamp
<1>2. /\ Missing(n) = {} /\ v = Level + 1 /\ v <= n /\ begun <= v
      /\ k \in 1 .. Len(Ddl[v]) + 1 /\ Done(v, k) /\ ledger = 1 .. Level
    BY <1>1 DEF Ladder, Upgrades
<1>3. v \in 1 .. 8 /\ Level \in 0 .. 7 /\ n \in 0 .. Latest /\ n \in 0 .. 8
    BY <1>2 DEF Typed, Latest
<1>4. \A q \in Openers \ {p} : opener[q].phase = "down"
    BY <1>1, AloneUpgrading
<1>5. opener \in [Openers -> Places]
    BY DEF SchemaTypeOK
<1>. HIDE DEF n, v, k
<1>6. Len(Ddl[v]) \in 1 .. 4 /\ DOMAIN Ddl[v] = 1 .. Len(Ddl[v])
    BY <1>3, Lengths
<1>7. \A j \in 1 .. Len(Ddl[v]) : Ddl[v][j].op = "add" => Ddl[v][j].what \in shape
    BY <1>1, <1>2, <1>6 DEF Done
<1>8. ledger' = 1 .. v
    BY <1>1, <1>2, <1>3
<1>9. Level' = v
    BY <1>3, <1>8, LevelOf DEF Level
<1>10. shape \subseteq shape'
    BY <1>1
<1>11. /\ opener'[p].phase \in {"open", "upgrade"} /\ opener'[p].release = n
       /\ opener'[p].phase = "open" <=> v + 1 > n
       /\ opener'[p].phase = "upgrade" => opener'[p].version = v + 1 /\ opener'[p].next = 1
       /\ \A q \in Openers \ {p} : opener'[q].phase = "down"
  <2>1. v + 1 \in Nat /\ v + 1 >= 1
    BY <1>3
  <2>. QED BY <1>1, <1>3, <1>4, <1>5, <2>1, AtTyped
<1>12. OneUpgrades'
    BY <1>11 DEF OneUpgrades, Upgrading
<1>13. ASSUME NEW q \in Openers
       PROVE  (ReadsLedger(opener[q]) /\ Upgrades(opener[q]) /\ IsOpened(opener[q]))'
  <2>1. CASE q = p
    <3>1. \A m : Missing(m) = {} => Missing(m)' = {}
        BY <1>10 DEF Missing
    <3>2. Missing(opener[p].release)' = {}
        BY <1>2, <1>11, <3>1
    <3>3. CASE v + 1 > n
      <4>1. n <= Level' /\ begun' <= Level'
        BY <1>1, <1>2, <1>3, <1>9, <3>3
      <4>. QED BY <1>11, <2>1, <3>2, <3>3, <4>1 DEF ReadsLedger, Upgrades, IsOpened
    <3>4. CASE v + 1 <= n
      <4>1. opener'[p].phase = "upgrade"
        BY <1>3, <1>11, <3>4
      <4>2. v + 1 \in 1 .. 8
        BY <1>3, <3>4
      <4>3. Len(Ddl[v + 1]) \in 1 .. 4
        BY <4>2, Lengths
      <4>4. Done(opener[p].version, opener[p].next)'
        BY <1>11, <4>1 DEF Done
      <4>. QED BY <1>9, <1>11, <2>1, <3>2, <3>4, <4>1, <4>3, <4>4 DEF ReadsLedger, Upgrades, IsOpened
    <3>. QED BY <1>3, <3>3, <3>4
  <2>2. CASE q # p
    BY <1>11, <2>2 DEF ReadsLedger, Upgrades, IsOpened
  <2>. QED BY <2>1, <2>2
<1>14. AddedStays'
  <2>. SUFFICES ASSUME NEW w \in 1 .. v, NEW j \in DOMAIN Ddl[w], Ddl[w][j].op = "add",
                       Ddl[w][j].what \notin {ActivePath, WritePath}
                PROVE  Ddl[w][j].what \in shape
    BY <1>9, <1>10 DEF AddedStays
  <2>1. CASE w = v
    BY <1>6, <1>7, <2>1
  <2>2. CASE w # v
    <3>1. w \in 1 .. Level
        BY <1>2, <1>3, <2>2
    <3>. QED BY <3>1 DEF Ladder, AddedStays
  <2>. QED BY <2>1, <2>2
<1>15. HasGuard'
  <2>1. v = 6 => ActivePath \in shape'
    BY <1>7, <1>10, Lengths, Guards
  <2>2. v = 7 => WritePath \in shape'
    BY <1>7, <1>10, Lengths, Guards
  <2>3. v = 8 => ActivePath \in shape'
    BY <1>1
  <2>. QED BY <1>9, <2>1, <2>2, <2>3 DEF HasGuard
<1>16. RowsFit'
  <2>1. CASE v = 8
    <3>1. ASSUME NEW path \in Paths PROVE Single(ActiveAt(path)')
      <4>1. leaseRows' = Deduplicated
        BY <1>1, <2>1
      <4>2. DOMAIN leaseRows' = DOMAIN leaseRows /\ DOMAIN leaseRows \subseteq Nat
        BY <4>1, DeduplicatedRows
      <4>3. ASSUME NEW i \in ActiveAt(path)', NEW j \in ActiveAt(path)' PROVE i <= j
        <5>1. /\ i \in DOMAIN leaseRows /\ leaseRows'[i].path = path /\ leaseRows'[i].status = "active"
              /\ j \in DOMAIN leaseRows /\ leaseRows'[j].path = path /\ leaseRows'[j].status = "active"
            BY <4>2 DEF ActiveAt
        <5>2. leaseRows[i].path = path /\ leaseRows[j].path = path
            BY <4>1, <5>1, DeduplicatedRows
        <5>3. i \in ActiveAt(leaseRows[i].path)
            BY <4>1, <5>1, DeduplicatedRows
        <5>4. \A m \in ActiveAt(leaseRows[j].path) : m <= j
            BY <4>1, <5>1, DeduplicatedRows
        <5>. QED BY <5>2, <5>3, <5>4
      <4>4. ActiveAt(path)' \subseteq Nat
        BY <4>2 DEF ActiveAt
      <4>. QED BY <4>3, <4>4 DEF Single
    <3>. QED BY <1>9, <2>1, <3>1 DEF RowsFit, Single
  <2>2. CASE v # 8
    <3>1. leaseRows' = leaseRows /\ Level # 7 /\ Level' = Level + 1
        BY <1>1, <1>2, <1>3, <1>9, <2>2
    <3>2. \A path \in Paths : Single(ActiveAt(path))
        BY <3>1 DEF Ladder, RowsFit
    <3>3. \A path \in Paths : Single(LockedAt(path))
        BY <3>2 DEF LockedAt, Single
    <3>4. \A path \in Paths : ActiveAt(path)' = ActiveAt(path) /\ LockedAt(path)' = LockedAt(path)
        BY <3>1 DEF ActiveAt, LockedAt
    <3>5. Level' < 6 => leaseRows' = <<>>
        BY <1>3, <3>1 DEF Ladder, RowsFit
    <3>. QED BY <3>2, <3>3, <3>4, <3>5 DEF RowsFit, Single
  <2>. QED BY <2>1, <2>2
<1>17. Level' \in 0 .. Latest /\ ledger' = 1 .. Level' /\ begun' <= Level' + 1
    BY <1>1, <1>2, <1>3, <1>8, <1>9 DEF Latest, Typed
<1>. QED BY <1>12, <1>13, <1>14, <1>15, <1>16, <1>17 DEF Ladder

LEMMA LadderCloseFile ==
    ASSUME opener \in [Openers -> Places], Ladder, NEW p \in Openers, CloseFile(p)
    PROVE  Ladder'
<1>1. /\ opener' = [opener EXCEPT ![p] = Down] /\ Down.phase = "down"
      /\ UNCHANGED <<shape, ledger, leaseRows, begun>>
    BY DEF CloseFile, Down
<1>2. opener'[p].phase = "down" /\ \A q \in Openers \ {p} : opener'[q] = opener[q]
    BY <1>1
<1>3. Level' = Level
    BY <1>1 DEF Level
<1>4. OneUpgrades'
    BY <1>2 DEF Ladder, OneUpgrades, Upgrading
<1>5. ASSUME NEW q \in Openers
      PROVE  (ReadsLedger(opener[q]) /\ Upgrades(opener[q]) /\ IsOpened(opener[q]))'
  <2>1. CASE q = p
    BY <1>2, <2>1 DEF ReadsLedger, Upgrades, IsOpened
  <2>2. CASE q # p
    BY <1>1, <1>2, <1>3, <2>2 DEF Ladder, ReadsLedger, Upgrades, IsOpened, Missing, Done
  <2>. QED BY <2>1, <2>2
<1>6. (AddedStays /\ HasGuard /\ RowsFit)'
    BY <1>1, <1>3 DEF Ladder, AddedStays, HasGuard, RowsFit, ActiveAt, LockedAt
<1>. QED BY <1>1, <1>3, <1>4, <1>5, <1>6 DEF Ladder

\* A step of the leases keeps the ladder if the rows still fit.
LEMMA LadderLeases ==
    ASSUME Ladder, UNCHANGED <<shape, ledger, opener, begun>>, RowsFit'
    PROVE  Ladder'
<1>1. Level' = Level
    BY DEF Level
<1>2. OneUpgrades'
    BY DEF Ladder, OneUpgrades, Upgrading
<1>3. ASSUME NEW q \in Openers
      PROVE  (ReadsLedger(opener[q]) /\ Upgrades(opener[q]) /\ IsOpened(opener[q]))'
    BY <1>1 DEF Ladder, ReadsLedger, Upgrades, IsOpened, Missing, Done
<1>4. (AddedStays /\ HasGuard)'
    BY <1>1 DEF Ladder, AddedStays, HasGuard
<1>. QED BY <1>1, <1>2, <1>3, <1>4 DEF Ladder

LEMMA LadderAddLease ==
    ASSUME Typed, SchemaTypeOK, Ladder,
           NEW p \in Openers, NEW path \in Paths, NEW locked \in BOOLEAN, AddLease(p, path, locked)
    PROVE  Ladder'
<1>. DEFINE lease == [path |-> path, status |-> "active", locked |-> locked]
<1>1. /\ opener[p].phase = "open" /\ opener[p].release >= 6
      /\ ActivePath \in shape => ActiveAt(path) = {}
      /\ WritePath \in shape /\ locked => LockedAt(path) = {}
      /\ leaseRows' = Append(leaseRows, lease)
      /\ UNCHANGED <<shape, ledger, opener, begun>>
    BY DEF AddLease
<1>2. Level \in 6 .. 8 /\ begun <= Level /\ Level' = Level
    BY <1>1 DEF Ladder, IsOpened, Typed, Latest, Level
<1>3. /\ Level # 7 => ActivePath \in shape
      /\ Level = 7 => WritePath \in shape
    BY <1>2 DEF Ladder, HasGuard
<1>4. /\ DOMAIN leaseRows' = DOMAIN leaseRows \cup {Len(leaseRows) + 1}
      /\ \A i \in DOMAIN leaseRows : leaseRows'[i] = leaseRows[i] /\ i # Len(leaseRows) + 1
      /\ leaseRows'[Len(leaseRows) + 1] = lease
    BY <1>1 DEF SchemaTypeOK
<1>5. /\ lease.path = path /\ lease.locked = locked
    OBVIOUS
<1>. HIDE DEF lease
<1>6. \A other \in Paths \ {path} :
         ActiveAt(other)' \subseteq ActiveAt(other) /\ LockedAt(other)' \subseteq LockedAt(other)
    BY <1>4, <1>5 DEF ActiveAt, LockedAt
<1>7. /\ ActiveAt(path)' \subseteq ActiveAt(path) \cup {Len(leaseRows) + 1}
      /\ locked => LockedAt(path)' \subseteq LockedAt(path) \cup {Len(leaseRows) + 1}
      /\ ~locked => LockedAt(path)' \subseteq LockedAt(path)
    BY <1>4, <1>5 DEF ActiveAt, LockedAt
<1>8. CASE Level = 7
  <2>1. \A o \in Paths : Single(LockedAt(o))
    BY <1>8 DEF Ladder, RowsFit
  <2>2. \A o \in Paths : Single(LockedAt(o)')
    BY <1>1, <1>3, <1>6, <1>7, <1>8, <2>1 DEF Single
  <2>3. RowsFit'
    BY <1>2, <1>8, <2>2 DEF RowsFit, Single
  <2>. QED BY <1>1, <2>3, LadderLeases
<1>9. CASE Level # 7
  <2>1. \A o \in Paths : Single(ActiveAt(o))
    BY <1>9 DEF Ladder, RowsFit
  <2>2. \A o \in Paths : Single(ActiveAt(o)')
    BY <1>1, <1>3, <1>6, <1>7, <1>9, <2>1 DEF Single
  <2>3. RowsFit'
    BY <1>2, <1>9, <2>2 DEF RowsFit, Single
  <2>. QED BY <1>1, <2>3, LadderLeases
<1>. QED BY <1>8, <1>9

LEMMA LadderReleaseLease ==
    ASSUME Typed, SchemaTypeOK, Ladder, NEW p \in Openers, NEW i, ReleaseLease(p, i)
    PROVE  Ladder'
<1>. DEFINE row == [leaseRows[i] EXCEPT !.status = "released", !.locked = FALSE]
<1>1. /\ opener[p].phase = "open" /\ opener[p].release >= 6 /\ i \in DOMAIN leaseRows
      /\ leaseRows' = [leaseRows EXCEPT ![i] = row]
      /\ UNCHANGED <<shape, ledger, opener, begun>>
    BY DEF ReleaseLease
<1>2. Level \in 6 .. 8 /\ Level' = Level
    BY <1>1 DEF Ladder, IsOpened, Typed, Latest, Level
<1>3. row.status = "released"
  <2>1. leaseRows[i] \in Rows
    BY <1>1, RowsTyped
  <2>. QED BY <2>1 DEF Rows
<1>4. /\ DOMAIN leaseRows' = DOMAIN leaseRows /\ leaseRows'[i] = row
      /\ \A j \in DOMAIN leaseRows \ {i} : leaseRows'[j] = leaseRows[j]
    BY <1>1
<1>. HIDE DEF row
<1>5. \A path : ActiveAt(path)' \subseteq ActiveAt(path) /\ LockedAt(path)' \subseteq LockedAt(path)
    BY <1>3, <1>4 DEF ActiveAt, LockedAt
<1>6. RowsFit'
    BY <1>2, <1>5 DEF Ladder, RowsFit, Single
<1>. QED BY <1>1, <1>6, LadderLeases

LEMMA SchemaInvNext == SchemaInv /\ [SchemaNext]_schemaVars => SchemaInv'
<1>. SUFFICES ASSUME SchemaInv, [SchemaNext]_schemaVars PROVE SchemaInv'
    OBVIOUS
<1>1. SchemaTypeOK /\ SchemaTypeOK' /\ Typed /\ Typed' /\ opener \in [Openers -> Places]
    BY SchemaTypeNext, AllTyped, AllTypedNext DEF SchemaInv, SchemaTypeOK
<1>. SUFFICES ASSUME ~crossed' PROVE Ladder'
    BY <1>1 DEF SchemaInv
<1>2. ~crossed
  <2>1. crossed => crossed'
    BY DEF SchemaNext, schemaVars, Open, CreateTable, CreateIndexes, ReadLedger, Alter, Stamp, CloseFile, AddLease, ReleaseLease
  <2>. QED BY <2>1
<1>3. Ladder
    BY <1>2 DEF SchemaInv
<1>4. CASE UNCHANGED schemaVars
  <2>1. UNCHANGED <<shape, ledger, opener, begun, leaseRows>>
    BY <1>4 DEF schemaVars
  <2>2. Level' = Level
    BY <2>1 DEF Level
  <2>3. RowsFit'
    BY <1>3, <2>1, <2>2 DEF Ladder, RowsFit, Single, ActiveAt, LockedAt
  <2>. QED BY <1>3, <2>1, <2>3, LadderLeases
<1>5. ASSUME NEW p \in Openers, NEW n \in Releases, Open(p, n) PROVE Ladder'
    BY <1>1, <1>3, <1>5, LadderOpen
<1>6. ASSUME NEW p \in Openers, NEW t \in Tables, CreateTable(p, t) PROVE Ladder'
    BY <1>1, <1>3, <1>6, LadderCreate DEF CreateTable
<1>13. ASSUME NEW p \in Openers, CreateIndexes(p) PROVE Ladder'
    BY <1>1, <1>3, <1>13, LadderCreate DEF CreateIndexes
<1>7. ASSUME NEW p \in Openers, ReadLedger(p) PROVE Ladder'
    BY <1>1, <1>3, <1>7, LadderReadLedger
<1>8. ASSUME NEW p \in Openers, Alter(p) PROVE Ladder'
    BY <1>1, <1>3, <1>8, LadderAlter
<1>9. ASSUME NEW p \in Openers, Stamp(p) PROVE Ladder'
    BY <1>1, <1>3, <1>9, LadderStamp
<1>10. ASSUME NEW p \in Openers, CloseFile(p) PROVE Ladder'
    BY <1>1, <1>3, <1>10, LadderCloseFile
<1>11. ASSUME NEW p \in Openers, NEW path \in Paths, NEW locked \in BOOLEAN,
              AddLease(p, path, locked)
       PROVE  Ladder'
    BY <1>1, <1>3, <1>11, LadderAddLease
<1>12. ASSUME NEW p \in Openers, NEW i \in 1 .. MaxRows, ReleaseLease(p, i) PROVE Ladder'
    BY <1>1, <1>3, <1>12, LadderReleaseLease
<1>. QED BY <1>4, <1>5, <1>6, <1>7, <1>8, <1>9, <1>10, <1>11, <1>12, <1>13 DEF SchemaNext

-----------------------------------------------------------------------------
(* What the ladder says of a program.                                      *)

LEMMA AtMostOne == \A S : Single(S) => Cardinality(S) <= 1
<1>. SUFFICES ASSUME NEW S, Single(S) PROVE Cardinality(S) <= 1
    OBVIOUS
<1>1. CASE S = {}
    BY <1>1, FS_EmptySet
<1>2. CASE S # {}
  <2>1. PICK x : x \in S
    BY <1>2
  <2>2. S = {x}
    BY <2>1 DEF Single
  <2>. QED BY <2>2, FS_Singleton
<1>. QED BY <1>1, <1>2

LEMMA NoneRefused ==
    ASSUME Typed, Ladder, NEW p \in Openers
    PROVE  ~Refused(p)
<1>. DEFINE v == opener[p].version  k == opener[p].next
<1>. SUFFICES ASSUME opener[p].phase = "upgrade" PROVE ~Refused(p)
    BY DEF Refused, AtStamp
<1>1. /\ v = Level + 1 /\ v \in 1 .. 8 /\ ledger = 1 .. Level
      /\ k \in 1 .. Len(Ddl[v]) + 1
    BY DEF Ladder, Upgrades, Typed
<1>2. v \notin ledger
    BY <1>1 DEF Typed
<1>3. ASSUME k <= Len(Ddl[v]), Ddl[v][k].op = "add" PROVE Admitted(Ddl[v][k].what)
  <2>. HIDE DEF v, k
  <2>1. k \in 1 .. Len(Ddl[v])
    BY <1>1, <1>3, Lengths
  <2>2. Ddl[v][k].what = ActivePath => v = 6
    BY <1>1, <1>3, <2>1, DropsStand
  <2>3. Ddl[v][k].what = WritePath => v = 7
    BY <1>1, <1>3, <2>1, DropsStand
  <2>4. v \in {6, 7} => \A path \in Paths : Single(ActiveAt(path))
    BY <1>1 DEF Ladder, RowsFit, Typed
  <2>5. v \in {6, 7} => \A path \in Paths : Single(ActiveAt(path)) /\ Single(LockedAt(path))
    BY <2>4 DEF LockedAt, Single
  <2>. QED BY <2>2, <2>3, <2>5, AtMostOne DEF Admitted
<1>4. Len(Ddl[v]) \in Nat /\ k \in Nat
  <2>. HIDE DEF v
  <2>. QED BY <1>1, Lengths DEF Typed
<1>. QED BY <1>2, <1>3, <1>4 DEF Refused, AtStamp

LEMMA WholeWhenOpen ==
    ASSUME Typed, Ladder, NEW p \in Openers, opener[p].phase = "open", opener[p].release = Latest
    PROVE  /\ ActivePath \in shape
           /\ \A path \in Paths : Cardinality(ActiveAt(path)) <= 1
<1>1. Level = 8 /\ begun <= Level
  <2>1. Level \in 0 .. 8 /\ ledger = 1 .. Level
    BY DEF Ladder, Latest
  <2>2. 8 <= Level /\ begun <= Level
    BY DEF Ladder, IsOpened, Latest
  <2>3. Level = 8
    BY <2>1, <2>2
  <2>. QED BY <2>1, <2>2, <2>3
<1>2. ActivePath \in shape
    BY <1>1 DEF Ladder, HasGuard
<1>3. \A path \in Paths : Single(ActiveAt(path))
    BY <1>1 DEF Ladder, RowsFit
<1>. QED BY <1>1, <1>2, <1>3, AtMostOne

\* Every release finds what it needs, as the versions it knows are applied.
LEMMA NeedsMet ==
    ASSUME Typed, Ladder, NEW p \in Openers, opener[p].phase = "open"
    PROVE  Needs(opener[p].release) \subseteq shape /\ 1 .. opener[p].release \subseteq ledger
<1>. DEFINE n == opener[p].release
<1>1. /\ Level \in 0 .. 8 /\ ledger = 1 .. Level
      /\ n \in 0 .. 8 /\ n <= Level /\ Missing(n) = {}
    BY DEF Ladder, IsOpened, Typed, Latest
<1>. HIDE DEF n
<1>2. 1 .. n \subseteq ledger
    BY <1>1
<1>3. \A v \in 1 .. n : \A k \in 1 .. Len(Ddl[v]) :
         Ddl[v][k].op = "add" /\ Ddl[v][k].what \notin {ActivePath, WritePath} => Ddl[v][k].what \in shape
  <2>1. AddedStays
    BY DEF Ladder
  <2>2. \A v \in 1 .. n : v \in 1 .. Level /\ v \in 1 .. 8
    BY <1>1
  <2>. QED BY <2>1, <2>2, Lengths DEF AddedStays
<1>4. ASSUME NEW c \in Columns, c[1] <= n PROVE c[3] \in shape
  <2>1. \E v \in 1 .. n : \E k \in 1 .. Len(Ddl[v]) :
           Ddl[v][k].op = "add" /\ Ddl[v][k].what = c[3] /\ c[3] \notin {ActivePath, WritePath}
    <3>1. CASE c[1] = 1
      <4>1. 1 \in 1 .. n /\ 1 \in 1 .. Len(Ddl[1]) /\ Ddl[1][1].op = "add" /\ Ddl[1][1].what = c[3]
            /\ c[3] \notin {ActivePath, WritePath}
        BY <1>1, <1>4, <3>1, Lengths DEF Columns, Ddl, Add, ActivePath, WritePath
      <4>. QED BY <4>1
    <3>2. CASE c[1] = 2
      <4>1. 2 \in 1 .. n /\ 1 \in 1 .. Len(Ddl[2]) /\ Ddl[2][1].op = "add" /\ Ddl[2][1].what = c[3]
            /\ c[3] \notin {ActivePath, WritePath}
        BY <1>1, <1>4, <3>2, Lengths DEF Columns, Ddl, Add, ActivePath, WritePath
      <4>. QED BY <4>1
    <3>3. CASE c[1] = 3
      <4>1. 3 \in 1 .. n /\ 1 \in 1 .. Len(Ddl[3]) /\ Ddl[3][1].op = "add" /\ Ddl[3][1].what = c[3]
            /\ c[3] \notin {ActivePath, WritePath}
        BY <1>1, <1>4, <3>3, Lengths DEF Columns, Ddl, Add, ActivePath, WritePath
      <4>. QED BY <4>1
    <3>4. CASE c[1] = 4
      <4>1. 4 \in 1 .. n /\ 1 \in 1 .. Len(Ddl[4]) /\ 2 \in 1 .. Len(Ddl[4])
        BY <1>1, <1>4, <3>4, Lengths
      <4>2. Ddl[4][1].op = "add" /\ Ddl[4][2].op = "add" /\ c[3] \notin {ActivePath, WritePath}
            /\ (Ddl[4][1].what = c[3] \/ Ddl[4][2].what = c[3])
        BY <1>4, <3>4 DEF Columns, Ddl, Add, ActivePath, WritePath
      <4>. QED BY <4>1, <4>2
    <3>. QED BY <3>1, <3>2, <3>3, <3>4 DEF Columns
  <2>. QED BY <1>3, <2>1
<1>5. ASSUME n >= 5, NEW k \in 1 .. 3 PROVE Ddl[5][k].what \in shape
  <2>1. Ddl[5][k].op = "add" /\ Ddl[5][k].what \notin {ActivePath, WritePath}
    BY DEF Ddl, Add, ActivePath, WritePath
  <2>. QED BY <1>1, <1>3, <1>5, <2>1, Lengths
<1>6. ASSUME n >= 6, NEW k \in 2 .. 3 PROVE Ddl[6][k].what \in shape
  <2>1. Ddl[6][k].op = "add" /\ Ddl[6][k].what \notin {ActivePath, WritePath}
    BY DEF Ddl, Add, ActivePath, WritePath
  <2>. QED BY <1>1, <1>3, <1>6, <2>1, Lengths
<1>7. \A t \in Tables : t[2] <= n => t[1] \in shape
    BY <1>1 DEF Missing
<1>8. Needs(n) \subseteq shape
    BY <1>4, <1>5, <1>6, <1>7 DEF Needs
<1>. QED BY <1>2, <1>8 DEF n

LEMMA LadderIsWhole == SchemaInv => UpgradeIsWhole
<1>. SUFFICES ASSUME SchemaInv, ~crossed, NEW p \in Openers
              PROVE  /\ ~Refused(p)
                     /\ opener[p].phase = "open" =>
                           /\ Needs(opener[p].release) \subseteq shape
                           /\ 1 .. opener[p].release \subseteq ledger
                     /\ opener[p].phase = "open" /\ opener[p].release >= 6 =>
                           shape \cap {ActivePath, WritePath} # {}
                     /\ opener[p].phase = "open" /\ opener[p].release = Latest =>
                           /\ ActivePath \in shape
                           /\ \A path \in Paths : Cardinality(ActiveAt(path)) <= 1
    BY DEF UpgradeIsWhole
<1>1. Typed /\ Ladder
    BY AllTyped DEF SchemaInv
<1>2. opener[p].phase = "open" /\ opener[p].release >= 6 =>
         Level \in 6 .. 8 /\ begun <= Level
    BY <1>1 DEF Ladder, IsOpened, Typed, Latest
<1>3. opener[p].phase = "open" /\ opener[p].release >= 6 =>
         shape \cap {ActivePath, WritePath} # {}
    BY <1>1, <1>2 DEF Ladder, HasGuard
<1>. QED BY <1>1, <1>3, NoneRefused, NeedsMet, WholeWhenOpen

LEMMA SchemaInvariant == SchemaSpec => []SchemaInv
<1>1. SchemaInit => SchemaInv
    BY SchemaTypeInit, LadderInit DEF SchemaInv
<1>. QED BY <1>1, SchemaInvNext, PTL DEF SchemaSpec

\* The file's ledger, its lease rows and where each program is keep their types.
THEOREM SchemaTypeCorrect == SchemaSpec => []SchemaTypeOK
BY SchemaInvariant, PTL DEF SchemaInv

\* However many programs of whatever release open the file, crash in an upgrade
\* and open it again: an upgrade is not refused, and a program finds the tables
\* and columns of its release, the upgrades' indexes and a guard of its leases.
\* That is until one is opened beside an upgrade, beside one of another release,
\* or after a later release's upgrade that was cut short (UpgradeIsWhole).
THEOREM UpgradesAreWhole == SchemaSpec => []UpgradeIsWhole
BY SchemaInvariant, LadderIsWhole, PTL

-----------------------------------------------------------------------------
(* Accounts.                                                               *)

AccountRecords == [status : {"none", "invited", "active", "disabled"},
            role : {"admin", "member"}, password : BOOLEAN]
Codes == [user : Users, until : Nat, used : BOOLEAN]
Failures == [count : Nat, until : Int, seen : Int]

-----------------------------------------------------------------------------
(* Types.                                                                  *)

LEMMA Amounts ==
    /\ MaxClock \in Nat /\ InviteTtl \in Nat /\ TokenTtl \in Nat
    /\ MaxFailures \in Nat \ {0} /\ Lockout \in Nat \ {0} /\ MaxTracked \in Nat \ {0}
BY AccountsAssumption

AccountsTyped ==
    /\ accounts \in [Users -> AccountRecords]
    /\ invites \in Seq(Codes)
    /\ sessions \subseteq [user : Users, until : Nat]
    /\ failures \in [Users -> Failures]
    /\ guesses \in [Users -> Seq(Nat)]
    /\ clock \in Nat

LEMMA TypedAlike == (AccountsTypeOK <=> AccountsTyped) /\ (AccountsTypeOK' <=> AccountsTyped')
BY DEF AccountsTyped, AccountsTypeOK, AccountRecords, Codes, Failures

LEMMA UsedTyped == ASSUME NEW k \in Codes PROVE [k EXCEPT !.used = TRUE] \in Codes
BY DEF Codes

LEMMA CodesOfUsers ==
    ASSUME AccountsTyped, NEW i \in DOMAIN invites
    PROVE  invites[i] \in Codes /\ invites[i].user \in Users
<1>1. invites[i] \in Codes
  BY DEF AccountsTyped
<1> QED BY <1>1 DEF Codes

LEMMA AccountsInitTyped == AccountsInit => AccountsTyped
<1> SUFFICES ASSUME AccountsInit PROVE AccountsTyped
  OBVIOUS
<1>1. <<>> \in Seq(Codes) /\ <<>> \in Seq(Nat)
  OBVIOUS
<1>2. accounts \in [Users -> AccountRecords]
  BY DEF AccountsInit, AccountRecords, NoAccount
<1>3. failures \in [Users -> Failures]
  BY DEF AccountsInit, Failures, NoRecord, Never
<1> QED BY <1>1, <1>2, <1>3 DEF AccountsInit, AccountsTyped

LEMMA BurnedTyped ==
    ASSUME AccountsTyped, NEW u
    PROVE  Burned(u) \in Seq(Codes)
<1>1. invites \in Seq(Codes)
  BY DEF AccountsTyped
<1>2. \A i \in 1 .. Len(invites) : [invites[i] EXCEPT !.used = TRUE] \in Codes
  BY <1>1, UsedTyped
<1>3. Burned(u) \in [1 .. Len(invites) -> Codes]
  BY <1>1, <1>2 DEF Burned
<1> QED BY <1>1, <1>3, SeqDef

LEMMA IssueTyped ==
    ASSUME AccountsTyped, NEW u \in Users, NEW kept \in Seq(Codes), IssueInvite(u, kept)
    PROVE  invites' \in Seq(Codes)
<1>1. [user |-> u, until |-> clock + InviteTtl, used |-> FALSE] \in Codes
  BY Amounts DEF Codes, AccountsTyped
<1> QED BY <1>1 DEF IssueInvite

LEMMA SessionTyped ==
    ASSUME AccountsTyped, NEW u \in Users, IssueSession(u)
    PROVE  sessions' \subseteq [user : Users, until : Nat]
BY Amounts DEF IssueSession, AccountsTyped

LEMMA RedeemedTyped ==
    ASSUME AccountsTyped, NEW u \in Users
    PROVE  Redeemed(u) \in [Users -> AccountRecords]
BY DEF Redeemed, AccountsTyped, AccountRecords

LEMMA CountedTyped == ASSUME clock \in Nat, NEW f \in Failures PROVE Counted(f) \in Failures
BY Amounts DEF Counted, Failures

(* The guesses kept: at most one more than the lockout needs.              *)
Trimmed(s) == SubSeq(s, IF Len(s) > MaxFailures + 1 THEN 2 ELSE 1, Len(s))

LEMMA TrimmedTyped == ASSUME NEW s \in Seq(Nat), Len(s) > 0 PROVE Trimmed(s) \in Seq(Nat)
BY Amounts DEF Trimmed

LEMMA FailsTyped ==
    ASSUME AccountsTyped, NEW u \in Users, LoginFails(u) PROVE AccountsTyped'
<1>0. PICK out \in Evicted(u) :
         /\ failures' = [v \in Users |->
               IF v = u THEN Counted(Pruned(v)) ELSE IF v \in out THEN NoRecord ELSE Pruned(v)]
         /\ guesses' = [v \in Users |->
               IF v = u THEN Remembered(u) ELSE IF v \in out THEN <<>> ELSE guesses[v]]
  BY DEF LoginFails
<1>1. failures' \in [Users -> Failures]
  <2>1. NoRecord \in Failures /\ \A v \in Users : Pruned(v) \in Failures
    BY DEF AccountsTyped, NoRecord, Never, Failures, Pruned
  <2>2. \A v \in Users : Counted(Pruned(v)) \in Failures
    BY <2>1, CountedTyped DEF AccountsTyped
  <2> QED BY <1>0, <2>1, <2>2
<1>2. guesses' \in [Users -> Seq(Nat)]
  <2>1. Append(guesses[u], clock) \in Seq(Nat) /\ Len(Append(guesses[u], clock)) > 0
    BY DEF AccountsTyped
  <2>2. Remembered(u) \in Seq(Nat)
    BY <2>1, TrimmedTyped DEF Trimmed, Remembered
  <2>3. <<>> \in Seq(Nat) /\ \A v \in Users : guesses[v] \in Seq(Nat)
    BY DEF AccountsTyped
  <2> QED BY <1>0, <2>2, <2>3
<1> QED BY <1>1, <1>2 DEF LoginFails, AccountsTyped

LEMMA AccountsNextTyped == AccountsTyped /\ [AccountsNext]_accountVars => AccountsTyped'
<1> SUFFICES ASSUME AccountsTyped, [AccountsNext]_accountVars PROVE AccountsTyped'
  OBVIOUS
<1> USE DEF AccountsTyped
<1>1. ASSUME NEW s \in sessions, Present(s) \/ Logout(s) PROVE AccountsTyped'
  BY <1>1 DEF Present, Logout
<1>2. ASSUME NEW s \in sessions, NEW u \in Users, NEW role \in {"admin", "member"},
             CreateAccount(s, u, role)
      PROVE  AccountsTyped'
  BY <1>2 DEF CreateAccount, AccountRecords
<1>3. ASSUME NEW s \in sessions, NEW u \in Users, NEW role \in {"admin", "member"},
             InviteAccount(s, u, role)
      PROVE  AccountsTyped'
  <2>1. invites' \in Seq(Codes)
    BY <1>3, IssueTyped DEF InviteAccount
  <2> QED BY <1>3, <2>1 DEF InviteAccount, AccountRecords
<1>4. ASSUME NEW s \in sessions, NEW u \in Users, Reinvite(s, u) PROVE AccountsTyped'
  <2>2. Burned(u) \in Seq(Codes)
    BY BurnedTyped
  <2>1. invites' \in Seq(Codes)
    BY <1>4, <2>2, IssueTyped DEF Reinvite
  <2> QED BY <1>4, <2>1 DEF Reinvite
<1>5. ASSUME NEW s \in sessions, NEW u \in Users, NEW enabled \in BOOLEAN, SetEnabled(s, u, enabled)
      PROVE  AccountsTyped'
  BY <1>5 DEF SetEnabled, AccountRecords
<1>6. ASSUME NEW i \in DOMAIN invites, Redeem(i) PROVE AccountsTyped'
  <2>0. invites[i] \in Codes /\ [invites[i] EXCEPT !.used = TRUE] \in Codes
    BY UsedTyped
  <2>1. invites[i] \in Codes /\ invites[i].user \in Users
    BY CodesOfUsers
  <2>2. accounts' \in [Users -> AccountRecords] /\ sessions' \subseteq [user : Users, until : Nat]
    BY <1>6, <2>1, RedeemedTyped, SessionTyped DEF Redeem
  <2>3. invites' \in Seq(Codes)
    BY <1>6, <2>0, ExceptSeq DEF Redeem
  <2> QED BY <1>6, <2>2, <2>3 DEF Redeem
<1>7. ASSUME NEW i \in DOMAIN invites, RedeemCut(i) PROVE AccountsTyped'
  <2>1. invites[i] \in Codes /\ invites[i].user \in Users
    BY CodesOfUsers
  <2>2. accounts' \in [Users -> AccountRecords]
    BY <1>7, <2>1, RedeemedTyped DEF RedeemCut
  <2>3. failures' \in [Users -> Failures]
    BY <1>7 DEF RedeemCut, NoRecord, Never, Failures
  <2>4. guesses' \in [Users -> Seq(Nat)]
    BY <1>7 DEF RedeemCut
  <2> QED BY <1>7, <2>2, <2>3, <2>4 DEF RedeemCut
<1>8. ASSUME NEW u \in Users, Login(u) PROVE AccountsTyped'
  <2>1. sessions' \subseteq [user : Users, until : Nat]
    BY <1>8, SessionTyped DEF Login
  <2>2. failures' \in [Users -> Failures]
    BY <1>8 DEF Login, NoRecord, Never, Failures
  <2>3. guesses' \in [Users -> Seq(Nat)]
    BY <1>8 DEF Login
  <2> QED BY <1>8, <2>1, <2>2, <2>3 DEF Login
<1>9. ASSUME NEW u \in Guessed, LoginFails(u) PROVE AccountsTyped'
  BY <1>9, FailsTyped, AccountsAssumption
<1>10. ASSUME Tick PROVE AccountsTyped'
  BY <1>10 DEF Tick
<1>11. CASE UNCHANGED accountVars
  BY <1>11 DEF accountVars
<1> QED BY <1>1, <1>2, <1>3, <1>4, <1>5, <1>6, <1>7, <1>8, <1>9, <1>10, <1>11 DEF AccountsNext

(* The accounts' tables keep their columns' types (server/store/db.py).    *)
THEOREM AccountsTypeCorrect == AccountsSpec => []AccountsTypeOK
BY AccountsInitTyped, AccountsNextTyped, TypedAlike, PTL DEF AccountsSpec

-----------------------------------------------------------------------------
(* Accounts, and whose the sessions and codes are.                         *)

\* A session is of an account with a password, a code of one that exists.
SessionsAreEarned ==
    /\ \A s \in sessions : Exists(s.user) /\ accounts[s.user].password
    /\ \A i \in DOMAIN invites : Exists(invites[i].user)

AccountsInv == AccountsTyped /\ SessionsAreEarned /\ AnAdminRemains /\ OneLiveCode

(* The steps by what they do to the accounts, the codes and the sessions.  *)
LEMMA AccountsSteps ==
    ASSUME AccountsTyped, [AccountsNext]_accountVars
    PROVE  \/ /\ UNCHANGED <<accounts, invites>> /\ clock' >= clock
              /\ \A s \in sessions' : s \in sessions \/ Usable(s.user)
           \/ \E s \in sessions, u \in Users, role \in {"admin", "member"} :
                  CreateAccount(s, u, role) \/ InviteAccount(s, u, role)
           \/ \E s \in sessions, u \in Users : Reinvite(s, u)
           \/ \E s \in sessions, u \in Users, enabled \in BOOLEAN : SetEnabled(s, u, enabled)
           \/ \E i \in DOMAIN invites : Redeem(i) \/ RedeemCut(i)
<1>1. ASSUME NEW s \in sessions, Present(s) \/ Logout(s)
      PROVE  UNCHANGED <<accounts, invites, clock>> /\ sessions' \subseteq sessions
  BY <1>1 DEF Present, Logout
<1>2. ASSUME NEW u \in Users, Login(u)
      PROVE  /\ UNCHANGED <<accounts, invites, clock>>
             /\ \A s \in sessions' : s \in sessions \/ Usable(s.user)
  BY <1>2 DEF Login, IssueSession
<1>3. ASSUME NEW u \in Guessed, LoginFails(u)
      PROVE  UNCHANGED <<accounts, invites, clock, sessions>>
  BY <1>3 DEF LoginFails
<1>4. ASSUME Tick PROVE UNCHANGED <<accounts, invites, sessions>> /\ clock' >= clock
  BY <1>4 DEF Tick, AccountsTyped
<1>5. CASE UNCHANGED accountVars
  BY <1>5 DEF accountVars, AccountsTyped
<1>6. clock \in Nat
  BY DEF AccountsTyped
<1>7. CASE AccountsNext
  BY <1>1, <1>2, <1>3, <1>4, <1>6, <1>7 DEF AccountsNext
<1> QED BY <1>5, <1>7

LEMMA AccountsStart == AccountsInit => AccountsInv
<1> SUFFICES ASSUME AccountsInit PROVE SessionsAreEarned /\ AnAdminRemains /\ OneLiveCode
  BY AccountsInitTyped DEF AccountsInv
<1>1. Usable(FirstAdmin) /\ accounts[FirstAdmin].role = "admin" /\ FirstAdmin \in Users
  BY AccountsAssumption DEF AccountsInit, Usable
<1> QED BY <1>1 DEF AccountsInit, SessionsAreEarned, AnAdminRemains, OneLiveCode

(* A code for u is appended to codes none of which is live for it.         *)
LEMMA IssueKeepsOneLive ==
    ASSUME AccountsTyped, OneLiveCode, NEW u \in Users, NEW kept \in Seq(Codes),
           Len(kept) = Len(invites),
           \A i \in DOMAIN kept : kept[i] = invites[i] \/ kept[i].used,
           \A i \in DOMAIN kept : kept[i].user = u => kept[i].used,
           \A i \in DOMAIN kept : kept[i].user = invites[i].user,
           \A i \in DOMAIN invites : accounts'[invites[i].user].status # "none",
           IssueInvite(u, kept), Exists(u)', clock' = clock
    PROVE  OneLiveCode' /\ \A i \in DOMAIN invites' : Exists(invites[i].user)'
<1>1. invites \in Seq(Codes)
  BY DEF AccountsTyped
<1>2. PICK k : invites' = Append(kept, k) /\ k.user = u
  BY DEF IssueInvite
<1>3. \A i \in DOMAIN invites' :
         \/ i \in DOMAIN kept /\ i \in DOMAIN invites /\ invites'[i] = kept[i]
         \/ i = Len(kept) + 1 /\ invites'[i] = k
  BY <1>1, <1>2
<1>4. \A i \in DOMAIN invites' : Exists(invites[i].user)'
  BY <1>2, <1>3 DEF Exists
<1>5. ASSUME NEW i \in DOMAIN invites', NEW j \in DOMAIN invites', Live(i)', Live(j)',
             invites'[i].user = invites'[j].user
      PROVE  i = j
  <2>1. \A h \in DOMAIN kept : invites'[h] = kept[h] /\ Live(h)' => Live(h) /\ kept[h] = invites[h]
    BY DEF Live, Expired
  <2> QED BY <1>2, <1>3, <1>5, <2>1 DEF OneLiveCode, Live
<1> QED BY <1>4, <1>5 DEF OneLiveCode

LEMMA AccountsKept == AccountsInv /\ [AccountsNext]_accountVars => AccountsInv'
<1> SUFFICES ASSUME AccountsInv, [AccountsNext]_accountVars
             PROVE  SessionsAreEarned' /\ AnAdminRemains' /\ OneLiveCode'
  BY AccountsNextTyped DEF AccountsInv
<1>0. AccountsTyped /\ SessionsAreEarned /\ AnAdminRemains /\ OneLiveCode /\ AccountsTyped'
  BY AccountsNextTyped DEF AccountsInv
<1>a. PICK boss \in Users : Usable(boss) /\ accounts[boss].role = "admin"
  BY <1>0 DEF AnAdminRemains
<1>b. \A s \in sessions : s.user \in Users
  BY <1>0 DEF AccountsTyped
<1>1. CASE /\ UNCHANGED <<accounts, invites>> /\ clock' >= clock
           /\ \A s \in sessions' : s \in sessions \/ Usable(s.user)
  <2>1. SessionsAreEarned'
    BY <1>0, <1>1 DEF SessionsAreEarned, Usable, Exists
  <2>2. AnAdminRemains'
    BY <1>0, <1>1 DEF AnAdminRemains, Usable
  <2>3. \A i \in DOMAIN invites : invites[i].until \in Nat
    BY <1>0, CodesOfUsers DEF Codes
  <2>4. \A i \in DOMAIN invites' : Live(i)' => Live(i)
    BY <1>0, <1>1, <2>3 DEF Live, Expired, AccountsTyped
  <2> QED BY <1>0, <1>1, <2>1, <2>2, <2>4 DEF OneLiveCode
<1>2. ASSUME NEW s \in sessions, NEW u \in Users, NEW role \in {"admin", "member"},
             CreateAccount(s, u, role)
      PROVE  SessionsAreEarned' /\ AnAdminRemains' /\ OneLiveCode'
  <2>1. UNCHANGED <<invites, sessions, clock>> /\ ~Exists(u)
        /\ accounts' = [accounts EXCEPT ![u] = [status |-> "active", role |-> role, password |-> TRUE]]
    BY <1>2 DEF CreateAccount
  <2>2. SessionsAreEarned'
    BY <1>0, <1>b, <2>1, CodesOfUsers DEF SessionsAreEarned, Exists, AccountsTyped
  <2>3. AnAdminRemains'
    BY <1>0, <1>a, <2>1 DEF AnAdminRemains, Usable, Exists, AccountsTyped
  <2> QED BY <1>0, <2>1, <2>2, <2>3 DEF OneLiveCode, Live, Expired
<1>3. ASSUME NEW s \in sessions, NEW u \in Users, NEW role \in {"admin", "member"},
             InviteAccount(s, u, role)
      PROVE  SessionsAreEarned' /\ AnAdminRemains' /\ OneLiveCode'
  <2>1. UNCHANGED <<sessions, clock>> /\ ~Exists(u) /\ IssueInvite(u, invites)
        /\ accounts' = [accounts EXCEPT ![u] = [status |-> "invited", role |-> role, password |-> FALSE]]
    BY <1>3 DEF InviteAccount
  <2>2. \A v \in Users : v # u => accounts'[v] = accounts[v]
    BY <1>0, <2>1 DEF AccountsTyped
  <2>3. Exists(u)' /\ \A i \in DOMAIN invites : /\ invites[i].user # u
                                                 /\ accounts'[invites[i].user].status # "none"
    BY <1>0, <2>1, CodesOfUsers DEF SessionsAreEarned, Exists, AccountsTyped
  <2>4. OneLiveCode' /\ \A i \in DOMAIN invites' : Exists(invites[i].user)'
    BY <1>0, <2>1, <2>3, IssueKeepsOneLive DEF AccountsTyped
  <2>5. SessionsAreEarned'
    BY <1>0, <1>b, <2>1, <2>2, <2>4 DEF SessionsAreEarned, Exists
  <2>6. AnAdminRemains'
    BY <1>0, <1>a, <2>1, <2>2 DEF AnAdminRemains, Usable, Exists
  <2> QED BY <2>4, <2>5, <2>6
<1>4. ASSUME NEW s \in sessions, NEW u \in Users, Reinvite(s, u)
      PROVE  SessionsAreEarned' /\ AnAdminRemains' /\ OneLiveCode'
  <2>1. UNCHANGED <<accounts, sessions, clock>> /\ Exists(u) /\ IssueInvite(u, Burned(u))
    BY <1>4 DEF Reinvite
  <2>2. Burned(u) \in Seq(Codes) /\ Len(Burned(u)) = Len(invites)
    <3>1. DOMAIN Burned(u) = 1 .. Len(invites) /\ Len(invites) \in Nat
      BY <1>0 DEF Burned, AccountsTyped
    <3> QED BY <1>0, <3>1, BurnedTyped
  <2>3. \A i \in DOMAIN Burned(u) :
           /\ i \in DOMAIN invites /\ Burned(u)[i].user = invites[i].user
           /\ Burned(u)[i] = invites[i] \/ Burned(u)[i].used
           /\ Burned(u)[i].user = u => Burned(u)[i].used
    BY <1>0, CodesOfUsers DEF Burned, Codes
  <2>4. \A i \in DOMAIN invites : accounts'[invites[i].user].status # "none"
    BY <1>0, <2>1 DEF SessionsAreEarned, Exists
  <2>5. Exists(u)'
    BY <2>1 DEF Exists
  <2>6. OneLiveCode' /\ \A i \in DOMAIN invites' : Exists(invites[i].user)'
    BY <1>0, <2>1, <2>2, <2>3, <2>4, <2>5, IssueKeepsOneLive
  <2> QED BY <1>0, <2>1, <2>6 DEF SessionsAreEarned, AnAdminRemains, Usable, Exists
<1>5. ASSUME NEW s \in sessions, NEW u \in Users, NEW enabled \in BOOLEAN, SetEnabled(s, u, enabled)
      PROVE  SessionsAreEarned' /\ AnAdminRemains' /\ OneLiveCode'
  <2>1. /\ UNCHANGED <<invites, sessions, clock>> /\ Exists(u)
        /\ \A v \in Users \ {u} : accounts'[v] = accounts[v]
        /\ accounts'[u].role = accounts[u].role /\ accounts'[u].password = accounts[u].password
        /\ accounts'[u].status = IF enabled THEN "active" ELSE "disabled"
    BY <1>0, <1>5 DEF SetEnabled, AccountsTyped, AccountRecords
  <2>2. SessionsAreEarned'
    BY <1>0, <1>b, <2>1, CodesOfUsers DEF SessionsAreEarned, Exists
  <2>3. s.user \in Users /\ Usable(s.user) /\ accounts[s.user].role = "admin"
    BY <1>0, <1>5, <1>b DEF SetEnabled, IsAdmin, Resolved, SessionsAreEarned, Usable
  <2>4. AnAdminRemains'
    <3>1. CASE enabled
      BY <1>a, <2>1, <3>1 DEF AnAdminRemains, Usable
    <3>2. CASE ~enabled
      <4>1. u # s.user
        BY <1>5, <3>2 DEF SetEnabled
      <4> QED BY <2>1, <2>3, <4>1 DEF AnAdminRemains, Usable
    <3> QED BY <3>1, <3>2
  <2> QED BY <1>0, <2>1, <2>2, <2>4 DEF OneLiveCode, Live, Expired
<1>6. ASSUME NEW i \in DOMAIN invites, Redeem(i) \/ RedeemCut(i)
      PROVE  SessionsAreEarned' /\ AnAdminRemains' /\ OneLiveCode'
  <2> DEFINE u == invites[i].user
  <2>0. u \in Users
    BY <1>0, CodesOfUsers
  <2>r. accounts' = Redeemed(u) /\ clock' = clock
    BY <1>6 DEF Redeem, RedeemCut
  <2>1. /\ clock' = clock
        /\ \A v \in Users \ {u} : accounts'[v] = accounts[v]
        /\ accounts'[u].role = accounts[u].role
        /\ accounts'[u].password /\ accounts'[u].status = "active"
    BY <1>0, <2>0, <2>r DEF Redeemed, AccountsTyped, AccountRecords
  <2>2. /\ DOMAIN invites' = DOMAIN invites
        /\ \A j \in DOMAIN invites : /\ invites'[j].user = invites[j].user
                                     /\ invites'[j] = invites[j] \/ invites'[j].used
    <3>1. invites' = invites \/ invites' = [invites EXCEPT ![i].used = TRUE]
      BY <1>6 DEF Redeem, RedeemCut
    <3>2. \A j \in DOMAIN invites : invites[j] \in Codes
      BY <1>0, CodesOfUsers
    <3> QED BY <3>1, <3>2 DEF Codes
  <2>3. \A s \in sessions' : s \in sessions \/ s.user = u
    BY <1>6 DEF Redeem, RedeemCut, IssueSession
  <2> HIDE DEF u
  <2>4. SessionsAreEarned'
    BY <1>0, <1>b, <2>0, <2>1, <2>2, <2>3, CodesOfUsers DEF SessionsAreEarned, Exists
  <2>5. AnAdminRemains'
    BY <1>a, <2>0, <2>1 DEF AnAdminRemains, Usable
  <2>6. \A j \in DOMAIN invites' : Live(j)' => Live(j)
    BY <2>1, <2>2 DEF Live, Expired
  <2> QED BY <1>0, <2>2, <2>4, <2>5, <2>6 DEF OneLiveCode
<1> QED BY <1>0, <1>1, <1>2, <1>3, <1>4, <1>5, <1>6, AccountsSteps

(* AnAdminRemains: whatever admins do to one another's accounts, one is    *)
(* left, because the caller of the disabling call is one and is not its    *)
(* own subject, and nobody holds a session without a password.             *)
THEOREM AnAdminStays == AccountsSpec => []AnAdminRemains
<1>1. AccountsInv => AnAdminRemains
  BY DEF AccountsInv
<1> QED BY <1>1, AccountsStart, AccountsKept, PTL DEF AccountsSpec

(* OneLiveCode: an account has one live code at most, whatever is issued,  *)
(* issued again and cut (reinvite_account burns the older ones).           *)
THEOREM CodesAreSingle == AccountsSpec => []OneLiveCode
<1>1. AccountsInv => OneLiveCode
  BY DEF AccountsInv
<1> QED BY <1>1, AccountsStart, AccountsKept, PTL DEF AccountsSpec

-----------------------------------------------------------------------------
(* The throttle.  What a name's record f says of the wrong passwords g     *)
(* checked for it, as of now: a record counts the latest of them, and the  *)
(* one before those it counts lies a lockout back.                         *)

Spaced(g) == Len(g) > MaxFailures => g[Len(g)] - g[Len(g) - MaxFailures] >= Lockout

InOrder(g, now) ==
    /\ \A i, j \in 1 .. Len(g) : i <= j => g[i] <= g[j]
    /\ \A i \in 1 .. Len(g) : g[i] <= now

RecordTells(f, g, now) ==
    /\ f.count < MaxFailures /\ f.count <= Len(g)
    /\ f = NoRecord => Len(g) = 0 \/ g[Len(g)] + Lockout <= now
    /\ f # NoRecord =>
          /\ Len(g) > 0 /\ f.seen = g[Len(g)]
          /\ f.until = IF f.count = 0 THEN f.seen + Lockout ELSE Never
    /\ 0 < f.count /\ f.count < Len(g) => g[Len(g) - f.count + 1] - g[Len(g) - f.count] >= Lockout

Throttles(f, g, now) ==
    Len(g) <= MaxFailures + 1 /\ InOrder(g, now) /\ RecordTells(f, g, now) /\ Spaced(g)

ThrottleInv == \A u \in Users : Throttles(failures[u], guesses[u], clock)

LEMMA TimePasses ==
    ASSUME NEW f \in Failures, NEW g \in Seq(Nat), NEW t \in Nat, NEW u \in Nat, t <= u,
           Throttles(f, g, t)
    PROVE  Throttles(f, g, u)
<1>1. Len(g) \in Nat /\ \A i \in 1 .. Len(g) : g[i] \in Nat
  OBVIOUS
<1>2. InOrder(g, u)
  BY <1>1 DEF Throttles, InOrder
<1>3. RecordTells(f, g, u)
  BY <1>1, Amounts DEF Throttles, RecordTells
<1> QED BY <1>2, <1>3 DEF Throttles

LEMMA Forgotten == ASSUME NEW t \in Nat PROVE Throttles(NoRecord, <<>>, t)
BY Amounts DEF Throttles, InOrder, RecordTells, Spaced, NoRecord

LEMMA RecordLapses ==
    ASSUME AccountsTyped, NEW f \in Failures, NEW g \in Seq(Nat), Throttles(f, g, clock), Lapsed(f)
    PROVE  Throttles(NoRecord, g, clock)
<1>1. clock \in Nat /\ Len(g) \in Nat /\ \A i \in 1 .. Len(g) : g[i] \in Nat
  BY DEF AccountsTyped
<1>2. Len(g) = 0 \/ g[Len(g)] + Lockout <= clock
  BY <1>1, Amounts DEF Throttles, RecordTells, Lapsed, Expired, Failures, Never
<1>3. RecordTells(NoRecord, g, clock)
  BY <1>1, <1>2, Amounts DEF RecordTells, NoRecord
<1> QED BY <1>3 DEF Throttles

(* The count of one more wrong password, before the guesses are trimmed.   *)
LEMMA OneMore ==
    ASSUME AccountsTyped, NEW f \in Failures, NEW g \in Seq(Nat), Throttles(f, g, clock),
           f.until = Never
    PROVE  LET h == Append(g, clock)
           IN  InOrder(h, clock) /\ RecordTells(Counted(f), h, clock) /\ Spaced(h)
<1> DEFINE h == Append(g, clock)
           n == Len(g)
           c == f.count
<1>1. clock \in Nat /\ n \in Nat /\ c \in Nat /\ \A i \in 1 .. n : g[i] \in Nat
  BY DEF AccountsTyped, Failures
<1>2. /\ Len(h) = n + 1 /\ h[n + 1] = clock
      /\ \A i \in 1 .. n : h[i] = g[i]
  BY <1>1
<1>3. c < MaxFailures /\ c <= n
  BY DEF Throttles, RecordTells
<1>4. c = 0 => f = NoRecord
  BY <1>1, Amounts DEF Throttles, RecordTells, Never
<1>5. InOrder(h, clock)
  BY <1>1, <1>2 DEF Throttles, InOrder
<1>6. c < n => h[n - c + 1] - h[n - c] >= Lockout
  <2>1. CASE c = 0
    BY <1>1, <1>2, <1>4, <2>1, Amounts DEF Throttles, RecordTells
  <2>2. CASE c > 0
    <3>1. c < n => g[n - c + 1] - g[n - c] >= Lockout
      BY <2>2 DEF Throttles, RecordTells
    <3> HIDE DEF h, n, c
    <3>2. c < n => n - c + 1 \in 1 .. n /\ n - c \in 1 .. n
      BY <1>1, <2>2
    <3> QED BY <1>2, <3>1, <3>2
  <2> HIDE DEF h, n, c
  <2> QED BY <1>1, <2>1, <2>2
<1>7. \A i \in 1 .. n + 1 : h[i] \in Nat
  BY <1>1, <1>2
<1>8. RecordTells(Counted(f), h, clock)
  <2>1. Counted(f) # NoRecord /\ Counted(f).seen = clock
    BY <1>1 DEF Counted, NoRecord, Never
  <2>2. \/ c + 1 = MaxFailures /\ Counted(f).count = 0 /\ Counted(f).until = clock + Lockout
        \/ c + 1 < MaxFailures /\ Counted(f).count = c + 1 /\ Counted(f).until = Never
    <3>1. f.count \in Nat /\ f.count + 1 <= MaxFailures
      BY <1>1, <1>3, Amounts
    <3>2. CASE f.count + 1 = MaxFailures
      BY <3>1, <3>2, Amounts DEF Counted
    <3>3. CASE f.count + 1 < MaxFailures
      BY <3>1, <3>3, Amounts DEF Counted
    <3> QED BY <3>1, <3>2, <3>3, Amounts
  <2> DEFINE e == Counted(f)
  <2> HIDE DEF h, n, c, e
  <2>3. e.count < MaxFailures /\ e.count <= Len(h) /\ Len(h) > 0 /\ e # NoRecord
        /\ e.seen = h[Len(h)] /\ e.until = IF e.count = 0 THEN e.seen + Lockout ELSE Never
    BY <1>1, <1>2, <1>3, <2>1, <2>2, Amounts DEF e
  <2>4. ASSUME 0 < e.count, e.count < Len(h)
        PROVE  h[Len(h) - e.count + 1] - h[Len(h) - e.count] >= Lockout
    <3>1. e.count = c + 1 /\ c < n
      BY <1>1, <1>2, <2>2, <2>4 DEF e
    <3>2. Len(h) - e.count + 1 = n - c + 1 /\ Len(h) - e.count = n - c
      BY <1>1, <1>2, <3>1
    <3> QED BY <1>6, <3>1, <3>2
  <2> QED BY <2>3, <2>4 DEF RecordTells, e
<1>9. Spaced(h)
  <2> HIDE DEF h, n, c
  <2>1. SUFFICES ASSUME Len(h) > MaxFailures
                 PROVE  h[Len(h)] - h[Len(h) - MaxFailures] >= Lockout
    BY DEF Spaced
  <2>l. Len(h) = n + 1 /\ n + 1 > MaxFailures
    BY <1>2, <2>1
  <2>2. c < n /\ n - c \in 1 .. n /\ n + 1 - MaxFailures \in 1 .. n - c
    BY <1>1, <1>3, <2>l, Amounts
  <2>3. h[n + 1] >= h[n - c + 1] /\ h[n - c] >= h[n + 1 - MaxFailures]
    <3>1. \A i, j \in 1 .. n + 1 : i <= j => h[i] <= h[j]
      BY <1>2, <1>5 DEF InOrder
    <3> HIDE DEF h, n, c
    <3>2. n - c + 1 <= n + 1 /\ n - c + 1 \in 1 .. n + 1 /\ n + 1 \in 1 .. n + 1
      BY <1>1, <2>2
    <3>3. n + 1 - MaxFailures <= n - c /\ n + 1 - MaxFailures \in 1 .. n + 1 /\ n - c \in 1 .. n + 1
      BY <1>1, <2>2
    <3> QED BY <3>1, <3>2, <3>3, <1>7
  <2> HIDE DEF h, n, c
  <2>4. n + 1 \in 1 .. n + 1 /\ n - c + 1 \in 1 .. n + 1 /\ n - c \in 1 .. n + 1
        /\ n + 1 - MaxFailures \in 1 .. n + 1
    BY <1>1, <2>2
  <2>5. /\ h[n + 1] \in Nat /\ h[n - c + 1] \in Nat
        /\ h[n - c] \in Nat /\ h[n + 1 - MaxFailures] \in Nat
    BY <1>7, <2>4
  <2>6. h[n + 1] - h[n + 1 - MaxFailures] >= Lockout
    BY <1>6, <2>2, <2>3, <2>5, Amounts
  <2>7. Len(h) - MaxFailures = n + 1 - MaxFailures
    BY <1>1, <2>l, Amounts
  <2> QED BY <2>l, <2>6, <2>7
<1> QED BY <1>5, <1>8, <1>9

(* Guesses that are older than those the lockout looks at can go.          *)
LEMMA TrimKeeps ==
    ASSUME NEW f \in Failures, NEW h \in Seq(Nat), NEW t \in Nat, 0 < Len(h),
           Len(h) <= MaxFailures + 2, f # NoRecord,
           InOrder(h, t), RecordTells(f, h, t), Spaced(h)
    PROVE  Throttles(f, Trimmed(h), t)
<1> DEFINE k == Trimmed(h)
           n == Len(h)
<1>1. n \in Nat /\ f.count \in Nat /\ f.count < MaxFailures /\ \A i \in 1 .. n : h[i] \in Nat
  BY DEF Failures, RecordTells
<1>2. CASE n <= MaxFailures + 1
  <2>1. k = h
    <3>1. k = SubSeq(h, 1, n)
      BY <1>1, <1>2, Amounts DEF Trimmed
    <3>2. SubSeq(h, 1, n) = h
      OBVIOUS
    <3> QED BY <3>1, <3>2
  <2> QED BY <1>2, <2>1 DEF Throttles
<1>3. CASE n > MaxFailures + 1
  <2>0. n = MaxFailures + 2
    BY <1>1, <1>3, Amounts
  <2>1. k = SubSeq(h, 2, n)
    BY <1>3 DEF Trimmed
  <2>2. Len(k) = MaxFailures + 1 /\ \A i \in 1 .. MaxFailures + 1 : k[i] = h[i + 1]
    BY <1>1, <2>0, <2>1, Amounts, SubSeqProperties
  <2> HIDE DEF k, n
  <2>3. InOrder(k, t)
    BY <2>0, <2>2, Amounts DEF InOrder, n
  <2>4. k[Len(k)] = h[n] /\ k[Len(k) - MaxFailures] = h[n - MaxFailures]
    BY <2>0, <2>2, Amounts
  <2>5. \A c \in 1 .. MaxFailures : k[Len(k) - c + 1] = h[n - c + 1] /\ k[Len(k) - c] = h[n - c]
    BY <2>0, <2>2, Amounts
  <2>6. RecordTells(f, k, t)
    <3>1. k[Len(k)] = h[Len(h)] /\ Len(k) > 0 /\ Len(h) > 0 /\ f.count <= Len(k)
      BY <1>1, <2>0, <2>2, <2>4, Amounts DEF n
    <3>2. ASSUME 0 < f.count
          PROVE  /\ k[Len(k) - f.count + 1] = h[Len(h) - f.count + 1]
                 /\ k[Len(k) - f.count] = h[Len(h) - f.count] /\ f.count < Len(h)
      <4>1. f.count \in 1 .. MaxFailures /\ f.count < n
        BY <1>1, <2>0, <3>2, Amounts
      <4> QED BY <2>5, <4>1 DEF n
    <3>3. f.count < MaxFailures /\ f.seen = h[Len(h)]
          /\ f.until = IF f.count = 0 THEN f.seen + Lockout ELSE Never
      BY <3>1 DEF RecordTells
    <3>4. 0 < f.count => h[Len(h) - f.count + 1] - h[Len(h) - f.count] >= Lockout
      BY <3>2 DEF RecordTells
    <3> HIDE DEF k
    <3> QED BY <3>1, <3>2, <3>3, <3>4 DEF RecordTells
  <2>7. Spaced(k)
    BY <2>0, <2>2, <2>4, Amounts DEF Spaced, n
  <2> QED BY <2>2, <2>3, <2>6, <2>7, Amounts DEF Throttles, k
<1> QED BY <1>1, <1>2, <1>3, Amounts

(* The steps by what they do to the throttle.                              *)
LEMMA ThrottleSteps ==
    ASSUME AccountsTyped, [AccountsNext]_accountVars
    PROVE  \/ UNCHANGED <<failures, guesses>> /\ clock <= clock'
           \/ \E u \in Users : LoginFails(u)
           \/ /\ clock' = clock
              /\ \A u \in Users : \/ failures'[u] = failures[u] /\ guesses'[u] = guesses[u]
                                  \/ failures'[u] = NoRecord /\ guesses'[u] = <<>>
<1>0. clock \in Nat
  BY DEF AccountsTyped
<1>1. ASSUME NEW s \in sessions, NEW u \in Users, NEW role \in {"admin", "member"},
             NEW enabled \in BOOLEAN,
             \/ Present(s) \/ Logout(s) \/ CreateAccount(s, u, role) \/ InviteAccount(s, u, role)
             \/ Reinvite(s, u) \/ SetEnabled(s, u, enabled)
      PROVE  UNCHANGED <<failures, guesses, clock>>
  BY <1>1 DEF Present, Logout, CreateAccount, InviteAccount, Reinvite, SetEnabled
<1>2. ASSUME NEW i \in DOMAIN invites, Redeem(i)
      PROVE  UNCHANGED <<failures, guesses, clock>>
  BY <1>2 DEF Redeem
<1>3. ASSUME NEW i \in DOMAIN invites, RedeemCut(i)
      PROVE  /\ clock' = clock
             /\ \A u \in Users : failures'[u] = NoRecord /\ guesses'[u] = <<>>
  BY <1>3 DEF RedeemCut
<1>4. ASSUME NEW v \in Users, Login(v)
      PROVE  /\ clock' = clock
             /\ \A u \in Users : \/ failures'[u] = failures[u] /\ guesses'[u] = guesses[u]
                                 \/ failures'[u] = NoRecord /\ guesses'[u] = <<>>
  BY <1>4 DEF Login, AccountsTyped
<1>5. CASE Tick \/ UNCHANGED accountVars
  BY <1>0, <1>5 DEF Tick, accountVars
<1>6. \A u \in Guessed : u \in Users
  BY AccountsAssumption
<1>7. ASSUME NEW s \in sessions, Present(s) \/ Logout(s) PROVE UNCHANGED <<failures, guesses, clock>>
  BY <1>7 DEF Present, Logout
<1>8. CASE AccountsNext
  BY <1>0, <1>1, <1>2, <1>3, <1>4, <1>5, <1>6, <1>7, <1>8 DEF AccountsNext
<1> QED BY <1>5, <1>8

LEMMA ThrottleStart == AccountsInit => ThrottleInv
<1> SUFFICES ASSUME AccountsInit, NEW u \in Users PROVE Throttles(failures[u], guesses[u], clock)
  BY DEF ThrottleInv
<1> QED BY Forgotten DEF AccountsInit

LEMMA ThrottleKept ==
    AccountsTyped /\ ThrottleInv /\ [AccountsNext]_accountVars => ThrottleInv'
<1> SUFFICES ASSUME AccountsTyped, ThrottleInv, [AccountsNext]_accountVars, NEW u \in Users
             PROVE  Throttles(failures'[u], guesses'[u], clock')
  BY DEF ThrottleInv
<1>0. /\ clock \in Nat /\ clock' \in Nat /\ failures[u] \in Failures /\ guesses[u] \in Seq(Nat)
      /\ Throttles(failures[u], guesses[u], clock)
  BY AccountsNextTyped DEF AccountsTyped, ThrottleInv
<1>1. CASE UNCHANGED <<failures, guesses>> /\ clock <= clock'
  BY <1>0, <1>1, TimePasses
<1>2. CASE /\ clock' = clock
           /\ \/ failures'[u] = failures[u] /\ guesses'[u] = guesses[u]
              \/ failures'[u] = NoRecord /\ guesses'[u] = <<>>
  BY <1>0, <1>2, Forgotten
<1>3. ASSUME NEW v \in Users, LoginFails(v) PROVE Throttles(failures'[u], guesses'[u], clock')
  <2> DEFINE f == Pruned(u)
             h == Append(guesses[u], clock)
  <2>1. clock' = clock /\ ~Locked(v)
    BY <1>3 DEF LoginFails
  <2>2. f \in Failures /\ Throttles(f, guesses[u], clock)
    BY <1>0, RecordLapses DEF Failures, NoRecord, Never, Pruned
  <2>3. CASE u # v
    <3>1. \/ failures'[u] = f /\ guesses'[u] = guesses[u]
          \/ failures'[u] = NoRecord /\ guesses'[u] = <<>>
      BY <1>3, <2>3 DEF LoginFails
    <3> QED BY <1>0, <2>1, <2>2, <3>1, Forgotten
  <2>4. CASE u = v
    <3>1. failures'[u] = Counted(f) /\ guesses'[u] = Trimmed(h)
      BY <1>3, <2>4 DEF LoginFails, Remembered, Trimmed
    <3>2. f.until = Never
      BY <2>1, <2>4 DEF Locked, Lapsed, NoRecord, Pruned
    <3>3. Counted(f) \in Failures /\ Counted(f) # NoRecord
      <4>1. Counted(f).seen = clock
        BY DEF Counted
      <4> QED BY <1>0, <2>2, <4>1, CountedTyped DEF NoRecord, Never
    <3>4. h \in Seq(Nat) /\ 0 < Len(h) /\ Len(h) <= MaxFailures + 2
      BY <1>0, Amounts DEF Throttles
    <3>5. InOrder(h, clock) /\ RecordTells(Counted(f), h, clock) /\ Spaced(h)
      BY <1>0, <2>2, <3>2, OneMore
    <3> HIDE DEF f, h
    <3> QED BY <1>0, <2>1, <3>1, <3>3, <3>4, <3>5, TrimKeeps
  <2> QED BY <2>3, <2>4
<1> QED BY <1>1, <1>2, <1>3, ThrottleSteps

(* GuessesAreSpaced: until a success, a restart or the cap on the records  *)
(* makes the throttle forget a name, MaxFailures + 1 wrong passwords of it *)
(* are a lockout's length apart, for any limits and any cap, and however   *)
(* the attempts on other names prune its record (login()).                 *)
THEOREM GuessesStaySpaced == AccountsSpec => []GuessesAreSpaced
<1>1. ThrottleInv => GuessesAreSpaced
  BY DEF ThrottleInv, Throttles, Spaced, GuessesAreSpaced
<1>2. AccountsInit => AccountsTyped
  BY AccountsInitTyped
<1> QED BY <1>1, <1>2, AccountsNextTyped, ThrottleStart, ThrottleKept, PTL DEF AccountsSpec
===============================================================================
