------------------------------- MODULE Updater -------------------------------
(***************************************************************************)
(* The in-place update of the packaged program (src/foreman/client/        *)
(* update.py): the running program downloads foreman.new.exe, starts it as *)
(* a helper and ends; the helper renames foreman.exe aside, itself to      *)
(* foreman.exe, and starts that.  Every start of the program first deletes *)
(* what an update left behind.                                             *)
(*                                                                         *)
(* A file is the version it holds.  A running image follows its file's     *)
(* renames and cannot be deleted or overwritten (Windows).  A short        *)
(* download is refused by its size, which the release always states, so a  *)
(* download is whole or fails; foreman.new.exe.part is the worker's alone. *)
(***************************************************************************)
EXTENDS Naturals, FiniteSets

CONSTANT Apps           \* processes of the program

ASSUME UpdaterAssumption == Apps # {}

VARIABLES
    disk,               \* the version each file of the folder holds
    app,                \* the processes of the program
    helper,             \* where the swap helper is; its image is `helperAt`
    helperAt,
    backup,             \* where the helper moves foreman.exe to
    worker,             \* where the apply thread is
    owner,              \* the process that runs it
    cancel,             \* the cancel event of the current update
    cleaning,           \* a cancelled or failed worker has yet to delete the download
    promised,           \* history: cancel_apply answered "cancelled" in this update
    torn                \* history: the helper died, or could not go back, between its renames

updaterVars ==
    <<disk, app, helper, helperAt, backup, worker, owner, cancel, cleaning, promised, torn>>
workerVars == <<worker, owner, cancel, cleaning, promised>>

Spots == {"foreman.exe", "foreman.new.exe", "foreman.old.exe", "foreman.old.n.exe"}
Stopped == [pc |-> "none", at |-> "foreman.exe", version |-> "v1"]

UpdaterInit ==
    /\ disk = [s \in Spots |-> IF s = "foreman.exe" THEN "v1" ELSE "none"]
    /\ app = [p \in Apps |-> Stopped]
    /\ helper = "none" /\ helperAt = "foreman.new.exe" /\ backup = "foreman.old.exe"
    /\ worker = "idle" /\ owner = CHOOSE p \in Apps : TRUE
    /\ cancel = FALSE /\ cleaning = FALSE /\ promised = FALSE /\ torn = FALSE

OnDisk(s) == disk[s] # "none"

\* A running process is an image of the file.
InUse(s) ==
    \/ \E p \in Apps : app[p].pc # "none" /\ app[p].at = s
    \/ helper # "none" /\ helperAt = s

\* The folder without the files of S that can be deleted.
Deleted(S) == [s \in Spots |-> IF s \in S /\ ~InUse(s) THEN "none" ELSE disk[s]]

\* os.replace: the file and its images move.
Moved(s, t) == [disk EXCEPT ![t] = disk[s], ![s] = "none"]
Follows(s, t) == [p \in Apps |-> IF app[p].at = s THEN [app[p] EXCEPT !.at = t] ELSE app[p]]

-----------------------------------------------------------------------------
(* The program *)

\* It unpacks before it does anything.
Starts(p) ==
    /\ app[p].pc = "none" /\ OnDisk("foreman.exe")
    /\ app' = [app EXCEPT ![p] = [pc |-> "booting", at |-> "foreman.exe",
                                  version |-> disk["foreman.exe"]]]

OpenApp(p) ==
    /\ Starts(p)
    /\ UNCHANGED <<disk, helper, helperAt, backup, workerVars, torn>>

\* cleanup_stale, then one instance serves and another one only shows it.
Boot(p) ==
    /\ app[p].pc = "booting"
    /\ disk' = Deleted(Spots \ {"foreman.exe"})
    /\ app' = [app EXCEPT ![p] =
          IF \E q \in Apps : app[q].pc = "serving" THEN Stopped ELSE [@ EXCEPT !.pc = "serving"]]
    /\ UNCHANGED <<helper, helperAt, backup, workerVars, torn>>

\* The apply thread dies with its process.
WorkerWithout(gone) ==
    IF owner \in gone
    THEN /\ worker' = "idle" /\ cleaning' = FALSE /\ cancel' = FALSE /\ promised' = FALSE
         /\ UNCHANGED owner
    ELSE UNCHANGED workerVars

\* The window is closed, or the process dies.
Close(p) ==
    /\ app[p].pc # "none"
    /\ app' = [app EXCEPT ![p] = Stopped]
    /\ WorkerWithout({p})
    /\ UNCHANGED <<disk, helper, helperAt, backup, torn>>

-----------------------------------------------------------------------------
(* The download *)

BeginApply(p) ==
    /\ app[p].pc = "serving" /\ app[p].version = "v1"
    /\ worker = "idle"
    /\ cleaning => owner = p
    /\ worker' = "downloading" /\ owner' = p
    /\ cancel' = FALSE /\ promised' = FALSE
    /\ UNCHANGED <<disk, app, helper, helperAt, backup, cleaning, torn>>

\* Until the phase is "swapping" a cancel is answered as done.
CancelApply ==
    /\ worker \in {"downloading", "received", "checked"}
    /\ cancel' = TRUE /\ promised' = TRUE
    /\ UNCHANGED <<disk, app, helper, helperAt, backup, worker, owner, cleaning, torn>>

Downloaded ==
    /\ worker = "downloading"
    /\ ~InUse("foreman.new.exe")
    /\ disk' = [disk EXCEPT !["foreman.new.exe"] = "v2"]
    /\ worker' = "received"
    /\ UNCHANGED <<app, helper, helperAt, backup, owner, cancel, cleaning, promised, torn>>

\* The update is over before its file is deleted.
GivesUp ==
    /\ worker' = "idle" /\ cleaning' = TRUE /\ cancel' = FALSE /\ promised' = FALSE
    /\ UNCHANGED <<disk, app, helper, helperAt, backup, owner, torn>>

DownloadFails == worker = "downloading" /\ GivesUp

SeesCancel == worker \in {"downloading", "received"} /\ cancel /\ GivesUp

CleansUp ==
    /\ cleaning
    /\ disk' = Deleted({"foreman.new.exe"})
    /\ cleaning' = FALSE
    /\ UNCHANGED <<app, helper, helperAt, backup, worker, owner, cancel, promised, torn>>

\* The last look at the event and the change of phase are two steps.
LastLook ==
    /\ worker = "received" /\ ~cancel
    /\ worker' = "checked"
    /\ UNCHANGED <<disk, app, helper, helperAt, backup, owner, cancel, cleaning, promised, torn>>

Swapping ==
    /\ worker = "checked"
    /\ worker' = "swapping"
    /\ UNCHANGED <<disk, app, helper, helperAt, backup, owner, cancel, cleaning, promised, torn>>

StartHelper ==
    /\ worker = "swapping" /\ OnDisk("foreman.new.exe") /\ helper = "none"
    /\ helper' = "waiting" /\ helperAt' = "foreman.new.exe"
    /\ worker' = "handed"
    /\ UNCHANGED <<disk, app, backup, owner, cancel, cleaning, promised, torn>>

\* The file may be gone, or the system refuses.
StartHelperFails ==
    /\ worker = "swapping"
    /\ worker' = "idle" /\ cancel' = FALSE /\ promised' = FALSE
    /\ UNCHANGED <<disk, app, helper, helperAt, backup, owner, cleaning, torn>>

ShutDown ==
    /\ worker = "handed"
    /\ app' = [app EXCEPT ![owner] = Stopped]
    /\ WorkerWithout({owner})
    /\ UNCHANGED <<disk, helper, helperAt, backup, torn>>

-----------------------------------------------------------------------------
(* The helper *)

\* It waits for the old process and for whoever runs foreman.exe, and ends
\* the ones that stay; one that starts right after is not noticed.
TakesOver ==
    LET gone == {p \in Apps : app[p].pc # "none" /\ app[p].at = "foreman.exe"}
    IN /\ helper = "waiting" /\ (worker = "handed" => owner \in gone)
       /\ app' = [p \in Apps |-> IF p \in gone THEN Stopped ELSE app[p]]
       /\ WorkerWithout(gone)
       /\ helper' = "clear"
       /\ UNCHANGED <<disk, helperAt, backup, torn>>

\* An older backup is replaced, unless a process still runs it.
BackupPath == IF OnDisk("foreman.old.exe") /\ InUse("foreman.old.exe")
              THEN "foreman.old.n.exe" ELSE "foreman.old.exe"

MoveAside ==
    /\ helper = "clear"
    /\ backup' = BackupPath
    /\ IF OnDisk("foreman.exe")
       THEN disk' = Moved("foreman.exe", BackupPath) /\ app' = Follows("foreman.exe", BackupPath)
       ELSE disk' = Deleted({BackupPath}) /\ UNCHANGED app
    /\ helper' = "moved"
    /\ UNCHANGED <<helperAt, workerVars, torn>>

MoveAsideFails ==
    /\ helper = "clear" /\ OnDisk("foreman.exe") /\ helper' = "none"
    /\ disk' = Deleted({BackupPath})
    /\ UNCHANGED <<app, helperAt, backup, workerVars, torn>>

Place ==
    /\ helper = "moved"
    /\ disk' = Moved("foreman.new.exe", "foreman.exe")
    /\ helper' = "placed" /\ helperAt' = "foreman.exe"
    /\ UNCHANGED <<app, backup, workerVars, torn>>

PlaceFails_NoRollback ==
    /\ helper = "moved" /\ helper' = "none"
    /\ UNCHANGED <<disk, app, helperAt, backup, workerVars, torn>>

\* The old program goes back to its place, if it is still there.
PlaceFails ==
    /\ helper = "moved" /\ helper' = "none"
    /\ IF OnDisk(backup)
       THEN disk' = Moved(backup, "foreman.exe") /\ app' = Follows(backup, "foreman.exe")
       ELSE UNCHANGED <<disk, app>>
    /\ torn' = (torn \/ ~OnDisk(backup))
    /\ UNCHANGED <<helperAt, backup, workerVars>>

Relaunch ==
    /\ helper = "placed"
    /\ helper' = "none"
    /\ \/ \E p \in Apps : Starts(p)
       \/ UNCHANGED app
    /\ UNCHANGED <<disk, helperAt, backup, workerVars, torn>>

\* It is killed, the machine stops, or going back fails as well.
HelperDies ==
    /\ helper # "none" /\ helper' = "none"
    /\ torn' = (torn \/ helper = "moved")
    /\ UNCHANGED <<disk, app, helperAt, backup, workerVars>>

UpdaterNext ==
    \/ \E p \in Apps : OpenApp(p) \/ Boot(p) \/ Close(p) \/ BeginApply(p)
    \/ CancelApply \/ Downloaded \/ DownloadFails \/ SeesCancel \/ CleansUp
    \/ LastLook \/ Swapping \/ StartHelper \/ StartHelperFails \/ ShutDown
    \/ TakesOver \/ MoveAside \/ MoveAsideFails \/ Place \/ PlaceFails \/ Relaunch \/ HelperDies

UpdaterSpec == UpdaterInit /\ [][UpdaterNext]_updaterVars

-----------------------------------------------------------------------------
(* Properties *)

UpdaterTypeOK ==
    /\ disk \in [Spots -> {"none", "v1", "v2"}]
    /\ app \in [Apps -> [pc : {"none", "booting", "serving"}, at : Spots, version : {"v1", "v2"}]]
    /\ helper \in {"none", "waiting", "clear", "moved", "placed"}
    /\ {helperAt, backup} \subseteq Spots
    /\ worker \in {"idle", "downloading", "received", "checked", "swapping", "handed"}
    /\ owner \in Apps
    /\ {cancel, cleaning, promised, torn} \subseteq BOOLEAN

\* "old version stays intact": whatever is started, cancelled, closed or
\* deleted meanwhile, foreman.exe is there whenever no helper is between its
\* two renames, and if one died there a whole program is still in the folder.
AProgramRemains ==
    \/ OnDisk("foreman.exe")
    \/ (helper = "moved" \/ torn) /\ \E s \in Spots : OnDisk(s)

\* VERSION_HISTORY.md, v1.3.0: the cancel button "aborts the download before
\* the restart/swap phase begins": an update whose cancel was answered as
\* done does not start the helper.
CancelIsKept == promised => worker # "handed"

=============================================================================
