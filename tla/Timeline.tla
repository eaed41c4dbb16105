------------------------------ MODULE Timeline ------------------------------
(***************************************************************************)
(* What undo promises the owner of a workspace: files may be written at    *)
(* any time, snapshots are kept for ever, and nothing is taken out of the  *)
(* workspace unless the workspace as it was has been kept.                 *)
(***************************************************************************)
CONSTANTS Changes   \* what can be in the workspace

VARIABLES
  files,   \* the changes in the workspace
  kept     \* the snapshots

vars == <<files, kept>>

Init == files = {} /\ kept = {}

(* Somebody adds to the workspace. *)
Write ==
  /\ files' \in {w \in SUBSET Changes : files \subseteq w}
  /\ UNCHANGED kept

(* The workspace is kept as it is. *)
Keep == kept' = kept \cup {files} /\ UNCHANGED files

(* The workspace goes back to something else; what it was is kept. *)
GoBack ==
  /\ files \in kept
  /\ files' \in SUBSET Changes
  /\ UNCHANGED kept

Next == Write \/ Keep \/ GoBack

Spec == Init /\ [][Next]_vars
=============================================================================
