--------------------------- MODULE DecisionCards ---------------------------
(***************************************************************************)
(* Proposed actions and the cards that ask for them (DecisionLoop,         *)
(* CardService, Gate, Auditor), the checkpoints and undos of one session's *)
(* workspace (CheckpointManager, also used by the PM's tools), and the     *)
(* question cards a PM waits for (CardService.ask_question).               *)
(*                                                                         *)
(* Everything runs on one event loop: an action is what the code does      *)
(* between two awaits.  Git commands and shell commands are synchronous,   *)
(* so the loop stands still while one is under way (Blocked); the coding   *)
(* agent and the user are other processes and may write files meanwhile.   *)
(*                                                                         *)
(* The content of the workspace is the set of changes it holds: one per    *)
(* action, and Edits for what others write.  MaxRefs bounds the snapshots  *)
(* of a behaviour.                                                         *)
(***************************************************************************)
EXTENDS Naturals, Sequences, FiniteSets

CONSTANTS
  Actions,    \* proposed actions
  Edits,      \* changes written by the agent or the user unasked
  Taps,       \* taps on action cards (calls of record_choice)
  Questions,  \* questions of the PM
  Options,    \* options of a question
  None,       \* no tree, no choice, no action
  MaxRefs,    \* snapshots in a behaviour
  QuietUndo,  \* TRUE: nobody writes files while an undo is under way
  Crashes     \* TRUE: the process may restart

Changes == Actions \cup Edits
Trees   == SUBSET Changes
Runners == Taps \cup Actions

ASSUME DisjointAssumption == Taps \cap Actions = {} /\ Actions \cap Edits = {}
ASSUME NoneAssumption ==
  /\ None \notin Actions \cup Options \cup {"timeout", "cancelled"}
  /\ \A w \in Trees : w # None
ASSUME OptionsAssumption == Options \cap {"timeout", "cancelled"} = {}
ASSUME LimitsAssumption ==
  MaxRefs \in Nat /\ QuietUndo \in BOOLEAN /\ Crashes \in BOOLEAN

VARIABLES
  (* actions *)
  kind,      \* Action.kind
  status,    \* Action.status
  card,      \* the action has a decision card
  anchor,    \* the tree of Action.checkpoint_id
  job,       \* what a tap or the processing of a proposal waits for
  tapped,    \* the action of each tap
  told,      \* actions a coding agent was instructed to do
  mustAsk,   \* history: the action may not run unasked
  approved,  \* history: somebody tapped approve on its card
  runs,      \* history: how often its execution began
  (* the workspace *)
  worktree,  \* the files
  refs,      \* refs/foreman/ckpt/<session>/1, 2, ...
  rows,      \* steps that have a row in `checkpoints`
  restoring, \* the tree an undo is about to restore
  (* questions *)
  waiting,   \* the PM's side of each question
  fut,       \* the waiter's future
  chosen,    \* DecisionCard.chosen
  first      \* history: the first option tapped while the PM waited

gitVars      == <<refs, rows>>
historyVars  == <<mustAsk, approved, runs>>
actionVars   == <<kind, status, card, anchor, job, tapped, told, historyVars>>
questionVars == <<waiting, fut, chosen, first>>
vars == <<actionVars, worktree, gitVars, restoring, questionVars>>

Kinds    == {"shell", "agent_instruction", "deferred"}
Statuses == {"none", "proposed", "audited", "rejected", "revising", "carded",
             "executed", "undone"}
Closings == {"timeout", "cancelled"}

Init ==
  /\ kind = [a \in Actions |-> "shell"] /\ status = [a \in Actions |-> "none"]
  /\ card = [a \in Actions |-> FALSE]   /\ anchor = [a \in Actions |-> None]
  /\ job = [r \in Runners |-> "idle"]   /\ tapped = [t \in Taps |-> None]
  /\ told = {}
  /\ mustAsk  = [a \in Actions |-> FALSE]
  /\ approved = [a \in Actions |-> FALSE]
  /\ runs     = [a \in Actions |-> 0]
  /\ worktree = {} /\ refs = <<>> /\ rows = {} /\ restoring = None
  /\ waiting = [q \in Questions |-> "none"] /\ fut = [q \in Questions |-> None]
  /\ chosen = [q \in Questions |-> None]    /\ first = [q \in Questions |-> None]

-----------------------------------------------------------------------------
(* Shared parts.                                                           *)

ActionOf(r) == IF r \in Taps THEN tapped[r] ELSE r

(* A shell command, a refusal to run, or an undo: no await in between. *)
Blocked ==
  \/ restoring # None
  \/ \E r \in Runners : job[r] = "run" /\ kind[ActionOf(r)] # "agent_instruction"

(* Mutant: the step index of the database, which knows no redo snapshots. *)
NextStep_FromRows == Cardinality(rows) + 1

(* One after the highest step of the shadow refs. *)
NextStep == Len(refs) + 1

(* The workspace as it is becomes the commit of the next step. *)
Snapshot ==
  /\ NextStep <= MaxRefs
  /\ refs' = IF NextStep = Len(refs) + 1 THEN Append(refs, worktree)
                                         ELSE [refs EXCEPT ![NextStep] = worktree]

Wait(r, what) == job' = [job EXCEPT ![r] = what]
SetStatus(a, s) == status' = [status EXCEPT ![a] = s]

(* Mutant: the row is written though git failed. *)
(* Mutant: the checkpoint is the one that will be taken after the run. *)
Checkpoint_After(a) ==
  \/ /\ Snapshot
     /\ rows' = rows \cup {NextStep}
     /\ anchor' = [anchor EXCEPT ![a] = worktree \cup {a}]
  \/ UNCHANGED <<gitVars, anchor>>

(* Taken and noted on the action; without git the action runs anyway. *)
Checkpoint(a) ==
  \/ /\ Snapshot
     /\ rows' = rows \cup {NextStep}
     /\ anchor' = [anchor EXCEPT ![a] = worktree]
  \/ UNCHANGED <<gitVars, anchor>>

(* execute_action up to the command itself: checkpoint first, whatever the *)
(* status of the action is by now.                                         *)
Execute(r, a) ==
  /\ Checkpoint(a)
  /\ runs' = [runs EXCEPT ![a] = @ + 1]
  /\ Wait(r, "run")

-----------------------------------------------------------------------------
(* Proposals.                                                              *)

Propose(a) ==
  /\ ~Blocked /\ status[a] = "none"
  /\ kind' \in {[kind EXCEPT ![a] = k] : k \in Kinds}
  /\ SetStatus(a, "proposed") /\ Wait(a, "audit")
  /\ UNCHANGED <<card, anchor, tapped, told, historyVars, worktree, gitVars,
                 restoring, questionVars>>

(* A step of a workflow that needs approval gets an action and a card. *)
WorkflowGate(a) ==
  /\ ~Blocked /\ status[a] = "none"
  /\ kind' = [kind EXCEPT ![a] = "deferred"]
  /\ SetStatus(a, "carded") /\ card' = [card EXCEPT ![a] = TRUE]
  /\ Wait(a, "over")
  /\ UNCHANGED <<anchor, tapped, told, historyVars, worktree, gitVars,
                 restoring, questionVars>>

(* The auditor's model is only ever made stricter. *)
SynthesizeVerdict(v, garbage, severe) ==
  IF severe THEN "escalate" ELSE IF garbage /\ v = "pass" THEN "reject" ELSE v

(* The autonomy dial. *)
DecideDisposition(class, level) ==
  IF level = 0 THEN "report"
  ELSE IF \/ class = "safe" /\ level >= 2
          \/ class = "needs-strategy" /\ level = 3
       THEN "auto" ELSE "card"

(* Mutant: the operator's own hint is ignored. *)
Disposition_NoHint(verdict, reversible, class, level) ==
  IF verdict = "escalate" THEN "card" ELSE DecideDisposition(class, level)

Disposition(verdict, reversible, class, level) ==
  IF verdict = "escalate" \/ ~reversible
  THEN "card" ELSE DecideDisposition(class, level)

AuditRaises(a) ==
  /\ ~Blocked /\ job[a] = "audit"
  /\ Wait(a, "over")
  /\ UNCHANGED <<kind, status, card, anchor, tapped, told, historyVars,
                 worktree, gitVars, restoring, questionVars>>

(* The audit is back: the proposal is dropped, sent back with notes, run,  *)
(* put on a card or only reported.  The model, the gate and the operator   *)
(* decide what they like; mustAsk notes when the owner has to be asked.    *)
Audited(a) ==
  /\ ~Blocked /\ job[a] = "audit"
  /\ \E v \in {"pass", "revise", "reject", "escalate"},
        garbage, severe, reversible \in BOOLEAN,
        class \in {"safe", "needs-strategy", "requires-approval"}, level \in 0..3 :
       LET verdict == SynthesizeVerdict(v, garbage, severe)
           way     == IF verdict \in {"reject", "revise"} THEN verdict
                      ELSE Disposition(verdict, reversible, class, level)
       IN /\ mustAsk' = [mustAsk EXCEPT ![a] =
               garbage \/ severe \/ v # "pass" \/ ~reversible \/ level <= 1
               \/ class = "requires-approval"]
          /\ \/ /\ way = "reject" /\ SetStatus(a, "rejected") /\ Wait(a, "over")
                /\ UNCHANGED <<card, anchor, gitVars, runs>>
             \/ /\ way = "revise" /\ SetStatus(a, "audited") /\ Wait(a, "notes")
                /\ UNCHANGED <<card, anchor, gitVars, runs>>
             \/ /\ way = "report" /\ SetStatus(a, "audited") /\ Wait(a, "over")
                /\ UNCHANGED <<card, anchor, gitVars, runs>>
             \/ /\ way = "card" /\ SetStatus(a, "carded") /\ Wait(a, "over")
                /\ card' = [card EXCEPT ![a] = TRUE]
                /\ UNCHANGED <<anchor, gitVars, runs>>
             \/ /\ way = "auto" /\ SetStatus(a, "audited") /\ Execute(a, a)
                /\ UNCHANGED card
  /\ UNCHANGED <<kind, tapped, told, approved, worktree, restoring, questionVars>>

(* The notes have been sent, or there was nobody to send them to. *)
NotesSent(r) ==
  /\ ~Blocked /\ job[r] = "notes"
  /\ Wait(r, "over")
  /\ IF r \in Actions THEN SetStatus(r, "revising") ELSE UNCHANGED status
  /\ UNCHANGED <<kind, card, anchor, tapped, told, historyVars, worktree,
                 gitVars, restoring, questionVars>>

-----------------------------------------------------------------------------
(* The run of an action.                                                   *)

(* The command is over.  A failed shell command may have done its work; an *)
(* agent may have got an instruction whose sending failed.                 *)
Ran(r) ==
  LET a == ActionOf(r) IN
  /\ job[r] = "run"
  /\ kind[a] = "agent_instruction" => ~Blocked
  /\ Wait(r, "over")
  /\ \E ok \in BOOLEAN :
       /\ kind[a] = "deferred" => ~ok
       /\ SetStatus(a, IF ok THEN "executed" ELSE "audited")
       /\ \/ kind[a] = "shell" /\ worktree' = worktree \cup {a}
          \/ (kind[a] = "shell" => ~ok) /\ UNCHANGED worktree
  /\ told' = IF kind[a] = "agent_instruction" THEN told \cup {a} ELSE told
  /\ UNCHANGED <<kind, card, anchor, tapped, historyVars, gitVars, restoring,
                 questionVars>>

(* Actions a coding agent is or may be at work on. *)
Instructed == told \cup
  {a \in Actions : \E r \in Runners : /\ job[r] = "run" /\ ActionOf(r) = a
                                      /\ kind[a] = "agent_instruction"}

(* The agent does what it was told, or it or the user write something else *)
(* - also while the event loop stands still.                               *)
FilesWritten(c) ==
  /\ c \in Instructed \cup Edits
  /\ QuietUndo => restoring = None
  /\ worktree' = worktree \cup {c}
  /\ UNCHANGED <<actionVars, gitVars, restoring, questionVars>>

-----------------------------------------------------------------------------
(* Taps on action cards.                                                   *)

Tap(t, a) ==
  /\ ~Blocked /\ job[t] = "idle" /\ card[a]
  /\ tapped' = [tapped EXCEPT ![t] = a]
  /\ UNCHANGED <<kind, card, told, mustAsk, worktree, questionVars>>

TapApprove(t, a) ==
  /\ Tap(t, a)
  /\ approved' = [approved EXCEPT ![a] = TRUE]
  /\ Execute(t, a)
  /\ UNCHANGED <<status, restoring>>

TapRevise(t, a) ==
  /\ Tap(t, a) /\ Wait(t, "notes")
  /\ UNCHANGED <<status, anchor, approved, runs, gitVars, restoring>>

(* Manual, and an undo without a checkpoint or one whose snapshot fails. *)
TapNothing(t, a) ==
  /\ Tap(t, a) /\ Wait(t, "over")
  /\ UNCHANGED <<status, anchor, approved, runs, gitVars, restoring>>

(* Mutant: the redo snapshot is taken when the workspace is restored. *)
BeginUndo_RedoLate(tree) ==
  /\ restoring' = tree
  /\ NextStep <= MaxRefs /\ refs' = Append(refs, tree)

(* undo_to, first half: the present state becomes a checkpoint itself. *)
BeginUndo(tree) == restoring' = tree /\ Snapshot

(* The redo snapshot of a card's undo gets no row. *)
TapUndo(t, a) ==
  /\ Tap(t, a) /\ anchor[a] # None
  /\ Wait(t, "undo") /\ BeginUndo(anchor[a])
  /\ UNCHANGED <<status, anchor, approved, runs, rows>>

(* undo_to, second half: rewrite the files of the tree, drop the others. *)
Restore ==
  /\ restoring # None
  /\ worktree' = restoring /\ restoring' = None
  /\ job' = [r \in Runners |-> IF job[r] = "undo" THEN "over" ELSE job[r]]
  /\ status' = [a \in Actions |->
       IF \E t \in Taps : job[t] = "undo" /\ tapped[t] = a THEN "undone"
                                                           ELSE status[a]]
  /\ UNCHANGED <<kind, card, anchor, tapped, told, historyVars, gitVars,
                 questionVars>>

(* What an undo leaves that stops halfway. *)
Halfway == {w \in SUBSET (worktree \cup restoring) : worktree \cap restoring \subseteq w}

RestoreFails ==
  /\ restoring # None
  /\ worktree' \in Halfway /\ restoring' = None
  /\ job' = [r \in Runners |-> IF job[r] = "undo" THEN "over" ELSE job[r]]
  /\ UNCHANGED <<kind, status, card, anchor, tapped, told, historyVars, gitVars,
                 questionVars>>

(* The PM's tools checkpoint_create and checkpoint_undo. *)
PmCheckpoint ==
  /\ ~Blocked
  /\ Snapshot /\ rows' = rows \cup {NextStep}
  /\ UNCHANGED <<actionVars, worktree, restoring, questionVars>>

PmUndo(n) ==
  /\ ~Blocked /\ n \in rows
  /\ BeginUndo(refs[n]) /\ rows' = rows \cup {NextStep}
  /\ UNCHANGED <<actionVars, worktree, questionVars>>

-----------------------------------------------------------------------------
(* Questions of the PM.                                                    *)

Ask(q) ==
  /\ ~Blocked /\ waiting[q] = "none"
  /\ waiting' = [waiting EXCEPT ![q] = "open"]
  /\ UNCHANGED <<fut, chosen, first, actionVars, worktree, gitVars, restoring>>

(* Mutant: a closed question still takes answers. *)
Answer_Closed(q, o) ==
  /\ waiting[q] # "none"
  /\ chosen' = [chosen EXCEPT ![q] = o]
  /\ fut' = IF waiting[q] = "open" /\ fut[q] = None THEN [fut EXCEPT ![q] = o]
                                                    ELSE fut

(* record_choice on a question: the row takes every tap until the question *)
(* is closed, the waiter the first one.                                    *)
Answer(q, o) ==
  /\ waiting[q] # "none" /\ chosen[q] \notin Closings
  /\ chosen' = [chosen EXCEPT ![q] = o]
  /\ fut' = IF waiting[q] = "open" /\ fut[q] = None THEN [fut EXCEPT ![q] = o]
                                                    ELSE fut

TapOption(q, o) ==
  /\ ~Blocked /\ Answer(q, o)
  /\ first' = IF waiting[q] = "open" /\ first[q] = None
              THEN [first EXCEPT ![q] = o] ELSE first
  /\ UNCHANGED <<waiting, actionVars, worktree, gitVars, restoring>>

(* The waiter wakes up with the answer. *)
Hear(q) ==
  /\ ~Blocked /\ waiting[q] = "open" /\ fut[q] # None
  /\ waiting' = [waiting EXCEPT ![q] = "answered"]
  /\ UNCHANGED <<fut, chosen, first, actionVars, worktree, gitVars, restoring>>

(* Mutant: the row is left as it is. *)
CloseUnanswered_Open(q, reason) == UNCHANGED chosen

(* An option that was tapped stays. *)
CloseUnanswered(q, reason) ==
  chosen' = IF chosen[q] = None THEN [chosen EXCEPT ![q] = reason] ELSE chosen

(* The wait times out or is cancelled, perhaps in the same turn of the     *)
(* event loop in which an option was tapped.                               *)
GiveUp(q, reason) ==
  /\ ~Blocked /\ waiting[q] = "open"
  /\ waiting' = [waiting EXCEPT ![q] = reason]
  /\ CloseUnanswered(q, reason)
  /\ UNCHANGED <<fut, first, actionVars, worktree, gitVars, restoring>>

-----------------------------------------------------------------------------
(* The process dies and starts again: nobody waits any more.  Rows, refs   *)
(* and files stay; a command may or may not have done its work, an undo    *)
(* may stop halfway.                                                       *)
Restart ==
  /\ Crashes
  /\ job' = [r \in Runners |-> IF job[r] = "idle" THEN "idle" ELSE "over"]
  /\ told' = Instructed
  /\ waiting' = [q \in Questions |->
       IF waiting[q] = "open" THEN "lost" ELSE waiting[q]]
  /\ restoring' = None
  /\ IF restoring # None THEN worktree' \in Halfway
     ELSE worktree' \in {worktree} \cup
       {worktree \cup {a} : a \in {b \in Actions : \E r \in Runners :
          job[r] = "run" /\ ActionOf(r) = b /\ kind[b] = "shell"}}
  /\ UNCHANGED <<kind, status, card, anchor, tapped, historyVars, gitVars,
                 fut, chosen, first>>

Next ==
  \/ \E a \in Actions : \/ Propose(a) \/ WorkflowGate(a)
                        \/ AuditRaises(a) \/ Audited(a)
                        \/ \E t \in Taps : \/ TapApprove(t, a) \/ TapRevise(t, a)
                                           \/ TapNothing(t, a) \/ TapUndo(t, a)
  \/ \E r \in Runners : NotesSent(r) \/ Ran(r)
  \/ \E c \in Changes : FilesWritten(c)
  \/ Restore \/ RestoreFails \/ PmCheckpoint
  \/ \E n \in 1..MaxRefs : PmUndo(n)
  \/ \E q \in Questions : \/ Ask(q) \/ Hear(q)
                          \/ \E o \in Options : TapOption(q, o)
                          \/ \E reason \in Closings : GiveUp(q, reason)
  \/ Restart

Spec == Init /\ [][Next]_vars

-----------------------------------------------------------------------------
(* Properties.                                                             *)

TypeOK ==
  /\ kind \in [Actions -> Kinds] /\ status \in [Actions -> Statuses]
  /\ card \in [Actions -> BOOLEAN] /\ anchor \in [Actions -> {None} \cup Trees]
  /\ job \in [Runners -> {"idle", "audit", "run", "notes", "undo", "over"}]
  /\ tapped \in [Taps -> Actions \cup {None}] /\ told \subseteq Actions
  /\ mustAsk \in [Actions -> BOOLEAN] /\ approved \in [Actions -> BOOLEAN]
  /\ runs \in [Actions -> Nat]
  /\ worktree \in Trees /\ refs \in Seq(Trees) /\ Len(refs) <= MaxRefs
  /\ rows \subseteq 1..Len(refs) /\ restoring \in {None} \cup Trees
  /\ waiting \in [Questions -> Closings \cup {"none", "open", "answered", "lost"}]
  /\ fut \in [Questions -> Options \cup {None}]
  /\ chosen \in [Questions -> Options \cup Closings \cup {None}]
  /\ first \in [Questions -> Options \cup {None}]

(* The red line: whatever the auditor, the gate, the operator's own hint   *)
(* or the dial objects to never begins to run before somebody tapped       *)
(* approve, and what was rejected or sent back never runs at all.          *)
NothingRunsUnasked ==
  \A a \in Actions : runs[a] > 0 =>
    /\ mustAsk[a] => approved[a]
    /\ status[a] \notin {"none", "proposed", "rejected", "revising"}

(* The checkpoint of an action that ran once is from before that run: to   *)
(* restore it takes the action's change out of the workspace.              *)
CheckpointPrecedesRun ==
  \A a \in Actions : runs[a] <= 1 /\ anchor[a] # None => a \notin anchor[a]

(* Whatever checkpoints and undos of cards and of the PM's tools come in   *)
(* which order: no snapshot is ever replaced, not even the redo snapshots  *)
(* of undos, which have no row.                                            *)
SnapshotsStay ==
  [][\A n \in DOMAIN refs : n \in DOMAIN refs' /\ refs'[n] = refs[n]]_vars

(* The workspace and its snapshots implement Timeline: nothing leaves the  *)
(* workspace, also by a failed or interrupted undo, unless the state it    *)
(* leaves is among the snapshots.  Needs QuietUndo.                        *)
Kept == {refs[n] : n \in DOMAIN refs}
Promise == INSTANCE Timeline WITH files <- worktree, kept <- Kept
KeepsTimeline == Promise!Spec

(* The answer a PM goes on with is the first option tapped, though the     *)
(* card may show a later one.                                              *)
FirstTapIsHeard ==
  \A q \in Questions : waiting[q] = "answered" => fut[q] # None /\ fut[q] = first[q]

(* A question that looks unanswered has a PM waiting for it, unless the    *)
(* process was restarted; one that looks given up was.                     *)
OpenCardHasAWaiter ==
  \A q \in Questions :
    /\ chosen[q] = None => waiting[q] \in {"none", "open", "lost"}
    /\ chosen[q] \in Closings => waiting[q] = chosen[q]

(* Once a question is closed as given up, no tap changes it. *)
ClosedStaysClosed ==
  [][\A q \in Questions : chosen[q] \in Closings => chosen'[q] = chosen[q]]_vars
=============================================================================
