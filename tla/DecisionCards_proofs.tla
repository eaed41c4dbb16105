------------------------ MODULE DecisionCards_proofs ------------------------
(***************************************************************************)
(* Proofs about DecisionCards, for any actions, edits, taps and questions, *)
(* any number of snapshots, and restarts at any point.                     *)
(***************************************************************************)
EXTENDS DecisionCards, SequenceTheorems, TLAPS

Jobs     == {"idle", "audit", "run", "notes", "undo", "over"}
(* A tap that is under way or over is a tap on an action's card.           *)
TapsKnown == \A t \in Taps : job[t] # "idle" => tapped[t] \in Actions

Waitings == Closings \cup {"none", "open", "answered", "lost"}

(* The steps by who takes them.                                            *)
ProposalStep == \E a \in Actions : Propose(a) \/ WorkflowGate(a) \/ AuditRaises(a)
AuditStep    == \E a \in Actions : Audited(a)
TapStep      == \E a \in Actions, t \in Taps :
                  TapApprove(t, a) \/ TapRevise(t, a) \/ TapNothing(t, a) \/ TapUndo(t, a)
RunnerStep   == \E r \in Runners : NotesSent(r) \/ Ran(r)
RestoreStep  == Restore \/ RestoreFails
PmStep       == PmCheckpoint \/ \E n \in 1..MaxRefs : PmUndo(n)
WriteStep    == \E c \in Changes : FilesWritten(c)
QuestionStep == \E q \in Questions :
                  \/ Ask(q) \/ Hear(q)
                  \/ \E o \in Options : TapOption(q, o)
                  \/ \E reason \in Closings : GiveUp(q, reason)

LEMMA Steps ==
  ASSUME [Next]_vars
  PROVE  \/ ProposalStep \/ AuditStep \/ TapStep \/ RunnerStep \/ RestoreStep
         \/ PmStep \/ WriteStep \/ QuestionStep \/ Restart \/ UNCHANGED vars
<1>1. CASE \E a \in Actions : Propose(a) \/ WorkflowGate(a) \/ AuditRaises(a)
  BY <1>1 DEF ProposalStep
<1>2. CASE \E a \in Actions : Audited(a)
  BY <1>2 DEF AuditStep
<1>3. CASE \E a \in Actions : \E t \in Taps :
             TapApprove(t, a) \/ TapRevise(t, a) \/ TapNothing(t, a) \/ TapUndo(t, a)
  BY <1>3 DEF TapStep
<1>4. CASE Restore \/ RestoreFails \/ PmCheckpoint \/ \E n \in 1..MaxRefs : PmUndo(n)
  BY <1>4 DEF RestoreStep, PmStep
<1>5. CASE \/ \E r \in Runners : NotesSent(r) \/ Ran(r)
           \/ \E c \in Changes : FilesWritten(c)
  BY <1>5 DEF RunnerStep, WriteStep
<1>6. CASE \E q \in Questions : \/ Ask(q) \/ Hear(q)
                                \/ \E o \in Options : TapOption(q, o)
                                \/ \E reason \in Closings : GiveUp(q, reason)
  BY <1>6 DEF QuestionStep
<1> QED BY <1>1, <1>2, <1>3, <1>4, <1>5, <1>6 DEF Next

-----------------------------------------------------------------------------
(* Type correctness.                                                       *)

(* A snapshot is one tree more, and touches none that is there.            *)
LEMMA SnapshotAppends ==
  ASSUME TypeOK, Snapshot
  PROVE  /\ refs' = Append(refs, worktree)
         /\ refs' \in Seq(Trees) /\ Len(refs') = Len(refs) + 1
         /\ Len(refs') <= MaxRefs /\ NextStep \in 1..Len(refs')
<1>1. refs \in Seq(Trees) /\ worktree \in Trees /\ Len(refs) \in Nat
  BY DEF TypeOK
<1>2. refs' = Append(refs, worktree) /\ Len(refs) + 1 <= MaxRefs
  BY DEF Snapshot, NextStep
<1>3. refs' \in Seq(Trees) /\ Len(refs') = Len(refs) + 1
  BY <1>1, <1>2
<1> QED BY <1>1, <1>2, <1>3 DEF NextStep

(* What every checkpoint keeps of the types.                               *)
LEMMA GitTypes ==
  ASSUME TypeOK,
         \/ Snapshot /\ (rows' = rows \cup {NextStep} \/ rows' = rows)
         \/ UNCHANGED gitVars
  PROVE  refs' \in Seq(Trees) /\ Len(refs') <= MaxRefs /\ rows' \subseteq 1..Len(refs')
<1>1. refs \in Seq(Trees) /\ Len(refs) <= MaxRefs /\ rows \subseteq 1..Len(refs)
      /\ Len(refs) \in Nat
  BY DEF TypeOK
<1>2. CASE UNCHANGED gitVars
  BY <1>1, <1>2 DEF gitVars
<1>3. CASE Snapshot /\ (rows' = rows \cup {NextStep} \/ rows' = rows)
  <2>1. /\ refs' \in Seq(Trees) /\ Len(refs') = Len(refs) + 1
        /\ Len(refs') <= MaxRefs /\ NextStep \in 1..Len(refs')
    BY <1>3, SnapshotAppends
  <2>2. 1..Len(refs) \subseteq 1..Len(refs')
    BY <1>1, <2>1
  <2> QED BY <1>1, <1>3, <2>1, <2>2
<1> QED BY <1>2, <1>3

(* The execution of an action, up to its command.                          *)
LEMMA ExecuteTypes ==
  ASSUME TypeOK, NEW a \in Actions, NEW r \in Runners, Execute(r, a)
  PROVE  /\ refs' \in Seq(Trees) /\ Len(refs') <= MaxRefs /\ rows' \subseteq 1..Len(refs')
         /\ anchor' \in [Actions -> {None} \cup Trees]
         /\ runs' \in [Actions -> Nat] /\ job' \in [Runners -> Jobs]
<1>1. anchor' \in [Actions -> {None} \cup Trees]
  BY DEF Execute, Checkpoint, TypeOK
<1>2. runs' \in [Actions -> Nat] /\ job' \in [Runners -> Jobs]
  BY DEF Execute, Wait, TypeOK, Jobs
<1>3. refs' \in Seq(Trees) /\ Len(refs') <= MaxRefs /\ rows' \subseteq 1..Len(refs')
  BY GitTypes DEF Execute, Checkpoint, gitVars
<1> QED BY <1>1, <1>2, <1>3

(* The outcomes of an audit; none but the last begins to run anything, and *)
(* that one only if nobody has to be asked.                                *)
AuditEnds(a) ==
  /\ job[a] = "audit" /\ ~Blocked
  /\ \E b \in BOOLEAN : mustAsk' = [mustAsk EXCEPT ![a] = b]
  /\ \/ /\ \/ SetStatus(a, "rejected") /\ Wait(a, "over")
           \/ SetStatus(a, "audited") /\ Wait(a, "over")
           \/ SetStatus(a, "audited") /\ Wait(a, "notes")
        /\ UNCHANGED <<card, anchor, gitVars, runs>>
     \/ /\ SetStatus(a, "carded") /\ Wait(a, "over")
        /\ card' = [card EXCEPT ![a] = TRUE]
        /\ UNCHANGED <<anchor, gitVars, runs>>
     \/ /\ SetStatus(a, "audited") /\ Execute(a, a) /\ UNCHANGED card
        /\ mustAsk' = [mustAsk EXCEPT ![a] = FALSE]
  /\ UNCHANGED <<kind, tapped, told, approved, worktree, restoring,
                questionVars>>

LEMMA AuditOutcome ==
  ASSUME NEW a \in Actions, Audited(a)
  PROVE  AuditEnds(a)
<1>1. PICK v \in {"pass", "revise", "reject", "escalate"},
           garbage \in BOOLEAN, severe \in BOOLEAN, reversible \in BOOLEAN,
           class \in {"safe", "needs-strategy", "requires-approval"}, level \in 0..3 :
       LET verdict == SynthesizeVerdict(v, garbage, severe)
           way     == IF verdict \in {"reject", "revise"} THEN verdict
                      ELSE Disposition(verdict, reversible, class, level)
       IN /\ mustAsk' = [mustAsk EXCEPT ![a] =
               garbage \/ severe \/ v # "pass" \/ ~reversible \/ level <= 1
               \/ class = "requires-approval"]
          /\ \/ /\ way = "reject" /\ SetStatus(a, "rejected") /\ Wait(a, "over")
                /\ UNCHANGED <<card, anchor, gitVars, runs>>
             \/ /\ way = "revise" /\ SetStatus(a, "audited") /\ Wait(a, "notes")
                /\ UNCHANGED <<card, anchor, gitVars, runs>>
             \/ /\ way = "report" /\ SetStatus(a, "audited") /\ Wait(a, "over")
                /\ UNCHANGED <<card, anchor, gitVars, runs>>
             \/ /\ way = "card" /\ SetStatus(a, "carded") /\ Wait(a, "over")
                /\ card' = [card EXCEPT ![a] = TRUE]
                /\ UNCHANGED <<anchor, gitVars, runs>>
             \/ /\ way = "auto" /\ SetStatus(a, "audited") /\ Execute(a, a)
                /\ UNCHANGED card
  BY DEF Audited
<1> DEFINE ask == garbage \/ severe \/ v # "pass" \/ ~reversible \/ level <= 1
                  \/ class = "requires-approval"
           verdict == SynthesizeVerdict(v, garbage, severe)
<1>2. ask \in BOOLEAN /\ mustAsk' = [mustAsk EXCEPT ![a] = ask]
  BY <1>1
<1>3. ASSUME verdict \notin {"reject", "revise"},
             Disposition(verdict, reversible, class, level) = "auto"
      PROVE  ask = FALSE
  BY <1>3 DEF SynthesizeVerdict, Disposition, DecideDisposition
<1> HIDE DEF ask, verdict
<1>5. \/ /\ \/ SetStatus(a, "rejected") /\ Wait(a, "over")
            \/ SetStatus(a, "audited") /\ Wait(a, "over")
            \/ SetStatus(a, "audited") /\ Wait(a, "notes")
         /\ UNCHANGED <<card, anchor, gitVars, runs>>
      \/ /\ SetStatus(a, "carded") /\ Wait(a, "over")
         /\ card' = [card EXCEPT ![a] = TRUE]
         /\ UNCHANGED <<anchor, gitVars, runs>>
      \/ /\ SetStatus(a, "audited") /\ Execute(a, a) /\ UNCHANGED card
         /\ verdict \notin {"reject", "revise"}
         /\ Disposition(verdict, reversible, class, level) = "auto"
  BY <1>1 DEF verdict
<1>6. job[a] = "audit" /\ ~Blocked
      /\ UNCHANGED <<kind, tapped, told, approved, worktree, restoring, questionVars>>
  BY DEF Audited
<1> QED BY <1>2, <1>3, <1>5, <1>6 DEF AuditEnds

LEMMA AuditedTypes ==
  ASSUME TypeOK, NEW a \in Actions, Audited(a)
  PROVE  TypeOK'
<1>0. AuditEnds(a)
  BY AuditOutcome
<1>1. a \in Runners
  BY DEF Runners
<1>2. mustAsk' \in [Actions -> BOOLEAN] /\ status' \in [Actions -> Statuses]
  BY <1>0 DEF AuditEnds, TypeOK, SetStatus, Statuses
<1>3. card' \in [Actions -> BOOLEAN] /\ job' \in [Runners -> Jobs]
      /\ (UNCHANGED <<anchor, gitVars, runs>> \/ Execute(a, a))
  BY <1>0, <1>1, ExecuteTypes DEF AuditEnds, TypeOK, Wait, Jobs
<1>4. /\ refs' \in Seq(Trees) /\ Len(refs') <= MaxRefs /\ rows' \subseteq 1..Len(refs')
      /\ anchor' \in [Actions -> {None} \cup Trees] /\ runs' \in [Actions -> Nat]
  BY <1>1, <1>3, ExecuteTypes DEF TypeOK, gitVars
<1> QED
  BY <1>0, <1>2, <1>3, <1>4 DEF AuditEnds, TypeOK, Jobs, questionVars

LEMMA InitTypes == Init => TypeOK
<1> SUFFICES ASSUME Init PROVE TypeOK
  OBVIOUS
<1>1. Len(<<>>) = 0 /\ <<>> \in Seq(Trees)
  OBVIOUS
<1> QED
  BY <1>1, LimitsAssumption, NoneAssumption
     DEF Init, TypeOK, Kinds, Statuses, Trees

(* The action of a runner that has something under way is an action.       *)
LEMMA RunnersAction ==
  ASSUME TypeOK, TapsKnown, NEW r \in Runners, job[r] # "idle"
  PROVE  ActionOf(r) \in Actions
BY DEF ActionOf, TapsKnown, Runners

LEMMA InstructedActions ==
  ASSUME TypeOK PROVE Instructed \subseteq Actions
BY DEF Instructed, TypeOK

(* Every step keeps the types.                                             *)
LEMMA StepTypes == TypeOK /\ TapsKnown /\ [Next]_vars => TypeOK'
<1> SUFFICES ASSUME TypeOK, TapsKnown, [Next]_vars PROVE TypeOK'
  OBVIOUS
<1> USE DEF actionVars, historyVars, gitVars, questionVars
<1>1. ASSUME NEW a \in Actions, Propose(a) PROVE TypeOK'
  BY <1>1 DEF Propose, TypeOK, SetStatus, Wait, Kinds, Statuses, Runners
<1>2. ASSUME NEW a \in Actions, WorkflowGate(a) PROVE TypeOK'
  BY <1>2 DEF WorkflowGate, TypeOK, SetStatus, Wait, Kinds, Statuses, Runners
<1>3. ASSUME NEW a \in Actions, AuditRaises(a) PROVE TypeOK'
  BY <1>3 DEF AuditRaises, TypeOK, Wait
<1>4. ASSUME NEW a \in Actions, Audited(a) PROVE TypeOK'
  BY <1>4, AuditedTypes
<1>5. ASSUME NEW a \in Actions, NEW t \in Taps, TapApprove(t, a) PROVE TypeOK'
  <2>1. t \in Runners
    BY DEF Runners
  <2>2. Execute(t, a) /\ Tap(t, a)
    BY <1>5 DEF TapApprove
  <2> QED BY <1>5, <2>1, <2>2, ExecuteTypes DEF TapApprove, Tap, TypeOK, Jobs
<1>6. ASSUME NEW a \in Actions, NEW t \in Taps, TapRevise(t, a) PROVE TypeOK'
  BY <1>6 DEF TapRevise, Tap, Wait, TypeOK, Runners
<1>7. ASSUME NEW a \in Actions, NEW t \in Taps, TapNothing(t, a) PROVE TypeOK'
  BY <1>7 DEF TapNothing, Tap, Wait, TypeOK, Runners
<1>8. ASSUME NEW a \in Actions, NEW t \in Taps, TapUndo(t, a) PROVE TypeOK'
  <2>1. refs' \in Seq(Trees) /\ Len(refs') <= MaxRefs /\ rows' \subseteq 1..Len(refs')
    BY <1>8, GitTypes DEF TapUndo, BeginUndo
  <2>2. restoring' \in {None} \cup Trees
    BY <1>8 DEF TapUndo, BeginUndo, TypeOK
  <2> QED BY <1>8, <2>1, <2>2 DEF TapUndo, Tap, Wait, TypeOK, Runners
<1>9. ASSUME NEW r \in Runners, NotesSent(r) PROVE TypeOK'
  BY <1>9 DEF NotesSent, Wait, SetStatus, TypeOK, Statuses
<1>10. ASSUME NEW r \in Runners, Ran(r) PROVE TypeOK'
  <2>1. status' \in [Actions -> Statuses] /\ job' \in [Runners -> Jobs]
    BY <1>10 DEF Ran, SetStatus, Wait, TypeOK, Statuses, Jobs
  <2>2. ActionOf(r) \in Actions
    BY <1>10, RunnersAction DEF Ran
  <2>3. worktree' \in Trees /\ told' \subseteq Actions
    BY <1>10, <2>2 DEF Ran, TypeOK, Trees, Changes
  <2> QED BY <1>10, <2>1, <2>3 DEF Ran, TypeOK, Jobs
<1>11. ASSUME NEW c \in Changes, FilesWritten(c) PROVE TypeOK'
  BY <1>11 DEF FilesWritten, TypeOK, Trees
<1>12. ASSUME Restore PROVE TypeOK'
  BY <1>12 DEF Restore, TypeOK, Statuses
<1>13. ASSUME RestoreFails PROVE TypeOK'
  <2>1. worktree' \in Trees
    BY <1>13 DEF RestoreFails, Halfway, TypeOK, Trees
  <2> QED BY <1>13, <2>1 DEF RestoreFails, TypeOK
<1>14. ASSUME PmCheckpoint PROVE TypeOK'
  BY <1>14, GitTypes DEF PmCheckpoint, TypeOK
<1>15. ASSUME NEW n \in 1..MaxRefs, PmUndo(n) PROVE TypeOK'
  <2>1. refs[n] \in Trees
    BY <1>15 DEF PmUndo, TypeOK
  <2>2. refs' \in Seq(Trees) /\ Len(refs') <= MaxRefs /\ rows' \subseteq 1..Len(refs')
    BY <1>15, GitTypes DEF PmUndo, BeginUndo
  <2> QED BY <1>15, <2>1, <2>2 DEF PmUndo, BeginUndo, TypeOK
<1>16. ASSUME NEW q \in Questions, Ask(q) PROVE TypeOK'
  BY <1>16 DEF Ask, TypeOK
<1>17. ASSUME NEW q \in Questions, Hear(q) PROVE TypeOK'
  BY <1>17 DEF Hear, TypeOK
<1>18. ASSUME NEW q \in Questions, NEW o \in Options, TapOption(q, o) PROVE TypeOK'
  <2>1. /\ chosen' \in [Questions -> Options \cup Closings \cup {None}]
        /\ fut' \in [Questions -> Options \cup {None}]
    BY <1>18 DEF TapOption, Answer, TypeOK
  <2>2. first' \in [Questions -> Options \cup {None}]
    BY <1>18 DEF TapOption, TypeOK
  <2> QED BY <1>18, <2>1, <2>2 DEF TapOption, TypeOK
<1>19. ASSUME NEW q \in Questions, NEW reason \in Closings, GiveUp(q, reason)
       PROVE  TypeOK'
  BY <1>19 DEF GiveUp, CloseUnanswered, TypeOK
<1>20. ASSUME Restart PROVE TypeOK'
  <2>1. worktree' \in Trees
    BY <1>20 DEF Restart, Halfway, TypeOK, Trees, Changes
  <2>2. told' \subseteq Actions
    BY <1>20, InstructedActions DEF Restart
  <2>3. job' \in [Runners -> Jobs] /\ waiting' \in [Questions -> Waitings]
    BY <1>20 DEF Restart, TypeOK, Jobs, Waitings
  <2> QED BY <1>20, <2>1, <2>2, <2>3 DEF Restart, TypeOK, Jobs, Waitings
<1>21. CASE UNCHANGED vars
  BY <1>21 DEF vars, TypeOK
<1> QED
  BY <1>1, <1>2, <1>3, <1>4, <1>5, <1>6, <1>7, <1>8, <1>9, <1>10, <1>11, <1>12,
     <1>13, <1>14, <1>15, <1>16, <1>17, <1>18, <1>19, <1>20, <1>21 DEF Next

(* A tap gets its action when it begins, and keeps it.                     *)
LEMMA StepTaps == TypeOK /\ TapsKnown /\ [Next]_vars => TapsKnown'
<1> SUFFICES ASSUME TypeOK, TapsKnown, [Next]_vars, NEW t \in Taps, job'[t] # "idle"
             PROVE  tapped'[t] \in Actions
  BY DEF TapsKnown
<1>1. t \in Runners /\ t \notin Actions
  BY DisjointAssumption DEF Runners
<1>2. CASE TapStep
  <2>1. PICK a \in Actions, u \in Taps :
             TapApprove(u, a) \/ TapRevise(u, a) \/ TapNothing(u, a) \/ TapUndo(u, a)
    BY <1>2 DEF TapStep
  <2>2. Tap(u, a) /\ \E w : job' = [job EXCEPT ![u] = w]
    BY <2>1 DEF TapApprove, TapRevise, TapNothing, TapUndo, Execute, Wait
  <2> QED BY <1>1, <2>2 DEF Tap, TypeOK, TapsKnown
<1>3. CASE UNCHANGED tapped /\ job[t] # "idle"
  BY <1>3 DEF TapsKnown
<1>4. CASE RunnerStep
  <2>1. PICK r \in Runners : NotesSent(r) \/ Ran(r)
    BY <1>4 DEF RunnerStep
  <2>2. UNCHANGED tapped /\ job[r] # "idle" /\ job' = [job EXCEPT ![r] = "over"]
    BY <2>1 DEF NotesSent, Ran, Wait
  <2> QED BY <1>1, <2>2, <1>3 DEF TypeOK
<1>5. CASE ProposalStep
  BY <1>1, <1>3, <1>5 DEF ProposalStep, Propose, WorkflowGate, AuditRaises, Wait, TypeOK
<1>6. CASE AuditStep
  <2>1. PICK a \in Actions : AuditEnds(a)
    BY <1>6, AuditOutcome DEF AuditStep
  <2>2. UNCHANGED tapped /\ \E w : job' = [job EXCEPT ![a] = w]
    BY <2>1 DEF AuditEnds, Execute, Wait
  <2> QED BY <1>1, <1>3, <2>2 DEF TypeOK
<1>7. CASE RestoreStep \/ Restart
  BY <1>1, <1>3, <1>7 DEF RestoreStep, Restore, RestoreFails, Restart
<1>8. CASE WriteStep \/ PmStep \/ QuestionStep \/ UNCHANGED vars
  BY <1>3, <1>8
     DEF WriteStep, FilesWritten, PmStep, PmCheckpoint, PmUndo, QuestionStep, Ask,
         Hear, TapOption, GiveUp, vars, actionVars
<1> QED BY <1>2, <1>4, <1>5, <1>6, <1>7, <1>8, Steps

(* TypeOK: the state of actions, taps, workspace and questions keeps its   *)
(* types, the rows never name a snapshot that is not there, and there are  *)
(* never more snapshots than MaxRefs.                                      *)
THEOREM TypeCorrect == Spec => [](TypeOK /\ TapsKnown)
<1>1. Init => TapsKnown
  BY DEF Init, TapsKnown, Runners
<1> QED BY <1>1, InitTypes, StepTypes, StepTaps, PTL DEF Spec

-----------------------------------------------------------------------------
(* Snapshots.                                                              *)

(* Nothing but a snapshot touches the shadow refs.                         *)
LEMMA OnlySnapshots ==
  ASSUME [Next]_vars
  PROVE  UNCHANGED refs \/ Snapshot
<1> USE DEF gitVars
<1>1. CASE AuditStep
  BY <1>1, AuditOutcome DEF AuditStep, AuditEnds, Execute, Checkpoint
<1>2. CASE TapStep
  BY <1>2 DEF TapStep, TapApprove, TapRevise, TapNothing, TapUndo, BeginUndo,
              Execute, Checkpoint
<1>3. CASE PmStep
  BY <1>3 DEF PmStep, PmCheckpoint, PmUndo, BeginUndo
<1>4. CASE ProposalStep \/ RunnerStep \/ RestoreStep
  BY <1>4 DEF ProposalStep, Propose, WorkflowGate, AuditRaises, RunnerStep,
              NotesSent, Ran, RestoreStep, Restore, RestoreFails
<1>5. CASE WriteStep \/ QuestionStep \/ Restart \/ UNCHANGED vars
  BY <1>5 DEF WriteStep, FilesWritten, QuestionStep, Ask, Hear, TapOption, GiveUp,
              Restart, vars
<1> QED BY <1>1, <1>2, <1>3, <1>4, <1>5, Steps

(* SnapshotsStay: whatever cards, undos and the PM's tools do in which     *)
(* order, a snapshot that was taken is there for ever, as it was.          *)
THEOREM SnapshotsAreKept == Spec => SnapshotsStay
<1>1. ASSUME TypeOK, [Next]_vars
      PROVE  \A n \in DOMAIN refs : n \in DOMAIN refs' /\ refs'[n] = refs[n]
  <2>1. CASE UNCHANGED refs
    BY <2>1
  <2>2. CASE Snapshot
    <3>1. refs \in Seq(Trees) /\ worktree \in Trees
      BY <1>1 DEF TypeOK
    <3>2. refs' = Append(refs, worktree)
      BY <1>1, <2>2, SnapshotAppends
    <3>3. /\ DOMAIN refs' = 1..(Len(refs) + 1) /\ DOMAIN refs = 1..Len(refs)
          /\ Len(refs) \in Nat /\ \A n \in 1..Len(refs) : refs'[n] = refs[n]
      BY <3>1, <3>2
    <3> QED BY <3>3
  <2> QED BY <1>1, <2>1, <2>2, OnlySnapshots
<1>2. TypeOK /\ TapsKnown /\ [Next]_vars =>
        [\A n \in DOMAIN refs : n \in DOMAIN refs' /\ refs'[n] = refs[n]]_vars
  BY <1>1
<1> QED BY <1>2, TypeCorrect, PTL DEF Spec, SnapshotsStay

-----------------------------------------------------------------------------
(* Nothing runs unasked.  An action has a card only once it was audited, a *)
(* tap only reaches an action with a card, and what is still to be sent    *)
(* back has neither run nor a card.                                        *)

Unasked == {"none", "proposed", "rejected", "revising"}

ActionInv(a) ==
  /\ status[a] \in Unasked => ~card[a] /\ runs[a] = 0
  /\ job[a] = "audit" => status[a] = "proposed"
  /\ job[a] = "notes" => status[a] = "audited" /\ ~card[a] /\ runs[a] = 0
  /\ job[a] = "run" => status[a] \notin Unasked
  /\ runs[a] > 0 /\ mustAsk[a] => approved[a]

TapInv(t) == job[t] # "idle" => card[tapped[t]]

AskInv == (\A a \in Actions : ActionInv(a)) /\ (\A t \in Taps : TapInv(t))

askVars == <<status, card, runs, mustAsk, approved, job, tapped>>

(* An action nobody was asked about has no tap.                            *)
LEMMA NoTapWithoutCard ==
  ASSUME TypeOK, TapsKnown, AskInv, NEW r \in Runners, job[r] # "idle"
  PROVE  r \in Taps => card[ActionOf(r)] /\ status[ActionOf(r)] \notin Unasked
BY DEF AskInv, ActionInv, TapInv, TapsKnown, ActionOf

LEMMA ProposalAsk ==
  ASSUME TypeOK, TapsKnown, AskInv, ProposalStep PROVE AskInv'
<1>1. PICK a \in Actions : Propose(a) \/ WorkflowGate(a) \/ AuditRaises(a)
  BY DEF ProposalStep
<1>2. a \in Runners /\ \A t \in Taps : t \in Runners /\ t # a
  BY DisjointAssumption DEF Runners
<1>3. \A b \in Actions : b \in Runners
  BY DEF Runners
<1>4. \A t \in Taps : TapInv(t)'
  BY <1>1, <1>2 DEF Propose, WorkflowGate, AuditRaises, Wait, TypeOK, AskInv, TapInv,
                    TapsKnown
<1>5. \A b \in Actions : ActionInv(b)'
  <2>1. CASE Propose(a)
    BY <2>1, <1>2, <1>3 DEF Propose, Wait, SetStatus, TypeOK, AskInv, ActionInv, Unasked,
                            historyVars
  <2>2. CASE WorkflowGate(a)
    BY <2>2, <1>2, <1>3 DEF WorkflowGate, Wait, SetStatus, TypeOK, AskInv, ActionInv,
                            Unasked, historyVars
  <2>3. CASE AuditRaises(a)
    BY <2>3, <1>2, <1>3 DEF AuditRaises, Wait, TypeOK, AskInv, ActionInv, Unasked,
                            historyVars
  <2> QED BY <1>1, <2>1, <2>2, <2>3
<1> QED BY <1>4, <1>5 DEF AskInv

LEMMA AuditAsk ==
  ASSUME TypeOK, TapsKnown, AskInv, AuditStep PROVE AskInv'
<1>1. PICK a \in Actions : AuditEnds(a)
  BY AuditOutcome DEF AuditStep
<1>2. a \in Runners /\ \A t \in Taps : t \in Runners /\ t # a
  BY DisjointAssumption DEF Runners
<1>3. \A b \in Actions : b \in Runners
  BY DEF Runners
<1>4. status[a] = "proposed" /\ ~card[a] /\ runs[a] = 0
  BY <1>1 DEF AuditEnds, AskInv, ActionInv, Unasked
<1>5. \A t \in Taps : TapInv(t)'
  BY <1>1, <1>2 DEF AuditEnds, Execute, Wait, TypeOK, AskInv, TapInv, TapsKnown
<1>6. ASSUME NEW b \in Actions, b # a PROVE ActionInv(b)'
  BY <1>1, <1>2, <1>3, <1>6
     DEF AuditEnds, Execute, Wait, SetStatus, TypeOK, AskInv, ActionInv
<1>7. ActionInv(a)'
  BY <1>1, <1>2, <1>4
     DEF AuditEnds, Execute, Wait, SetStatus, TypeOK, ActionInv, Unasked
<1> QED BY <1>5, <1>6, <1>7 DEF AskInv

LEMMA TapAsk ==
  ASSUME TypeOK, TapsKnown, AskInv, TapStep PROVE AskInv'
<1>1. PICK a \in Actions, t \in Taps :
         TapApprove(t, a) \/ TapRevise(t, a) \/ TapNothing(t, a) \/ TapUndo(t, a)
  BY DEF TapStep
<1>2. t \in Runners /\ \A b \in Actions : b \in Runners /\ t # b
  BY DisjointAssumption DEF Runners
<1>3. /\ job' \in {[job EXCEPT ![t] = w] : w \in {"run", "notes", "over", "undo"}}
      /\ tapped' = [tapped EXCEPT ![t] = a] /\ card[a]
      /\ UNCHANGED <<status, card, mustAsk>>
      /\ \/ UNCHANGED <<runs, approved>>
         \/ /\ runs' = [runs EXCEPT ![a] = @ + 1]
            /\ approved' = [approved EXCEPT ![a] = TRUE]
  BY <1>1 DEF TapApprove, TapRevise, TapNothing, TapUndo, Tap, Execute, Wait
<1>4. \A u \in Taps : TapInv(u)'
  BY <1>2, <1>3 DEF TypeOK, AskInv, TapInv, TapsKnown, Runners
<1>5. \A b \in Actions : ActionInv(b)'
  BY <1>2, <1>3 DEF TypeOK, AskInv, ActionInv, Unasked
<1> QED BY <1>4, <1>5 DEF AskInv

LEMMA RunnerAsk ==
  ASSUME TypeOK, TapsKnown, AskInv, RunnerStep PROVE AskInv'
<1>1. PICK r \in Runners : NotesSent(r) \/ Ran(r)
  BY DEF RunnerStep
<1>2. /\ job' = [job EXCEPT ![r] = "over"] /\ job[r] # "idle"
      /\ UNCHANGED <<card, runs, mustAsk, approved, tapped>>
  BY <1>1 DEF NotesSent, Ran, Wait, historyVars
<1>3. \A t \in Taps : TapInv(t)'
  BY <1>2 DEF TypeOK, AskInv, TapInv, Runners
<1>4. \A b \in Actions : b \in Runners
  BY DEF Runners
<1>5. CASE NotesSent(r)
  <2>1. \A b \in Actions : ActionInv(b)'
    BY <1>2, <1>4, <1>5
       DEF NotesSent, SetStatus, TypeOK, AskInv, ActionInv, Unasked
  <2> QED BY <2>1, <1>3 DEF AskInv
<1>6. CASE Ran(r)
  <2>1. ActionOf(r) \in Actions /\ status[ActionOf(r)] \notin Unasked
    <3>1. CASE r \in Taps
      BY <3>1, <1>2, RunnersAction, NoTapWithoutCard
    <3>2. CASE r \in Actions /\ r \notin Taps
      BY <3>2, <1>6 DEF Ran, ActionOf, AskInv, ActionInv
    <3> QED BY <3>1, <3>2 DEF Runners
  <2>2. \E s \in {"executed", "audited"} : SetStatus(ActionOf(r), s)
    BY <1>6 DEF Ran
  <2>3. job[ActionOf(r)] # "audit"
    BY <2>1 DEF AskInv, ActionInv, Unasked
  <2>4. job[ActionOf(r)] # "notes" \/ r = ActionOf(r)
    <3>1. CASE r \in Taps
      BY <3>1, <2>1, <1>2, NoTapWithoutCard DEF AskInv, ActionInv
    <3> QED BY <3>1 DEF ActionOf
  <2>5. \A b \in Actions : ActionInv(b)'
    BY <1>2, <1>4, <2>1, <2>2, <2>3, <2>4
       DEF SetStatus, TypeOK, AskInv, ActionInv, Unasked
  <2> QED BY <2>5, <1>3 DEF AskInv
<1> QED BY <1>1, <1>5, <1>6

LEMMA OtherAsk ==
  ASSUME TypeOK, TapsKnown, AskInv,
         RestoreStep \/ PmStep \/ WriteStep \/ QuestionStep \/ Restart \/ UNCHANGED vars
  PROVE  AskInv'
<1>1. (\A b \in Actions : b \in Runners) /\ (\A t \in Taps : t \in Runners)
  BY DEF Runners
<1>2. CASE Restart
  BY <1>1, <1>2 DEF Restart, AskInv, ActionInv, TapInv, historyVars
<1>3. CASE RestoreFails
  BY <1>1, <1>3 DEF RestoreFails, AskInv, ActionInv, TapInv, historyVars
<1>4. CASE Restore
  <2>1. \A t \in Taps : TapInv(t)'
    BY <1>1, <1>4 DEF Restore, AskInv, TapInv
  <2>2. ASSUME NEW a \in Actions PROVE ActionInv(a)'
    <3>1. CASE \E t \in Taps : job[t] = "undo" /\ tapped[t] = a
      <4>1. status[a] \notin Unasked /\ card[a]
        BY <3>1 DEF AskInv, ActionInv, TapInv
      <4>2. status'[a] = "undone"
        BY <3>1, <1>4 DEF Restore
      <4> QED BY <1>1, <1>4, <4>1, <4>2
              DEF Restore, AskInv, ActionInv, historyVars, Unasked
    <3>2. CASE ~ \E t \in Taps : job[t] = "undo" /\ tapped[t] = a
      <4>1. status'[a] = status[a]
        BY <3>2, <1>4 DEF Restore
      <4> QED BY <1>1, <1>4, <4>1 DEF Restore, AskInv, ActionInv, historyVars
    <3> QED BY <3>1, <3>2
  <2> QED BY <2>1, <2>2 DEF AskInv
<1>5. CASE PmStep \/ WriteStep \/ QuestionStep \/ UNCHANGED vars
  <2>1. UNCHANGED askVars
    BY <1>5 DEF PmStep, PmCheckpoint, PmUndo, WriteStep, FilesWritten, QuestionStep, Ask,
                Hear, TapOption, GiveUp, vars, actionVars, historyVars, askVars
  <2> QED BY <2>1 DEF AskInv, ActionInv, TapInv, askVars
<1> QED BY <1>2, <1>3, <1>4, <1>5 DEF RestoreStep

LEMMA StepAsk == TypeOK /\ TapsKnown /\ AskInv /\ [Next]_vars => AskInv'
BY ProposalAsk, AuditAsk, TapAsk, RunnerAsk, OtherAsk, Steps

(* NothingRunsUnasked: what the auditor, the gate, the operator's hint or  *)
(* the dial objects to runs only after somebody tapped approve; what was   *)
(* rejected or sent back never does.                                       *)
THEOREM RedLine == Spec => []NothingRunsUnasked
<1>1. Init => AskInv
  BY DEF Init, AskInv, ActionInv, TapInv, Runners, Unasked
<1>2. TypeOK /\ AskInv => NothingRunsUnasked
  BY DEF TypeOK, AskInv, ActionInv, NothingRunsUnasked, Unasked
<1> QED BY <1>1, <1>2, StepAsk, TypeCorrect, PTL DEF Spec

-----------------------------------------------------------------------------
(* Questions.  While the PM waits, its future holds the first option       *)
(* tapped, and the card shows an option exactly if the future does.        *)

AQuestion(q) ==
  /\ waiting[q] = "none" => chosen[q] = None /\ fut[q] = None /\ first[q] = None
  /\ waiting[q] = "open" => /\ fut[q] = first[q] /\ chosen[q] \notin Closings
                            /\ chosen[q] = None <=> fut[q] = None
  /\ waiting[q] = "answered" => fut[q] # None /\ fut[q] = first[q]
  /\ chosen[q] = None => waiting[q] \in {"none", "open", "lost"}
  /\ chosen[q] \in Closings => waiting[q] = chosen[q]

QuestionInv == \A q \in Questions : AQuestion(q)

LEMMA StepQuestions == TypeOK /\ QuestionInv /\ [Next]_vars => QuestionInv'
<1> SUFFICES ASSUME TypeOK, QuestionInv, [Next]_vars, NEW p \in Questions
             PROVE  AQuestion(p)'
  BY DEF QuestionInv
<1>1. CASE QuestionStep
  <2>1. PICK q \in Questions : \/ Ask(q) \/ Hear(q)
                               \/ \E o \in Options : TapOption(q, o)
                               \/ \E reason \in Closings : GiveUp(q, reason)
    BY <1>1 DEF QuestionStep
  <2>2. AQuestion(p)
    BY DEF QuestionInv
  <2>3. CASE q # p
    BY <2>1, <2>2, <2>3
       DEF Ask, Hear, TapOption, Answer, GiveUp, CloseUnanswered, TypeOK, AQuestion
  <2>4. CASE Ask(p) \/ Hear(p)
    BY <2>2, <2>4, NoneAssumption DEF Ask, Hear, TypeOK, AQuestion, Closings
  <2>5. ASSUME NEW o \in Options, TapOption(p, o) PROVE AQuestion(p)'
    <3>1. o # None /\ o \notin Closings
      BY NoneAssumption, OptionsAssumption DEF Closings
    <3> QED BY <2>2, <2>5, <3>1 DEF TapOption, Answer, TypeOK, AQuestion
  <2>6. ASSUME NEW reason \in Closings, GiveUp(p, reason) PROVE AQuestion(p)'
    <3>1. reason \notin {"none", "open", "answered"} /\ reason # None
      BY NoneAssumption DEF Closings
    <3> QED BY <2>2, <2>6, <3>1 DEF GiveUp, CloseUnanswered, TypeOK, AQuestion
  <2> QED BY <2>1, <2>3, <2>4, <2>5, <2>6
<1>2. CASE Restart
  BY <1>2 DEF Restart, QuestionInv, AQuestion, TypeOK, Closings
<1>3. CASE UNCHANGED questionVars
  BY <1>3 DEF questionVars, QuestionInv, AQuestion
<1>4. CASE \/ ProposalStep \/ TapStep \/ RunnerStep \/ RestoreStep \/ PmStep \/ WriteStep
           \/ UNCHANGED vars
  <2>1. UNCHANGED questionVars
    BY <1>4 DEF ProposalStep, Propose, WorkflowGate, AuditRaises, TapStep, TapApprove,
      TapRevise, TapNothing, TapUndo, Tap, RunnerStep, NotesSent, Ran, RestoreStep,
      Restore, RestoreFails, PmStep, PmCheckpoint, PmUndo, WriteStep, FilesWritten, vars,
      questionVars
  <2> QED BY <2>1, <1>3
<1>5. CASE AuditStep
  BY <1>3, <1>5, AuditOutcome DEF AuditStep, AuditEnds
<1> QED BY <1>1, <1>2, <1>4, <1>5, Steps

LEMMA QuestionsInvariant == Spec => []QuestionInv
<1>1. Init => QuestionInv
  BY NoneAssumption DEF Init, QuestionInv, AQuestion, Closings
<1> QED BY <1>1, StepQuestions, TypeCorrect, PTL DEF Spec

(* FirstTapIsHeard: a PM that goes on with an answer has the first option  *)
(* that was tapped, however often the card was tapped since.               *)
THEOREM FirstTapHeard == Spec => []FirstTapIsHeard
<1>1. QuestionInv => FirstTapIsHeard
  BY DEF QuestionInv, AQuestion, FirstTapIsHeard
<1> QED BY <1>1, QuestionsInvariant, PTL

(* OpenCardHasAWaiter: the card of a question that was answered, given up  *)
(* or timed out never looks open, nor an open one closed.                  *)
THEOREM OpenCardsAwaited == Spec => []OpenCardHasAWaiter
<1>1. QuestionInv => OpenCardHasAWaiter
  BY DEF QuestionInv, AQuestion, OpenCardHasAWaiter
<1> QED BY <1>1, QuestionsInvariant, PTL

(* ClosedStaysClosed: no tap reaches a question that was given up.         *)
THEOREM ClosedForGood == Spec => ClosedStaysClosed
<1>1. ASSUME TypeOK, QuestionInv, [Next]_vars, NEW p \in Questions,
             chosen[p] \in Closings
      PROVE  chosen'[p] = chosen[p]
  <2>1. chosen[p] # None
    BY <1>1, NoneAssumption DEF Closings
  <2>2. CASE QuestionStep
    BY <1>1, <2>1, <2>2
       DEF QuestionStep, Ask, Hear, TapOption, Answer, GiveUp, CloseUnanswered, TypeOK
  <2>3. CASE UNCHANGED chosen
    BY <2>3
  <2>4. CASE \/ ProposalStep \/ TapStep \/ RunnerStep \/ RestoreStep \/ PmStep \/ WriteStep
             \/ Restart \/ UNCHANGED vars
    <3>1. UNCHANGED chosen
      BY <2>4 DEF ProposalStep, Propose, WorkflowGate, AuditRaises, TapStep, TapApprove,
        TapRevise, TapNothing, TapUndo, Tap, RunnerStep, NotesSent, Ran, RestoreStep,
        Restore, RestoreFails, PmStep, PmCheckpoint, PmUndo, WriteStep, FilesWritten,
        Restart, vars, questionVars
    <3> QED BY <3>1
  <2>5. CASE AuditStep
    BY <2>5, AuditOutcome DEF AuditStep, AuditEnds, questionVars
  <2> QED BY <1>1, <2>2, <2>4, <2>5, Steps
<1>2. TypeOK /\ QuestionInv /\ [Next]_vars =>
        [\A q \in Questions : chosen[q] \in Closings => chosen'[q] = chosen[q]]_vars
  BY <1>1
<1> QED BY <1>2, TypeCorrect, QuestionsInvariant, PTL DEF Spec, ClosedStaysClosed

-----------------------------------------------------------------------------
(* The workspace and its snapshots implement Timeline, if nobody writes    *)
(* files while an undo is under way: what the undo is about to replace is  *)
(* still what it kept, as no command runs and no other undo begins.        *)

UndoInv ==
  restoring # None =>
    /\ worktree \in Kept
    /\ \A r \in Runners : job[r] = "run" => kind[ActionOf(r)] = "agent_instruction"

(* A snapshot is a step of Timeline.                                       *)
LEMMA SnapshotKeeps ==
  ASSUME TypeOK, Snapshot
  PROVE  Kept' = Kept \cup {worktree}
<1>1. refs \in Seq(Trees) /\ worktree \in Trees
  BY DEF TypeOK
<1>2. refs' = Append(refs, worktree)
  BY SnapshotAppends
<1>3. /\ DOMAIN refs' = 1..(Len(refs) + 1) /\ DOMAIN refs = 1..Len(refs)
      /\ Len(refs) \in Nat /\ \A n \in 1..Len(refs) : refs'[n] = refs[n]
      /\ refs'[Len(refs) + 1] = worktree
  BY <1>1, <1>2
<1>4. \A n \in 1..(Len(refs) + 1) : n \in 1..Len(refs) \/ n = Len(refs) + 1
  BY <1>3
<1>5. 1..Len(refs) \subseteq 1..(Len(refs) + 1) /\ Len(refs) + 1 \in 1..(Len(refs) + 1)
  BY <1>3
<1> QED BY <1>3, <1>4, <1>5 DEF Kept

(* The steps that change neither the files nor what is kept, those that    *)
(* keep, those that write and those that go back.                          *)
LEMMA StepMaps ==
  ASSUME TypeOK, TapsKnown, UndoInv, QuietUndo, [Next]_vars
  PROVE  [Promise!Next]_(Promise!vars)
<1>1. CASE UNCHANGED <<worktree, refs>>
  BY <1>1 DEF Promise!vars, Kept
<1>2. CASE Snapshot /\ UNCHANGED worktree
  BY <1>2, SnapshotKeeps DEF Promise!Next, Promise!Keep
<1>3. ASSUME UNCHANGED refs, worktree \subseteq worktree', worktree' \in Trees
      PROVE  Promise!Next
  <2>1. Kept' = Kept
    BY <1>3 DEF Kept
  <2> QED BY <1>3, <2>1 DEF Promise!Next, Promise!Write, Trees
<1>4. ASSUME UNCHANGED refs, restoring # None, worktree' \in Trees
      PROVE  Promise!Next
  <2>1. Kept' = Kept
    BY <1>4 DEF Kept
  <2> QED BY <1>4, <2>1 DEF Promise!Next, Promise!GoBack, UndoInv, Trees
<1>5. TypeOK'
  BY StepTypes
<1>6. worktree' \in Trees
  BY <1>5 DEF TypeOK
<1>7. CASE ProposalStep \/ QuestionStep \/ UNCHANGED vars
  <2>1. UNCHANGED <<worktree, refs>>
    BY <1>7 DEF ProposalStep, Propose, WorkflowGate, AuditRaises, QuestionStep, Ask, Hear,
                TapOption, GiveUp, vars, gitVars
  <2> QED BY <2>1, <1>1
<1>8. CASE AuditStep \/ TapStep \/ PmStep
  <2>1. UNCHANGED worktree
    BY <1>8, AuditOutcome DEF AuditStep, AuditEnds, TapStep, TapApprove, TapRevise,
       TapNothing, TapUndo, Tap, PmStep, PmCheckpoint, PmUndo
  <2> QED BY <2>1, <1>1, <1>2, OnlySnapshots
<1>9. CASE RunnerStep \/ WriteStep
  <2>1. UNCHANGED refs /\ worktree \subseteq worktree'
    BY <1>9 DEF RunnerStep, NotesSent, Ran, WriteStep, FilesWritten, gitVars
  <2> QED BY <2>1, <1>3, <1>6
<1>10. CASE RestoreStep
  <2>1. UNCHANGED refs /\ restoring # None
    BY <1>10 DEF RestoreStep, Restore, RestoreFails, gitVars
  <2> QED BY <2>1, <1>4, <1>6
<1>11. CASE Restart
  <2>1. UNCHANGED refs /\ (restoring # None \/ worktree \subseteq worktree')
    BY <1>11 DEF Restart, gitVars
  <2> QED BY <2>1, <1>3, <1>4, <1>6
<1> QED BY <1>7, <1>8, <1>9, <1>10, <1>11, Steps

(* While an undo is under way nothing else happens to the workspace.       *)
LEMMA StepUndo ==
  ASSUME TypeOK, TapsKnown, UndoInv, QuietUndo, [Next]_vars
  PROVE  UndoInv'
<1>1. CASE restoring' = None
  BY <1>1 DEF UndoInv
<1>2. CASE UNCHANGED <<worktree, refs, restoring, kind, job, tapped>>
  BY <1>2 DEF UndoInv, Kept, ActionOf
<1>3. ASSUME ~Blocked, UNCHANGED restoring PROVE UndoInv'
  BY <1>3 DEF Blocked, UndoInv
<1>4. CASE ProposalStep
  BY <1>4, <1>3 DEF ProposalStep, Propose, WorkflowGate, AuditRaises
<1>5. CASE AuditStep
  BY <1>5, <1>3, AuditOutcome DEF AuditStep, AuditEnds
<1>6. CASE RestoreStep \/ Restart
  BY <1>6, <1>1 DEF RestoreStep, Restore, RestoreFails, Restart
<1>7. CASE QuestionStep \/ UNCHANGED vars
  BY <1>7, <1>2 DEF QuestionStep, Ask, Hear, TapOption, GiveUp, vars, actionVars, gitVars
<1>8. CASE WriteStep
  BY <1>8, <1>1 DEF WriteStep, FilesWritten
<1>9. CASE RunnerStep
  <2>1. PICK r \in Runners : NotesSent(r) \/ Ran(r)
    BY <1>9 DEF RunnerStep
  <2>2. CASE NotesSent(r) \/ ~Blocked
    BY <2>1, <2>2, <1>3 DEF NotesSent, Ran
  <2>3. CASE Ran(r) /\ Blocked
    <3>1. job[r] = "run" /\ kind[ActionOf(r)] # "agent_instruction" /\ UNCHANGED restoring
      BY <2>3 DEF Ran
    <3>2. restoring' = None
      BY <3>1 DEF UndoInv
    <3> QED BY <3>2, <1>1
  <2> QED BY <2>1, <2>2, <2>3
<1>10. CASE TapStep
  <2>1. PICK a \in Actions, t \in Taps :
           TapApprove(t, a) \/ TapRevise(t, a) \/ TapNothing(t, a) \/ TapUndo(t, a)
    BY <1>10 DEF TapStep
  <2>2. CASE UNCHANGED restoring
    BY <2>1, <2>2, <1>3 DEF TapApprove, TapRevise, TapNothing, TapUndo, Tap
  <2>3. CASE TapUndo(t, a)
    <3>1. ~Blocked /\ Snapshot
          /\ UNCHANGED <<worktree, kind>> /\ tapped' = [tapped EXCEPT ![t] = a]
          /\ job' = [job EXCEPT ![t] = "undo"] /\ job[t] = "idle"
      BY <2>3 DEF TapUndo, Tap, BeginUndo, Wait
    <3>2. worktree' \in Kept'
      BY <3>1, SnapshotKeeps
    <3>3. ASSUME NEW r \in Runners, job'[r] = "run"
          PROVE  kind'[ActionOf(r)'] = "agent_instruction"
      <4>1. r # t /\ job[r] = "run"
        BY <3>1, <3>3 DEF TypeOK
      <4>2. ActionOf(r)' = ActionOf(r)
        BY <4>1, <3>1 DEF ActionOf, TypeOK
      <4> QED BY <4>1, <4>2, <3>1 DEF Blocked
    <3> QED BY <3>2, <3>3 DEF UndoInv
  <2> QED BY <2>1, <2>2, <2>3 DEF TapApprove, TapRevise, TapNothing
<1>11. CASE PmStep
  <2>1. CASE PmCheckpoint
    BY <2>1, <1>3 DEF PmCheckpoint
  <2>2. ASSUME NEW n \in 1..MaxRefs, PmUndo(n) PROVE UndoInv'
    <3>1. ~Blocked /\ Snapshot /\ UNCHANGED <<worktree, kind, tapped, job>>
      BY <2>2 DEF PmUndo, BeginUndo, actionVars
    <3>2. worktree' \in Kept'
      BY <3>1, SnapshotKeeps
    <3> QED BY <3>1, <3>2 DEF UndoInv, Blocked, ActionOf
  <2> QED BY <1>11, <2>1, <2>2 DEF PmStep
<1> QED BY <1>4, <1>5, <1>6, <1>7, <1>8, <1>9, <1>10, <1>11, Steps

(* KeepsTimeline: provided nobody writes files while an undo is under way, *)
(* nothing leaves the workspace that is not in a snapshot: not by an undo, *)
(* nor by one that fails or is cut short by a restart.                     *)
THEOREM NothingIsLost == ASSUME QuietUndo PROVE Spec => KeepsTimeline
<1>1. Init => Promise!Init /\ UndoInv
  BY DEF Init, Promise!Init, Kept, UndoInv
<1>2. TypeOK /\ TapsKnown /\ UndoInv /\ [Next]_vars => UndoInv'
  BY StepUndo
<1>3. TypeOK /\ TapsKnown /\ UndoInv /\ [Next]_vars => [Promise!Next]_(Promise!vars)
  BY StepMaps
<1> QED BY <1>1, <1>2, <1>3, TypeCorrect, PTL DEF Spec, KeepsTimeline, Promise!Spec

-----------------------------------------------------------------------------
(* The checkpoint goes before the run.  The change of an action that has   *)
(* not begun to run is nowhere: not in the workspace, in no snapshot, not  *)
(* among what agents were told; so its first checkpoint is without it.     *)

Untouched(a) ==
  /\ a \notin worktree /\ a \notin told
  /\ \A w \in Kept : a \notin w
  /\ \A b \in Actions : anchor[b] # None => a \notin anchor[b]
  /\ restoring # None => a \notin restoring

RunInv ==
  /\ \A a \in Actions : runs[a] = 0 => Untouched(a)
  /\ CheckpointPrecedesRun
  /\ \A r \in Runners : job[r] = "run" => runs[ActionOf(r)] # 0

(* Whoever executes an action: what is untouched stays so but for it.      *)
LEMMA ExecuteRun ==
  ASSUME TypeOK, TapsKnown, RunInv, NEW a \in Actions, NEW r \in Runners, Execute(r, a),
         UNCHANGED <<worktree, told, restoring>>, ActionOf(r)' = a,
         \A q \in Runners : q # r => ActionOf(q)' = ActionOf(q) \/ job[q] # "run"
  PROVE  RunInv'
<1>1. runs' = [runs EXCEPT ![a] = @ + 1] /\ runs \in [Actions -> Nat]
  BY DEF Execute, TypeOK
<1>2. \/ Kept' = Kept \cup {worktree} /\ anchor' = [anchor EXCEPT ![a] = worktree]
      \/ Kept' = Kept /\ anchor' = anchor
  BY SnapshotKeeps DEF Execute, Checkpoint, gitVars, Kept
<1>3. ASSUME NEW b \in Actions, runs'[b] = 0 PROVE Untouched(b)'
  <2>1. Untouched(b)
    BY <1>1, <1>3 DEF RunInv
  <2> QED BY <1>2, <2>1 DEF Untouched, TypeOK
<1>4. ASSUME NEW b \in Actions, runs'[b] <= 1, anchor'[b] # None
      PROVE  b \notin anchor'[b]
  <2>1. CASE b = a
    <3>1. Untouched(a)
      BY <1>1, <1>4, <2>1 DEF RunInv
    <3> QED BY <1>2, <1>4, <2>1, <3>1 DEF Untouched, TypeOK
  <2>2. CASE b # a
    <3>1. runs[b] <= 1 /\ anchor'[b] = anchor[b]
      BY <1>1, <1>2, <1>4, <2>2 DEF TypeOK
    <3> QED BY <1>4, <3>1 DEF RunInv, CheckpointPrecedesRun
  <2> QED BY <2>1, <2>2
<1>5. ASSUME NEW q \in Runners, job'[q] = "run" PROVE runs'[ActionOf(q)'] # 0
  <2>1. CASE q = r
    BY <1>1, <2>1
  <2>2. CASE q # r
    <3>1. job[q] = "run"
      BY <1>5, <2>2 DEF Execute, Wait, TypeOK
    <3>2. ActionOf(q) \in Actions /\ runs[ActionOf(q)] # 0 /\ ActionOf(q)' = ActionOf(q)
      BY <2>2, <3>1, RunnersAction DEF RunInv
    <3> QED BY <1>1, <3>2
  <2> QED BY <2>1, <2>2
<1> QED BY <1>3, <1>4, <1>5 DEF RunInv, CheckpointPrecedesRun

(* A step that adds at most changes of actions that ran, and instructs or  *)
(* restores or keeps at most what is there.                                *)
QuietStep ==
  /\ runs' = runs /\ anchor' = anchor
  /\ \A a \in Actions : a \in worktree' =>
       \/ a \in worktree \/ runs[a] # 0
       \/ restoring # None /\ a \in restoring
  /\ \A a \in Actions : a \in told' => a \in told \/ runs[a] # 0
  /\ Kept' = Kept \/ Kept' = Kept \cup {worktree}
  /\ \/ restoring' \in {None, restoring} \cup Kept
     \/ \E a \in Actions : anchor[a] # None /\ restoring' = anchor[a]
  /\ \A r \in Runners : job'[r] = "run" => job[r] = "run" /\ ActionOf(r)' = ActionOf(r)

LEMMA QuietRun ==
  ASSUME RunInv, QuietStep PROVE RunInv'
<1>1. ASSUME NEW a \in Actions, runs'[a] = 0 PROVE Untouched(a)'
  <2>1. Untouched(a) /\ runs[a] = 0
    BY <1>1 DEF RunInv, QuietStep
  <2>2. a \notin worktree' /\ a \notin told'
    BY <2>1 DEF Untouched, QuietStep
  <2>3. \A w \in Kept' : a \notin w
    BY <2>1 DEF Untouched, QuietStep
  <2>4. restoring' # None => a \notin restoring'
    BY <2>1 DEF Untouched, QuietStep
  <2> QED BY <2>1, <2>2, <2>3, <2>4 DEF Untouched, QuietStep
<1>2. CheckpointPrecedesRun'
  BY DEF RunInv, CheckpointPrecedesRun, QuietStep
<1>3. \A r \in Runners : job'[r] = "run" => runs'[ActionOf(r)'] # 0
  BY DEF RunInv, QuietStep
<1> QED BY <1>1, <1>2, <1>3 DEF RunInv

(* What an agent was told, or a command may have done, has begun to run.   *)
LEMMA InstructedRan ==
  ASSUME TypeOK, RunInv, NEW a \in Actions, a \in Instructed
  PROVE  runs[a] # 0
BY DEF RunInv, Instructed, Untouched

LEMMA StepRun == TypeOK /\ TapsKnown /\ RunInv /\ [Next]_vars => RunInv'
<1> SUFFICES ASSUME TypeOK, TapsKnown, RunInv, [Next]_vars PROVE RunInv'
  OBVIOUS
<1>1. Kept' = Kept \/ Kept' = Kept \cup {worktree}
  BY OnlySnapshots, SnapshotKeeps DEF Kept
<1>2. \A a \in Actions, t \in Taps : a # t /\ a \in Runners /\ t \in Runners
  BY DisjointAssumption DEF Runners
<1>3. CASE AuditStep
  <2>1. PICK a \in Actions : AuditEnds(a)
    BY <1>3, AuditOutcome DEF AuditStep
  <2>2. a \in Runners /\ a \notin Taps
    BY DisjointAssumption DEF Runners
  <2>3. \A r \in Runners : ActionOf(r)' = ActionOf(r)
    BY <2>1 DEF AuditEnds, ActionOf
  <2>4. CASE Execute(a, a)
    BY <2>1, <2>2, <2>3, <2>4, ExecuteRun DEF AuditEnds, ActionOf
  <2>5. CASE UNCHANGED <<runs, anchor>> /\ (Wait(a, "over") \/ Wait(a, "notes"))
    <3>1. \A r \in Runners : job'[r] = "run" => job[r] = "run"
      BY <2>2, <2>5 DEF Wait, TypeOK
    <3>2. UNCHANGED <<worktree, told, restoring>>
      BY <2>1 DEF AuditEnds
    <3> QED BY <1>1, <2>3, <2>5, <3>1, <3>2, QuietRun DEF QuietStep
  <2> QED BY <2>1, <2>4, <2>5 DEF AuditEnds
<1>4. CASE TapStep
  <2>1. PICK a \in Actions, t \in Taps :
           TapApprove(t, a) \/ TapRevise(t, a) \/ TapNothing(t, a) \/ TapUndo(t, a)
    BY <1>4 DEF TapStep
  <2>2. t \in Runners /\ Tap(t, a) /\ job[t] = "idle" /\ tapped' = [tapped EXCEPT ![t] = a]
    BY <2>1 DEF TapApprove, TapRevise, TapNothing, TapUndo, Tap, Runners
  <2>3. ActionOf(t)' = a /\ \A r \in Runners : r # t => ActionOf(r)' = ActionOf(r)
    BY <2>2 DEF ActionOf, TypeOK
  <2>4. CASE TapApprove(t, a)
    BY <2>2, <2>3, <2>4, ExecuteRun DEF TapApprove, Tap
  <2>5. CASE TapRevise(t, a) \/ TapNothing(t, a) \/ TapUndo(t, a)
    <3>1. /\ UNCHANGED <<runs, anchor, worktree, told>>
          /\ \/ UNCHANGED restoring
             \/ anchor[a] # None /\ restoring' = anchor[a]
          /\ job' \in {[job EXCEPT ![t] = w] : w \in {"notes", "over", "undo"}}
      BY <2>5 DEF TapRevise, TapNothing, TapUndo, Tap, BeginUndo, Wait
    <3>2. \A r \in Runners : job'[r] = "run" => job[r] = "run" /\ r # t
      BY <2>2, <3>1 DEF TypeOK
    <3> QED BY <1>1, <2>3, <3>1, <3>2, QuietRun DEF QuietStep
  <2> QED BY <2>1, <2>4, <2>5
<1>5. CASE ProposalStep
  <2>1. /\ UNCHANGED <<runs, anchor, worktree, told, restoring, tapped>>
        /\ \E a \in Actions, w \in {"audit", "over"} : job' = [job EXCEPT ![a] = w]
    BY <1>5 DEF ProposalStep, Propose, WorkflowGate, AuditRaises, Wait, historyVars
  <2>2. \A r \in Runners : job'[r] = "run" => job[r] = "run" /\ ActionOf(r)' = ActionOf(r)
    BY <2>1 DEF TypeOK, ActionOf, Runners
  <2> QED BY <1>1, <2>1, <2>2, QuietRun DEF QuietStep
<1>6. CASE RunnerStep
  <2>1. PICK r \in Runners : NotesSent(r) \/ Ran(r)
    BY <1>6 DEF RunnerStep
  <2>2. /\ UNCHANGED <<runs, anchor, restoring, tapped>>
        /\ job' = [job EXCEPT ![r] = "over"]
    BY <2>1 DEF NotesSent, Ran, Wait, historyVars
  <2>3. \A q \in Runners : job'[q] = "run" => job[q] = "run" /\ ActionOf(q)' = ActionOf(q)
    BY <2>2 DEF TypeOK, ActionOf
  <2>4. CASE NotesSent(r)
    <3>1. UNCHANGED <<worktree, told>>
      BY <2>4 DEF NotesSent
    <3> QED BY <1>1, <2>2, <2>3, <3>1, QuietRun DEF QuietStep
  <2>5. CASE Ran(r)
    <3>1. runs[ActionOf(r)] # 0
      BY <2>5 DEF Ran, RunInv
    <3>2. worktree' \subseteq worktree \cup {ActionOf(r)} /\ told' \subseteq told \cup {ActionOf(r)}
      BY <2>5 DEF Ran
    <3> QED BY <1>1, <2>2, <2>3, <3>1, <3>2, QuietRun DEF QuietStep
  <2> QED BY <2>1, <2>4, <2>5
<1>7. CASE WriteStep
  <2>1. PICK c \in Instructed \cup Edits : worktree' = worktree \cup {c}
    BY <1>7 DEF WriteStep, FilesWritten
  <2>2. \A a \in Actions : a \in worktree' => a \in worktree \/ runs[a] # 0
    BY <2>1, InstructedRan, DisjointAssumption
  <2>3. UNCHANGED <<runs, anchor, told, restoring, job, tapped>>
    BY <1>7 DEF WriteStep, FilesWritten, actionVars, historyVars
  <2> QED BY <1>1, <2>2, <2>3, QuietRun DEF QuietStep, ActionOf
<1>8. CASE RestoreStep
  <2>1. /\ UNCHANGED <<runs, anchor, told, tapped>> /\ restoring # None /\ restoring' = None
        /\ \A r \in Runners : job'[r] = "run" => job[r] = "run"
        /\ worktree' \subseteq worktree \cup restoring
    BY <1>8 DEF RestoreStep, Restore, RestoreFails, Halfway, historyVars
  <2> QED BY <1>1, <2>1, QuietRun DEF QuietStep, ActionOf
<1>9. CASE PmStep
  <2>1. /\ UNCHANGED <<runs, anchor, told, worktree, job, tapped>>
        /\ UNCHANGED restoring \/ \E n \in rows : restoring' = refs[n]
    BY <1>9 DEF PmStep, PmCheckpoint, PmUndo, BeginUndo, actionVars, historyVars
  <2>2. \A n \in rows : refs[n] \in Kept
    BY DEF TypeOK, Kept
  <2> QED BY <1>1, <2>1, <2>2, QuietRun DEF QuietStep, ActionOf
<1>10. CASE QuestionStep \/ UNCHANGED vars
  <2>1. UNCHANGED <<runs, anchor, told, worktree, job, tapped, restoring>>
    BY <1>10 DEF QuestionStep, Ask, Hear, TapOption, GiveUp, vars, actionVars, historyVars
  <2> QED BY <1>1, <2>1, QuietRun DEF QuietStep, ActionOf
<1>11. CASE Restart
  <2>1. /\ UNCHANGED <<runs, anchor, tapped>> /\ restoring' = None /\ told' = Instructed
        /\ \A r \in Runners : job'[r] # "run"
    BY <1>11 DEF Restart, historyVars
  <2>2. ASSUME NEW a \in Actions, a \in worktree', a \notin worktree
        PROVE  runs[a] # 0 \/ (restoring # None /\ a \in restoring)
    <3>1. CASE restoring # None
      BY <1>11, <2>2, <3>1 DEF Restart, Halfway
    <3>2. CASE restoring = None
      <4>1. \E r \in Runners : job[r] = "run" /\ ActionOf(r) = a
        BY <1>11, <2>2, <3>2 DEF Restart
      <4> QED BY <4>1 DEF RunInv
    <3> QED BY <3>1, <3>2
  <2>3. \A a \in Actions : a \in told' => runs[a] # 0
    BY <2>1, InstructedRan
  <2> QED BY <1>1, <2>1, <2>2, <2>3, QuietRun DEF QuietStep
<1> QED BY <1>3, <1>4, <1>5, <1>6, <1>7, <1>8, <1>9, <1>10, <1>11, Steps

(* CheckpointPrecedesRun: the checkpoint of an action that ran once holds  *)
(* the workspace from before that run.                                     *)
THEOREM CheckpointGoesFirst == Spec => []CheckpointPrecedesRun
<1>1. Init => RunInv
  BY DEF Init, RunInv, Untouched, Kept, CheckpointPrecedesRun, Runners
<1>2. RunInv => CheckpointPrecedesRun
  BY DEF RunInv
<1> QED BY <1>1, <1>2, StepRun, TypeCorrect, PTL DEF Spec
=============================================================================
