---------------------------- MODULE WorkflowRuns -----------------------------
(***************************************************************************)
(* WorkflowEngine and WorkflowQAReviewer: runs of a workflow through its   *)
(* steps, their approval gates and reviews, driven by calls of the API,    *)
(* next to the dispatched tasks that inject into the same workspaces.      *)
(*                                                                         *)
(* A call of the engine is one step; a review waits for the model between  *)
(* reading the run and submitting its verdict.                             *)
(***************************************************************************)
EXTENDS InjectedFiles, Sequences

CONSTANTS
    Runs,
    TaskSkills,     \* the sets of skills a task may be given
    Workflows,      \* sequences of steps [qa, approval, skills]
    Reviews,        \* reviews that may be under way at once
    MaxCards,       \* gate cards of a run, a bound
    Done            \* no run

\* A workflow without steps is not started.
ASSUME WorkflowAssumption ==
    /\ TaskSkills \subseteq SUBSET Skills
    /\ \A w \in Workflows :
          /\ w \in Seq([qa : BOOLEAN, approval : BOOLEAN, skills : SUBSET Skills])
          /\ w # <<>>

VARIABLES
    steps,          \* the workflow the runs follow
    step,           \* step_index
    status,         \* step_status
    review,         \* the run and step each review is about
    cards,          \* gate cards of a run, with the step each is for
    place,          \* Session.workspace of the session of the runs
    tasks,          \* tasks at work, with the workspace each was launched in
    judged,         \* history: steps of a run a review of theirs passed
    taken           \* history: how a step of a run was passed

flowVars == <<steps, step, status, review, cards, place, tasks, judged, taken>>
workflowVars == <<flowVars, fileVars>>

Statuses == {"none", "pending", "running", "qa", "blocked", "passed", "failed"}
Open == {"pending", "running", "qa", "blocked"}
NoReview == [run |-> Done, step |-> 0]

WorkflowTypeOK ==
    /\ FilesTypeOK
    /\ steps \in Workflows
    /\ step \in [Runs -> 1 .. Len(steps)]
    /\ status \in [Runs -> Statuses]
    /\ review \in [Reviews -> [run : Runs \cup {Done}, step : 0 .. Len(steps)]]
    /\ cards \in [Runs -> Seq(1 .. Len(steps))]
    /\ place \in Places /\ tasks \subseteq Tasks \X Places
    /\ judged \subseteq Runs \X (1 .. Len(steps))
    /\ taken \in [Runs \X (1 .. Len(steps)) -> {"none", "free", "gate", "owner", "review"}]

WorkflowInit ==
    /\ FilesInit
    /\ steps \in Workflows
    /\ step = [r \in Runs |-> 1]
    /\ status = [r \in Runs |-> "none"]
    /\ review = [v \in Reviews |-> NoReview]
    /\ cards = [r \in Runs |-> <<>>]
    /\ place = "main" /\ tasks = {}
    /\ judged = {}
    /\ taken = [rs \in Runs \X (1 .. Len(steps)) |-> "none"]

-----------------------------------------------------------------------------
(* Dispatched tasks and the session's workspace.                           *)

TaskStarts(t) ==
    /\ \A p \in Places : <<t, p>> \notin tasks
    /\ t \notin forgotten
    /\ \E p \in Places : tasks' = tasks \cup {<<t, p>>}
    /\ UNCHANGED <<steps, step, status, review, cards, place, judged, taken, fileVars>>

\* Before each launch and recovery, if there is anything to inject, into the
\* workspace of the plan.
TaskInjects(t) ==
    /\ \E p \in Places : <<t, p>> \in tasks
    /\ \E agent \in Agents, skills \in TaskSkills, p \in Places :
          Inject(p, t, GuidanceFor(agent), skills)
    /\ UNCHANGED flowVars

\* The task has ended; the workspace it was launched in is cleared.
TaskEnds(t) ==
    /\ \E p \in Places :
          /\ <<t, p>> \in tasks
          /\ Clear(p, t) \/ ClearFails(t)
          /\ tasks' = tasks \ {<<t, p>>}
    /\ UNCHANGED <<steps, step, status, review, cards, place, judged, taken>>

\* The session of the runs is bound to another workspace.
Rebind ==
    /\ place' \in Places \ {place}
    /\ UNCHANGED <<steps, step, status, review, cards, tasks, judged, taken, fileVars>>

-----------------------------------------------------------------------------
(* The engine.                                                             *)

StartRun(r) ==
    /\ status[r] = "none"
    /\ status' = [status EXCEPT ![r] = "pending"]
    /\ UNCHANGED <<steps, step, review, cards, place, tasks, judged, taken, fileVars>>

\* begin_step, alone or from launch_workflow_step: also of a step that waits
\* at its gate or for its review.
BeginStep(r) ==
    /\ status[r] \in Open
    /\ status' = [status EXCEPT ![r] = "running"]
    /\ \E agent \in Agents :
          Inject(place, "default", GuidanceFor(agent), steps[step[r]].skills)
    /\ UNCHANGED <<steps, step, review, cards, place, tasks, judged, taken>>

Fail(r) ==
    /\ status' = [status EXCEPT ![r] = "failed"]
    /\ Clear(place, "default") \/ ClearFails("default")
    /\ UNCHANGED <<step, taken>>

\* The next step, or the end of the run.
Advance(r, how) ==
    /\ taken' = [taken EXCEPT ![<<r, step[r]>>] = how]
    /\ IF step[r] = Len(steps)
       THEN /\ status' = [status EXCEPT ![r] = "passed"]
            /\ Clear(place, "default") \/ ClearFails("default")
            /\ UNCHANGED step
       ELSE /\ status' = [status EXCEPT ![r] = "pending"]
            /\ step' = [step EXCEPT ![r] = @ + 1]
            /\ UNCHANGED fileVars

OpenGate(r) ==
    /\ Len(cards[r]) < MaxCards
    /\ cards' = [cards EXCEPT ![r] = Append(@, step[r])]
    /\ status' = [status EXCEPT ![r] = "blocked"]
    /\ UNCHANGED <<step, taken, fileVars>>

ParkForReview(r) ==
    /\ status' = [status EXCEPT ![r] = "qa"]
    /\ UNCHANGED <<step, taken, fileVars>>

Submit_GateOnlyOnce(r, verdict, by) ==
    LET s == steps[step[r]]
    IN  /\ status[r] \in Open \ {"blocked"}
        /\ IF s.approval /\ cards[r] = <<>> THEN OpenGate(r)
           ELSE /\ IF s.qa /\ verdict = "none" THEN ParkForReview(r)
                   ELSE IF s.qa /\ verdict = "bad" THEN Fail(r)
                   ELSE Advance(r, IF s.qa THEN by ELSE "free")
                /\ UNCHANGED cards

\* submit_step, with a verdict on the step or none: whatever the step's status
\* is, unless it waits at its gate.
Submit(r, verdict, by) ==
    LET s == steps[step[r]]
    IN  /\ status[r] \in Open \ {"blocked"}
        /\ IF s.approval THEN OpenGate(r)
           ELSE /\ IF s.qa /\ verdict = "none" THEN ParkForReview(r)
                   ELSE IF s.qa /\ verdict = "bad" THEN Fail(r)
                   ELSE Advance(r, IF s.qa THEN by ELSE "free")
                /\ UNCHANGED cards

\* The API's submit, with the owner's own verdict or without one.
OwnerSubmits(r) ==
    /\ \E verdict \in {"none", "good", "bad"} : Submit(r, verdict, "owner")
    /\ UNCHANGED <<steps, review, place, tasks, judged>>

Resume(r, approved) ==
    /\ status[r] = "blocked"
    /\ IF approved THEN Advance(r, "gate") ELSE Fail(r)
    /\ UNCHANGED <<steps, review, cards, place, tasks, judged>>

BeginReview(v, r) ==
    /\ review[v] = NoReview /\ status[r] = "qa"
    /\ review' = [review EXCEPT ![v] = [run |-> r, step |-> step[r]]]
    /\ UNCHANGED <<steps, step, status, cards, place, tasks, judged, taken, fileVars>>

\* The verdict is submitted for the step the run is at by now, or refused.
EndReview(v, verdict) ==
    LET r == review[v].run
    IN  /\ review[v] # NoReview
        /\ judged' = IF verdict = "good" THEN judged \cup {<<r, review[v].step>>} ELSE judged
        /\ \/ Submit(r, verdict, "review")
           \/ /\ status[r] \notin Open \ {"blocked"}
              /\ UNCHANGED <<step, status, cards, taken, fileVars>>
        /\ review' = [review EXCEPT ![v] = NoReview]
        /\ UNCHANGED <<steps, place, tasks>>

\* The keys of the tasks at work, and of the runs if one is under way.
AtWork ==
    {t \in Tasks : \E p \in Places : <<t, p>> \in tasks}
    \cup (IF \E r \in Runs : status[r] \in Open THEN {"default"} ELSE {})

\* The process dies: tasks and reviews are gone, runs and files stay.
EngineDies ==
    /\ tasks # {} \/ \E v \in Reviews : review[v] # NoReview
    /\ tasks' = {} /\ review' = [v \in Reviews |-> NoReview]
    /\ forgotten' = forgotten \cup (AtWork \cap Tasks)
    /\ UNCHANGED <<steps, step, status, cards, place, judged, taken,
                   blocks, native, manifest, codex, excluded, need, strayed>>

WorkflowNext ==
    \/ \E t \in Tasks : TaskStarts(t) \/ TaskInjects(t) \/ TaskEnds(t)
    \/ Rebind \/ EngineDies
    \/ \E r \in Runs : \/ StartRun(r) \/ BeginStep(r) \/ OwnerSubmits(r)
                       \/ Resume(r, TRUE) \/ Resume(r, FALSE)
    \/ \E v \in Reviews : \/ \E r \in Runs : BeginReview(v, r)
                          \/ EndReview(v, "good") \/ EndReview(v, "bad")

WorkflowSpec == WorkflowInit /\ [][WorkflowNext]_workflowVars

-----------------------------------------------------------------------------
(* Properties.                                                             *)

\* A run is past a gate only by a tap that came after a card for that gate,
\* however often the step was begun and submitted, and whichever gates and
\* reviews it met before.
GatesHold ==
    \A r \in Runs : \A i \in 1 .. Len(steps) :
        steps[i].approval /\ taken[<<r, i>>] # "none" =>
            taken[<<r, i>>] = "gate" /\ \E c \in 1 .. Len(cards[r]) : cards[r][c] = i

\* Whatever is in the workspaces is there for a task at work or a run under
\* way: whoever ends takes all of its own with it, and shared skills with the
\* last of them. Only a task the process died under, or whose clearing failed,
\* leaves something; and a key given other skills on the way or cleared where
\* it was not injected (strayed).
NothingLeftBehind == ~strayed => BelongsTo(AtWork \cup forgotten)

\* A task that is cleared leaves nothing, wherever it was injected.
ClearedIsClean == BelongsTo(AtWork \cup forgotten)

\* A step with a rubric is passed only by a review of that step.
PassedByItsReview ==
    \A r \in Runs : \A i \in 1 .. Len(steps) :
        taken[<<r, i>>] = "review" => <<r, i>> \in judged
=============================================================================
